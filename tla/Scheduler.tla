----------------------------- MODULE Scheduler ------------------------------
(***************************************************************************)
(* core/scheduler.py.  A record per registered task, a loop (an asyncio    *)
(* task) per record and start.  A loop sleeps, calls back if the scheduler *)
(* still runs and its record is still enabled, and goes round; the         *)
(* callback takes as long as it likes, and may raise.  stop cancels the    *)
(* loops its dict knows one after the other and waits for each: while it   *)
(* waits, any other call may be made.                                      *)
(*                                                                         *)
(* The dict keeps the order in which keys were inserted, and an iterator   *)
(* over it raises once keys have come or gone: entries are its slots, 0 a  *)
(* deleted one.  A dict that has no slot free for a new key is resized,    *)
(* which drops its deleted slots and leaves its iterators where they are.  *)
(* run_count and last_error, which get_status shows and nothing reads, are *)
(* left out, and with them run_once, which writes nothing else.            *)
(***************************************************************************)
EXTENDS Integers, Sequences, FiniteSets, FiniteSetsExt

CONSTANTS
  MaxNames,    \* bound: names of tasks
  MaxRecords,  \* bound: add calls
  MaxLoops,    \* bound: loops created in all
  Room,        \* the slots of the smallest dict, 5 in CPython
  Stops        \* bound: stop calls at a time

ASSUME SchedulerAssumption ==
  /\ MaxNames \in Nat \ {0}
  /\ MaxRecords \in Nat \ {0}
  /\ MaxLoops \in Nat
  /\ Room \in Nat

VARIABLES
  running,    \* _running
  entries,    \* _tasks: records by slot
  records,    \* records created so far
  nameOf,     \* per record: name
  enabled,    \* per record: enabled
  task,       \* per record: _task, 0 for None
  loops,      \* loops created so far
  owner,      \* per loop: the record it was created with
  at,         \* per loop: none, new, sleep, callback, done; quit if its callback ended it
  cancelled,  \* per loop: cancel was called before it was done
  stopping,   \* per stop call: none, waiting, returned, raised; then it may be made again
  cursor,     \* per waiting stop call: slot, keys yielded, keys at the start, awaited loop
  misused     \* history variable: a call that leaves a loop behind was made

Names   == 1..MaxNames   \* numbered in the order in which they are first added
Records == 1..MaxRecords
Loops   == 1..MaxLoops

recordVars == <<entries, records, nameOf, enabled, task>>
loopVars   == <<loops, owner, at, cancelled>>
stopVars   == <<stopping, cursor>>
schedulerVars == <<running, recordVars, loopVars, stopVars, misused>>

Idle == [slot |-> 0, yielded |-> 0, size |-> 0, loop |-> 0]

SchedulerInit ==
  /\ running = FALSE
  /\ entries = <<>>
  /\ records = 0
  /\ nameOf = [r \in Records |-> 1]
  /\ enabled = [r \in Records |-> FALSE]
  /\ task = [r \in Records |-> 0]
  /\ loops = 0
  /\ owner = [l \in Loops |-> 0]
  /\ at = [l \in Loops |-> "none"]
  /\ cancelled = [l \in Loops |-> FALSE]
  /\ stopping = [s \in Stops |-> "none"]
  /\ cursor = [s \in Stops |-> Idle]
  /\ misused = FALSE

-----------------------------------------------------------------------------
SlotsOf(n) == {i \in DOMAIN entries : entries[i] # 0 /\ nameOf[entries[i]] = n}
SlotOf(n)  == CHOOSE i \in SlotsOf(n) : TRUE
Known(n)   == SlotsOf(n) # {}
RecordOf(n) == entries[SlotOf(n)]
Used       == {i \in DOMAIN entries : entries[i] # 0}

\* The entries without the deleted slots.
Place(i)  == Cardinality({j \in Used : j <= i})
Compacted == [p \in 1..Cardinality(Used) |-> entries[CHOOSE i \in Used : Place(i) = p]]

Over(l)    == at[l] \in {"done", "quit"}
Alive(l)   == l # 0 /\ at[l] \in {"new", "sleep", "callback"}
Running(l) == Alive(l) /\ ~cancelled[l]
Waiting    == \E s \in Stops : stopping[s] = "waiting"

\* The ways to leave a loop behind that no later call reaches: add over a name
\* whose loop is alive, start while running, while a stop is under way, or
\* after one that raised, and an add during a stop that compacts the dict.
ReplacesLive(n) == Known(n) /\ Running(task[RecordOf(n)])
StartsTwice     == running \/ Waiting \/ \E s \in Stops : stopping[s] = "raised"

-----------------------------------------------------------------------------
(* Calls that do not suspend *)

NamedInOrder(n) == n = 1 \/ \E r \in 1..records : nameOf[r] = n - 1

\* A dict may be larger than Room, so a new key may or may not make it compact.
Compacts(n) == ~Known(n) /\ Len(entries) >= Room /\ Used # DOMAIN entries

Add(n, on, compact) ==
  LET r == records + 1
  IN  /\ records < MaxRecords /\ NamedInOrder(n)
      /\ compact => Compacts(n)
      /\ records' = r
      /\ entries' = IF Known(n) THEN [entries EXCEPT ![SlotOf(n)] = r]
                    ELSE Append(IF compact THEN Compacted ELSE entries, r)
      /\ nameOf' = [nameOf EXCEPT ![r] = n]
      /\ enabled' = [enabled EXCEPT ![r] = on]
      /\ misused' = (misused \/ ReplacesLive(n) \/ (compact /\ Waiting))
      /\ UNCHANGED <<running, task, loopVars, stopVars>>

RemoveOnly(n) ==   \* seeded fault: the loop is not cancelled
  /\ Known(n)
  /\ entries' = [entries EXCEPT ![SlotOf(n)] = 0]
  /\ UNCHANGED <<running, records, nameOf, enabled, task, loopVars, stopVars,
                 misused>>

RemoveTask(n) ==
  /\ Known(n)
  /\ entries' = [entries EXCEPT ![SlotOf(n)] = 0]
  /\ cancelled' = [l \in Loops |-> cancelled[l] \/ (l = task[RecordOf(n)] /\ Alive(l))]
  /\ UNCHANGED <<running, records, nameOf, enabled, task, loops, owner, at, stopVars, misused>>

SetEnabled(n, on) ==
  /\ Known(n)
  /\ enabled[RecordOf(n)] # on
  /\ enabled' = [enabled EXCEPT ![RecordOf(n)] = on]
  /\ UNCHANGED <<running, entries, records, nameOf, task, loopVars, stopVars,
                 misused>>
Enable(n)  == SetEnabled(n, TRUE)
Disable(n) == SetEnabled(n, FALSE)

\* One loop for each enabled record, in the order of the dict.
Started == {i \in Used : enabled[entries[i]]}
LoopFromZero(i) == loops + Cardinality({j \in Started : j < i})   \* seeded fault
LoopFor(i) == loops + Cardinality({j \in Started : j <= i})

Start ==
  /\ loops + Cardinality(Started) <= MaxLoops
  /\ running' = TRUE
  /\ loops' = loops + Cardinality(Started)
  /\ owner' = [l \in Loops |-> IF \E i \in Started : LoopFor(i) = l
                               THEN entries[CHOOSE i \in Started : LoopFor(i) = l] ELSE owner[l]]
  /\ at' = [l \in Loops |-> IF \E i \in Started : LoopFor(i) = l THEN "new" ELSE at[l]]
  /\ task' = [r \in Records |-> IF \E i \in Started : entries[i] = r
                                THEN LoopFor(CHOOSE i \in Started : entries[i] = r) ELSE task[r]]
  /\ misused' = (misused \/ StartsTwice)
  /\ UNCHANGED <<entries, records, nameOf, enabled, cancelled, stopVars>>

-----------------------------------------------------------------------------
(* stop *)

\* From slot i on, the next record whose loop is alive.  The iterator raises
\* when the number of keys is not what it was at the start, or when it comes
\* to a key after yielding that many.
Passed(i, j)  == Cardinality({k \in Used : i < k /\ k <= j})
EnabledAfter(i) ==   \* seeded fault: the loop of a disabled record is left alone
  {j \in Used : i < j /\ Alive(task[entries[j]]) /\ enabled[entries[j]]}
LiveAfter(i)  == {j \in Used : i < j /\ Alive(task[entries[j]])}

End(s, how) ==
  /\ stopping' = [stopping EXCEPT ![s] = how]
  /\ cursor' = [cursor EXCEPT ![s] = Idle]
  /\ UNCHANGED cancelled

GoOn(s, c) ==
  LET live  == LiveAfter(c.slot)
      next  == IF live = {} THEN Len(entries) ELSE Min(live)
      keys  == c.yielded + Passed(c.slot, next)
      stale == Cardinality(Used) # c.size \/ keys > c.size
  IN  \/ stale /\ End(s, "raised")
      \/ ~stale /\ live = {} /\ End(s, "returned")
      \/ /\ ~stale /\ live # {}
         /\ LET loop == task[entries[next]]
            IN  /\ cancelled' = [cancelled EXCEPT ![loop] = TRUE]
                /\ stopping' = [stopping EXCEPT ![s] = "waiting"]
                /\ cursor' = [cursor EXCEPT ![s] = [slot |-> next, yielded |-> keys,
                                                    size |-> c.size, loop |-> loop]]

Stop(s) ==
  /\ stopping[s] # "waiting"
  /\ running' = FALSE
  /\ GoOn(s, [Idle EXCEPT !.size = Cardinality(Used)])
  /\ UNCHANGED <<recordVars, loops, owner, at, misused>>

StopGoesOn(s) ==
  /\ stopping[s] = "waiting"
  /\ Over(cursor[s].loop)
  /\ GoOn(s, cursor[s])
  /\ UNCHANGED <<running, recordVars, loops, owner, at, misused>>

-----------------------------------------------------------------------------
(* _run_loop, between two suspensions *)

MayRun(l) == running /\ enabled[owner[l]]

Become(l, state) ==
  /\ at' = [at EXCEPT ![l] = state]
  /\ UNCHANGED <<running, recordVars, loops, owner, cancelled, stopVars, misused>>

\* The first step; a task cancelled before it never runs.
Begin(l) ==
  /\ at[l] = "new"
  /\ Become(l, IF ~cancelled[l] /\ MayRun(l) THEN "sleep" ELSE "done")

Wake(l) ==
  /\ at[l] = "sleep"
  /\ Become(l, IF ~cancelled[l] /\ MayRun(l) THEN "callback" ELSE "done")

CallbackDies(l, raised) ==   \* seeded fault: an exception ends the loop
  /\ at[l] = "callback"
  /\ Become(l, IF raised = "none" /\ ~cancelled[l] /\ MayRun(l) THEN "sleep" ELSE "done")

\* The callback ends or is cancelled, or raises: an exception, which _execute
\* records, or a CancelledError of its own, which it lets through to the loop.
CallbackEnds(l, raised) ==
  /\ at[l] = "callback"
  /\ Become(l, IF ~cancelled[l] /\ raised = "CancelledError" THEN "quit"
               ELSE IF ~cancelled[l] /\ MayRun(l) THEN "sleep" ELSE "done")

LoopStep(l) ==
  \/ Begin(l) \/ Wake(l)
  \/ \E raised \in {"none", "Exception", "CancelledError"} : CallbackEnds(l, raised)

SchedulerNext ==
  \/ \E n \in Names : \/ \E on, compact \in BOOLEAN : Add(n, on, compact)
                      \/ RemoveTask(n) \/ Enable(n) \/ Disable(n)
  \/ Start
  \/ \E s \in Stops : Stop(s) \/ StopGoesOn(s)
  \/ \E l \in Loops : LoopStep(l)

SchedulerSpec == SchedulerInit /\ [][SchedulerNext]_schedulerVars

\* The event loop resumes what can go on: sleeps and callbacks end.
\* (Nothing here needs that a stop ends.)
SchedulerFairness ==
  \A l \in Loops : WF_schedulerVars(LoopStep(l))
SchedulerFairSpec == SchedulerSpec /\ SchedulerFairness

-----------------------------------------------------------------------------
(* Properties *)

\* The type invariant; loops and records are numbered as they are created.
SchedulerTypeOK ==
  /\ {running, misused} \subseteq BOOLEAN
  /\ entries \in Seq(0..records) /\ Len(entries) <= MaxRecords
  /\ records \in 0..MaxRecords /\ loops \in 0..MaxLoops
  /\ nameOf \in [Records -> Names]
  /\ enabled \in [Records -> BOOLEAN]
  /\ task \in [Records -> 0..loops]
  /\ owner \in [Loops -> 0..records]
  /\ at \in [Loops -> {"none", "new", "sleep", "callback", "done", "quit"}]
  /\ \A l \in Loops : (at[l] # "none" <=> l <= loops) /\ (owner[l] # 0 <=> l <= loops)
  /\ cancelled \in [Loops -> BOOLEAN]
  /\ stopping \in [Stops -> {"none", "waiting", "returned", "raised"}]
  /\ \A s \in Stops : /\ cursor[s].slot \in Nat
                      /\ stopping[s] = "waiting" => cursor[s].loop \in 1..loops

\* A task runs in one loop, and in one that remove and stop can reach: unless
\* add replaced a name whose loop was alive or compacted the dict during a stop, or
\* start was called while running, during a stop, or after a stop that raised, no
\* name has two loops that go on and every such loop is the one its record in the
\* dict knows.
OnlyMisuseDuplicates ==
  ~misused =>
    \A l \in Loops : Running(l) =>
      /\ owner[l] \in {entries[i] : i \in Used}
      /\ task[owner[l]] = l
      /\ \A k \in Loops : Running(k) /\ nameOf[owner[k]] = nameOf[owner[l]] => k = l

\* When stop returns, every loop of a record in the dict has ended and any other
\* is cancelled: no callback goes on afterwards, however calls, disabled tasks
\* and other stop calls came in between (scheduler.py:102), but for the misuses
\* that OnlyMisuseDuplicates names.
StopJoins ==
  [][\A s \in Stops :
       stopping'[s] = "returned" /\ stopping[s] # "returned" /\ ~misused =>
         /\ \A i \in Used : ~Alive(task[entries[i]])
         /\ \A l \in Loops : ~Running(l)]_schedulerVars

\* A loop goes round for ever, also when the callback raises an exception: it ends
\* only when it is cancelled or finds the scheduler stopped or its record disabled,
\* or quits as its callback let a CancelledError of its own out (scheduler.py:128);
\* and until it ends it calls back again and again.
Off(l) == ~running \/ cancelled[l] \/ ~enabled[owner[l]]
LoopsGoOn ==
  /\ [][\A l \in Loops : Alive(l) /\ at'[l] = "done" => Off(l)]_schedulerVars
  /\ \A l \in Loops : []<>(at[l] \in {"none", "callback", "done", "quit"})
=============================================================================
