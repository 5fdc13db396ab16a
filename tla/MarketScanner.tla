--------------------------- MODULE MarketScanner ----------------------------
(***************************************************************************)
(* market/scanner.py with market/cache.py and market/subscriptions.py: the *)
(* task that keeps the connection to the exchange, and the calls that      *)
(* start it, stop it and change what it should be subscribed to.           *)
(*                                                                         *)
(* A call of start makes a new task, so tasks are numbered.  An action of  *)
(* a task is the code between two of its awaits.  cancel() takes effect at *)
(* the await the task is suspended at: it takes no other step before.  All *)
(* of its awaits end it then, by `break` or by the exception itself.       *)
(* Messages the normalizer drops change nothing and are no step.  The      *)
(* publish of a lost connection is outside the try: if it raises, which    *)
(* publish may do (EventBus), the task has crashed and nothing notices.    *)
(***************************************************************************)
EXTENDS Integers, FiniteSets

CONSTANTS
  Streams,      \* a symbol and a stream type; also a symbol and an event type
  MaxBackoff,   \* max_backoff
  MaxStamp,     \* bound: exchange timestamps
  MaxTasks,     \* bound: how many tasks are started
  StopCalls,    \* bound: calls of stop, each made once
  NoTask

ASSUME ScannerAssumption ==
  /\ MaxBackoff \in Nat \ {0}
  /\ MaxStamp \in Nat
  /\ MaxTasks \in Nat
  /\ NoTask \notin 1..MaxTasks

Tasks == 1..MaxTasks

VARIABLES
  running,     \* _running
  wsTask,      \* _ws_task
  subs,        \* SubscriptionManager._subs
  cache,       \* MarketCache._store: the timestamp of the cached event; 0 if none
  at,          \* per task: the await it is suspended at
  cancelled,   \* tasks cancel() was called on
  payload,     \* per task: the streams of its connection attempt
  backoff,     \* per task: its local backoff
  stopCall,    \* per stop call: idle, waiting, returned, raised
  awaited,     \* per stop call: the task it waits for
  lost,        \* history variable, per task: attempts since it was last connected
  latest       \* history variable: per stream, the newest timestamp published

taskVars  == <<at, payload, backoff, lost>>
eventVars == <<cache, latest>>
stopVars  == <<stopCall, awaited>>
vars == <<running, wsTask, subs, eventVars, taskVars, cancelled, stopVars>>

Await == {"none", "created", "no streams", "connecting", "dialing", "connected", "sending",
          "reading", "publishing", "disconnected", "backing off", "done", "crashed"}

Init ==
  /\ running = FALSE
  /\ wsTask = NoTask
  /\ subs = {}
  /\ cache = [s \in Streams |-> 0]
  /\ at = [t \in Tasks |-> "none"]
  /\ cancelled = {}
  /\ payload = [t \in Tasks |-> {}]
  /\ backoff = [t \in Tasks |-> 1]
  /\ stopCall = [c \in StopCalls |-> "idle"]
  /\ awaited = [c \in StopCalls |-> NoTask]
  /\ lost = [t \in Tasks |-> 0]
  /\ latest = [s \in Streams |-> 0]

-----------------------------------------------------------------------------
\* start, stop and the two calls that change the subscriptions

Created == {t \in Tasks : at[t] # "none"}
NewTask == Cardinality(Created) + 1

StartAlways ==   \* seeded fault: start does not look at _running
  /\ NewTask \in Tasks
  /\ running' = TRUE
  /\ wsTask' = NewTask
  /\ at' = [at EXCEPT ![NewTask] = "created"]
  /\ UNCHANGED <<subs, eventVars, payload, backoff, lost, cancelled, stopVars>>

Start ==
  /\ ~running
  /\ NewTask \in Tasks
  /\ running' = TRUE
  /\ wsTask' = NewTask
  /\ at' = [at EXCEPT ![NewTask] = "created"]
  /\ UNCHANGED <<subs, eventVars, payload, backoff, lost, cancelled, stopVars>>

Ended(t)  == at[t] \in {"done", "crashed"}
Cancel(t) == cancelled' = cancelled \cup ({t} \ {u \in Tasks : Ended(u)})

StopForgets(c) ==   \* seeded fault: stop does not wait for the task it cancels
  /\ stopCall[c] = "idle"
  /\ running' = FALSE
  /\ IF wsTask = NoTask THEN UNCHANGED cancelled ELSE Cancel(wsTask)
  /\ stopCall' = [stopCall EXCEPT ![c] = "returned"]
  /\ UNCHANGED <<wsTask, subs, eventVars, taskVars, awaited>>

Stop(c) ==
  /\ stopCall[c] = "idle"
  /\ running' = FALSE
  /\ IF wsTask = NoTask
     THEN /\ stopCall' = [stopCall EXCEPT ![c] = "returned"]
          /\ UNCHANGED <<awaited, cancelled>>
     ELSE /\ Cancel(wsTask)
          /\ stopCall' = [stopCall EXCEPT ![c] = "waiting"]
          /\ awaited' = [awaited EXCEPT ![c] = wsTask]
  /\ UNCHANGED <<wsTask, subs, eventVars, taskVars>>

\* The await raises what the task raised, unless that is a CancelledError.
StopReturns(c) ==
  /\ stopCall[c] = "waiting"
  /\ Ended(awaited[c])
  /\ stopCall' = [stopCall EXCEPT ![c] = IF at[awaited[c]] = "done" THEN "returned" ELSE "raised"]
  /\ awaited' = [awaited EXCEPT ![c] = NoTask]
  /\ UNCHANGED <<running, wsTask, subs, eventVars, taskVars, cancelled>>

Subscribe(s) ==
  /\ subs' = subs \cup {s}
  /\ IF running /\ wsTask # NoTask THEN Cancel(wsTask) ELSE UNCHANGED cancelled
  /\ UNCHANGED <<running, wsTask, eventVars, taskVars, stopVars>>

Unsubscribe(s) ==
  /\ subs' = subs \ {s}
  /\ UNCHANGED <<running, wsTask, eventVars, taskVars, cancelled, stopVars>>

-----------------------------------------------------------------------------
\* _connection_loop

Suspended(t, label) == at[t] = label /\ t \notin cancelled
Goto(t, label)      == at' = [at EXCEPT ![t] = label]

\* The head of the loop: nothing to do, nothing to subscribe to, or an attempt.
Head(t) ==
  IF ~running THEN Goto(t, "done") /\ UNCHANGED payload
  ELSE /\ Goto(t, IF subs = {} THEN "no streams" ELSE "connecting")
       /\ payload' = [payload EXCEPT ![t] = subs]

Looped(t) ==
  /\ Suspended(t, "created") \/ Suspended(t, "no streams")
  /\ Head(t)
  /\ UNCHANGED <<running, wsTask, subs, eventVars, backoff, lost, cancelled, stopVars>>

Step(t, from, to) ==
  /\ Suspended(t, from)
  /\ Goto(t, to)
  /\ UNCHANGED <<running, wsTask, subs, eventVars, payload, backoff, lost, cancelled, stopVars>>

Dial(t)      == Step(t, "connecting", "dialing")
Connected(t) == Step(t, "dialing", "connected")
Published(t) == Step(t, "publishing", "reading")

Send(t) ==                               \* backoff is reset
  /\ Suspended(t, "connected")
  /\ Goto(t, "sending")
  /\ backoff' = [backoff EXCEPT ![t] = 1]
  /\ lost' = [lost EXCEPT ![t] = 0]
  /\ UNCHANGED <<running, wsTask, subs, eventVars, payload, cancelled, stopVars>>

Sent(t) == Step(t, "sending", "reading")

\* _process_message: an event older than the cached one is dropped.  (The loop
\* looks at _running first; where it is false the task has been cancelled.)
AcceptsAny(s, stamp) == stamp > 0   \* seeded fault
Accepts(s, stamp)    == stamp >= cache[s]

Process(t, s, stamp) ==
  /\ Suspended(t, "reading") /\ s \in payload[t]
  /\ Accepts(s, stamp)
  /\ cache' = [cache EXCEPT ![s] = stamp]
  /\ latest' = [latest EXCEPT ![s] = stamp]
  /\ Goto(t, "publishing")
  /\ UNCHANGED <<running, wsTask, subs, payload, backoff, lost, cancelled, stopVars>>

\* The attempt fails, the connection closes, or the code in the try raises.
Lose(t) ==
  /\ \E label \in {"connecting", "dialing", "connected", "sending", "reading", "publishing"} :
       Suspended(t, label)
  /\ Goto(t, IF running THEN "disconnected" ELSE "done")
  /\ UNCHANGED <<running, wsTask, subs, eventVars, payload, backoff, lost, cancelled, stopVars>>

BackOff(t) == Step(t, "disconnected", "backing off")

\* The publish outside the try raises: the task ends and _running stays as it is.
Crash(t) == Step(t, "disconnected", "crashed")

DoubledUncapped(b) == 2 * b   \* seeded fault
Doubled(b) == IF 2 * b < MaxBackoff THEN 2 * b ELSE MaxBackoff

RetryOnce(t) ==   \* seeded fault: there is no second attempt
  /\ Suspended(t, "backing off")
  /\ backoff[t] = 1
  /\ backoff' = [backoff EXCEPT ![t] = Doubled(@)]
  /\ lost' = [lost EXCEPT ![t] = 1]
  /\ Head(t)
  /\ UNCHANGED <<running, wsTask, subs, eventVars, cancelled, stopVars>>

Retry(t) ==
  /\ Suspended(t, "backing off")
  /\ backoff' = [backoff EXCEPT ![t] = Doubled(@)]
  /\ lost' = [lost EXCEPT ![t] = IF backoff[t] < MaxBackoff THEN @ + 1 ELSE @]
  /\ Head(t)
  /\ UNCHANGED <<running, wsTask, subs, eventVars, cancelled, stopVars>>

CancelDelivered(t) ==                    \* its locals are gone
  /\ t \in cancelled
  /\ Goto(t, "done")
  /\ cancelled' = cancelled \ {t}
  /\ payload' = [payload EXCEPT ![t] = {}]
  /\ backoff' = [backoff EXCEPT ![t] = 1]
  /\ lost' = [lost EXCEPT ![t] = 0]
  /\ UNCHANGED <<running, wsTask, subs, eventVars, stopVars>>

\* The steps that come without anyone's doing: none while the task reads.
Continue(t) ==
  \/ Looped(t) \/ Dial(t) \/ Connected(t) \/ Send(t) \/ Sent(t) \/ Published(t)
  \/ BackOff(t) \/ Crash(t) \/ Retry(t) \/ CancelDelivered(t)

Next ==
  \/ Start
  \/ \E c \in StopCalls : Stop(c) \/ StopReturns(c)
  \/ \E s \in Streams : Subscribe(s) \/ Unsubscribe(s)
  \/ \E t \in Tasks : Continue(t) \/ Lose(t)
  \/ \E t \in Tasks, s \in Streams, stamp \in 1..MaxStamp : Process(t, s, stamp)

Spec == Init /\ [][Next]_vars

\* The event loop runs what is ready, and each network operation but reading
\* ends or fails: a connection may stay up and silent for ever.
FairSpec ==
  /\ Spec
  /\ \A t \in Tasks : WF_vars(Continue(t))
  /\ \A c \in StopCalls : WF_vars(StopReturns(c))

-----------------------------------------------------------------------------
Alive(t)     == at[t] # "none" /\ ~Ended(t)
LeftAlone(t) == Alive(t) /\ t \notin cancelled

\* 1, doubled n times.
DoubledOften[n \in Nat] == IF n = 0 THEN 1 ELSE 2 * DoubledOften[n - 1]

\* Types of every variable; only tasks that are alive are cancelled, and the delay
\* before an attempt doubles with each attempt since the last connection, up to its
\* maximum (docs/adr/008-data-pipeline.md, section 5).
TypeOK ==
  /\ running \in BOOLEAN
  /\ wsTask \in Tasks \cup {NoTask}
  /\ subs \subseteq Streams
  /\ cache \in [Streams -> 0..MaxStamp]
  /\ at \in [Tasks -> Await]
  /\ cancelled \subseteq {t \in Tasks : Alive(t)}
  /\ payload \in [Tasks -> SUBSET Streams]
  /\ \A t \in Tasks : backoff[t] = IF DoubledOften[lost[t]] < MaxBackoff
                                   THEN DoubledOften[lost[t]] ELSE MaxBackoff
  /\ stopCall \in [StopCalls -> {"idle", "waiting", "returned", "raised"}]
  /\ awaited \in [StopCalls -> Tasks \cup {NoTask}]
  /\ lost \in [Tasks -> Nat]
  /\ latest \in [Streams -> 0..MaxStamp]

\* Whatever starts, stops and subscriptions overlap, at most one task is not
\* about to end: the current one, of a scanner that is running.  So no two
\* connections feed the bus.
OneConnection == \A t \in Tasks : LeftAlone(t) => running /\ t = wsTask

\* A stopped scanner whose stop calls have ended has no task left, also when starts
\* came in between or a task crashed.
StopStops ==
  (~running /\ \A c \in StopCalls : stopCall[c] # "waiting") => \A t \in Tasks : ~Alive(t)

\* Across reconnections and restarts, the events of a stream reach the bus in
\* the order of their exchange timestamps.
NeverBackwards == [][\A s \in Streams : latest'[s] >= latest[s]]_vars

\* docs/adr/008-data-pipeline.md, section 5, as far as the code goes: no failure of
\* a connection or of an event's processing ends the loop.  It ends by cancellation,
\* or because the announcement of a lost connection raised (scanner.py:124, which
\* the document does not allow for).  A task that neither befalls tries again and
\* again, unless it reads from a connection or there is nothing to subscribe to.
KeepsTrying ==
  /\ [][\A t \in Tasks : Alive(t) /\ ~Alive(t)' =>
          t \in cancelled \/ (at[t] = "disconnected" /\ at'[t] = "crashed")]_vars
  /\ \A t \in Tasks : <>[]LeftAlone(t) =>
       []<>(at[t] \in {"connecting", "reading", "no streams"})

\* scanner.py:63, of subscribe: "Scanner will reconnect if necessary to apply it."
\* A stream asked of a running scanner becomes part of a connection attempt,
\* unless it is given up or the scanner is stopped.
SubscriptionApplied ==
  \A s \in Streams : (running /\ s \in subs) ~>
    (~running \/ s \notin subs \/ \E t \in Tasks : Alive(t) /\ s \in payload[t])
=============================================================================
