------------------------------- MODULE Replay -------------------------------
(***************************************************************************)
(* replay/controller.py with replay/clock.py and replay/sources.py: one    *)
(* task merges the candles of its sources by time and publishes them at    *)
(* the pace of a clock; play, pause, stop, step and set_speed are called   *)
(* between its steps.                                                      *)
(*                                                                         *)
(* An action of the task is the code between two of its awaits.  Sources   *)
(* never suspend, so fetching the next candle is no step.  Real time is a  *)
(* choice: whether the clock has to sleep, and for how many chunks.  That  *)
(* a publish or a source raises is one too: the task has crashed then.     *)
(***************************************************************************)
EXTENDS Integers, Sequences

CONSTANTS
  Candles,    \* per source: the timestamps of its candles, in chronological order
  MaxChunks,  \* bound: chunks of one sleep
  NoTime      \* None

ASSUME ReplayAssumption ==
  /\ Candles \in Seq(Seq(Nat))
  /\ \A s \in DOMAIN Candles : \A i, j \in DOMAIN Candles[s] :
       i < j => Candles[s][i] <= Candles[s][j]
  /\ MaxChunks \in Nat \ {0}

Sources  == DOMAIN Candles
Candle   == UNION {{<<s, i>> : i \in DOMAIN Candles[s]} : s \in Sources}
Stamp(c) == Candles[c[1]][c[2]]

VARIABLES
  at,          \* what the task waits for; none if there never was a task
  cancelled,   \* cancel() was called on the task, which has not ended
  isRunning,   \* _is_running
  stopEvent,   \* _stop_event
  stepEvent,   \* _step_event
  paused,      \* clock._paused
  fast,        \* clock.speed_multiplier = 0
  baseline,    \* clock._last_event_time; _last_real_time is None with it
  next,        \* per source: the position of its candle in next_items
  left,        \* chunks of the current sleep
  published,   \* history variable: the candles this task has published
  call,        \* history variable: the last of play, pause, step and stop
  passed       \* history variable: candles published since, unless that was play

taskVars  == <<at, next, left, published, passed>>
clockVars == <<paused, fast, baseline>>
vars == <<taskVars, clockVars, cancelled, isRunning, stopEvent, stepEvent, call>>

Waiting == {"paused", "yielding", "sleeping", "held"}   \* in wait_for
Await   == {"none", "created", "publishing", "done", "crashed"} \cup Waiting
Alive   == at \notin {"none", "done", "crashed"}

Init ==
  /\ at = "none"
  /\ cancelled = FALSE
  /\ isRunning = FALSE
  /\ stopEvent = FALSE
  /\ stepEvent = FALSE
  /\ paused = FALSE
  /\ fast \in BOOLEAN
  /\ baseline = NoTime
  /\ next = [s \in Sources |-> 1]
  /\ left = 0
  /\ published = <<>>
  /\ call = "stop"
  /\ passed = 0

-----------------------------------------------------------------------------
\* ReplayController._run_loop and ReplayClock.wait_for

NextItems(nx) == {c \in Candle : nx[c[1]] = c[2]}

EarliestOfFirst(nx) ==   \* seeded fault: the sources are played one after the other
  CHOOSE c \in NextItems(nx) : \A d \in NextItems(nx) : c[1] <= d[1]

\* next_items, scanned in the order of the sources with a strict comparison.
Earliest(nx) ==
  CHOOSE c \in NextItems(nx) : \A d \in NextItems(nx) :
    Stamp(c) < Stamp(d) \/ (Stamp(c) = Stamp(d) /\ c[1] <= d[1])

Publish(c) ==
  /\ at' = "publishing"
  /\ published' = Append(published, c)
  /\ passed' = IF call = "play" THEN 0 ELSE passed + 1

WaitIn(label) == at' = label /\ UNCHANGED <<published, passed>>

\* The finally clause, of a task that had begun.
FinishAs(label) ==
  /\ WaitIn(label)
  /\ isRunning' = FALSE
  /\ paused' = FALSE /\ baseline' = NoTime

Finish == FinishAs("done")

\* wait_for once it is not paused; c has been waited for when it is published.
Pace(c) ==
  \/ /\ fast
     /\ WaitIn("yielding")
     /\ UNCHANGED <<baseline, left>>
  \/ /\ ~fast /\ (IF baseline = NoTime THEN TRUE ELSE baseline < Stamp(c))
     /\ Publish(c)
     /\ baseline' = Stamp(c)
     /\ UNCHANGED left
  \/ /\ ~fast /\ baseline # NoTime /\ baseline >= Stamp(c)
     /\ Publish(c)
     /\ UNCHANGED <<baseline, left>>
  \/ /\ ~fast /\ baseline # NoTime /\ baseline < Stamp(c)
     /\ WaitIn("sleeping")
     /\ left' \in 1..MaxChunks
     /\ UNCHANGED baseline

WaitUnpaused(c, isPaused) ==   \* seeded fault: the clock does not look at _paused first
  Pace(c) /\ paused' = isPaused

WaitFor(c, isPaused) ==
  /\ paused' = isPaused
  /\ IF isPaused THEN WaitIn("paused") /\ UNCHANGED <<baseline, left>> ELSE Pace(c)

\* The head of the loop, with the next candles and the pause it finds.
LoopHead(nx, isPaused) ==
  /\ next' = nx
  /\ IF stopEvent \/ NextItems(nx) = {}
     THEN Finish /\ UNCHANGED left
     ELSE WaitFor(Earliest(nx), isPaused) /\ UNCHANGED isRunning

Begun ==
  /\ at = "created"
  /\ LoopHead(next, paused)
  /\ UNCHANGED <<cancelled, stopEvent, stepEvent, fast, call>>

Woken ==                                 \* from the sleep of the pause loop
  /\ at = "paused" /\ ~paused
  /\ Pace(Earliest(next))
  /\ UNCHANGED <<cancelled, isRunning, stopEvent, stepEvent, paused, fast, next, call>>

Yielded ==
  /\ at = "yielding"
  /\ Publish(Earliest(next))
  /\ UNCHANGED <<clockVars, cancelled, isRunning, stopEvent, stepEvent, next, left, call>>

SleptTheSame ==   \* seeded fault: the chunk is not subtracted
  /\ at = "sleeping"
  /\ WaitIn(IF paused THEN "held" ELSE "sleeping")
  /\ UNCHANGED <<baseline, left>>
  /\ UNCHANGED <<cancelled, isRunning, stopEvent, stepEvent, paused, fast, next, call>>

Slept ==                                 \* one chunk; the last one looks at no pause
  /\ at = "sleeping"
  /\ left' = left - 1
  /\ IF left = 1
     THEN Publish(Earliest(next)) /\ baseline' = Stamp(Earliest(next))
     ELSE WaitIn(IF paused THEN "held" ELSE "sleeping") /\ UNCHANGED baseline
  /\ UNCHANGED <<cancelled, isRunning, stopEvent, stepEvent, paused, fast, next, call>>

Released ==                              \* from the pause that interrupted a sleep
  /\ at = "held" /\ ~paused
  /\ Publish(Earliest(next))
  /\ baseline' = Stamp(Earliest(next))
  /\ left' = 0
  /\ UNCHANGED <<cancelled, isRunning, stopEvent, stepEvent, paused, fast, next, call>>

\* anext of the source that won; beyond its last candle it has none.
Advance(nx) == [nx EXCEPT ![Earliest(nx)[1]] = @ + 1]

Published ==                             \* the handlers are done
  /\ at = "publishing"
  /\ stepEvent' = FALSE
  /\ LoopHead(Advance(next), paused \/ stepEvent)
  /\ UNCHANGED <<cancelled, stopEvent, fast, call>>

\* A source raises when its first candle is asked for, or the publish raises, or
\* the source that won does, which is after the step event was cleared.
Crash ==
  /\ at \in {"created", "publishing"}
  /\ FinishAs("crashed")
  /\ stepEvent' \in {stepEvent, stepEvent /\ at = "created"}
  /\ UNCHANGED <<cancelled, stopEvent, fast, next, left, call>>

\* A task cancelled before its first step never enters the try statement.
CancelDelivered ==
  /\ cancelled /\ cancelled' = FALSE
  /\ IF at = "created" THEN WaitIn("done") /\ UNCHANGED <<isRunning, paused, baseline>>
     ELSE Finish
  /\ UNCHANGED <<stopEvent, stepEvent, fast, next, left, call>>

TaskStep ==
  \/ ~cancelled /\ (Begun \/ Woken \/ Yielded \/ Slept \/ Released \/ Published \/ Crash)
  \/ CancelDelivered

-----------------------------------------------------------------------------
\* The calls on the controller

Called(c) == call' = c /\ passed' = 0
Resume    == paused' = FALSE /\ baseline' = NoTime

NewTask ==                               \* with its own iterators
  /\ at' = "created"
  /\ next' = [s \in Sources |-> 1]
  /\ left' = 0
  /\ published' = <<>>
  /\ stopEvent' = FALSE
  /\ isRunning' = TRUE

StartOrResume ==
  /\ Resume
  /\ IF Alive THEN UNCHANGED <<at, next, left, published, stopEvent, isRunning>> ELSE NewTask
  /\ UNCHANGED <<cancelled, fast>>

Play == StartOrResume /\ Called("play") /\ UNCHANGED stepEvent

Pause ==
  /\ Called("pause")
  /\ paused' = TRUE
  /\ UNCHANGED <<at, next, left, published, fast, baseline, cancelled, isRunning, stopEvent,
                 stepEvent>>

Stop ==
  /\ Called("stop")
  /\ stopEvent' = TRUE
  /\ isRunning' = FALSE
  /\ cancelled' = Alive
  /\ paused' = FALSE /\ baseline' = NoTime
  /\ UNCHANGED <<at, next, left, published, fast, stepEvent>>

Step == StartOrResume /\ Called("step") /\ stepEvent' = TRUE

SetSpeed(zero) ==
  /\ fast' = zero
  /\ baseline' = NoTime
  /\ UNCHANGED <<taskVars, paused, cancelled, isRunning, stopEvent, stepEvent, call>>

Next ==
  \/ Play \/ Pause \/ Stop \/ Step
  \/ \E zero \in BOOLEAN : SetSpeed(zero)
  \/ TaskStep

Spec == Init /\ [][Next]_vars

\* The event loop runs the task whenever its sleep or the handlers are done.
FairSpec == Spec /\ WF_vars(TaskStep)

-----------------------------------------------------------------------------
Positions(nx) ==
  nx \in [Sources -> Nat] /\ \A s \in Sources : nx[s] \in 1..(Len(Candles[s]) + 1)

\* Types of every variable; a sleep has a chunk left and only a task that is
\* alive is cancelled.
TypeOK ==
  /\ at \in Await
  /\ {cancelled, isRunning, stopEvent, stepEvent, paused, fast} \subseteq BOOLEAN
  /\ baseline \in {Stamp(c) : c \in Candle} \cup {NoTime}
  /\ Positions(next)
  /\ left \in 0..MaxChunks
  /\ at = "sleeping" => left > 0
  /\ published \in Seq(Candle)
  /\ call \in {"play", "pause", "stop", "step"}
  /\ passed \in Nat
  /\ cancelled => Alive

Before(c, d) ==
  \/ Stamp(c) < Stamp(d)
  \/ Stamp(c) = Stamp(d) /\ (c[1] < d[1] \/ (c[1] = d[1] /\ c[2] < d[2]))
Shown == {published[i] : i \in DOMAIN published}

InOrder     == \A i, j \in DOMAIN published : i < j => Before(published[i], published[j])
NoneSkipped == \A c \in Candle, d \in Shown : Before(c, d) => c \in Shown
Complete    == (at = "done" /\ ~stopEvent) => Shown = Candle

\* Whatever is paused, stepped and stopped in between, a replay publishes the
\* candles of all sources by their timestamps, none twice and none left out.  One
\* that ends by running out of candles, neither stopped nor by a publish or source
\* that raised (controller.py:85), has published them all.
MergedInOrder == InOrder /\ NoneSkipped /\ Complete

\* _is_running, which callers poll, says whether there is a task that goes on:
\* it turns false at stop, at the end and after a cancellation, never earlier.
RunningIsAlive == isRunning <=> Alive /\ ~cancelled

\* After stop no candle is published, after pause or step at most one, wherever
\* the task is when it is called (controller.py:72, :118).
AtMostOneMore ==
  /\ call = "stop" => passed = 0
  /\ call \in {"pause", "step"} => passed <= 1

\* A replay does not go on for ever: again and again it is paused or at its end.
EveryReplayEnds == []<>(~Alive \/ paused)

\* controller.py:94, of play: "Start or resume replay."  Unless another call comes,
\* a candle is published after it, or all have been.
PlayStarts == (call = "play") ~> (call # "play" \/ at \in {"publishing", "crashed"} \/ Shown = Candle)
=============================================================================
