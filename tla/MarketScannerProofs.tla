------------------------- MODULE MarketScannerProofs -------------------------
(***************************************************************************)
(* Theorems about MarketScanner, for any number of tasks, stop calls and   *)
(* streams.                                                                *)
(***************************************************************************)
EXTENDS MarketScanner, WellFoundedInduction, TLAPS

Types ==
  /\ running \in BOOLEAN
  /\ wsTask \in Tasks \cup {NoTask}
  /\ at \in [Tasks -> Await]
  /\ stopCall \in [StopCalls -> {"idle", "waiting", "returned", "raised"}]
  /\ awaited \in [StopCalls -> Tasks \cup {NoTask}]

\* A task is alive only as the current one of a running scanner, or because a stop
\* call still waits for its end.
WaitedFor(t) == \E c \in StopCalls : stopCall[c] = "waiting" /\ awaited[c] = t
Accounted == \A t \in Tasks : Alive(t) => (running /\ t = wsTask) \/ WaitedFor(t)

TaskInv == Types /\ Accounted /\ OneConnection

\* The cache holds what was published last.
CacheInv ==
  /\ cache \in [Streams -> Int]
  /\ latest = cache

-----------------------------------------------------------------------------
(* Tasks *)

LEMMA TaskInit == Init => TaskInv
<1> SUFFICES ASSUME Init
             PROVE  TaskInv
  OBVIOUS
<1>1. Types
  BY DEF Init, Types, Await
<1>2. \A t \in Tasks : ~Alive(t)
  BY DEF Init, Alive, Ended
<1> QED
  BY <1>1, <1>2 DEF TaskInv, Accounted, OneConnection, LeftAlone

\* A step of one task by which it goes on or ends, whatever it was cancelled for.
LEMMA TaskStep ==
  ASSUME TaskInv, NEW t \in Tasks, NEW label \in Await, Alive(t), Goto(t, label),
         cancelled' = cancelled \/ (label = "done" /\ cancelled' = cancelled \ {t}),
         UNCHANGED <<running, wsTask, stopVars>>
  PROVE  TaskInv'
<1>1. \A u \in Tasks : at'[u] = (IF u = t THEN label ELSE at[u])
  BY DEF Goto, TaskInv, Types
<1>2. \A u \in Tasks : (Alive(u)' => Alive(u)) /\ (LeftAlone(u)' => LeftAlone(u))
  BY <1>1 DEF Alive, Ended, LeftAlone
<1>3. Types'
  BY DEF Goto, TaskInv, Types, stopVars
<1>4. \A u \in Tasks : WaitedFor(u)' <=> WaitedFor(u)
  BY DEF WaitedFor, stopVars
<1> QED
  BY <1>2, <1>3, <1>4 DEF TaskInv, Accounted, OneConnection

LEMMA HeadStep ==
  ASSUME NEW t \in Tasks, Head(t)
  PROVE  \E label \in Await : Goto(t, label)
BY DEF Head, Await

LEMMA ContinueStep ==
  ASSUME TaskInv, NEW t \in Tasks, Continue(t) \/ Lose(t)
  PROVE  TaskInv'
<1>1. ASSUME NEW from \in Await \ {"none", "done", "crashed"}, NEW to \in Await, Step(t, from, to)
      PROVE  TaskInv'
  BY <1>1, TaskStep DEF Step, Suspended, Alive, Ended
<1>2. CASE Looped(t) \/ Retry(t)
  <2>1. PICK label \in Await : Goto(t, label)
    BY <1>2, HeadStep DEF Looped, Retry
  <2>2. Alive(t) /\ UNCHANGED <<cancelled, running, wsTask, stopVars>>
    BY <1>2 DEF Looped, Retry, Suspended, Alive, Ended
  <2> QED
    BY <2>1, <2>2, TaskStep
<1>3. CASE Dial(t) \/ Connected(t) \/ Published(t) \/ Sent(t) \/ BackOff(t) \/ Crash(t)
  BY <1>1, <1>3 DEF Dial, Connected, Published, Sent, BackOff, Crash, Await
<1>4. CASE Send(t)
  <2>1. "sending" \in Await
    BY DEF Await
  <2> QED
    BY <1>4, <2>1, TaskStep DEF Send, Suspended, Alive, Ended
<1>5. CASE Lose(t)
  <2>1. PICK label \in {"disconnected", "done"} : Goto(t, label)
    BY <1>5 DEF Lose
  <2>2. label \in Await
    BY DEF Await
  <2>3. Alive(t) /\ UNCHANGED <<cancelled, running, wsTask, stopVars>>
    BY <1>5 DEF Lose, Suspended, Alive, Ended
  <2> QED
    BY <2>1, <2>2, <2>3, TaskStep
<1>6. CASE CancelDelivered(t)
  <2>1. CASE Alive(t)
    <3>1. "done" \in Await
      BY DEF Await
    <3> QED
      BY <1>6, <2>1, <3>1, TaskStep DEF CancelDelivered
  <2>2. CASE ~Alive(t)
    <3>1. at' = [at EXCEPT ![t] = "done"] /\ cancelled' = cancelled \ {t}
          /\ UNCHANGED <<running, wsTask, stopVars>>
      BY <1>6 DEF CancelDelivered, Goto
    <3>2. \A u \in Tasks : at'[u] = (IF u = t THEN "done" ELSE at[u])
      BY <3>1 DEF TaskInv, Types
    <3>3. \A u \in Tasks : (Alive(u)' => Alive(u)) /\ (LeftAlone(u)' => LeftAlone(u))
      BY <3>1, <3>2 DEF Alive, Ended, LeftAlone
    <3>4. \A u \in Tasks : WaitedFor(u)' <=> WaitedFor(u)
      BY <3>1 DEF WaitedFor, stopVars
    <3>5. Types'
      BY <3>1 DEF TaskInv, Types, stopVars, Await
    <3> QED
      BY <3>1, <3>3, <3>4, <3>5 DEF TaskInv, Accounted, OneConnection
  <2> QED
    BY <2>1, <2>2
<1> QED
  BY <1>2, <1>3, <1>4, <1>5, <1>6 DEF Continue

LEMMA TaskNext == TaskInv /\ [Next]_vars => TaskInv'
<1> SUFFICES ASSUME TaskInv, [Next]_vars
             PROVE  TaskInv'
  OBVIOUS
<1>1. CASE Start
  <2>1. /\ NewTask \in Tasks /\ ~running /\ running' = TRUE /\ wsTask' = NewTask
        /\ UNCHANGED <<cancelled, stopCall, awaited>>
    BY <1>1 DEF Start, stopVars
  <2>2. \A t \in Tasks : at'[t] = (IF t = NewTask THEN "created" ELSE at[t])
    BY <1>1 DEF Start, TaskInv, Types
  <2>3. Types'
    BY <1>1, <2>1 DEF Start, TaskInv, Types, Await
  <2>4. \A t \in Tasks : WaitedFor(t)' <=> WaitedFor(t)
    BY <2>1 DEF WaitedFor
  <2>5. \A t \in Tasks \ {NewTask} : (Alive(t)' => WaitedFor(t)) /\ ~LeftAlone(t)'
    BY <2>1, <2>2 DEF TaskInv, Accounted, OneConnection, Alive, Ended, LeftAlone
  <2> QED
    BY <2>1, <2>3, <2>4, <2>5 DEF TaskInv, Accounted, OneConnection
<1>2. ASSUME NEW c \in StopCalls, Stop(c)
      PROVE  TaskInv'
  <2>1. /\ running' = FALSE /\ UNCHANGED <<wsTask, at>> /\ stopCall[c] = "idle"
    BY <1>2 DEF Stop, taskVars
  <2>2. \A t \in Tasks : Alive(t)' <=> Alive(t)
    BY <2>1 DEF Alive, Ended
  <2>3. CASE wsTask = NoTask
    <3>1. \A t \in Tasks : t # wsTask
      BY <2>3, ScannerAssumption DEF Tasks
    <3>2. stopCall' = [stopCall EXCEPT ![c] = "returned"] /\ UNCHANGED <<awaited, cancelled>>
      BY <1>2, <2>3 DEF Stop
    <3>3. \A t \in Tasks : WaitedFor(t) => WaitedFor(t)'
      BY <2>1, <3>2 DEF WaitedFor, TaskInv, Types
    <3>4. Types'
      BY <2>1, <3>2 DEF TaskInv, Types
    <3> QED
      BY <2>1, <2>2, <3>1, <3>2, <3>3, <3>4 DEF TaskInv, Accounted, OneConnection, LeftAlone
  <2>4. CASE wsTask # NoTask
    <3>1. /\ wsTask \in Tasks /\ Cancel(wsTask)
          /\ stopCall' = [stopCall EXCEPT ![c] = "waiting"]
          /\ awaited' = [awaited EXCEPT ![c] = wsTask]
      BY <1>2, <2>4 DEF Stop, TaskInv, Types
    <3>2. \A t \in Tasks : WaitedFor(t) => WaitedFor(t)'
      BY <2>1, <3>1 DEF WaitedFor, TaskInv, Types
    <3>3. WaitedFor(wsTask)'
      BY <2>1, <3>1 DEF WaitedFor, TaskInv, Types
    <3>4. Types'
      BY <2>1, <3>1 DEF TaskInv, Types
    <3>5. \A t \in Tasks : ~LeftAlone(t)'
      BY <2>2, <3>1 DEF Cancel, TaskInv, OneConnection, LeftAlone, Alive, Ended
    <3>6. \A t \in Tasks : Alive(t)' => WaitedFor(t)'
      BY <2>1, <2>2, <3>2, <3>3 DEF TaskInv, Accounted
    <3> QED
      BY <3>4, <3>5, <3>6 DEF TaskInv, Accounted, OneConnection
  <2> QED
    BY <2>3, <2>4
<1>3. ASSUME NEW c \in StopCalls, StopReturns(c)
      PROVE  TaskInv'
  <2>1. /\ Ended(awaited[c]) /\ UNCHANGED <<running, wsTask, at, cancelled>>
        /\ stopCall' = [stopCall EXCEPT ![c] = IF at[awaited[c]] = "done" THEN "returned" ELSE "raised"]
        /\ awaited' = [awaited EXCEPT ![c] = NoTask]
    BY <1>3 DEF StopReturns, taskVars
  <2>2. \A t \in Tasks : Alive(t) /\ WaitedFor(t) => WaitedFor(t)'
    BY <2>1 DEF Alive, Ended, WaitedFor, TaskInv, Types
  <2>3. \A t \in Tasks : (Alive(t)' <=> Alive(t)) /\ (LeftAlone(t)' <=> LeftAlone(t))
    BY <2>1 DEF Alive, Ended, LeftAlone
  <2>4. Types'
    BY <2>1 DEF TaskInv, Types
  <2> QED
    BY <2>1, <2>2, <2>3, <2>4 DEF TaskInv, Accounted, OneConnection
<1>4. ASSUME UNCHANGED <<running, wsTask, at, stopVars>>, cancelled \subseteq cancelled'
      PROVE  TaskInv'
  <2>1. \A t \in Tasks : /\ (Alive(t)' <=> Alive(t)) /\ (LeftAlone(t)' => LeftAlone(t))
                         /\ (WaitedFor(t)' <=> WaitedFor(t))
    BY <1>4 DEF Alive, Ended, LeftAlone, WaitedFor, stopVars
  <2>2. Types'
    BY <1>4 DEF TaskInv, Types, stopVars
  <2> QED
    BY <1>4, <2>1, <2>2 DEF TaskInv, Accounted, OneConnection
<1>5. CASE \E s \in Streams : Subscribe(s) \/ Unsubscribe(s)
  BY <1>4, <1>5 DEF Subscribe, Unsubscribe, Cancel, taskVars
<1>6. CASE \E t \in Tasks : Continue(t) \/ Lose(t)
  BY <1>6, ContinueStep
<1>7. ASSUME NEW t \in Tasks, NEW s \in Streams, NEW stamp \in 1..MaxStamp, Process(t, s, stamp)
      PROVE  TaskInv'
  <2>1. "publishing" \in Await
    BY DEF Await
  <2> QED
    BY <1>7, <2>1, TaskStep DEF Process, Suspended, Alive, Ended
<1>8. CASE UNCHANGED vars
  BY <1>4, <1>8 DEF vars, taskVars
<1> QED
  BY <1>1, <1>2, <1>3, <1>5, <1>6, <1>7, <1>8 DEF Next

LEMMA TaskInductive == Spec => []TaskInv
BY TaskInit, TaskNext, PTL DEF Spec

-----------------------------------------------------------------------------
(* Doubling: the recursive function is the one its equation describes.  An
   induction is an argument about the least number for which a statement fails. *)

\* A set of natural numbers has a least element.
LEMMA LeastNat ==
  ASSUME NEW T \in SUBSET Nat, T # {}
  PROVE  \E m \in T : \A n \in T : m <= n
<1>1. IsWellFoundedOn(OpToRel(<, Nat), Nat)
  BY NatLessThanWellFounded
<1>2. PICK m \in T : \A n \in T : <<n, m>> \notin OpToRel(<, Nat)
  BY <1>1, WFMin
<1>3. \A n \in T : ~(n < m)
  BY <1>2 DEF OpToRel
<1> QED
  BY <1>3

\* f doubles from 1 on, up to n.
Doubles(n, f) == f = [i \in 0..n |-> IF i = 0 THEN 1 ELSE 2 * f[i - 1]]

LEMMA DoublesAt ==
  ASSUME NEW n, NEW f, Doubles(n, f), NEW i \in 0..n
  PROVE  f[i] = IF i = 0 THEN 1 ELSE 2 * f[i - 1]
BY Zenon DEF Doubles

\* There is such a function, and it has one value at each number.
LEMMA DoublesExists == ASSUME NEW n \in Nat PROVE \E f : Doubles(n, f)
<1> DEFINE Bad == {k \in Nat : ~\E f : Doubles(k, f)}
<1>1. Bad = {}
  <2> SUFFICES ASSUME Bad # {} PROVE FALSE
    OBVIOUS
  <2>1. PICK k \in Bad : \A m \in Bad : k <= m
    BY LeastNat
  <2>2. CASE k = 0
    <3> DEFINE one == [i \in 0..0 |-> 1]
    <3>1. Doubles(0, one)
      BY DEF Doubles
    <3> QED
      BY <2>2, <3>1
  <2>3. CASE k # 0
    <3>1. k - 1 \in Nat /\ k - 1 \notin Bad
      BY <2>1, <2>3
    <3>2. PICK f : Doubles(k - 1, f)
      BY <3>1
    <3> DEFINE g == [i \in 0..k |-> IF i = 0 THEN 1 ELSE 2 * f[i - 1]]
    <3>3. \A i \in 0..(k - 1) : g[i] = f[i]
      BY <3>1, <3>2, DoublesAt
    <3> HIDE DEF g
    <3>4. \A i \in 0..k : i # 0 => g[i - 1] = f[i - 1]
      BY <3>1, <3>3
    <3> USE DEF g
    <3>5. Doubles(k, g)
      BY <3>4 DEF Doubles
    <3> QED
      BY <2>1, <3>5
  <2> QED
    BY <2>2, <2>3
<1> QED
  BY <1>1

LEMMA DoublesUnique ==
  ASSUME NEW m \in Nat, NEW n \in Nat, m <= n, NEW f, Doubles(m, f), NEW g, Doubles(n, g)
  PROVE  \A i \in 0..m : f[i] = g[i] /\ f[i] \in Nat
<1> DEFINE Bad == {i \in Nat : i <= m /\ ~(f[i] = g[i] /\ f[i] \in Nat)}
<1>1. Bad = {}
  <2> SUFFICES ASSUME Bad # {} PROVE FALSE
    OBVIOUS
  <2>1. PICK i \in Bad : \A j \in Bad : i <= j
    BY LeastNat
  <2>2. i \in 0..m /\ i \in 0..n
    BY <2>1
  <2>3. /\ f[i] = IF i = 0 THEN 1 ELSE 2 * f[i - 1]
        /\ g[i] = IF i = 0 THEN 1 ELSE 2 * g[i - 1]
    BY <2>2, DoublesAt
  <2>4. CASE i = 0
    BY <2>1, <2>3, <2>4
  <2>5. CASE i # 0
    <3>1. i - 1 \in Nat /\ i - 1 <= m /\ i - 1 \notin Bad
      BY <2>1, <2>2, <2>5
    <3>2. f[i - 1] = g[i - 1] /\ f[i - 1] \in Nat
      BY <3>1
    <3>3. f[i] = 2 * f[i - 1] /\ g[i] = 2 * g[i - 1]
      BY <2>3, <2>5
    <3>4. f[i] = g[i] /\ f[i] \in Nat
      BY <3>2, <3>3
    <3> QED
      BY <2>1, <3>4
  <2> QED
    BY <2>4, <2>5
<1> QED
  BY <1>1

LEMMA DoublingWorks ==
  /\ DoubledOften[0] = 1
  /\ \A n \in Nat : DoubledOften[n] \in Nat /\ DoubledOften[n + 1] = 2 * DoubledOften[n]
<1> DEFINE G(n) == CHOOSE f : Doubles(n, f)
           h == [n \in Nat |-> G(n)[n]]
<1>1. \A n \in Nat : Doubles(n, G(n))
  BY DoublesExists
<1> HIDE DEF G
<1>2. \A n \in Nat : G(n)[n] \in Nat /\ G(n)[n] = IF n = 0 THEN 1 ELSE 2 * G(n)[n - 1]
  BY <1>1, DoublesAt, DoublesUnique
<1>3. \A n \in Nat : n # 0 => G(n)[n - 1] = G(n - 1)[n - 1]
  <2> SUFFICES ASSUME NEW n \in Nat, n # 0 PROVE G(n)[n - 1] = G(n - 1)[n - 1]
    OBVIOUS
  <2>1. n - 1 \in Nat /\ n - 1 <= n /\ n - 1 \in 0..(n - 1)
    OBVIOUS
  <2> QED
    BY <1>1, <2>1, DoublesUnique
<1>4. h = [n \in Nat |-> IF n = 0 THEN 1 ELSE 2 * h[n - 1]]
  BY <1>2, <1>3
<1>5. DoubledOften = [n \in Nat |-> IF n = 0 THEN 1 ELSE 2 * DoubledOften[n - 1]]
  BY <1>4, Zenon DEF DoubledOften
<1>6. \A n \in Nat : DoubledOften[n] = IF n = 0 THEN 1 ELSE 2 * DoubledOften[n - 1]
  BY <1>5, Zenon
<1> DEFINE Bad == {n \in Nat : DoubledOften[n] \notin Nat}
<1>7. Bad = {}
  <2> SUFFICES ASSUME Bad # {} PROVE FALSE
    OBVIOUS
  <2>1. PICK n \in Bad : \A m \in Bad : n <= m
    BY LeastNat
  <2>2. CASE n = 0
    BY <1>6, <2>1, <2>2
  <2>3. CASE n # 0
    <3>1. n - 1 \in Nat /\ n - 1 \notin Bad
      BY <2>1, <2>3
    <3>2. DoubledOften[n - 1] \in Nat /\ DoubledOften[n] = 2 * DoubledOften[n - 1]
      BY <1>6, <2>3, <3>1
    <3> QED
      BY <2>1, <3>2
  <2> QED
    BY <2>2, <2>3
<1>8. \A n \in Nat : n + 1 # 0 /\ n + 1 \in Nat /\ (n + 1) - 1 = n
  OBVIOUS
<1>9. ASSUME NEW n \in Nat PROVE DoubledOften[n + 1] = 2 * DoubledOften[n]
  <2>1. DoubledOften[n + 1] = 2 * DoubledOften[(n + 1) - 1]
    BY <1>6, <1>8, Zenon
  <2> QED
    BY <1>8, <2>1
<1> QED
  BY <1>6, <1>7, <1>9

-----------------------------------------------------------------------------
(* Types *)

\* The part of TypeOK that is about tasks, with the current task being a created one.
CancelInv ==
  /\ cancelled \subseteq {t \in Tasks : Alive(t)}
  /\ wsTask # NoTask => at[wsTask] # "none"

\* The delay before the next attempt.
Delay(n)   == IF DoubledOften[n] < MaxBackoff THEN DoubledOften[n] ELSE MaxBackoff
BackoffInv == lost \in [Tasks -> Nat] /\ backoff \in [Tasks -> Nat]
              /\ \A t \in Tasks : backoff[t] = Delay(lost[t])

DataInv ==
  /\ subs \subseteq Streams
  /\ cache \in [Streams -> 0..MaxStamp]
  /\ latest \in [Streams -> 0..MaxStamp]
  /\ payload \in [Tasks -> SUBSET Streams]

LEMMA DelayRight ==
  ASSUME NEW n \in Nat
  PROVE  /\ Delay(n) \in Nat /\ Delay(0) = 1
         /\ Delay(n) < MaxBackoff => Doubled(Delay(n)) = Delay(n + 1)
         /\ ~(Delay(n) < MaxBackoff) => Doubled(Delay(n)) = Delay(n)
<1>1. DoubledOften[0] = 1 /\ DoubledOften[n] \in Nat /\ DoubledOften[n + 1] = 2 * DoubledOften[n]
  BY DoublingWorks
<1>2. MaxBackoff \in Nat \ {0}
  BY ScannerAssumption
<1> QED
  BY <1>1, <1>2 DEF Delay, Doubled

LEMMA TypesInit == Init => CancelInv /\ BackoffInv /\ DataInv
<1> SUFFICES ASSUME Init
             PROVE  CancelInv /\ BackoffInv /\ DataInv
  OBVIOUS
<1>1. CancelInv
  BY DEF Init, CancelInv
<1>2. BackoffInv
  BY DelayRight DEF Init, BackoffInv
<1>3. DataInv
  BY ScannerAssumption DEF Init, DataInv
<1> QED
  BY <1>1, <1>2, <1>3

LEMMA CancelStep == TaskInv /\ CancelInv /\ [Next]_vars => CancelInv'
<1> SUFFICES ASSUME TaskInv, CancelInv, [Next]_vars
             PROVE  CancelInv'
  OBVIOUS
<1>0. /\ at \in [Tasks -> Await] /\ wsTask \in Tasks \cup {NoTask} /\ NoTask \notin Tasks
      /\ cancelled \subseteq {t \in Tasks : Alive(t)}
      /\ wsTask # NoTask => at[wsTask] # "none"
  BY ScannerAssumption DEF TaskInv, Types, CancelInv, Tasks
<1>1. ASSUME NEW t \in Tasks, NEW label \in Await \ {"none"}, Goto(t, label), Suspended(t, at[t]),
             UNCHANGED <<wsTask, cancelled>>
      PROVE  CancelInv'
  <2>1. \A u \in Tasks : at'[u] = (IF u = t THEN label ELSE at[u])
    BY <1>0, <1>1 DEF Goto
  <2>2. \A u \in cancelled : u # t /\ at'[u] = at[u]
    BY <1>0, <1>1, <2>1 DEF Suspended
  <2> QED
    BY <1>0, <1>1, <2>1, <2>2 DEF CancelInv, Alive, Ended
<1>2. ASSUME UNCHANGED <<wsTask, at>>,
             cancelled' = cancelled \/ (wsTask # NoTask /\ Cancel(wsTask))
      PROVE  CancelInv'
  <2>1. CASE cancelled' = cancelled
    BY <1>0, <1>2, <2>1 DEF CancelInv, Alive, Ended
  <2>2. CASE wsTask # NoTask /\ Cancel(wsTask)
    <3>1. cancelled' = cancelled \cup ({wsTask} \ {u \in Tasks : Ended(u)})
      BY <2>2 DEF Cancel
    <3>2. \A u \in cancelled' : u \in Tasks /\ Alive(u)
      BY <1>0, <2>2, <3>1 DEF Alive, Ended
    <3> QED
      BY <1>0, <1>2, <3>2 DEF CancelInv, Alive, Ended
  <2> QED
    BY <1>2, <2>1, <2>2
<1>3. CASE Start
  <2>1. /\ NewTask \in Tasks /\ wsTask' = NewTask /\ cancelled' = cancelled
        /\ at' = [at EXCEPT ![NewTask] = "created"]
    BY <1>3 DEF Start
  <2>2. \A u \in Tasks : at'[u] = (IF u = NewTask THEN "created" ELSE at[u])
    BY <1>0, <2>1
  <2> QED
    BY <1>0, <2>1, <2>2 DEF CancelInv, Alive, Ended
<1>4. ASSUME NEW c \in StopCalls, Stop(c) \/ StopReturns(c)
      PROVE  CancelInv'
  <2>1. UNCHANGED <<wsTask, at>>
    BY <1>4 DEF Stop, StopReturns, taskVars
  <2>2. cancelled' = cancelled \/ (wsTask # NoTask /\ Cancel(wsTask))
    BY <1>4 DEF Stop, StopReturns
  <2> QED
    BY <1>2, <2>1, <2>2
<1>5. ASSUME NEW s \in Streams, Subscribe(s) \/ Unsubscribe(s)
      PROVE  CancelInv'
  <2>1. UNCHANGED <<wsTask, at>>
    BY <1>5 DEF Subscribe, Unsubscribe, taskVars
  <2>2. cancelled' = cancelled \/ (wsTask # NoTask /\ Cancel(wsTask))
    BY <1>5 DEF Subscribe, Unsubscribe
  <2> QED
    BY <1>2, <2>1, <2>2
<1>6. ASSUME NEW t \in Tasks, CancelDelivered(t)
      PROVE  CancelInv'
  <2>1. /\ at' = [at EXCEPT ![t] = "done"] /\ cancelled' = cancelled \ {t} /\ wsTask' = wsTask
    BY <1>6 DEF CancelDelivered, Goto
  <2>2. \A u \in Tasks : at'[u] = (IF u = t THEN "done" ELSE at[u])
    BY <1>0, <2>1
  <2> QED
    BY <1>0, <2>1, <2>2 DEF CancelInv, Alive, Ended
<1>7. ASSUME NEW t \in Tasks, Looped(t) \/ Retry(t)
      PROVE  CancelInv'
  <2>1. PICK label \in Await \ {"none"} : Goto(t, label)
    BY <1>7 DEF Looped, Retry, Head, Await
  <2>2. Suspended(t, at[t]) /\ UNCHANGED <<wsTask, cancelled>>
    BY <1>7 DEF Looped, Retry, Suspended
  <2> QED
    BY <1>1, <2>1, <2>2
<1>8. ASSUME NEW t \in Tasks,
             Dial(t) \/ Connected(t) \/ Send(t) \/ Sent(t) \/ Published(t) \/ BackOff(t)
             \/ Crash(t)
      PROVE  CancelInv'
  <2>1. PICK label \in Await \ {"none"} : Goto(t, label)
    BY <1>8 DEF Dial, Connected, Send, Sent, Published, BackOff, Crash, Step, Await
  <2>2. Suspended(t, at[t]) /\ UNCHANGED <<wsTask, cancelled>>
    BY <1>8 DEF Dial, Connected, Send, Sent, Published, BackOff, Crash, Step, Suspended
  <2> QED
    BY <1>1, <2>1, <2>2
<1>9. ASSUME NEW t \in Tasks, Lose(t)
      PROVE  CancelInv'
  <2>1. PICK label \in Await \ {"none"} : Goto(t, label)
    BY <1>9 DEF Lose, Await
  <2>2. Suspended(t, at[t]) /\ UNCHANGED <<wsTask, cancelled>>
    BY <1>9 DEF Lose, Suspended
  <2> QED
    BY <1>1, <2>1, <2>2
<1>10. ASSUME NEW t \in Tasks, NEW s \in Streams, NEW stamp \in 1..MaxStamp, Process(t, s, stamp)
       PROVE  CancelInv'
  <2>1. "publishing" \in Await \ {"none"}
    BY DEF Await
  <2>2. Suspended(t, at[t]) /\ Goto(t, "publishing") /\ UNCHANGED <<wsTask, cancelled>>
    BY <1>10 DEF Process, Suspended
  <2> QED
    BY <1>1, <2>1, <2>2
<1>11. CASE UNCHANGED vars
  <2>1. UNCHANGED <<wsTask, at, cancelled>>
    BY <1>11 DEF vars, taskVars
  <2> QED
    BY <1>2, <2>1
<1> QED
  BY <1>3, <1>4, <1>5, <1>6, <1>7, <1>8, <1>9, <1>10, <1>11 DEF Next, Continue

LEMMA BackoffStep == BackoffInv /\ [Next]_vars => BackoffInv'
<1> SUFFICES ASSUME BackoffInv, [Next]_vars
             PROVE  BackoffInv'
  OBVIOUS
<1>0. Delay(0) = 1
  BY DelayRight
<1>1. ASSUME UNCHANGED <<backoff, lost>>
      PROVE  BackoffInv'
  BY <1>1 DEF BackoffInv
<1>2. ASSUME NEW t \in Tasks, backoff' = [backoff EXCEPT ![t] = 1], lost' = [lost EXCEPT ![t] = 0]
      PROVE  BackoffInv'
  BY <1>0, <1>2 DEF BackoffInv
<1>3. ASSUME NEW t \in Tasks, Retry(t)
      PROVE  BackoffInv'
  <2>1. /\ backoff' = [backoff EXCEPT ![t] = Doubled(backoff[t])]
        /\ lost' = [lost EXCEPT ![t] = IF backoff[t] < MaxBackoff THEN lost[t] + 1 ELSE lost[t]]
    BY <1>3 DEF Retry
  <2>2. lost[t] \in Nat /\ backoff[t] = Delay(lost[t])
    BY DEF BackoffInv
  <2>3. Doubled(backoff[t]) = Delay(IF backoff[t] < MaxBackoff THEN lost[t] + 1 ELSE lost[t])
    BY <2>2, DelayRight
  <2>4. Doubled(backoff[t]) \in Nat
    BY <2>2, <2>3, DelayRight
  <2> QED
    BY <2>1, <2>2, <2>3, <2>4 DEF BackoffInv
<1>4. CASE Start \/ \E c \in StopCalls : Stop(c) \/ StopReturns(c)
  BY <1>1, <1>4 DEF Start, Stop, StopReturns, taskVars
<1>5. CASE \E s \in Streams : Subscribe(s) \/ Unsubscribe(s)
  BY <1>1, <1>5 DEF Subscribe, Unsubscribe, taskVars
<1>6. ASSUME NEW t \in Tasks, Send(t) \/ CancelDelivered(t)
      PROVE  BackoffInv'
  BY <1>2, <1>6 DEF Send, CancelDelivered
<1>7. ASSUME NEW t \in Tasks, Looped(t) \/ Dial(t) \/ Connected(t) \/ Sent(t) \/ Published(t)
                               \/ BackOff(t) \/ Crash(t) \/ Lose(t)
      PROVE  BackoffInv'
  BY <1>1, <1>7 DEF Looped, Dial, Connected, Sent, Published, BackOff, Crash, Step, Lose
<1>8. CASE \E t \in Tasks, s \in Streams, stamp \in 1..MaxStamp : Process(t, s, stamp)
  BY <1>1, <1>8 DEF Process
<1>9. CASE UNCHANGED vars
  BY <1>1, <1>9 DEF vars, taskVars
<1> QED
  BY <1>3, <1>4, <1>5, <1>6, <1>7, <1>8, <1>9 DEF Next, Continue

LEMMA DataStep == DataInv /\ [Next]_vars => DataInv'
<1> SUFFICES ASSUME DataInv, [Next]_vars
             PROVE  DataInv'
  OBVIOUS
<1>1. ASSUME UNCHANGED <<subs, eventVars, payload>>
      PROVE  DataInv'
  BY <1>1 DEF DataInv, eventVars
<1>2. CASE Start \/ \E c \in StopCalls : Stop(c) \/ StopReturns(c)
  BY <1>1, <1>2 DEF Start, Stop, StopReturns, taskVars
<1>3. CASE \E s \in Streams : Subscribe(s) \/ Unsubscribe(s)
  BY <1>3 DEF Subscribe, Unsubscribe, taskVars, eventVars, DataInv
<1>4. ASSUME NEW t \in Tasks, Looped(t) \/ Retry(t)
      PROVE  DataInv'
  BY <1>4 DEF Looped, Retry, Head, DataInv, eventVars
<1>5. ASSUME NEW t \in Tasks, CancelDelivered(t)
      PROVE  DataInv'
  BY <1>5 DEF CancelDelivered, DataInv, eventVars
<1>6. ASSUME NEW t \in Tasks, Send(t) \/ Dial(t) \/ Connected(t) \/ Sent(t) \/ Published(t)
                               \/ BackOff(t) \/ Crash(t) \/ Lose(t)
      PROVE  DataInv'
  BY <1>1, <1>6 DEF Send, Dial, Connected, Sent, Published, BackOff, Crash, Step, Lose
<1>7. ASSUME NEW t \in Tasks, NEW s \in Streams, NEW stamp \in 1..MaxStamp, Process(t, s, stamp)
      PROVE  DataInv'
  BY <1>7, ScannerAssumption DEF Process, DataInv
<1>8. CASE UNCHANGED vars
  BY <1>1, <1>8 DEF vars, taskVars
<1> QED
  BY <1>2, <1>3, <1>4, <1>5, <1>6, <1>7, <1>8 DEF Next, Continue

-----------------------------------------------------------------------------
(* Theorems *)

\* Every variable has its type; only tasks that are alive are cancelled, and the
\* delay before an attempt doubles with each attempt since the last connection, up
\* to its maximum (scanner.py:96-128).
THEOREM TypeCorrect == Spec => []TypeOK
<1>1. CancelInv /\ TaskInv /\ [Next]_vars => CancelInv'
  BY CancelStep
<1>2. TaskInv /\ CancelInv /\ BackoffInv /\ DataInv => TypeOK
  BY DEF TaskInv, Types, CancelInv, BackoffInv, DataInv, Delay, TypeOK
<1> QED
  BY TypesInit, TaskInit, TaskNext, <1>1, BackoffStep, DataStep, <1>2, PTL DEF Spec

\* However starts, stops and subscriptions overlap, one task at most goes on, the
\* current one of a running scanner (scanner.py:38-73).
THEOREM SingleConnection == Spec => []OneConnection
BY TaskInductive, PTL DEF TaskInv

\* When stop calls have returned and no start came since, no task is left.
THEOREM StopJoinsTask == Spec => []StopStops
<1>1. TaskInv => StopStops
  BY DEF TaskInv, Accounted, WaitedFor, StopStops
<1> QED
  BY TaskInductive, <1>1, PTL

\* No event reaches the bus after a newer one of its stream, across reconnections
\* and restarts (cache.py:26-33).
THEOREM InTimeOrder == Spec => NeverBackwards
<1>1. Init => CacheInv
  BY DEF Init, CacheInv
<1>2. CacheInv /\ [Next]_vars => CacheInv' /\ \A s \in Streams : latest'[s] >= latest[s]
  <2> SUFFICES ASSUME CacheInv, [Next]_vars
               PROVE  CacheInv' /\ \A s \in Streams : latest'[s] >= latest[s]
    OBVIOUS
  <2>1. ASSUME NEW t \in Tasks, NEW s \in Streams, NEW stamp \in 1..MaxStamp, Process(t, s, stamp)
        PROVE  CacheInv' /\ \A u \in Streams : latest'[u] >= latest[u]
    BY <2>1, ScannerAssumption DEF Process, Accepts, CacheInv
  <2>2. ASSUME UNCHANGED eventVars
        PROVE  CacheInv' /\ \A u \in Streams : latest'[u] >= latest[u]
    BY <2>2 DEF eventVars, CacheInv
  <2>3. CASE Start \/ \E c \in StopCalls : Stop(c) \/ StopReturns(c)
    BY <2>2, <2>3 DEF Start, Stop, StopReturns
  <2>4. CASE \E s \in Streams : Subscribe(s) \/ Unsubscribe(s)
    BY <2>2, <2>4 DEF Subscribe, Unsubscribe
  <2>5. ASSUME NEW t \in Tasks, Continue(t) \/ Lose(t)
        PROVE  UNCHANGED eventVars
    BY <2>5 DEF Continue, Looped, Dial, Connected, Published, Sent, BackOff, Crash, Step, Send, Retry,
                CancelDelivered, Lose
  <2>6. CASE UNCHANGED vars
    BY <2>2, <2>6 DEF vars
  <2> QED
    BY <2>1, <2>2, <2>3, <2>4, <2>5, <2>6 DEF Next
<1>3. CacheInv /\ [Next]_vars => [\A s \in Streams : latest'[s] >= latest[s]]_vars
  BY <1>2
<1> QED
  BY <1>1, <1>2, <1>3, PTL DEF Spec, NeverBackwards
=============================================================================
