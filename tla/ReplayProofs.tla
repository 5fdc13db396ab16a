---------------------------- MODULE ReplayProofs ----------------------------
(***************************************************************************)
(* Theorems about Replay, for any number of sources of any length and any  *)
(* bound on a sleep.                                                       *)
(***************************************************************************)
EXTENDS Replay, WellFoundedInduction, TLAPS

-----------------------------------------------------------------------------
\* Candles and their order

\* A set of natural numbers has a least element.
LEMMA LeastNat ==
  ASSUME NEW T \in SUBSET Nat, T # {}
  PROVE  \E m \in T : \A n \in T : m <= n
<1>1. IsWellFoundedOn(OpToRel(<, Nat), Nat)
  BY NatLessThanWellFounded
<1>2. PICK m \in T : \A n \in T : <<n, m>> \notin OpToRel(<, Nat)
  BY <1>1, WFMin
<1>3. \A n \in T : ~(n < m)
  BY <1>2 DEF OpToRel
<1> QED
  BY <1>3

\* Candles are pairs of a source and a position in it; their timestamps and the
\* numbers of the sources are natural.
LEMMA CandleFacts ==
  /\ Sources \subseteq Nat
  /\ \A s \in Sources : Candles[s] \in Seq(Nat) /\ Len(Candles[s]) \in Nat
  /\ \A c \in Candle : /\ c[1] \in Sources
                       /\ c[2] \in 1..Len(Candles[c[1]])
                       /\ c = <<c[1], c[2]>>
                       /\ Stamp(c) \in Nat
  /\ \A s \in Sources : \A i \in 1..Len(Candles[s]) : <<s, i>> \in Candle
<1>1. Candles \in Seq(Seq(Nat))
  BY ReplayAssumption
<1>2. Sources \subseteq Nat /\ \A s \in Sources : Candles[s] \in Seq(Nat)
  BY <1>1 DEF Sources
<1>3. \A s \in Sources : DOMAIN Candles[s] = 1..Len(Candles[s]) /\ Len(Candles[s]) \in Nat
  BY <1>2
<1>4. \A c \in Candle : \E s \in Sources : \E i \in 1..Len(Candles[s]) : c = <<s, i>>
  BY <1>3 DEF Candle
<1>5. \A s \in Sources : \A i \in 1..Len(Candles[s]) : <<s, i>> \in Candle
  BY <1>3 DEF Candle
<1>6. \A s \in Sources : \A i \in 1..Len(Candles[s]) : Candles[s][i] \in Nat
  BY <1>2
<1> QED
  BY <1>2, <1>3, <1>4, <1>5, <1>6 DEF Stamp

\* Within a source, timestamps do not decrease.
LEMMA SourceOrder ==
  ASSUME NEW c \in Candle, NEW d \in Candle, c[1] = d[1], c[2] < d[2]
  PROVE  Stamp(c) <= Stamp(d)
BY CandleFacts, ReplayAssumption DEF Stamp, Sources

\* Before is a strict order.
LEMMA BeforeIsStrict ==
  ASSUME NEW c \in Candle, NEW d \in Candle, Before(c, d)
  PROVE  ~Before(d, c)
BY CandleFacts DEF Before

\* The merge picks a candle it has in hand, and no other comes before it.
LEMMA EarliestFacts ==
  ASSUME NEW nx, NextItems(nx) # {}
  PROVE  /\ Earliest(nx) \in NextItems(nx)
         /\ \A d \in NextItems(nx) :
              \/ Stamp(Earliest(nx)) < Stamp(d)
              \/ Stamp(Earliest(nx)) = Stamp(d) /\ Earliest(nx)[1] <= d[1]
<1> DEFINE Stamps == {Stamp(c) : c \in NextItems(nx)}
<1>1. NextItems(nx) \subseteq Candle
  BY DEF NextItems
<1>2. PICK m \in Stamps : \A n \in Stamps : m <= n
  <2>1. Stamps \in SUBSET Nat /\ Stamps # {}
    BY <1>1, CandleFacts
  <2> QED
    BY <2>1, LeastNat
<1> DEFINE Firsts == {c \in NextItems(nx) : Stamp(c) = m}
           Numbers == {c[1] : c \in Firsts}
<1>3. PICK k \in Numbers : \A n \in Numbers : k <= n
  <2>1. Numbers \in SUBSET Nat /\ Numbers # {}
    BY <1>1, <1>2, CandleFacts
  <2> QED
    BY <2>1, LeastNat
<1>4. PICK c \in Firsts : c[1] = k
  BY <1>3
<1>5. ASSUME NEW d \in NextItems(nx)
      PROVE  Stamp(c) < Stamp(d) \/ (Stamp(c) = Stamp(d) /\ c[1] <= d[1])
  <2>1. CASE Stamp(d) = m
    BY <2>1, <1>3, <1>4
  <2>2. CASE Stamp(d) # m
    <3>1. Stamp(d) \in Stamps /\ Stamp(d) \in Nat /\ m \in Nat
      BY <1>1, CandleFacts
    <3>2. m < Stamp(d) /\ Stamp(c) = m
      BY <3>1, <2>2, <1>2, <1>4
    <3> QED
      BY <3>2
  <2> QED
    BY <2>1, <2>2
<1>6. c \in NextItems(nx)
  BY <1>4
<1> QED
  BY <1>5, <1>6 DEF Earliest

-----------------------------------------------------------------------------
\* What a set of positions stands for

\* The candles the iterators have gone past.
Taken(nx) == {c \in Candle : c[2] < nx[c[1]]}

\* Every one of them comes before every other candle.
Ordered(nx) == \A c \in Taken(nx), d \in Candle \ Taken(nx) : Before(c, d)

LEMMA NoItemsLeft ==
  ASSUME NEW nx, Positions(nx), NextItems(nx) = {}
  PROVE  Taken(nx) = Candle
<1> SUFFICES ASSUME NEW c \in Candle, ~(c[2] < nx[c[1]]) PROVE FALSE
  BY DEF Taken
<1>1. nx[c[1]] \in 1..Len(Candles[c[1]])
  BY CandleFacts DEF Positions
<1>2. <<c[1], nx[c[1]]>> \in NextItems(nx)
  BY <1>1, CandleFacts DEF NextItems
<1> QED
  BY <1>2

\* The candle the merge picks comes before all that remain.
LEMMA EarliestIsFirst ==
  ASSUME NEW nx, Positions(nx), NextItems(nx) # {},
         NEW d \in Candle, d \notin Taken(nx), d # Earliest(nx)
  PROVE  Before(Earliest(nx), d)
<1> DEFINE e == Earliest(nx)
           h == <<d[1], nx[d[1]]>>
<1>1. nx[d[1]] \in 1..d[2]
  BY CandleFacts DEF Positions, Taken
<1>2. h \in Candle /\ h \in NextItems(nx)
  BY <1>1, CandleFacts DEF NextItems
<1>3. e \in Candle /\ e \in NextItems(nx)
  BY EarliestFacts DEF NextItems
<1>4. Stamp(e) < Stamp(h) \/ (Stamp(e) = Stamp(h) /\ e[1] <= h[1])
  BY <1>2, EarliestFacts
<1>5. CASE d = h
  <2>1. e[1] # d[1] \/ Stamp(e) < Stamp(h)
    BY <1>2, <1>3, <1>5, CandleFacts DEF NextItems
  <2> QED
    <3>1. Stamp(e) < Stamp(d) \/ (Stamp(e) = Stamp(d) /\ e[1] <= d[1])
      BY <1>4, <1>5
    <3>2. e[1] \in Nat /\ d[1] \in Nat
      BY <1>3, CandleFacts
    <3>3. e[1] # d[1] \/ Stamp(e) < Stamp(d)
      BY <1>5, <2>1
    <3> HIDE DEF e, h
    <3> QED
      BY <3>1, <3>2, <3>3 DEF Before, e
<1>6. CASE d # h
  <2>1. h[1] = d[1] /\ h[2] < d[2]
    BY <1>1, <1>6, CandleFacts
  <2>2. Stamp(h) <= Stamp(d)
    BY <1>2, <2>1, SourceOrder
  <2>3. e[1] = d[1] => e[2] < d[2]
    BY <1>3, <2>1 DEF NextItems
  <2> QED
    BY <1>2, <1>3, <1>4, <2>1, <2>2, <2>3, CandleFacts DEF Before
<1> QED
  BY <1>5, <1>6

\* Going past that candle takes it and leaves the rest in order.
LEMMA AdvanceTakes ==
  ASSUME NEW nx, Positions(nx), NextItems(nx) # {}, Ordered(nx)
  PROVE  /\ Positions(Advance(nx))
         /\ Taken(Advance(nx)) = Taken(nx) \cup {Earliest(nx)}
         /\ Earliest(nx) \in Candle \ Taken(nx)
         /\ Ordered(Advance(nx))
<1> DEFINE e == Earliest(nx)
           s == e[1]
<1>1. e \in Candle /\ nx[s] = e[2] /\ s \in Sources /\ e[2] \in 1..Len(Candles[s])
  BY EarliestFacts, CandleFacts DEF NextItems
<1>2. Advance(nx) = [nx EXCEPT ![s] = @ + 1]
  BY DEF Advance
<1>3. Positions(Advance(nx))
  BY <1>1, <1>2, CandleFacts DEF Positions
<1>4. ASSUME NEW c \in Candle
      PROVE  c[2] < Advance(nx)[c[1]] <=> (c[2] < nx[c[1]] \/ c = e)
  <2>1. CASE c[1] # s
    BY <1>1, <1>2, <2>1, CandleFacts DEF Positions
  <2>2. CASE c[1] = s
    <3>1. Advance(nx)[c[1]] = e[2] + 1 /\ nx[c[1]] = e[2]
      BY <1>1, <1>2, <2>2 DEF Positions
    <3>2. c = e <=> c[2] = e[2]
      BY <1>1, <2>2, CandleFacts
    <3>3. c[2] \in Nat /\ e[2] \in Nat
      BY <1>1, CandleFacts
    <3> HIDE DEF e, s
    <3> QED
      BY <3>1, <3>2, <3>3
  <2> QED
    BY <2>1, <2>2
<1>5. Taken(Advance(nx)) = Taken(nx) \cup {e}
  BY <1>1, <1>4 DEF Taken
<1>6. e \in Candle \ Taken(nx)
  BY <1>1, CandleFacts DEF Taken
<1>7. ASSUME NEW c \in Taken(Advance(nx)), NEW d \in Candle \ Taken(Advance(nx))
      PROVE  Before(c, d)
  <2>1. CASE c = e
    BY <1>5, <2>1, EarliestIsFirst
  <2>2. CASE c # e
    BY <1>5, <2>2 DEF Ordered
  <2> QED
    BY <2>1, <2>2
<1> QED
  BY <1>3, <1>5, <1>6, <1>7 DEF Ordered

-----------------------------------------------------------------------------
\* Publishing the candle that was waited for keeps the order.
LEMMA PublishKeepsOrder ==
  ASSUME NEW nx, Positions(nx), NextItems(nx) # {}, Ordered(nx), Shown = Taken(nx),
         published \in Seq(Candle), InOrder, published' = Append(published, Earliest(nx))
  PROVE  /\ published' \in Seq(Candle)
         /\ InOrder'
         /\ NoneSkipped'
         /\ Shown' = Taken(Advance(nx))
         /\ Ordered(Advance(nx))
         /\ Positions(Advance(nx))
<1> DEFINE e == Earliest(nx)
           n == Len(published)
<1>1. e \in Candle \ Taken(nx) /\ Taken(Advance(nx)) = Taken(nx) \cup {e}
  BY AdvanceTakes
<1>2. /\ published' \in Seq(Candle)
      /\ DOMAIN published' = 1..(n + 1) /\ DOMAIN published = 1..n /\ n \in Nat
      /\ published'[n + 1] = e
      /\ \A i \in 1..n : published'[i] = published[i]
  BY <1>1
<1>3. Shown' = Shown \cup {e}
  <2>1. Shown' = {published'[i] : i \in 1..(n + 1)} /\ Shown = {published[i] : i \in 1..n}
    BY <1>2 DEF Shown
  <2>2. 1..(n + 1) = 1..n \cup {n + 1}
    BY <1>2
  <2> HIDE DEF n, e
  <2> QED
    BY <1>2, <2>1, <2>2
<1>4. InOrder'
  <2> SUFFICES ASSUME NEW i \in 1..(n + 1), NEW j \in 1..(n + 1), i < j
               PROVE  Before(published'[i], published'[j])
    BY <1>2 DEF InOrder, Before, Stamp
  <2>1. CASE j \in 1..n
    BY <1>2, <2>1 DEF InOrder
  <2>2. CASE j = n + 1
    <3>1. published[i] \in Taken(nx)
      BY <1>2, <2>2 DEF Shown
    <3>2. Before(published[i], e)
      BY <1>1, <3>1 DEF Ordered
    <3> QED
      BY <1>2, <2>2, <3>2
  <2> QED
    BY <1>2, <2>1, <2>2
<1>5. Ordered(Advance(nx)) /\ Positions(Advance(nx))
  BY AdvanceTakes
<1>6. Shown' = Taken(Advance(nx))
  BY <1>1, <1>3
<1>7. ASSUME NEW c \in Candle, NEW d \in Shown', Before(c, d)
      PROVE  c \in Shown'
  BY <1>5, <1>6, <1>7, BeforeIsStrict DEF Ordered, Taken
<1> QED
  BY <1>2, <1>4, <1>5, <1>6, <1>7 DEF NoneSkipped, Before, Stamp

\* The inductive invariant: what has been published is what the iterators have
\* gone past, or, during a publish, will have gone past after it.

\* Types of what Pace and Publish write.
PaceTypes ==
  /\ at \in Await
  /\ baseline \in {Stamp(c) : c \in Candle} \cup {NoTime}
  /\ left \in 0..MaxChunks
  /\ at = "sleeping" => left > 0
  /\ published \in Seq(Candle)
  /\ passed \in Nat

\* The invariant but for the types of what a step of the task leaves alone.
WaitInv ==
  /\ PaceTypes
  /\ MergedInOrder
  /\ at \in {"created"} \cup Waiting => Shown = Taken(next) /\ Ordered(next)
  /\ at \in Waiting => NextItems(next) # {}
  /\ at = "publishing" => /\ NextItems(next) # {}
                          /\ Shown = Taken(Advance(next))
                          /\ Ordered(Advance(next))
                          /\ Positions(Advance(next))

\* The task may be about to wait for the first of what remains at nx.
Ready(nx) ==
  /\ Positions(nx) /\ Ordered(nx) /\ Shown = Taken(nx)
  /\ published \in Seq(Candle) /\ InOrder /\ NoneSkipped

\* Waiting leaves the order as it is.
LEMMA WaitKeepsOrder ==
  ASSUME published' = published
  PROVE  Shown' = Shown /\ (InOrder' <=> InOrder) /\ (NoneSkipped' <=> NoneSkipped)
BY DEF Shown, InOrder, NoneSkipped, Before, Stamp

LEMMA PublishStep ==
  ASSUME NEW nx, Ready(nx), NextItems(nx) # {}, next' = nx, Publish(Earliest(nx)),
         passed \in Nat, left' \in 0..MaxChunks,
         baseline' \in {Stamp(c) : c \in Candle} \cup {NoTime}
  PROVE  WaitInv' /\ at' = "publishing"
<1> USE DEF Ready
<1>1. /\ published' \in Seq(Candle) /\ InOrder' /\ NoneSkipped'
      /\ Shown' = Taken(Advance(nx)) /\ Ordered(Advance(nx)) /\ Positions(Advance(nx))
  BY PublishKeepsOrder DEF Publish
<1>2. at' = "publishing" /\ passed' \in Nat
  BY DEF Publish
<1>3. PaceTypes'
  BY <1>1, <1>2 DEF PaceTypes, Await, Stamp, Candle, Sources
<1>4. MergedInOrder'
  BY <1>1, <1>2 DEF MergedInOrder, Complete
<1>5. /\ NextItems(next)' # {} /\ Ordered(Advance(next))' /\ Positions(Advance(next))'
      /\ Shown' = Taken(Advance(next))'
  BY <1>1
<1> QED
  BY <1>2, <1>3, <1>4, <1>5 DEF WaitInv, Waiting

LEMMA WaitStep ==
  ASSUME NEW nx, Ready(nx), NextItems(nx) # {}, next' = nx, published' = published,
         passed' = passed, passed \in Nat, at' \in Waiting, left' \in 0..MaxChunks,
         at' = "sleeping" => left' > 0,
         baseline' \in {Stamp(c) : c \in Candle} \cup {NoTime}
  PROVE  WaitInv'
<1> USE DEF Ready
<1>1. Shown' = Shown /\ InOrder' /\ NoneSkipped'
  BY WaitKeepsOrder
<1>2. PaceTypes'
  BY DEF PaceTypes, Await, Stamp, Candle, Sources
<1>3. MergedInOrder'
  BY <1>1 DEF MergedInOrder, Complete, Waiting
<1>4. Shown' = Taken(next)' /\ Ordered(next)' /\ NextItems(next)' # {}
  BY <1>1 DEF Ordered, Taken, NextItems, Before, Stamp
<1> QED
  BY <1>2, <1>3, <1>4 DEF WaitInv, Waiting

LEMMA PaceStep ==
  ASSUME NEW nx, Ready(nx), NextItems(nx) # {}, next' = nx, PaceTypes, Pace(Earliest(nx))
  PROVE  WaitInv'
<1> DEFINE e == Earliest(nx)
<1>1. e \in Candle
  BY EarliestFacts DEF NextItems
<1>2. CASE fast /\ WaitIn("yielding") /\ UNCHANGED <<baseline, left>>
  BY <1>2, WaitStep DEF PaceTypes, WaitIn, Waiting
<1>3. CASE Publish(e) /\ baseline' = Stamp(e) /\ UNCHANGED left
  BY <1>1, <1>3, PublishStep DEF PaceTypes
<1>4. CASE Publish(e) /\ UNCHANGED <<baseline, left>>
  BY <1>4, PublishStep DEF PaceTypes
<1>5. CASE WaitIn("sleeping") /\ left' \in 1..MaxChunks /\ UNCHANGED baseline
  BY <1>5, WaitStep, ReplayAssumption DEF PaceTypes, WaitIn, Waiting
<1> QED
  BY <1>2, <1>3, <1>4, <1>5 DEF Pace

LEMMA LoopHeadStep ==
  ASSUME NEW nx, NEW isPaused, Ready(nx), PaceTypes, LoopHead(nx, isPaused),
         stopEvent' = stopEvent
  PROVE  WaitInv'
<1>1. CASE stopEvent \/ NextItems(nx) = {}
  <2>1. at' = "done" /\ published' = published /\ passed' = passed /\ left' = left
        /\ baseline' = NoTime
    BY <1>1 DEF LoopHead, Finish, FinishAs, WaitIn
  <2>2. Shown' = Shown /\ InOrder' /\ NoneSkipped'
    BY <2>1, WaitKeepsOrder DEF Ready
  <2>3. Complete'
    BY <1>1, <2>2, NoItemsLeft DEF Ready, Complete, Candle, Sources
  <2>4. PaceTypes'
    BY <2>1 DEF PaceTypes, Await, Stamp, Candle, Sources
  <2> QED
    BY <2>1, <2>2, <2>3, <2>4 DEF WaitInv, MergedInOrder, Waiting
<1>2. CASE ~(stopEvent \/ NextItems(nx) = {}) /\ isPaused
  <2>1. /\ next' = nx /\ at' = "paused" /\ published' = published /\ passed' = passed
        /\ baseline' = baseline /\ left' = left
    BY <1>2 DEF LoopHead, WaitFor, WaitIn
  <2> QED
    BY <1>2, <2>1, WaitStep DEF PaceTypes, Waiting
<1>3. CASE ~(stopEvent \/ NextItems(nx) = {}) /\ ~isPaused
  BY <1>3, PaceStep DEF LoopHead, WaitFor
<1> QED
  BY <1>1, <1>2, <1>3

-----------------------------------------------------------------------------
\* Every step keeps the invariant.

OtherTypes ==
  /\ cancelled \in BOOLEAN /\ isRunning \in BOOLEAN /\ stopEvent \in BOOLEAN
  /\ stepEvent \in BOOLEAN /\ paused \in BOOLEAN /\ fast \in BOOLEAN
  /\ Positions(next)
  /\ call \in {"play", "pause", "stop", "step"}
  /\ cancelled => Alive

\* Only stop cancels, and nothing clears its event while a task lives.
MergeInv == OtherTypes /\ WaitInv /\ (cancelled => stopEvent)

LEMMA TypesSplit == TypeOK <=> OtherTypes /\ PaceTypes
BY DEF TypeOK, OtherTypes, PaceTypes

\* Calls that leave the task where it is.
LEMMA FrameStep ==
  ASSUME WaitInv, UNCHANGED <<at, next, left, published>>, passed' \in Nat,
         baseline' \in {Stamp(c) : c \in Candle} \cup {NoTime},
         stopEvent' \/ stopEvent' = stopEvent
  PROVE  WaitInv'
<1>1. Shown' = Shown /\ (InOrder' <=> InOrder) /\ (NoneSkipped' <=> NoneSkipped)
  BY WaitKeepsOrder
<1>2. PaceTypes'
  BY DEF WaitInv, PaceTypes, Stamp, Candle, Sources
<1>3. MergedInOrder'
  BY <1>1 DEF WaitInv, MergedInOrder, Complete, Candle, Sources
<1>4. /\ Taken(next)' = Taken(next) /\ Ordered(next)' = Ordered(next)
      /\ NextItems(next)' = NextItems(next)
      /\ Taken(Advance(next))' = Taken(Advance(next))
      /\ Ordered(Advance(next))' = Ordered(Advance(next))
      /\ Positions(Advance(next))' = Positions(Advance(next))
  OBVIOUS
<1> QED
  BY <1>1, <1>2, <1>3, <1>4 DEF WaitInv

\* A new task has published nothing, and its iterators have gone past nothing.
LEMMA NewTaskStep ==
  ASSUME NewTask, passed' \in Nat,
         baseline' \in {Stamp(c) : c \in Candle} \cup {NoTime}
  PROVE  WaitInv' /\ Positions(next')
<1>1. /\ at' = "created" /\ left' = 0 /\ published' = <<>>
      /\ next' = [s \in Sources |-> 1]
  BY DEF NewTask
<1>2. Positions(next')
  BY <1>1, CandleFacts DEF Positions
<1>3. Shown' = {} /\ InOrder' /\ NoneSkipped'
  BY <1>1 DEF Shown, InOrder, NoneSkipped
<1>4. Taken(next') = {}
  BY <1>1, CandleFacts DEF Taken
<1>5. Ordered(next')
  BY <1>4 DEF Ordered
<1>6. PaceTypes'
  BY <1>1, ReplayAssumption DEF PaceTypes, Await, Stamp, Candle, Sources
<1> QED
  BY <1>1, <1>2, <1>3, <1>4, <1>5, <1>6 DEF WaitInv, MergedInOrder, Complete, Waiting

LEMMA InitMerge == Init => MergeInv
<1> SUFFICES ASSUME Init PROVE MergeInv
  OBVIOUS
<1> USE DEF Init
<1>1. Shown = {} /\ InOrder /\ NoneSkipped
  BY DEF Shown, InOrder, NoneSkipped
<1>2. PaceTypes
  BY ReplayAssumption DEF PaceTypes, Await
<1>3. OtherTypes
  <2>1. Positions(next)
    BY CandleFacts DEF Positions
  <2> QED
    BY <2>1 DEF OtherTypes
<1> QED
  BY <1>1, <1>2, <1>3 DEF MergeInv, WaitInv, MergedInOrder, Complete, Waiting

\* What the invariant says of a task that waits, and of one whose publish ends.
LEMMA WaitingIsReady ==
  ASSUME MergeInv, at \in {"created"} \cup Waiting
  PROVE  Ready(next)
BY DEF MergeInv, WaitInv, OtherTypes, Ready, PaceTypes, MergedInOrder

LEMMA PublishedIsReady ==
  ASSUME MergeInv, at = "publishing"
  PROVE  Ready(Advance(next))
BY DEF MergeInv, WaitInv, Ready, PaceTypes, MergedInOrder

LEMMA TaskStepWaitInv == MergeInv /\ TaskStep => WaitInv'
<1> SUFFICES ASSUME MergeInv, TaskStep PROVE WaitInv'
  OBVIOUS
<1> DEFINE e == Earliest(next)
<1>0. PaceTypes
  BY DEF MergeInv, WaitInv
<1>w. ASSUME at \in Waiting
      PROVE  Ready(next) /\ NextItems(next) # {} /\ e \in Candle
  BY <1>w, WaitingIsReady, EarliestFacts DEF MergeInv, WaitInv, NextItems
<1>1. CASE Begun
  BY <1>0, <1>1, WaitingIsReady, LoopHeadStep DEF Begun
<1>2. CASE Woken
  BY <1>0, <1>2, <1>w, PaceStep DEF Woken, Waiting
<1>3. CASE Yielded
  BY <1>0, <1>3, <1>w, PublishStep DEF Yielded, Waiting, clockVars, PaceTypes
<1>4. CASE Slept
  <2>1. left \in 1..MaxChunks /\ left' = left - 1 /\ at = "sleeping" /\ next' = next
    BY <1>0, <1>4, ReplayAssumption DEF Slept, PaceTypes
  <2>2. left' \in 0..MaxChunks /\ (left # 1 => left' > 0)
    BY <2>1, ReplayAssumption
  <2>3. CASE left = 1
    BY <1>0, <1>4, <1>w, <2>1, <2>2, <2>3, PublishStep DEF Slept, Waiting, PaceTypes
  <2>4. CASE left # 1
    BY <1>0, <1>4, <1>w, <2>1, <2>2, <2>4, WaitStep DEF Slept, Waiting, PaceTypes, WaitIn
  <2> QED
    BY <2>3, <2>4
<1>5. CASE Released
  BY <1>0, <1>5, <1>w, PublishStep, ReplayAssumption DEF Released, Waiting, PaceTypes
<1>6. CASE Published
  BY <1>0, <1>6, PublishedIsReady, LoopHeadStep DEF Published
<1>7. CASE CancelDelivered
  <2>1. /\ at' = "done" /\ UNCHANGED <<published, passed, left, next, stopEvent>>
        /\ baseline' \in {baseline, NoTime}
    BY <1>7 DEF CancelDelivered, Finish, FinishAs, WaitIn
  <2>2. Shown' = Shown /\ (InOrder' <=> InOrder) /\ (NoneSkipped' <=> NoneSkipped)
    BY <2>1, WaitKeepsOrder
  <2>3. stopEvent'
    BY <1>7, <2>1 DEF CancelDelivered, MergeInv
  <2>4. PaceTypes'
    BY <1>0, <2>1 DEF PaceTypes, Await, Stamp, Candle, Sources
  <2> QED
    BY <2>1, <2>2, <2>3, <2>4 DEF MergeInv, WaitInv, MergedInOrder, Complete, Waiting
<1>8. CASE Crash
  <2>1. /\ at' = "crashed" /\ UNCHANGED <<published, passed, left, next>>
        /\ baseline' = NoTime
    BY <1>8 DEF Crash, FinishAs, WaitIn
  <2>2. Shown' = Shown /\ (InOrder' <=> InOrder) /\ (NoneSkipped' <=> NoneSkipped)
    BY <2>1, WaitKeepsOrder
  <2>3. PaceTypes'
    BY <1>0, <2>1 DEF PaceTypes, Await, Stamp, Candle, Sources
  <2> QED
    BY <2>1, <2>2, <2>3 DEF MergeInv, WaitInv, MergedInOrder, Complete, Waiting
<1> QED
  BY <1>1, <1>2, <1>3, <1>4, <1>5, <1>6, <1>7, <1>8 DEF TaskStep

\* The rest of the invariant, action by action.
LEMMA NextOtherTypes == MergeInv /\ [Next]_vars => OtherTypes' /\ (cancelled' => stopEvent')
<1> SUFFICES ASSUME MergeInv, [Next]_vars PROVE OtherTypes' /\ (cancelled' => stopEvent')
  OBVIOUS
<1> USE DEF MergeInv, OtherTypes
<1>0. ASSUME next' = next PROVE Positions(next')
  BY <1>0
<1>1. CASE Play \/ Step
  <2>1. Positions(next')
    BY <1>0, <1>1, CandleFacts DEF Play, Step, StartOrResume, NewTask, Positions
  <2>2. call' \in {"play", "step"} /\ cancelled' = cancelled /\ fast' = fast /\ paused' = FALSE
    BY <1>1 DEF Play, Step, StartOrResume, Resume, Called
  <2>3. (Alive => at' = at /\ stopEvent' = stopEvent) /\ (~Alive => at' = "created")
    BY <1>1 DEF Play, Step, StartOrResume, NewTask
  <2>4. stepEvent' \in BOOLEAN /\ isRunning' \in BOOLEAN /\ stopEvent' \in BOOLEAN
    BY <1>1 DEF Play, Step, StartOrResume, NewTask
  <2>5. cancelled' => Alive' /\ stopEvent'
    BY <2>2, <2>3 DEF Alive
  <2>6. stepEvent' \in BOOLEAN /\ isRunning' \in BOOLEAN /\ stopEvent' \in BOOLEAN
        /\ cancelled' \in BOOLEAN /\ fast' \in BOOLEAN /\ paused' \in BOOLEAN
    BY <2>2, <2>4
  <2> QED
    BY <2>1, <2>2, <2>5, <2>6
<1>2. CASE Pause
  BY <1>0, <1>2 DEF Pause, Called, Alive
<1>3. CASE Stop
  <2>1. cancelled' \in BOOLEAN /\ (cancelled' => Alive') /\ stopEvent' = TRUE
    BY <1>3 DEF Stop, Alive
  <2>2. isRunning' = FALSE /\ paused' = FALSE /\ stepEvent' = stepEvent /\ fast' = fast
        /\ call' = "stop" /\ next' = next
    BY <1>3 DEF Stop, Called
  <2> QED
    BY <1>0, <2>1, <2>2
<1>4. ASSUME NEW zero \in BOOLEAN, SetSpeed(zero) PROVE OtherTypes' /\ (cancelled' => stopEvent')
  BY <1>0, <1>4 DEF SetSpeed, taskVars, Alive
<1>5. ASSUME ~cancelled, NEW nx, NEW b \in BOOLEAN, Positions(nx), LoopHead(nx, b)
      PROVE  Positions(next') /\ isRunning' \in BOOLEAN /\ paused' \in BOOLEAN
  <2>1. Positions(next')
    BY <1>5 DEF LoopHead
  <2>2. CASE stopEvent \/ NextItems(nx) = {}
    BY <2>1, <2>2, <1>5 DEF LoopHead, Finish, FinishAs
  <2>3. CASE ~(stopEvent \/ NextItems(nx) = {})
    BY <2>1, <2>3, <1>5 DEF LoopHead, WaitFor
  <2> QED
    BY <2>2, <2>3
<1>6. ASSUME ~cancelled, Begun PROVE OtherTypes' /\ (cancelled' => stopEvent')
  BY <1>5, <1>6 DEF Begun
<1>7. ASSUME ~cancelled, Published PROVE OtherTypes' /\ (cancelled' => stopEvent')
  <2>1. Positions(Advance(next))
    BY <1>7 DEF Published, WaitInv
  <2>2. (paused \/ stepEvent) \in BOOLEAN
    OBVIOUS
  <2>3. Positions(next') /\ isRunning' \in BOOLEAN /\ paused' \in BOOLEAN
    BY <1>5, <1>7, <2>1, <2>2 DEF Published
  <2> QED
    BY <1>7, <2>3 DEF Published
<1>8. ASSUME ~cancelled, Woken \/ Yielded \/ Slept \/ Released
      PROVE  OtherTypes' /\ (cancelled' => stopEvent')
  BY <1>0, <1>8 DEF Woken, Yielded, Slept, Released, clockVars
<1>9. CASE CancelDelivered
  <2>1. isRunning' \in BOOLEAN /\ paused' \in BOOLEAN
    BY <1>9 DEF CancelDelivered, Finish, FinishAs
  <2> QED
    BY <1>0, <1>9, <2>1 DEF CancelDelivered
<1>10. CASE UNCHANGED vars
  BY <1>0, <1>10 DEF vars, taskVars, clockVars, Alive
<1>11. ASSUME ~cancelled, Crash PROVE OtherTypes' /\ (cancelled' => stopEvent')
  <2>1. isRunning' \in BOOLEAN /\ paused' \in BOOLEAN /\ stepEvent' \in BOOLEAN
    BY <1>11 DEF Crash, FinishAs
  <2> QED
    BY <1>0, <1>11, <2>1 DEF Crash
<1> QED
  BY <1>1, <1>2, <1>3, <1>4, <1>6, <1>7, <1>8, <1>9, <1>10, <1>11 DEF Next, TaskStep

LEMMA NextMerge == MergeInv /\ [Next]_vars => MergeInv'
<1> SUFFICES ASSUME MergeInv, [Next]_vars PROVE MergeInv'
  OBVIOUS
<1>1. OtherTypes' /\ (cancelled' => stopEvent')
  BY NextOtherTypes
<1>0. PaceTypes
  BY DEF MergeInv, WaitInv
<1>2. CASE Play \/ Step
  <2>1. passed' = 0 /\ baseline' = NoTime
    BY <1>2 DEF Play, Step, StartOrResume, Resume, Called
  <2>2. CASE Alive
    BY <1>2, <2>1, <2>2, FrameStep, <1>1 DEF Play, Step, StartOrResume, MergeInv
  <2>3. CASE ~Alive
    BY <1>2, <2>1, <2>3, NewTaskStep, <1>1 DEF Play, Step, StartOrResume, MergeInv
  <2> QED
    BY <2>2, <2>3
<1>3. CASE Pause
  BY <1>0, <1>1, <1>3, FrameStep DEF Pause, Called, MergeInv, PaceTypes
<1>4. CASE Stop
  BY <1>0, <1>1, <1>4, FrameStep DEF Stop, Called, MergeInv, PaceTypes
<1>5. ASSUME NEW zero \in BOOLEAN, SetSpeed(zero) PROVE MergeInv'
  BY <1>0, <1>1, <1>5, FrameStep DEF SetSpeed, taskVars, MergeInv, PaceTypes
<1>6. CASE TaskStep
  BY <1>1, <1>6, TaskStepWaitInv DEF MergeInv
<1>7. CASE UNCHANGED vars
  BY <1>0, <1>1, <1>7, FrameStep DEF vars, taskVars, clockVars, MergeInv, PaceTypes
<1> QED
  BY <1>2, <1>3, <1>4, <1>5, <1>6, <1>7 DEF Next

\* Types are kept: a sleep has a chunk left, the iterators stay in their sources
\* and only a task that is alive is cancelled.
THEOREM TypeCorrect == Spec => []TypeOK
<1>1. MergeInv => TypeOK
  BY TypesSplit DEF MergeInv, WaitInv
<1> QED
  BY <1>1, InitMerge, NextMerge, PTL DEF Spec

\* For any sources, a replay publishes their candles in the order of their
\* timestamps, none twice and none left out in between, also up to a publish or a
\* source that raises; and one that ends without that or a stop has shown them all.
THEOREM ReplayMerges == Spec => []MergedInOrder
<1>1. MergeInv => MergedInOrder
  BY DEF MergeInv, WaitInv
<1> QED
  BY <1>1, InitMerge, NextMerge, PTL DEF Spec

-----------------------------------------------------------------------------
\* What the last call still allows: after pause or step the task is held, or will
\* be once it has published, and after stop it is about to end.

HeldInv ==
  /\ call \in {"play", "stop"} => passed = 0
  /\ call = "stop" => (Alive => cancelled)
  /\ call \in {"pause", "step"} => passed \in {0, 1}
  /\ (call \in {"pause", "step"} /\ Alive /\ ~cancelled) => paused \/ stepEvent
  /\ (call \in {"pause", "step"} /\ Alive /\ ~cancelled /\ passed = 1) =>
       at = "publishing" \/ (at = "paused" /\ paused)

ControlInv == RunningIsAlive /\ HeldInv

\* A step of the task at an await that sees no pause, or that finds none.
LEMMA PaceHeld ==
  ASSUME HeldInv, Alive, ~cancelled, UNCHANGED <<cancelled, stepEvent, call>>,
         paused' = paused,
         \/ at \in {"yielding", "sleeping", "held"}
         \/ ~paused /\ (at = "publishing" => ~stepEvent),
         \E c : Publish(c) \/ \E w \in {"yielding", "sleeping", "held"} : WaitIn(w)
  PROVE  HeldInv' /\ Alive'
<1>1. \/ call = "play"
      \/ call \in {"pause", "step"} /\ passed = 0 /\ (paused \/ stepEvent)
      \/ call \notin {"play", "stop", "pause", "step"}
  BY DEF HeldInv
<1>2. CASE \E c : Publish(c)
  BY <1>1, <1>2 DEF HeldInv, Publish, Alive
<1>3. CASE \E w \in {"yielding", "sleeping", "held"} : WaitIn(w)
  BY <1>1, <1>3 DEF HeldInv, WaitIn, Alive
<1> QED
  BY <1>2, <1>3

LEMMA LoopHeadHeld ==
  ASSUME HeldInv, Alive, ~cancelled, RunningIsAlive, UNCHANGED <<cancelled, call>>, NEW nx,
         NEW b \in BOOLEAN, LoopHead(nx, b),
         paused \in BOOLEAN, stepEvent \in BOOLEAN,
         b <=> paused \/ (at = "publishing" /\ stepEvent),
         stepEvent' = IF at = "publishing" THEN FALSE ELSE stepEvent
  PROVE  ControlInv'
<1>1. CASE stopEvent \/ NextItems(nx) = {}
  BY <1>1 DEF LoopHead, Finish, FinishAs, WaitIn, ControlInv, RunningIsAlive, HeldInv, Alive
<1>2. CASE ~(stopEvent \/ NextItems(nx) = {}) /\ b
  BY <1>2 DEF LoopHead, WaitFor, WaitIn, ControlInv, RunningIsAlive, HeldInv, Alive
<1>3. CASE ~(stopEvent \/ NextItems(nx) = {}) /\ ~b
  <2>1. Pace(Earliest(nx)) /\ paused' = paused /\ isRunning' = isRunning /\ stepEvent' = stepEvent
    BY <1>3 DEF LoopHead, WaitFor
  <2>2. \E c : Publish(c) \/ \E w \in {"yielding", "sleeping", "held"} : WaitIn(w)
    BY <2>1 DEF Pace
  <2>3. HeldInv' /\ Alive'
    BY <1>3, <2>1, <2>2, PaceHeld
  <2> QED
    BY <2>1, <2>3 DEF ControlInv, RunningIsAlive
<1> QED
  BY <1>1, <1>2, <1>3

LEMMA InitControl == Init => ControlInv
BY DEF Init, ControlInv, RunningIsAlive, HeldInv, Alive

LEMMA NextControl == MergeInv /\ ControlInv /\ [Next]_vars => ControlInv'
<1> SUFFICES ASSUME MergeInv, ControlInv, [Next]_vars PROVE ControlInv'
  OBVIOUS
<1>0. OtherTypes
  BY DEF MergeInv
<1> USE DEF ControlInv
<1>1. CASE Play \/ Step
  BY <1>0, <1>1 DEF Play, Step, StartOrResume, Resume, Called, NewTask, RunningIsAlive, HeldInv,
     Alive, OtherTypes
<1>2. CASE Pause
  BY <1>2 DEF Pause, Called, RunningIsAlive, HeldInv, Alive
<1>3. CASE Stop
  BY <1>3 DEF Stop, Called, RunningIsAlive, HeldInv, Alive
<1>4. ASSUME NEW zero \in BOOLEAN, SetSpeed(zero) PROVE ControlInv'
  BY <1>4 DEF SetSpeed, taskVars, RunningIsAlive, HeldInv, Alive
<1>5. ASSUME ~cancelled, Begun PROVE ControlInv'
  BY <1>0, <1>5, LoopHeadHeld DEF Begun, Alive, OtherTypes
<1>6. ASSUME ~cancelled, Published PROVE ControlInv'
  BY <1>0, <1>6, LoopHeadHeld DEF Published, Alive, OtherTypes
<1>7. ASSUME ~cancelled, Woken \/ Yielded \/ Slept \/ Released PROVE ControlInv'
  <2>1. \E c : Publish(c) \/ \E w \in {"yielding", "sleeping", "held"} : WaitIn(w)
    BY <1>7 DEF Woken, Yielded, Slept, Released, Pace
  <2>2. UNCHANGED <<cancelled, stepEvent, call, paused, isRunning>> /\ Alive
        /\ (at \in {"yielding", "sleeping", "held"} \/ (at = "paused" /\ ~paused))
    BY <1>7 DEF Woken, Yielded, Slept, Released, Alive, clockVars
  <2>3. HeldInv' /\ Alive'
    BY <1>7, <2>1, <2>2, PaceHeld
  <2> QED
    BY <2>2, <2>3 DEF RunningIsAlive
<1>8. CASE CancelDelivered
  BY <1>8 DEF CancelDelivered, Finish, FinishAs, WaitIn, RunningIsAlive, HeldInv, Alive
<1>9. CASE UNCHANGED vars
  BY <1>9 DEF vars, taskVars, clockVars, RunningIsAlive, HeldInv, Alive
<1>10. ASSUME ~cancelled, Crash PROVE ControlInv'
  BY <1>10 DEF Crash, FinishAs, WaitIn, RunningIsAlive, HeldInv, Alive
<1> QED
  BY <1>1, <1>2, <1>3, <1>4, <1>5, <1>6, <1>7, <1>8, <1>9, <1>10 DEF Next, TaskStep

\* _is_running says whether there is a task that goes on.
THEOREM RunningFlag == Spec => []RunningIsAlive
<1>1. MergeInv /\ ControlInv => RunningIsAlive
  BY DEF ControlInv
<1> QED
  BY <1>1, InitMerge, NextMerge, InitControl, NextControl, PTL DEF Spec

\* Wherever the task is when it is called, stop lets no further candle out, pause
\* and step at most one.
THEOREM CallsHold == Spec => []AtMostOneMore
<1>1. MergeInv /\ ControlInv => AtMostOneMore
  BY DEF ControlInv, HeldInv, AtMostOneMore
<1> QED
  BY <1>1, InitMerge, NextMerge, InitControl, NextControl, PTL DEF Spec
=============================================================================
