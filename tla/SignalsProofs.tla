---------------------------- MODULE SignalsProofs ----------------------------
(***************************************************************************)
(* Theorems about Signals, for any bars, features, strategies, weights and *)
(* any number of candles and configuration calls.                          *)
(***************************************************************************)
EXTENDS Signals, FiniteSetTheorems, WellFoundedInduction, TLAPS

-----------------------------------------------------------------------------
(* When an indicator is ready.  This depends on how many elements its deques
   hold and not on what they are. *)

IsSeq(q) == q \in Seq(ToSet(q))

LEMMA SeqAppend ==
  ASSUME NEW q, IsSeq(q), NEW x
  PROVE  LET r == Append(q, x)
         IN  /\ IsSeq(r) /\ Len(r) = Len(q) + 1 /\ r # <<>>
             /\ \A i \in 1..Len(q) : r[i] = q[i]
             /\ r[Len(q) + 1] = x
<1> DEFINE r == Append(q, x)
           S == ToSet(q) \cup {x}
<1>1. q \in Seq(S)
  BY DEF IsSeq
<1>2. r \in Seq(S) /\ Len(r) = Len(q) + 1 /\ r # <<>>
  <2>1. r \in Seq(S) /\ Len(r) = Len(q) + 1 /\ Len(q) \in Nat
    BY <1>1
  <2>2. Len(<<>>) = 0
    OBVIOUS
  <2> QED
    BY <2>1, <2>2
<1>3. \A i \in 1..Len(r) : r[i] \in ToSet(r)
  BY <1>2 DEF ToSet
<1>4. IsSeq(r)
  BY <1>2, <1>3 DEF IsSeq
<1> QED
  BY <1>1, <1>2, <1>4

LEMMA SeqTail ==
  ASSUME NEW q, IsSeq(q), q # <<>>
  PROVE  IsSeq(Tail(q)) /\ Len(Tail(q)) = Len(q) - 1 /\ Len(q) \in Nat \ {0}
<1> DEFINE S == ToSet(q)
           t == Tail(q)
<1>0. q \in Seq(S)
  BY DEF IsSeq
<1> HIDE DEF S
<1>1. t \in Seq(S) /\ Len(t) = Len(q) - 1 /\ Len(q) \in Nat \ {0}
  BY <1>0
<1> HIDE DEF t
<1>2. t \in Seq(ToSet(t))
  BY <1>1 DEF ToSet
<1> QED
  BY <1>1, <1>2 DEF IsSeq, t

Capped(n, m) == IF n < m THEN n ELSE m

LEMMA PushFills ==
  ASSUME NEW q, IsSeq(q), NEW n \in Nat, NEW m \in Nat \ {0}, Len(q) = Capped(n, m), NEW x
  PROVE  IsSeq(Push(q, x, m)) /\ Len(Push(q, x, m)) = Capped(n + 1, m)
<1>1. CASE Len(q) = m
  <2>1. q # <<>>
    BY <1>1
  <2>2. IsSeq(Tail(q)) /\ Len(Tail(q)) = m - 1
    BY <1>1, <2>1, SeqTail
  <2>3. IsSeq(Append(Tail(q), x)) /\ Len(Append(Tail(q), x)) = m
    BY <2>2, SeqAppend
  <2> QED
    BY <1>1, <2>3 DEF Push, Capped
<1>2. CASE Len(q) # m
  BY <1>2, SeqAppend DEF Push, Capped
<1> QED
  BY <1>1, <1>2

\* The fields of an instance, and the instance with other ones.
With(f, h, a, r, v) ==
  [kind |-> f.kind, window |-> f.window, hist |-> h, acc |-> a, ready |-> r, value |-> v]
Shape(f) == f = With(f, f.hist, f.acc, f.ready, f.value)

LEMMA WithFields ==
  ASSUME NEW f, NEW h, NEW a, NEW r, NEW v, NEW g, g = With(f, h, a, r, v)
  PROVE  /\ Shape(g) /\ g.kind = f.kind /\ g.window = f.window
         /\ g.hist = h /\ g.acc = a /\ g.ready = r /\ g.value = v
BY DEF With, Shape

\* One field set, or several in turn.
LEMMA OneField ==
  ASSUME NEW f, Shape(f), NEW x
  PROVE  /\ [f EXCEPT !.hist = x] = With(f, x, f.acc, f.ready, f.value)
         /\ [f EXCEPT !.acc = x] = With(f, f.hist, x, f.ready, f.value)
         /\ [f EXCEPT !.value = x] = With(f, f.hist, f.acc, f.ready, x)
BY DEF Shape, With

LEMMA HistAcc ==
  ASSUME NEW f, Shape(f), NEW h, NEW a
  PROVE  [f EXCEPT !.hist = h, !.acc = a] = With(f, h, a, f.ready, f.value)
<1> DEFINE g == [f EXCEPT !.hist = h]
<1>1. g = With(f, h, f.acc, f.ready, f.value)
  BY DEF Shape, With
<1> HIDE DEF g
<1>2. [g EXCEPT !.acc = a] = With(f, h, a, f.ready, f.value)
  BY <1>1 DEF With
<1>3. [f EXCEPT !.hist = h, !.acc = a] = [g EXCEPT !.acc = a]
  BY DEF Shape, g
<1> QED
  BY <1>2, <1>3, Zenon

LEMMA AccHist ==
  ASSUME NEW f, Shape(f), NEW a, NEW h
  PROVE  [f EXCEPT !.acc = a, !.hist = h] = With(f, h, a, f.ready, f.value)
<1> DEFINE g == [f EXCEPT !.acc = a]
<1>1. g = With(f, f.hist, a, f.ready, f.value)
  BY DEF Shape, With
<1> HIDE DEF g
<1>2. [g EXCEPT !.hist = h] = With(f, h, a, f.ready, f.value)
  BY <1>1 DEF With
<1>3. [f EXCEPT !.acc = a, !.hist = h] = [g EXCEPT !.hist = h]
  BY DEF Shape, g
<1> QED
  BY <1>2, <1>3, Zenon

LEMMA ReadyValue ==
  ASSUME NEW f, Shape(f), NEW r, NEW v
  PROVE  [f EXCEPT !.ready = r, !.value = v] = With(f, f.hist, f.acc, r, v)
<1> DEFINE g == [f EXCEPT !.ready = r]
<1>1. g = With(f, f.hist, f.acc, r, f.value)
  BY DEF Shape, With
<1> HIDE DEF g
<1>2. [g EXCEPT !.value = v] = With(f, f.hist, f.acc, r, v)
  BY <1>1 DEF With
<1>3. [f EXCEPT !.ready = r, !.value = v] = [g EXCEPT !.value = v]
  BY DEF Shape, g
<1> QED
  BY <1>2, <1>3, Zenon

SetOut(e, r, v) == [e EXCEPT !.ready = r, !.value = v]

LEMMA SetOutWith ==
  ASSUME NEW f, NEW h, NEW a, NEW r0, NEW v0, NEW e, e = With(f, h, a, r0, v0), NEW r, NEW v
  PROVE  SetOut(e, r, v) = With(f, h, a, r, v)
<1> DEFINE g == [e EXCEPT !.ready = r]
<1>1. g = With(f, h, a, r, v0)
  BY DEF With
<1> HIDE DEF g
<1>2. [g EXCEPT !.value = v] = With(f, h, a, r, v)
  BY <1>1 DEF With
<1>3. SetOut(e, r, v) = [g EXCEPT !.value = v]
  BY DEF With, g, SetOut
<1> QED
  BY <1>2, <1>3, Zenon

LEMMA SettleWith ==
  ASSUME NEW f, Shape(f), NEW full, NEW value
  PROVE  Settle(f, full, value) = With(f, f.hist, f.acc, full, IF full THEN value ELSE None)
<1> DEFINE v == IF full THEN value ELSE None
<1> HIDE DEF v
<1>1. Settle(f, full, value) = [f EXCEPT !.ready = full, !.value = v]
  BY DEF Settle, v
<1>2. [f EXCEPT !.ready = full, !.value = v] = With(f, f.hist, f.acc, full, v)
  BY ReadyValue, Zenon
<1> QED
  BY <1>1, <1>2, Zenon DEF v

\* What an update that settles comes to.
Settled(f, g, h, a, full, v) ==
  /\ Shape(g) /\ g.kind = f.kind /\ g.window = f.window /\ g.hist = h /\ g.acc = a
  /\ g.ready = full
  /\ g.value = IF full THEN v ELSE None

LEMMA SettledWith ==
  ASSUME NEW f, NEW h, NEW a, NEW r, NEW v0, NEW e, e = With(f, h, a, r, v0), NEW full, NEW v
  PROVE  Settled(f, Settle(e, full, v), h, a, full, v)
<1> DEFINE w == IF full THEN v ELSE None
           g == Settle(e, full, v)
<1>1. Shape(e) /\ e.kind = f.kind /\ e.window = f.window /\ e.hist = h /\ e.acc = a
  BY WithFields
<1> HIDE DEF w
<1>2. g = With(e, e.hist, e.acc, full, w)
  BY <1>1, SettleWith, Zenon DEF w
<1> HIDE DEF g
<1>3. /\ Shape(g) /\ g.kind = e.kind /\ g.window = e.window
      /\ g.hist = e.hist /\ g.acc = e.acc /\ g.ready = full /\ g.value = w
  BY <1>2, WithFields
<1>4. Settled(f, g, h, a, full, v)
  BY <1>1, <1>3, Zenon DEF Settled, w
<1> QED
  BY <1>4, Zenon DEF g

LEMMA SettleHistAcc ==
  ASSUME NEW f, Shape(f), NEW h, NEW a, NEW full, NEW v
  PROVE  Settled(f, Settle([f EXCEPT !.hist = h, !.acc = a], full, v), h, a, full, v)
<1> DEFINE e == [f EXCEPT !.hist = h, !.acc = a]
<1>1. e = With(f, h, a, f.ready, f.value)
  BY HistAcc, Zenon
<1> HIDE DEF e
<1>2. Settled(f, Settle(e, full, v), h, a, full, v)
  BY <1>1, SettledWith
<1> QED
  BY <1>2, Zenon DEF e

LEMMA SettleHist ==
  ASSUME NEW f, Shape(f), NEW h, NEW full, NEW v
  PROVE  Settled(f, Settle([f EXCEPT !.hist = h], full, v), h, f.acc, full, v)
<1> DEFINE e == [f EXCEPT !.hist = h]
<1>1. e = With(f, h, f.acc, f.ready, f.value)
  BY OneField
<1> HIDE DEF e
<1>2. Settled(f, Settle(e, full, v), h, f.acc, full, v)
  BY <1>1, SettledWith
<1> QED
  BY <1>2, Zenon DEF e

LEMMA SettleAcc ==
  ASSUME NEW f, Shape(f), NEW a, NEW full, NEW v
  PROVE  Settled(f, Settle([f EXCEPT !.acc = a], full, v), f.hist, a, full, v)
<1> DEFINE e == [f EXCEPT !.acc = a]
<1>1. e = With(f, f.hist, a, f.ready, f.value)
  BY OneField
<1> HIDE DEF e
<1>2. Settled(f, Settle(e, full, v), f.hist, a, full, v)
  BY <1>1, SettledWith
<1> QED
  BY <1>2, Zenon DEF e

-----------------------------------------------------------------------------
(* Each indicator after n bars *)

HistCap(f) == CASE f.kind = "RSI" -> f.window + 2
                [] f.kind = "ROC" -> f.window + 1
                [] OTHER          -> f.window
IsPair(v)  == v = <<v[1], v[2]>>

\* It is ready when it has seen enough, and only then it has a value.
Ripe(f, n) ==
  /\ Shape(f) /\ f.kind \in Kinds /\ f.window \in Nat \ {0}
  /\ f.ready \in BOOLEAN
  /\ f.ready <=> n >= WarmUp(f.kind, f.window)
  /\ f.ready <=> f.value # None

Holds(q, n) == IsSeq(q) /\ Len(q) = n
Rolled(f, n) == Holds(f.hist, Capped(n, HistCap(f)))

\* The mean or the deviation of BB.
Part(f, g, kind, n) ==
  /\ g.kind = kind /\ g.window = f.window
  /\ Ripe(g, n) /\ Rolled(g, n)
  /\ g.ready => IsPair(g.value)

\* The last values of %K: the first one comes with a full window.
Smoothed(f, n) ==
  Holds(f.acc, IF n < f.window THEN 0 ELSE Capped(n - f.window + 1, SmoothWindow))

Fed(f, n) ==
  /\ Ripe(f, n)
  /\ f.kind \notin {"BB", "OBV"} => Rolled(f, n)
  /\ f.kind = "STOCH" => Smoothed(f, n)
  /\ f.kind = "BB" =>
       IF n = 0 THEN f.acc = <<>>
       ELSE IsPair(f.acc) /\ Part(f, f.acc[1], "SMA", n) /\ Part(f, f.acc[2], "STDDEV", n)

LEMMA SettledRipe ==
  ASSUME NEW f, NEW n \in Nat, Ripe(f, n), NEW g, NEW h, NEW a, NEW full \in BOOLEAN, NEW v,
         Settled(f, g, h, a, full, v), v # None,
         full <=> n + 1 >= WarmUp(f.kind, f.window)
  PROVE  Ripe(g, n + 1)
<1>1. Shape(g) /\ g.kind \in Kinds /\ g.window \in Nat \ {0} /\ g.ready \in BOOLEAN
  BY DEF Settled, Ripe
<1>2. g.ready <=> n + 1 >= WarmUp(g.kind, g.window)
  BY DEF Settled
<1>3. g.ready <=> g.value # None
  BY DEF Settled
<1> QED
  BY <1>1, <1>2, <1>3 DEF Ripe

\* The deques that hold one element per bar, up to window of them.
Plain == {"SMA", "VOL_SMA", "VWAP", "STDDEV"}

LEMMA PlainFills ==
  ASSUME NEW f, NEW n \in Nat, Ripe(f, n), Rolled(f, n), f.kind \notin {"RSI", "ROC"}, NEW x
  PROVE  LET h == Push(f.hist, x, f.window)
         IN  /\ Holds(h, Capped(n + 1, f.window))
             /\ (Len(h) = f.window) <=> n + 1 >= f.window
<1>1. f.window \in Nat \ {0} /\ HistCap(f) = f.window
  BY DEF Ripe, HistCap
<1>2. Holds(Push(f.hist, x, f.window), Capped(n + 1, f.window))
  BY <1>1, PushFills DEF Rolled, Holds
<1> QED
  BY <1>1, <1>2 DEF Holds, Capped

LEMMA SettledPlain ==
  ASSUME NEW f, NEW n \in Nat, Ripe(f, n), Rolled(f, n), f.kind \in Plain, NEW x, NEW h,
         h = Push(f.hist, x, f.window), NEW g, NEW a, NEW v, IsPair(v), v # None,
         Settled(f, g, h, a, Len(h) = f.window, v)
  PROVE  /\ g.kind = f.kind /\ g.window = f.window
         /\ Ripe(g, n + 1) /\ Rolled(g, n + 1)
         /\ g.ready => IsPair(g.value)
<1>1. /\ Holds(h, Capped(n + 1, f.window))
      /\ (Len(h) = f.window) <=> n + 1 >= f.window
  BY PlainFills DEF Plain
<1>2. WarmUp(f.kind, f.window) = f.window
  BY DEF WarmUp, Plain
<1>3. Ripe(g, n + 1)
  BY <1>1, <1>2, SettledRipe
<1>4. g.kind = f.kind /\ g.window = f.window /\ g.hist = h /\ (g.ready => g.value = v)
  BY DEF Settled
<1>5. Rolled(g, n + 1)
  BY <1>1, <1>4 DEF Rolled, HistCap, Plain
<1> QED
  BY <1>3, <1>4, <1>5

LEMMA PairRight == \A x, y : IsPair(<<x, y>>) /\ <<x, y>> # None
BY DEF IsPair, None

\* What a kind that needs nothing but its deque comes to.
PlainFed(f, g, n) ==
  /\ g.kind = f.kind /\ g.window = f.window
  /\ Ripe(g, n + 1) /\ Rolled(g, n + 1)
  /\ g.ready => IsPair(g.value)

LEMMA RollFed ==
  ASSUME NEW f, NEW n \in Nat, Ripe(f, n), Rolled(f, n), f.kind \in {"SMA", "VOL_SMA"}, NEW x
  PROVE  PlainFed(f, Roll(f, x), n)
<1> DEFINE old == IF Len(f.hist) = f.window THEN Head(f.hist) ELSE 0
           sum == (IF f.acc = <<>> THEN 0 ELSE f.acc[1]) - old + x
           h   == Push(f.hist, x, f.window)
           g   == Settle([f EXCEPT !.hist = h, !.acc = <<sum>>], Len(h) = f.window, <<sum, f.window>>)
<1>1. Roll(f, x) = g
  BY Zenon DEF Roll
<1> HIDE DEF sum
<1>2. Settled(f, g, h, <<sum>>, Len(h) = f.window, <<sum, f.window>>)
  BY SettleHistAcc, Zenon DEF Ripe
<1>3. IsPair(<<sum, f.window>>) /\ <<sum, f.window>> # None
  BY PairRight
<1>4. f.kind \in Plain
  BY DEF Plain
<1> HIDE DEF g
<1>5. PlainFed(f, g, n)
  BY <1>2, <1>3, <1>4, SettledPlain DEF PlainFed
<1> QED
  BY <1>1, <1>5, Zenon

LEMMA VWAPFed ==
  ASSUME NEW f, NEW n \in Nat, Ripe(f, n), Rolled(f, n), f.kind = "VWAP", NEW bar
  PROVE  PlainFed(f, UpdateVWAP(f, bar), n)
<1> DEFINE typical == bar.high + bar.low + bar.close
           old == IF Len(f.hist) = f.window THEN Head(f.hist) ELSE <<0, 0>>
           acc == IF f.acc = <<>> THEN <<0, 0>> ELSE f.acc
           pv  == acc[1] - old[1] + typical * bar.volume
           v   == acc[2] - old[2] + bar.volume
           x   == <<typical * bar.volume, bar.volume>>
           h   == Push(f.hist, x, f.window)
           p   == IF v > 0 THEN <<pv, 3 * v>> ELSE <<typical, 3>>
           g   == Settle([f EXCEPT !.hist = h, !.acc = <<pv, v>>], Len(h) = f.window, p)
<1>1. UpdateVWAP(f, bar) = g
  BY Zenon DEF UpdateVWAP
<1>2. IsPair(p) /\ p # None
  <2> HIDE DEF pv, v, typical
  <2> QED
    BY PairRight
<1> HIDE DEF pv, v, x, p
<1>3. Settled(f, g, h, <<pv, v>>, Len(h) = f.window, p)
  BY SettleHistAcc, Zenon DEF Ripe
<1>4. f.kind \in Plain
  BY DEF Plain
<1> HIDE DEF g
<1>5. PlainFed(f, g, n)
  BY <1>2, <1>3, <1>4, SettledPlain DEF PlainFed
<1> QED
  BY <1>1, <1>5, Zenon

LEMMA STDDEVFed ==
  ASSUME NEW f, NEW n \in Nat, Ripe(f, n), Rolled(f, n), f.kind = "STDDEV", NEW bar
  PROVE  PlainFed(f, UpdateSTDDEV(f, bar), n)
<1> DEFINE x == bar.close
           h == Push(f.hist, x, f.window)
           s == Total(h)
           p == <<f.window * Total(Squares(h)) - s * s, f.window * f.window>>
           g == Settle([f EXCEPT !.hist = h], Len(h) = f.window, p)
<1>1. UpdateSTDDEV(f, bar) = g
  BY Zenon DEF UpdateSTDDEV
<1>2. IsPair(p) /\ p # None
  BY PairRight
<1> HIDE DEF x, p
<1>3. Settled(f, g, h, f.acc, Len(h) = f.window, p)
  BY SettleHist, Zenon DEF Ripe
<1>4. f.kind \in Plain
  BY DEF Plain
<1> HIDE DEF g
<1>5. PlainFed(f, g, n)
  BY <1>2, <1>3, <1>4, SettledPlain DEF PlainFed
<1> QED
  BY <1>1, <1>5, Zenon

\* From what an update comes to, to what the instance is after n + 1 bars.
LEMMA WithSettled ==
  ASSUME NEW f, NEW h, NEW a, NEW full, NEW v, NEW g,
         g = With(f, h, a, full, IF full THEN v ELSE None)
  PROVE  Settled(f, g, h, a, full, v)
<1> DEFINE w == IF full THEN v ELSE None
<1> HIDE DEF w
<1>1. g = With(f, h, a, full, w)
  BY Zenon DEF w
<1>2. /\ Shape(g) /\ g.kind = f.kind /\ g.window = f.window
      /\ g.hist = h /\ g.acc = a /\ g.ready = full /\ g.value = w
  BY <1>1, WithFields
<1> QED
  BY <1>2, Zenon DEF Settled, w

LEMMA ROCFed ==
  ASSUME NEW f, NEW n \in Nat, Fed(f, n), f.kind = "ROC", NEW bar
  PROVE  LET g == UpdateROC(f, bar) IN g.kind = f.kind /\ g.window = f.window /\ Fed(g, n + 1)
<1> DEFINE x == bar.close
           h == Push(f.hist, x, f.window + 1)
           p == IF Head(h) # 0 THEN <<100 * (x - Head(h)), Head(h)>> ELSE <<0, 1>>
           g == Settle([f EXCEPT !.hist = h], Len(h) = f.window + 1, p)
<1>1. UpdateROC(f, bar) = g
  BY Zenon DEF UpdateROC
<1>2. p # None
  BY PairRight
<1>3. f.window \in Nat \ {0} /\ HistCap(f) = f.window + 1 /\ Ripe(f, n) /\ Rolled(f, n)
      /\ WarmUp(f.kind, f.window) = f.window + 1
  BY DEF Fed, Ripe, HistCap, WarmUp
<1>4. Holds(h, Capped(n + 1, f.window + 1))
  BY <1>3, PushFills DEF Rolled, Holds
<1>5. (Len(h) = f.window + 1) <=> n + 1 >= f.window + 1
  BY <1>3, <1>4 DEF Holds, Capped
<1> HIDE DEF p, x
<1>6. Settled(f, g, h, f.acc, Len(h) = f.window + 1, p)
  BY SettleHist, Zenon DEF Ripe, Fed
<1> HIDE DEF g, h
<1>7. Ripe(g, n + 1)
  BY <1>2, <1>3, <1>5, <1>6, SettledRipe
<1>8. g.kind = f.kind /\ g.window = f.window /\ g.hist = h
  BY <1>6 DEF Settled
<1>9. Rolled(g, n + 1)
  BY <1>3, <1>4, <1>8 DEF Rolled, HistCap
<1>10. Fed(g, n + 1)
  BY <1>7, <1>8, <1>9 DEF Fed
<1> QED
  BY <1>1, <1>8, <1>10, Zenon

LEMMA EMAFed ==
  ASSUME NEW f, NEW n \in Nat, Fed(f, n), f.kind = "EMA", NEW bar
  PROVE  LET g == UpdateEMA(f, bar) IN g.kind = f.kind /\ g.window = f.window /\ Fed(g, n + 1)
<1> DEFINE x == bar.close
           h == Push(f.hist, x, f.window)
           m == f.window + 1
           seed == <<Total(h), f.window>>
           next == <<2 * x * f.value[2] + (m - 2) * f.value[1], m * f.value[2]>>
           v == IF Len(h) < f.window THEN None ELSE IF ~f.ready THEN seed ELSE next
           p == IF ~f.ready THEN seed ELSE next
           g == [f EXCEPT !.hist = h, !.ready = Len(h) = f.window, !.value = v]
<1>1. UpdateEMA(f, bar) = g
  BY Zenon DEF UpdateEMA
<1>2. p # None
  <2> HIDE DEF x, h, m
  <2> QED
    BY PairRight
<1>3. f.window \in Nat \ {0} /\ Ripe(f, n) /\ Rolled(f, n) /\ WarmUp(f.kind, f.window) = f.window
  BY DEF Fed, Ripe, WarmUp
<1>4. /\ Holds(h, Capped(n + 1, f.window))
      /\ (Len(h) = f.window) <=> n + 1 >= f.window
  BY <1>3, PlainFills
<1> HIDE DEF seed, next, x, h
<1>5. Shape(f)
  BY <1>3 DEF Ripe
<1>6. g = With(f, h, f.acc, Len(h) = f.window, v)
  <2>1. PICK full : full = (Len(h) = f.window)
    OBVIOUS
  <2> HIDE DEF v, h
  <2> DEFINE e == [f EXCEPT !.hist = h]
  <2>2. [f EXCEPT !.hist = h, !.ready = full, !.value = v] = SetOut(e, full, v)
    BY <1>5 DEF Shape, SetOut
  <2>3. e = With(f, h, f.acc, f.ready, f.value)
    BY <1>5, OneField
  <2> HIDE DEF e
  <2>4. SetOut(e, full, v) = With(f, h, f.acc, full, v)
    BY <2>3, SetOutWith
  <2> QED
    BY <2>1, <2>2, <2>4, Zenon
<1>7. v = IF Len(h) = f.window THEN p ELSE None
  BY <1>3, <1>4 DEF Holds, Capped
<1> HIDE DEF g, p, v
<1>8. Settled(f, g, h, f.acc, Len(h) = f.window, p)
  BY <1>6, <1>7, WithSettled
<1>9. Ripe(g, n + 1)
  BY <1>2, <1>3, <1>4, <1>8, SettledRipe
<1>10. g.kind = f.kind /\ g.window = f.window /\ g.hist = h
  BY <1>8 DEF Settled
<1>11. Rolled(g, n + 1)
  BY <1>4, <1>10 DEF Rolled, HistCap
<1>12. Fed(g, n + 1)
  BY <1>9, <1>10, <1>11 DEF Fed
<1> QED
  BY <1>1, <1>10, <1>12, Zenon

LEMMA OBVFed ==
  ASSUME NEW f, NEW n \in Nat, Fed(f, n), f.kind = "OBV", NEW bar
  PROVE  LET g == UpdateOBV(f, bar) IN g.kind = f.kind /\ g.window = f.window /\ Fed(g, n + 1)
<1> DEFINE v == IF f.acc = <<>> THEN bar.volume
                ELSE IF bar.close > f.acc[1] THEN f.value[1] + bar.volume
                ELSE IF bar.close < f.acc[1] THEN f.value[1] - bar.volume
                ELSE f.value[1]
           a == <<bar.close>>
           p == <<v, 1>>
           g == [f EXCEPT !.acc = a, !.ready = TRUE, !.value = p]
<1>1. UpdateOBV(f, bar) = g
  BY Zenon DEF UpdateOBV
<1>2. p # None
  BY PairRight
<1> HIDE DEF p, a
<1>3. Ripe(f, n)
  BY DEF Fed
<1>4. g = With(f, f.hist, a, TRUE, p)
  <2>0. PICK yes : yes = TRUE
    OBVIOUS
  <2>1. Shape(f)
    BY <1>3 DEF Ripe
  <2> DEFINE e == [f EXCEPT !.acc = a]
  <2>2. [f EXCEPT !.acc = a, !.ready = yes, !.value = p] = SetOut(e, yes, p)
    BY <2>1 DEF Shape, SetOut
  <2>3. e = With(f, f.hist, a, f.ready, f.value)
    BY <2>1, OneField
  <2> HIDE DEF e
  <2>4. SetOut(e, yes, p) = With(f, f.hist, a, yes, p)
    BY <2>3, SetOutWith
  <2> QED
    BY <2>0, <2>2, <2>4, Zenon
<1> HIDE DEF g
<1>5. Shape(g) /\ g.kind = f.kind /\ g.window = f.window /\ g.ready = TRUE /\ g.value = p
  <2>1. PICK yes : yes = TRUE
    OBVIOUS
  <2>2. g = With(f, f.hist, a, yes, p)
    BY <1>4, <2>1, Zenon
  <2>3. Shape(g) /\ g.kind = f.kind /\ g.window = f.window /\ g.ready = yes /\ g.value = p
    BY <2>2, WithFields
  <2> QED
    BY <2>1, <2>3
<1>6. Ripe(g, n + 1)
  <2>1. f.kind \in Kinds /\ f.window \in Nat \ {0}
    BY <1>3 DEF Ripe
  <2>2. WarmUp(g.kind, g.window) = 1 /\ n + 1 >= 1
    BY <1>5 DEF WarmUp
  <2> QED
    BY <1>2, <1>5, <2>1, <2>2 DEF Ripe
<1>7. Fed(g, n + 1)
  BY <1>5, <1>6 DEF Fed
<1> QED
  BY <1>1, <1>5, <1>7, Zenon

LEMMA SettleAccHist ==
  ASSUME NEW f, Shape(f), NEW a, NEW h, NEW full, NEW v
  PROVE  Settled(f, Settle([f EXCEPT !.acc = a, !.hist = h], full, v), h, a, full, v)
<1> DEFINE e == [f EXCEPT !.acc = a, !.hist = h]
<1>1. e = With(f, h, a, f.ready, f.value)
  BY AccHist, Zenon
<1> HIDE DEF e
<1>2. Settled(f, Settle(e, full, v), h, a, full, v)
  BY <1>1, SettledWith
<1> QED
  BY <1>2, Zenon DEF e

ValueOut(e, v) == [e EXCEPT !.value = v]

LEMMA ValueOutWith ==
  ASSUME NEW f, NEW h, NEW a, NEW r, NEW v0, NEW e, e = With(f, h, a, r, v0), NEW v
  PROVE  ValueOut(e, v) = With(f, h, a, r, v)
BY DEF With, ValueOut

LEMMA ValueOutSettled ==
  ASSUME NEW f, NEW h, NEW a, NEW v0, NEW e, NEW r, e = With(f, h, a, r, v0),
         NEW v, NEW w, v = IF r THEN w ELSE None
  PROVE  Settled(f, ValueOut(e, v), h, a, r, w)
<1> DEFINE u == IF r THEN w ELSE None
           g == ValueOut(e, v)
<1> HIDE DEF u
<1>1. v = u
  BY Zenon DEF u
<1>2. g = With(f, h, a, r, u)
  BY <1>1, ValueOutWith
<1> HIDE DEF g
<1>3. Settled(f, g, h, a, r, w)
  BY <1>2, WithSettled, Zenon DEF u
<1> QED
  BY <1>3, Zenon DEF g

LEMMA ATRFed ==
  ASSUME NEW f, NEW n \in Nat, Fed(f, n), f.kind = "ATR", NEW bar
  PROVE  LET g == UpdateATR(f, bar) IN g.kind = f.kind /\ g.window = f.window /\ Fed(g, n + 1)
<1> DEFINE tr == TrueRange(f, bar)
           a == <<bar.close>>
           h == Append(f.hist, tr)
           p == <<Total(h), f.window>>
           q == <<f.value[1] * (f.window - 1) + tr * f.value[2], f.window * f.value[2]>>
           g == UpdateATR(f, bar)
<1>1. /\ f.window \in Nat \ {0} /\ Ripe(f, n) /\ Rolled(f, n) /\ Shape(f)
      /\ WarmUp(f.kind, f.window) = f.window /\ HistCap(f) = f.window
  BY DEF Fed, Ripe, WarmUp, HistCap
<1>2. p # None /\ q # None
  BY PairRight
<1>3. IsSeq(f.hist) /\ Len(f.hist) = Capped(n, f.window)
  BY <1>1 DEF Rolled, Holds
<1>4. CASE Len(f.hist) < f.window
  <2>1. g = Settle([f EXCEPT !.acc = a, !.hist = h], Len(h) = f.window, p)
    BY <1>4, Zenon DEF UpdateATR
  <2>2. Holds(h, n + 1) /\ n + 1 <= f.window
    BY <1>1, <1>3, <1>4, SeqAppend DEF Holds, Capped
  <2> HIDE DEF tr, a, h, p, q
  <2>3. Settled(f, Settle([f EXCEPT !.acc = a, !.hist = h], Len(h) = f.window, p), h, a,
                Len(h) = f.window, p)
    BY <1>1, SettleAccHist, Zenon
  <2> HIDE DEF g
  <2>4. Settled(f, g, h, a, Len(h) = f.window, p)
    BY <2>1, <2>3, Zenon
  <2>5. (Len(h) = f.window) <=> n + 1 >= f.window
    BY <1>1, <2>2 DEF Holds
  <2>6. Ripe(g, n + 1)
    BY <1>1, <1>2, <2>4, <2>5, SettledRipe
  <2>7. g.kind = f.kind /\ g.window = f.window /\ g.hist = h
    BY <2>4 DEF Settled
  <2>8. Rolled(g, n + 1)
    BY <1>1, <2>2, <2>7 DEF Rolled, HistCap, Holds, Capped
  <2>9. Fed(g, n + 1)
    BY <2>6, <2>7, <2>8 DEF Fed
  <2> QED
    BY <2>7, <2>9, Zenon DEF g
<1>5. CASE ~(Len(f.hist) < f.window)
  <2> DEFINE e == [f EXCEPT !.acc = a, !.hist = f.hist]
  <2>1. g = ValueOut(e, q)
    BY <1>5, Zenon DEF UpdateATR, ValueOut
  <2> HIDE DEF tr, a, h, p, q
  <2>2. e = With(f, f.hist, a, f.ready, f.value)
    BY <1>1, AccHist, Zenon
  <2> HIDE DEF e
  <2>3. n >= f.window /\ f.ready = TRUE
    BY <1>1, <1>3, <1>5 DEF Ripe, Capped
  <2>4. Settled(f, ValueOut(e, q), f.hist, a, f.ready, q)
    <3>1. q = IF f.ready THEN q ELSE None
      BY <2>3, Zenon
    <3> QED
      BY <2>2, <3>1, ValueOutSettled, Zenon
  <2> HIDE DEF g
  <2>5. Settled(f, g, f.hist, a, f.ready, q)
    BY <2>1, <2>4, Zenon
  <2>6. f.ready <=> n + 1 >= f.window
    BY <1>1, <2>3
  <2>7. Ripe(g, n + 1)
    BY <1>1, <1>2, <2>3, <2>5, <2>6, SettledRipe
  <2>8. g.kind = f.kind /\ g.window = f.window /\ g.hist = f.hist
    BY <2>5 DEF Settled
  <2>9. Rolled(g, n + 1)
    BY <1>1, <1>3, <2>3, <2>8 DEF Rolled, HistCap, Holds, Capped
  <2>10. Fed(g, n + 1)
    BY <2>7, <2>8, <2>9 DEF Fed
  <2> QED
    BY <2>8, <2>10, Zenon DEF g
<1> QED
  BY <1>4, <1>5

\* A step of RSI: the deque fills, and what else it is does not matter.
RSIStep(f, g, h, n) ==
  \E a, full, v : /\ Settled(f, g, h, a, full, v) /\ v # <<>>
                  /\ full \in BOOLEAN
                  /\ full <=> n + 1 >= f.window + 1

LEMMA RSIFed ==
  ASSUME NEW f, NEW n \in Nat, Fed(f, n), f.kind = "RSI", NEW bar
  PROVE  LET g == UpdateRSI(f, bar) IN g.kind = f.kind /\ g.window = f.window /\ Fed(g, n + 1)
<1> DEFINE x == bar.close
           m == f.window + 2
           h == Push(f.hist, x, m)
           g == UpdateRSI(f, bar)
           d == bar.close - Last(f.hist)
           warm == <<f.acc[1] + Gain(d), f.acc[2] + Gain(-d), 1>>
           on == <<f.acc[1] * (f.window - 1) + Gain(d) * f.acc[3],
                   f.acc[2] * (f.window - 1) + Gain(-d) * f.acc[3], f.acc[3] * f.window>>
<1>1. /\ f.window \in Nat \ {0} /\ Ripe(f, n) /\ Rolled(f, n) /\ Shape(f)
      /\ WarmUp(f.kind, f.window) = f.window + 1 /\ HistCap(f) = m
  BY DEF Fed, Ripe, WarmUp, HistCap
<1>2. IsSeq(f.hist) /\ Len(f.hist) = Capped(n, m)
  BY <1>1 DEF Rolled, Holds
<1>3. Holds(h, Capped(n + 1, m))
  <2> HIDE DEF x
  <2>1. m \in Nat \ {0}
    BY <1>1
  <2> HIDE DEF m
  <2> QED
    BY <1>2, <2>1, PushFills DEF Holds
<1>4. f.hist = <<>> => n = 0
  <2>1. f.hist = <<>> => Len(f.hist) = 0
    OBVIOUS
  <2> QED
    BY <1>1, <1>2, <2>1 DEF Capped
<1>5. RSIStep(f, g, h, n)
  <2>1. ASSUME NEW a, NEW full \in BOOLEAN, NEW v, v # <<>>,
               full <=> n + 1 >= f.window + 1,
               g = Settle([f EXCEPT !.hist = h, !.acc = a], full, v)
        PROVE  RSIStep(f, g, h, n)
    <3> HIDE DEF h, g
    <3>1. Settled(f, Settle([f EXCEPT !.hist = h, !.acc = a], full, v), h, a, full, v)
      BY <1>1, SettleHistAcc, Zenon
    <3>2. Settled(f, g, h, a, full, v)
      BY <2>1, <3>1, Zenon
    <3> QED
      BY <2>1, <3>2, Zenon DEF RSIStep
  <2>2. CASE f.hist = <<>>
    <3>1. g = Settle([f EXCEPT !.hist = h, !.acc = <<0, 0, 1>>], FALSE, <<0>>)
      BY <2>2, Zenon DEF UpdateRSI, Settle
    <3>2. <<0>> # <<>> /\ ~(n + 1 >= f.window + 1)
      BY <1>1, <1>4, <2>2
    <3> HIDE DEF g, h
    <3> QED
      BY <2>1, <3>1, <3>2, Zenon
  <2>3. CASE f.hist # <<>> /\ Len(h) < f.window + 1
    <3>1. g = Settle([f EXCEPT !.hist = h, !.acc = warm], FALSE, <<0>>)
      BY <2>3, Zenon DEF UpdateRSI, Settle
    <3> HIDE DEF g, h
    <3>2. <<0>> # <<>> /\ ~(n + 1 >= f.window + 1)
      BY <1>1, <1>3, <2>3 DEF Holds, Capped
    <3> HIDE DEF warm
    <3> QED
      BY <2>1, <3>1, <3>2, Zenon
  <2>4. CASE f.hist # <<>> /\ ~(Len(h) < f.window + 1)
    <3> DEFINE v == IF Len(f.hist) < f.window + 1 THEN RSIValue(warm[1], warm[2]) ELSE RSIValue(on[1], on[2])
               a == IF Len(f.hist) < f.window + 1 THEN [warm EXCEPT ![3] = f.window] ELSE on
    <3>1. g = Settle([f EXCEPT !.hist = h, !.acc = a], TRUE, v)
      BY <2>4, Zenon DEF UpdateRSI
    <3>2. v # <<>>
      <4>1. \A i, j : RSIValue(i, j) # <<>>
        BY DEF RSIValue
      <4> QED
        BY <4>1, Zenon
    <3> HIDE DEF g, h
    <3>3. n + 1 >= f.window + 1
      BY <1>1, <1>3, <2>4 DEF Holds, Capped
    <3> HIDE DEF v, a
    <3> QED
      BY <2>1, <3>1, <3>2, <3>3, Zenon
  <2> HIDE DEF g, h
  <2> QED
    BY <2>2, <2>3, <2>4
<1> HIDE DEF g, h
<1>6. SUFFICES ASSUME NEW a, NEW full \in BOOLEAN, NEW v, Settled(f, g, h, a, full, v),
                      v # <<>>, full <=> n + 1 >= f.window + 1
               PROVE  g.kind = f.kind /\ g.window = f.window /\ Fed(g, n + 1)
  <2>1. (g.kind = f.kind /\ g.window = f.window /\ Fed(g, n + 1)) =>
          (UpdateRSI(f, bar).kind = f.kind /\ UpdateRSI(f, bar).window = f.window
           /\ Fed(UpdateRSI(f, bar), n + 1))
    BY Zenon DEF g
  <2> QED
    BY <1>5, <1>6, <2>1, Zenon DEF RSIStep
<1>7. Ripe(g, n + 1)
  BY <1>1, <1>6, SettledRipe DEF None
<1>8. g.kind = f.kind /\ g.window = f.window /\ g.hist = h
  BY <1>6 DEF Settled
<1>9. Rolled(g, n + 1)
  BY <1>1, <1>3, <1>8 DEF Rolled, HistCap
<1>10. Fed(g, n + 1)
  BY <1>7, <1>8, <1>9 DEF Fed
<1> QED
  BY <1>8, <1>10, Zenon

LEMMA ConcatLen ==
  ASSUME NEW S, NEW p \in Seq(S), NEW q \in Seq(S)
  PROVE  Len(p \o q) = Len(p) + Len(q)
OBVIOUS

LEMMA Joined ==
  ASSUME NEW p, IsPair(p), NEW q, IsPair(q)
  PROVE  p \o q # <<>>
<1> DEFINE S == {p[1], p[2], q[1], q[2]}
<1>1. <<p[1], p[2]>> \in Seq(S) /\ <<q[1], q[2]>> \in Seq(S)
  OBVIOUS
<1>2. Len(<<p[1], p[2]>>) = 2 /\ Len(<<q[1], q[2]>>) = 2
  OBVIOUS
<1>3. p \in Seq(S) /\ q \in Seq(S) /\ Len(p) = 2 /\ Len(q) = 2
  BY <1>1, <1>2, Zenon DEF IsPair
<1> HIDE DEF S
<1>4. Len(p \o q) = 4
  <2>1. Len(p \o q) = Len(p) + Len(q)
    BY <1>3, ConcatLen
  <2> QED
    BY <1>3, <2>1
<1>5. Len(<<>>) = 0
  OBVIOUS
<1> QED
  BY <1>4, <1>5

LEMMA STOCHFed ==
  ASSUME NEW f, NEW n \in Nat, Fed(f, n), f.kind = "STOCH", NEW bar
  PROVE  LET g == UpdateSTOCH(f, bar) IN g.kind = f.kind /\ g.window = f.window /\ Fed(g, n + 1)
<1> DEFINE x    == <<bar.high, bar.low>>
           h    == Push(f.hist, x, f.window)
           high == Max({h[i][1] : i \in DOMAIN h})
           low  == Min({h[i][2] : i \in DOMAIN h})
           k    == IF high = low THEN <<50, 1>> ELSE <<100 * (bar.close - low), high - low>>
           ks   == Push(f.acc, k, SmoothWindow)
           all  == FractionSum(ks)
           p    == <<all[1], all[2] * SmoothWindow>>
           g    == UpdateSTOCH(f, bar)
<1>1. /\ f.window \in Nat \ {0} /\ Ripe(f, n) /\ Rolled(f, n) /\ Shape(f)
      /\ WarmUp(f.kind, f.window) = f.window + SmoothWindow - 1 /\ HistCap(f) = f.window
      /\ Holds(f.acc, IF n < f.window THEN 0 ELSE Capped(n - f.window + 1, SmoothWindow))
  BY DEF Fed, Smoothed, Ripe, WarmUp, HistCap
<1>2. /\ Holds(h, Capped(n + 1, f.window))
      /\ (Len(h) = f.window) <=> n + 1 >= f.window
  <2> HIDE DEF x
  <2> QED
    BY <1>1, PlainFills
<1>3. k \o p # <<>>
  <2>1. IsPair(k) /\ IsPair(p)
    <3> HIDE DEF all, high, low
    <3> QED
      BY PairRight, Zenon
  <2> QED
    BY <2>1, Joined, Zenon
<1>4. CASE Len(h) < f.window
  <2>1. g = Settle([f EXCEPT !.hist = h], FALSE, <<0>>)
    BY <1>4, Zenon DEF UpdateSTOCH, Settle
  <2> HIDE DEF h, g
  <2>2. Settled(f, g, h, f.acc, FALSE, <<0>>)
    BY <1>1, <2>1, SettleHist, Zenon
  <2>3. n + 1 < f.window
    BY <1>1, <1>2, <1>4 DEF Holds, Capped
  <2>4. <<0>> # None /\ ~(n + 1 >= WarmUp(f.kind, f.window))
    BY <1>1, <2>3 DEF None, SmoothWindow
  <2>5. Ripe(g, n + 1)
    BY <1>1, <2>2, <2>4, SettledRipe
  <2>6. g.kind = f.kind /\ g.window = f.window /\ g.hist = h /\ g.acc = f.acc
    BY <2>2 DEF Settled
  <2>7. Rolled(g, n + 1)
    BY <1>1, <1>2, <2>6 DEF Rolled, HistCap
  <2>8. Holds(g.acc, 0) /\ n + 1 < g.window
    BY <1>1, <2>3, <2>6
  <2>9. Fed(g, n + 1)
    BY <2>5, <2>6, <2>7, <2>8 DEF Fed, Smoothed
  <2> QED
    BY <2>6, <2>9, Zenon DEF g
<1>5. CASE ~(Len(h) < f.window)
  <2>1. g = Settle([f EXCEPT !.hist = h, !.acc = ks], Len(ks) = SmoothWindow, k \o p)
    BY <1>5, Zenon DEF UpdateSTOCH
  <2>2. n + 1 >= f.window
    BY <1>1, <1>2, <1>5 DEF Holds, Capped
  <2>3. n + 1 - f.window \in Nat /\ SmoothWindow \in Nat \ {0}
        /\ Holds(f.acc, Capped(n + 1 - f.window, SmoothWindow))
    BY <1>1, <2>2 DEF Capped, SmoothWindow
  <2> HIDE DEF k
  <2>4. Holds(ks, Capped(n + 1 - f.window + 1, SmoothWindow))
    BY <2>3, PushFills DEF Holds
  <2>5. (Len(ks) = SmoothWindow) <=> n + 1 >= WarmUp(f.kind, f.window)
    <3>1. Len(ks) = Capped(n + 1 - f.window + 1, 3)
      BY <2>4 DEF Holds, SmoothWindow
    <3>2. WarmUp(f.kind, f.window) = f.window + 3 - 1
      BY <1>1 DEF SmoothWindow
    <3> HIDE DEF ks
    <3>3. (Len(ks) = 3) <=> n + 1 >= f.window + 3 - 1
      BY <1>1, <2>2, <3>1 DEF Capped
    <3> QED
      BY <3>2, <3>3 DEF SmoothWindow
  <2> HIDE DEF h, g, ks, p
  <2>6. Settled(f, Settle([f EXCEPT !.hist = h, !.acc = ks], Len(ks) = SmoothWindow, k \o p),
                h, ks, Len(ks) = SmoothWindow, k \o p)
    BY <1>1, SettleHistAcc, Zenon
  <2>7. Settled(f, g, h, ks, Len(ks) = SmoothWindow, k \o p)
    BY <2>1, <2>6, Zenon
  <2>8. Ripe(g, n + 1)
    BY <1>1, <1>3, <2>5, <2>7, SettledRipe DEF None
  <2>9. g.kind = f.kind /\ g.window = f.window /\ g.hist = h /\ g.acc = ks
    BY <2>7 DEF Settled
  <2>10. Rolled(g, n + 1)
    BY <1>1, <1>2, <2>9 DEF Rolled, HistCap
  <2>11. Holds(g.acc, Capped(n + 1 - g.window + 1, SmoothWindow)) /\ ~(n + 1 < g.window)
    BY <1>1, <2>2, <2>4, <2>9
  <2>12. Fed(g, n + 1)
    <3>1. g.kind = "STOCH"
      BY <2>9
    <3>2. Smoothed(g, n + 1)
      BY <1>1, <2>9, <2>11 DEF Smoothed
    <3> QED
      BY <2>8, <2>10, <3>1, <3>2 DEF Fed
  <2> QED
    BY <2>9, <2>12, Zenon DEF g
<1> QED
  BY <1>4, <1>5

LEMMA NewFed ==
  ASSUME NEW kind \in Kinds, NEW window \in Nat \ {0}
  PROVE  /\ New(kind, window).kind = kind /\ New(kind, window).window = window
         /\ Ripe(New(kind, window), 0) /\ Rolled(New(kind, window), 0)
         /\ Fed(New(kind, window), 0)
<1> DEFINE f == New(kind, window)
<1>1. /\ f.kind = kind /\ f.window = window /\ f.hist = <<>> /\ f.acc = <<>>
      /\ f.ready = FALSE /\ f.value = None /\ Shape(f)
  BY DEF New, Shape, With
<1> HIDE DEF f
<1>2. WarmUp(f.kind, f.window) >= 1
  BY <1>1 DEF WarmUp, SmoothWindow
<1>3. Ripe(f, 0)
  <2>1. WarmUp(f.kind, f.window) \in Nat
    BY <1>1 DEF WarmUp, SmoothWindow
  <2>2. ~(0 >= WarmUp(f.kind, f.window))
    BY <1>2, <2>1
  <2> QED
    BY <1>1, <2>2 DEF Ripe
<1>4. HistCap(f) \in Nat \ {0}
  BY <1>1 DEF HistCap
<1>5. Holds(<<>>, 0)
  <2>1. <<>> \in Seq(ToSet(<<>>)) /\ Len(<<>>) = 0
    OBVIOUS
  <2> QED
    BY <2>1 DEF Holds, IsSeq
<1>6. Rolled(f, 0)
  BY <1>1, <1>4, <1>5 DEF Rolled, Capped
<1>7. Fed(f, 0)
  BY <1>1, <1>3, <1>5, <1>6 DEF Fed, Smoothed
<1> QED
  BY <1>1, <1>3, <1>6, <1>7, Zenon DEF f

LEMMA BBFed ==
  ASSUME NEW f, NEW n \in Nat, Fed(f, n), f.kind = "BB", NEW bar
  PROVE  LET g == UpdateBB(f, bar) IN g.kind = f.kind /\ g.window = f.window /\ Fed(g, n + 1)
<1> DEFINE s == IF f.acc = <<>> THEN New("SMA", f.window) ELSE f.acc[1]
           d == IF f.acc = <<>> THEN New("STDDEV", f.window) ELSE f.acc[2]
           sma == UpdateSMA(s, bar)
           std == UpdateSTDDEV(d, bar)
           g == UpdateBB(f, bar)
<1>1. /\ f.window \in Nat \ {0} /\ Ripe(f, n) /\ Shape(f) /\ WarmUp(f.kind, f.window) = f.window
  BY DEF Fed, Ripe, WarmUp
<1>2. Part(f, s, "SMA", n) /\ Part(f, d, "STDDEV", n)
  <2>1. CASE n = 0
    <3>1. f.acc = <<>>
      BY <2>1 DEF Fed
    <3>2. "SMA" \in Kinds /\ "STDDEV" \in Kinds
      BY DEF Kinds
    <3>3. /\ s.kind = "SMA" /\ s.window = f.window /\ Ripe(s, 0) /\ Rolled(s, 0)
          /\ d.kind = "STDDEV" /\ d.window = f.window /\ Ripe(d, 0) /\ Rolled(d, 0)
      BY <1>1, <3>1, <3>2, NewFed, Zenon
    <3>4. ~s.ready /\ ~d.ready
      BY <3>1 DEF New
    <3> HIDE DEF s, d
    <3> QED
      BY <2>1, <3>3, <3>4 DEF Part
  <2>2. CASE n # 0
    <3>1. IsPair(f.acc) /\ Part(f, f.acc[1], "SMA", n) /\ Part(f, f.acc[2], "STDDEV", n)
      BY <2>2 DEF Fed
    <3>2. f.acc # <<>>
      BY <3>1, PairRight DEF IsPair, None
    <3> QED
      BY <3>1, <3>2, Zenon
  <2> QED
    BY <2>1, <2>2
<1> HIDE DEF s, d
<1>3. Part(f, sma, "SMA", n + 1) /\ Part(f, std, "STDDEV", n + 1)
  <2>1. PlainFed(s, sma, n)
    BY <1>2, RollFed DEF Part, UpdateSMA
  <2>2. PlainFed(d, std, n)
    BY <1>2, STDDEVFed DEF Part
  <2> HIDE DEF sma, std
  <2> QED
    BY <1>2, <2>1, <2>2 DEF Part, PlainFed
<1> DEFINE full == sma.ready /\ std.ready
           v == IF full THEN sma.value \o std.value ELSE <<0>>
           a == <<sma, std>>
<1>4. g = Settle([f EXCEPT !.acc = a], full, v)
  <2>1. g = Settle([f EXCEPT !.acc = a], full, sma.value \o std.value)
    BY Zenon DEF UpdateBB, s, d
  <2> QED
    BY <2>1, Zenon DEF Settle
<1> HIDE DEF sma, std
<1>5. v # <<>>
  <2>1. CASE full
    <3>1. IsPair(sma.value) /\ IsPair(std.value)
      BY <1>3, <2>1 DEF Part
    <3> QED
      BY <2>1, <3>1, Joined, Zenon
  <2>2. CASE ~full
    BY <2>2
  <2> QED
    BY <2>1, <2>2, Zenon
<1>6. full \in BOOLEAN /\ (full <=> n + 1 >= f.window)
  <2>1. WarmUp("SMA", f.window) = f.window /\ WarmUp("STDDEV", f.window) = f.window
    BY DEF WarmUp
  <2> QED
    BY <1>3, <2>1 DEF Part, Ripe
<1> HIDE DEF g
<1>7. Settled(f, g, f.hist, a, full, v)
  <2> HIDE DEF v, full
  <2> QED
    BY <1>1, <1>4, SettleAcc, Zenon
<1> HIDE DEF v, full
<1>8. Ripe(g, n + 1)
  BY <1>1, <1>5, <1>6, <1>7, SettledRipe DEF None
<1>9. g.kind = f.kind /\ g.window = f.window /\ g.acc = a
  BY <1>7 DEF Settled
<1>10. IsPair(g.acc) /\ g.acc[1] = sma /\ g.acc[2] = std
  BY <1>9, PairRight
<1>11. Part(g, sma, "SMA", n + 1) /\ Part(g, std, "STDDEV", n + 1)
  BY <1>3, <1>9 DEF Part
<1>12. Fed(g, n + 1)
  BY <1>8, <1>9, <1>10, <1>11 DEF Fed
<1> QED
  BY <1>9, <1>12, Zenon DEF g

\* One bar more, for any kind.
LEMMA UpdateFed ==
  ASSUME NEW f, NEW n \in Nat, Fed(f, n), NEW bar
  PROVE  /\ Update(f, bar).kind = f.kind /\ Update(f, bar).window = f.window
         /\ Fed(Update(f, bar), n + 1)
<1>1. f.kind \in Kinds
  BY DEF Fed, Ripe
<1>2. ASSUME NEW g, f.kind \in Plain, PlainFed(f, g, n)
      PROVE  g.kind = f.kind /\ g.window = f.window /\ Fed(g, n + 1)
  BY <1>2 DEF PlainFed, Plain, Fed
<1>3. f.kind \in Plain => Ripe(f, n) /\ Rolled(f, n)
  BY DEF Fed, Plain
<1>4. CASE f.kind = "SMA"
  <2>1. Update(f, bar) = Roll(f, bar.close) /\ f.kind \in Plain
    BY <1>4 DEF Update, UpdateSMA, Plain
  <2> QED
    BY <1>2, <1>3, <1>4, <2>1, RollFed
<1>5. CASE f.kind = "VOL_SMA"
  <2>1. Update(f, bar) = Roll(f, bar.volume) /\ f.kind \in Plain
    BY <1>5 DEF Update, UpdateVolSMA, Plain
  <2> QED
    BY <1>2, <1>3, <1>5, <2>1, RollFed
<1>6. CASE f.kind = "VWAP"
  <2>1. Update(f, bar) = UpdateVWAP(f, bar) /\ f.kind \in Plain
    BY <1>6 DEF Update, Plain
  <2> QED
    BY <1>2, <1>3, <1>6, <2>1, VWAPFed
<1>7. CASE f.kind = "STDDEV"
  <2>1. Update(f, bar) = UpdateSTDDEV(f, bar) /\ f.kind \in Plain
    BY <1>7 DEF Update, Plain
  <2> QED
    BY <1>2, <1>3, <1>7, <2>1, STDDEVFed
<1>8. CASE f.kind = "EMA"
  BY <1>8, EMAFed DEF Update
<1>9. CASE f.kind = "BB"
  BY <1>9, BBFed DEF Update
<1>10. CASE f.kind = "ATR"
  BY <1>10, ATRFed DEF Update
<1>11. CASE f.kind = "RSI"
  BY <1>11, RSIFed DEF Update
<1>12. CASE f.kind = "ROC"
  BY <1>12, ROCFed DEF Update
<1>13. CASE f.kind = "STOCH"
  BY <1>13, STOCHFed DEF Update
<1>14. CASE f.kind = "OBV"
  BY <1>14, OBVFed DEF Update
<1> QED
  BY <1>1, <1>4, <1>5, <1>6, <1>7, <1>8, <1>9, <1>10, <1>11, <1>12, <1>13, <1>14 DEF Kinds

-----------------------------------------------------------------------------
(* Lists and sets of positions *)

LEMMA SeqDomain ==
  ASSUME NEW q, IsSeq(q)
  PROVE  DOMAIN q = 1..Len(q) /\ Len(q) \in Nat
BY DEF IsSeq

\* A function on the first n numbers is a list.
LEMMA FunSeq ==
  ASSUME NEW n \in Nat, NEW q, q = [i \in 1..n |-> q[i]]
  PROVE  IsSeq(q) /\ Len(q) = n
<1>1. DOMAIN q = 1..n
  BY Zenon
<1>2. ToSet(q) = {q[i] : i \in 1..n}
  BY <1>1 DEF ToSet
<1>3. q \in Seq({q[i] : i \in 1..n})
  OBVIOUS
<1> QED
  BY <1>1, <1>2, <1>3 DEF IsSeq

\* What a list holds once its head is gone.
LEMMA TailRest ==
  ASSUME NEW q, IsSeq(q), q # <<>>, NEW i \in 1..Len(Tail(q))
  PROVE  Tail(q)[i] = q[i + 1] /\ i + 1 \in 1..Len(q)
<1>1. q \in Seq(ToSet(q)) /\ Len(Tail(q)) = Len(q) - 1 /\ Len(q) \in Nat \ {0}
  BY SeqTail DEF IsSeq
<1>2. i \in 1..(Len(q) - 1)
  BY <1>1
<1> QED
  BY <1>1, <1>2

LEMMA HeadFirst ==
  ASSUME NEW q, IsSeq(q), q # <<>>
  PROVE  Head(q) = q[1] /\ 1 \in 1..Len(q)
<1>1. Len(q) \in Nat \ {0}
  BY SeqTail
<1> QED
  BY <1>1 DEF IsSeq

\* A set of natural numbers has a least element.
LEMMA LeastNat ==
  ASSUME NEW T \in SUBSET Nat, T # {}
  PROVE  \E m \in T : \A n \in T : m <= n
<1>1. IsWellFoundedOn(OpToRel(<, Nat), Nat)
  BY NatLessThanWellFounded
<1>2. PICK m \in T : \A n \in T : <<n, m>> \notin OpToRel(<, Nat)
  BY <1>1, WFMin
<1>3. \A n \in T : ~(n < m)
  BY <1>2 DEF OpToRel
<1> QED
  BY <1>3

\* Bounded above, it has a greatest one, and both are what Max and Min say.
LEMMA MaxMin ==
  ASSUME NEW n \in Nat, NEW T \in SUBSET (0..n), T # {}
  PROVE  /\ Max(T) \in T /\ \A x \in T : x <= Max(T)
         /\ Min(T) \in T /\ \A x \in T : Min(T) <= x
<1>1. \E m \in T : \A x \in T : m <= x
  BY LeastNat
<1>2. \E m \in T : \A x \in T : m >= x
  <2> DEFINE D == {n - x : x \in T}
  <2>1. D \in SUBSET Nat /\ D # {}
    <3>1. \A x \in T : n - x \in Nat
      OBVIOUS
    <3> QED
      BY <3>1
  <2>2. PICK d \in D : \A y \in D : d <= y
    BY <2>1, LeastNat
  <2>3. PICK m \in T : d = n - m
    OBVIOUS
  <2>4. ASSUME NEW x \in T PROVE m >= x
    <3>1. n - x \in D
      OBVIOUS
    <3>2. n - m <= n - x
      BY <2>2, <2>3, <3>1
    <3> QED
      BY <3>2
  <2> QED
    BY <2>4
<1>3. Max(T) \in T /\ \A x \in T : Max(T) >= x
  BY <1>2, Zenon DEF Max
<1>4. Min(T) \in T /\ \A x \in T : Min(T) <= x
  BY <1>1, Zenon DEF Min
<1> QED
  BY <1>3, <1>4

-----------------------------------------------------------------------------
(* The instances of the pipeline *)

FeatureInv ==
  /\ IsSeq(features) /\ IsSeq(since) /\ IsSeq(seen) /\ Len(features) = Len(since)
  /\ \A i \in 1..Len(features) : since[i] \in 0..Len(seen) /\ Fed(features[i], Age(i))

LEMMA InitFeatures == Init => FeatureInv
<1> SUFFICES ASSUME Init PROVE FeatureInv
  OBVIOUS
<1> DEFINE n == Len(AtStart)
<1>1. n \in Nat /\ DOMAIN AtStart = 1..n /\ \A i \in 1..n : AtStart[i] \in Kinds \X (Nat \ {0})
  BY SignalAssumption
<1> HIDE DEF n
<1>2. /\ features = [i \in 1..n |-> New(AtStart[i][1], AtStart[i][2])]
      /\ since = [i \in 1..n |-> 0] /\ seen = <<>>
  BY <1>1, Zenon DEF Init
<1>3. IsSeq(features) /\ Len(features) = n
  BY <1>1, <1>2, FunSeq
<1>4. IsSeq(since) /\ Len(since) = n
  BY <1>1, <1>2, FunSeq
<1>5. IsSeq(seen) /\ Len(seen) = 0
  BY <1>2 DEF IsSeq
<1>6. ASSUME NEW i \in 1..n PROVE since[i] = 0 /\ Fed(features[i], 0)
  <2>1. AtStart[i][1] \in Kinds /\ AtStart[i][2] \in Nat \ {0}
    BY <1>1
  <2>2. features[i] = New(AtStart[i][1], AtStart[i][2]) /\ since[i] = 0
    BY <1>2
  <2> QED
    BY <2>1, <2>2, NewFed
<1>7. \A i \in 1..n : Age(i) = 0
  BY <1>5, <1>6 DEF Age
<1> QED
  BY <1>3, <1>4, <1>5, <1>6, <1>7 DEF FeatureInv

\* Every instance gets the bar.
LEMMA FeaturesFed ==
  ASSUME FeatureInv, NEW bar,
         features' = [i \in DOMAIN features |-> Update(features[i], bar)],
         seen' = Append(seen, bar), since' = since
  PROVE  /\ FeatureInv' /\ Len(features') = Len(features) /\ Len(seen') = Len(seen) + 1
         /\ \A i \in 1..Len(features) :
              Age(i)' = Age(i) + 1 /\ IdOf(features'[i]) = IdOf(features[i])
<1> DEFINE n == Len(features)
<1>1. DOMAIN features = 1..n /\ n \in Nat
  BY SeqDomain DEF FeatureInv
<1> HIDE DEF n
<1>2. features' = [i \in 1..n |-> Update(features[i], bar)]
  BY <1>1, Zenon
<1>3. IsSeq(features') /\ Len(features') = n
  BY <1>1, <1>2, FunSeq
<1>4. IsSeq(seen') /\ Len(seen') = Len(seen) + 1 /\ Len(seen) \in Nat
  BY SeqAppend, SeqDomain DEF FeatureInv
<1>5. ASSUME NEW i \in 1..n
      PROVE  /\ since'[i] \in 0..Len(seen') /\ Age(i)' = Age(i) + 1
             /\ Fed(features'[i], Age(i) + 1) /\ IdOf(features'[i]) = IdOf(features[i])
  <2>1. since[i] \in 0..Len(seen) /\ Fed(features[i], Age(i))
    BY DEF FeatureInv, n
  <2>2. Age(i) \in Nat
    BY <1>4, <2>1 DEF Age
  <2>3. features'[i] = Update(features[i], bar)
    BY <1>2
  <2>4. /\ features'[i].kind = features[i].kind /\ features'[i].window = features[i].window
        /\ Fed(features'[i], Age(i) + 1)
    BY <2>1, <2>2, <2>3, UpdateFed
  <2>5. since'[i] \in 0..Len(seen') /\ Age(i)' = Age(i) + 1
    BY <1>4, <2>1 DEF Age
  <2> QED
    BY <2>4, <2>5 DEF IdOf
<1>6. IsSeq(since') /\ Len(features') = Len(since')
  BY <1>3 DEF FeatureInv, n
<1>7. \A i \in 1..Len(features') : since'[i] \in 0..Len(seen') /\ Fed(features'[i], Age(i)')
  BY <1>3, <1>5
<1>8. FeatureInv'
  BY <1>3, <1>4, <1>6, <1>7 DEF FeatureInv
<1> QED
  BY <1>3, <1>4, <1>5, <1>8 DEF n

LEMMA FeaturesGrow ==
  ASSUME FeatureInv, NEW kind \in Kinds, NEW window \in Nat \ {0},
         features' = Append(features, New(kind, window)),
         since' = Append(since, Len(seen)), seen' = seen
  PROVE  /\ FeatureInv' /\ Len(features') = Len(features) + 1
         /\ \A i \in 1..Len(features) : features'[i] = features[i] /\ Age(i)' = Age(i)
         /\ \A i : i = Len(features) + 1 => Age(i)' = 0
<1> DEFINE n == Len(features)
<1>1. n \in Nat /\ Len(since) = n /\ Len(seen) \in Nat
  BY SeqDomain DEF FeatureInv
<1>2. /\ IsSeq(features') /\ Len(features') = n + 1
      /\ \A i \in 1..n : features'[i] = features[i]
      /\ features'[n + 1] = New(kind, window)
  BY SeqAppend DEF FeatureInv
<1>3. /\ IsSeq(since') /\ Len(since') = n + 1
      /\ \A i \in 1..n : since'[i] = since[i]
      /\ since'[n + 1] = Len(seen)
  BY <1>1, SeqAppend DEF FeatureInv
<1> HIDE DEF n
<1>4. \A i \in 1..n : Age(i)' = Age(i)
  BY <1>3 DEF Age
<1>5. \A i : i = n + 1 => Age(i)' = 0
  BY <1>1, <1>3 DEF Age
<1>6. ASSUME NEW i \in 1..(n + 1)
      PROVE  since'[i] \in 0..Len(seen') /\ Fed(features'[i], Age(i)')
  <2>1. CASE i = n + 1
    <3>1. since'[i] \in 0..Len(seen')
      BY <1>1, <1>3, <2>1
    <3>2. features'[i] = New(kind, window) /\ Age(i)' = 0
      BY <1>2, <1>5, <2>1
    <3> QED
      BY <3>1, <3>2, NewFed
  <2>2. CASE i # n + 1
    <3>1. i \in 1..n
      BY <1>1, <2>2
    <3>2. since[i] \in 0..Len(seen) /\ Fed(features[i], Age(i))
      BY <3>1 DEF FeatureInv, n
    <3> QED
      BY <1>2, <1>3, <1>4, <3>1, <3>2
  <2> QED
    BY <2>1, <2>2
<1>7. FeatureInv'
  BY <1>1, <1>2, <1>3, <1>6 DEF FeatureInv
<1> QED
  BY <1>2, <1>4, <1>5, <1>7 DEF n

\* A step leaves the instances where they are, none younger.
FeaturesKept ==
  /\ Len(features') >= Len(features)
  /\ \A i \in 1..Len(features) :
       IdOf(features'[i]) = IdOf(features[i]) /\ Age(i)' >= Age(i)

LEMMA AgeType ==
  ASSUME FeatureInv, NEW i \in 1..Len(features)
  PROVE  Age(i) \in Nat
<1>1. Len(seen) \in Nat
  BY SeqDomain DEF FeatureInv
<1> QED
  BY <1>1 DEF FeatureInv, Age

LEMMA WarmUpType ==
  ASSUME FeatureInv, NEW i \in 1..Len(features)
  PROVE  WarmUp(features[i].kind, features[i].window) \in Nat
<1>1. features[i].kind \in Kinds /\ features[i].window \in Nat
  BY DEF FeatureInv, Fed, Ripe
<1> QED
  BY <1>1 DEF WarmUp, SmoothWindow

LEMMA Untouched ==
  ASSUME FeatureInv, UNCHANGED <<features, since, seen>>
  PROVE  FeatureInv' /\ FeaturesKept
<1>1. FeatureInv' /\ \A i : Age(i)' = Age(i)
  BY DEF FeatureInv, Age
<1>2. Len(features) \in Nat /\ \A i \in 1..Len(features) : Age(i) \in Nat
  BY SeqDomain, AgeType DEF FeatureInv
<1> QED
  BY <1>1, <1>2 DEF FeaturesKept, IdOf

LEMMA AddKeeps ==
  ASSUME FeatureInv, NEW spec \in Attachable, AddFeature(spec)
  PROVE  FeatureInv' /\ FeaturesKept
<1>1. spec[1] \in Kinds /\ spec[2] \in Nat \ {0}
  BY SignalAssumption
<1>2. /\ FeatureInv' /\ Len(features') = Len(features) + 1
      /\ \A i \in 1..Len(features) : features'[i] = features[i] /\ Age(i)' = Age(i)
  BY <1>1, FeaturesGrow DEF AddFeature, Change
<1>3. Len(features) \in Nat /\ \A i \in 1..Len(features) : Age(i) \in Nat
  BY SeqDomain, AgeType DEF FeatureInv
<1> QED
  BY <1>2, <1>3 DEF FeaturesKept, IdOf

LEMMA ComputeKeeps ==
  ASSUME FeatureInv, Compute
  PROVE  FeatureInv' /\ FeaturesKept
<1> DEFINE bar == Head(candles).bar
<1>1. since' = since
  BY DEF Compute
<1>2. CASE Computes(Head(candles))
  <2>1. /\ features' = [i \in DOMAIN features |-> Update(features[i], bar)]
        /\ seen' = Append(seen, bar)
    BY <1>2 DEF Compute, Computes
  <2> HIDE DEF bar
  <2>2. /\ FeatureInv' /\ Len(features') = Len(features)
        /\ \A i \in 1..Len(features) :
             Age(i)' = Age(i) + 1 /\ IdOf(features'[i]) = IdOf(features[i])
    BY <1>1, <2>1, FeaturesFed
  <2>3. Len(features) \in Nat /\ \A i \in 1..Len(features) : Age(i) \in Nat
    BY SeqDomain, AgeType DEF FeatureInv
  <2>4. \A i \in 1..Len(features) : Age(i)' >= Age(i)
    BY <2>2, <2>3
  <2> QED
    BY <2>2, <2>3, <2>4 DEF FeaturesKept
<1>3. CASE ~Computes(Head(candles)) /\ Head(candles).closed
  <2>1. features = <<>> /\ features' = features /\ seen' = Append(seen, bar)
    BY <1>3 DEF Compute, Computes
  <2>2. IsSeq(seen')
    BY <2>1, SeqAppend DEF FeatureInv
  <2>3. Len(features) = 0
    BY <2>1
  <2> QED
    BY <1>1, <2>1, <2>2, <2>3 DEF FeatureInv, FeaturesKept
<1>4. CASE ~Computes(Head(candles)) /\ ~Head(candles).closed
  <2>1. UNCHANGED <<features, since, seen>>
    BY <1>1, <1>4 DEF Compute
  <2> QED
    BY <2>1, Untouched
<1> QED
  BY <1>2, <1>3, <1>4

LEMMA FeatureStep ==
  ASSUME FeatureInv, [Next]_vars
  PROVE  FeatureInv' /\ FeaturesKept
<1>1. CASE Compute
  BY <1>1, ComputeKeeps
<1>2. ASSUME NEW spec \in Attachable, AddFeature(spec) PROVE FeatureInv' /\ FeaturesKept
  BY <1>2, AddKeeps
<1>3. CASE \E bar \in Bars, closed \in BOOLEAN : Candle(bar, closed)
  BY <1>3, Untouched DEF Candle, pipelineVars
<1>4. CASE \E strength \in [Strategies -> Strength] : Judge(strength)
  BY <1>4, Untouched DEF Judge, pipelineVars
<1>5. CASE StartPipeline \/ StopPipeline \/ StartManager \/ StopManager
  BY <1>5, Untouched DEF StartPipeline, StopPipeline, StartManager, StopManager, pipelineVars, Change
<1>6. ASSUME NEW s \in Strategies, NEW w \in Weights,
             EnableStrategy(s, w) \/ SetWeight(s, w)
      PROVE  FeatureInv' /\ FeaturesKept
  BY <1>6, Untouched DEF EnableStrategy, SetWeight, pipelineVars, Change
<1>7. ASSUME NEW s \in Strategies, DisableStrategy(s)
      PROVE  FeatureInv' /\ FeaturesKept
  BY <1>7, Untouched DEF DisableStrategy, pipelineVars, Change
<1>8. CASE UNCHANGED vars
  BY <1>8, Untouched DEF vars, pipelineVars
<1> QED
  BY <1>1, <1>2, <1>3, <1>4, <1>5, <1>6, <1>7, <1>8 DEF Next, Configure

LEMMA StaysWarm ==
  ASSUME FeatureInv, FeatureInv', FeaturesKept, NEW id, Warm(id)
  PROVE  Warm(id)'
<1>1. DOMAIN features = 1..Len(features) /\ DOMAIN features' = 1..Len(features')
      /\ Len(features) \in Nat /\ Len(features') \in Nat
  BY SeqDomain DEF FeatureInv
<1>2. PICK i \in 1..Len(features) :
             IdOf(features[i]) = id /\ Age(i) >= WarmUp(id[1], id[2])
  BY <1>1 DEF Warm
<1>3. WarmUp(id[1], id[2]) \in Nat /\ Age(i) \in Nat
  <2>1. id[1] = features[i].kind /\ id[2] = features[i].window
    BY <1>2 DEF IdOf
  <2> QED
    BY <2>1, WarmUpType, AgeType
<1>4. i \in 1..Len(features') /\ IdOf(features'[i]) = id /\ Age(i)' >= Age(i)
  BY <1>1, <1>2 DEF FeaturesKept
<1>5. Age(i)' \in Nat
  <2>1. Len(seen') \in Nat
    BY SeqDomain DEF FeatureInv
  <2>2. since'[i] \in 0..Len(seen')
    BY <1>4 DEF FeatureInv
  <2> QED
    BY <2>1, <2>2 DEF Age
<1>6. Age(i)' >= WarmUp(id[1], id[2])
  BY <1>2, <1>3, <1>4, <1>5
<1> QED
  BY <1>1, <1>4, <1>6 DEF Warm

-----------------------------------------------------------------------------
(* The tasks between publisher, pipeline and manager *)

QueueInv ==
  /\ pipelineOn \in BOOLEAN /\ managerOn \in BOOLEAN /\ published \in Nat
  /\ IsSeq(candles) /\ IsSeq(updates)
  /\ \A i \in 1..Len(candles) : candles[i].stamp \in 1..published
  /\ \A i \in 1..Len(updates) : /\ updates[i].stamp \in 1..published
                                /\ \A id \in updates[i].ids : Warm(id)
  /\ Len(candles) + Len(updates) <= MaxInFlight
  /\ owed \in 0..MaxInFlight
  /\ ~managerOn => Len(updates) <= owed

WarmKept == \A id : Warm(id) => Warm(id)'

AllAnnouncedWarm == \A id \in Announced(features) : Warm(id)

LEMMA AnnouncedWarm == FeatureInv => AllAnnouncedWarm
<1> SUFFICES ASSUME FeatureInv, NEW id \in Announced(features) PROVE Warm(id)
  BY DEF AllAnnouncedWarm
<1>1. DOMAIN features = 1..Len(features)
  BY SeqDomain DEF FeatureInv
<1>2. PICK i \in 1..Len(features) : features[i].ready /\ id = IdOf(features[i])
  BY <1>1 DEF Announced
<1>3. Age(i) >= WarmUp(features[i].kind, features[i].window)
  BY <1>2 DEF FeatureInv, Fed, Ripe
<1>4. id[1] = features[i].kind /\ id[2] = features[i].window
  BY <1>2 DEF IdOf
<1> QED
  BY <1>1, <1>2, <1>3, <1>4 DEF Warm

LEMMA InitQueue == Init => QueueInv
<1> SUFFICES ASSUME Init PROVE QueueInv
  OBVIOUS
<1>1. IsSeq(<<>>) /\ Len(<<>>) = 0
  BY DEF IsSeq
<1>2. /\ pipelineOn \in BOOLEAN /\ managerOn /\ managerOn \in BOOLEAN /\ published = 0
      /\ candles = <<>> /\ updates = <<>> /\ owed = 0
  BY DEF Init
<1> QED
  BY <1>1, <1>2, SignalAssumption DEF QueueInv

\* What holds of each task in a queue holds of what its tail or one more leaves.
LEMMA QueueSizes ==
  ASSUME QueueInv
  PROVE  /\ Len(candles) \in Nat /\ Len(updates) \in Nat /\ owed \in Nat
         /\ MaxInFlight \in Nat /\ published \in Nat
BY SeqDomain, SignalAssumption DEF QueueInv

LEMMA CandleQueue ==
  ASSUME QueueInv, WarmKept, NEW bar, NEW closed, Candle(bar, closed)
  PROVE  QueueInv'
<1> DEFINE new == [bar |-> bar, closed |-> closed, stamp |-> published + 1]
<1> USE QueueSizes
<1>1. /\ published' = published + 1 /\ updates' = updates /\ owed' = owed
      /\ managerOn' = managerOn /\ pipelineOn' = pipelineOn
      /\ Len(candles) + Len(updates) < MaxInFlight
  BY DEF Candle, managerVars, pipelineVars
<1>2. /\ IsSeq(candles') /\ Len(candles') \in {Len(candles), Len(candles) + 1}
      /\ \A i \in 1..Len(candles') : candles'[i].stamp \in 1..published'
  <2>1. CASE pipelineOn
    <3>1. candles' = Append(candles, new)
      BY <2>1 DEF Candle
    <3>2. new.stamp = published + 1
      OBVIOUS
    <3> HIDE DEF new
    <3>3. /\ IsSeq(candles') /\ Len(candles') = Len(candles) + 1
          /\ \A i \in 1..Len(candles) : candles'[i] = candles[i]
          /\ candles'[Len(candles) + 1] = new
      BY <3>1, SeqAppend DEF QueueInv
    <3>4. ASSUME NEW i \in 1..(Len(candles) + 1) PROVE candles'[i].stamp \in 1..published'
      <4>1. CASE i = Len(candles) + 1
        BY <1>1, <3>2, <3>3, <4>1
      <4>2. CASE i # Len(candles) + 1
        <5>1. i \in 1..Len(candles)
          BY <4>2
        <5>2. candles[i].stamp \in 1..published
          BY <5>1 DEF QueueInv
        <5> QED
          BY <1>1, <3>3, <5>1, <5>2
      <4> QED
        BY <4>1, <4>2
    <3> QED
      BY <3>3, <3>4
  <2>2. CASE ~pipelineOn
    <3>1. candles' = candles
      BY <2>2 DEF Candle
    <3>2. \A i \in 1..Len(candles) : candles[i].stamp \in 1..published'
      BY <1>1 DEF QueueInv
    <3> QED
      BY <3>1, <3>2 DEF QueueInv
  <2> QED
    BY <2>1, <2>2
<1>3. \A i \in 1..Len(updates') : /\ updates'[i].stamp \in 1..published'
                                  /\ \A id \in updates'[i].ids : Warm(id)'
  BY <1>1 DEF QueueInv, WarmKept
<1>4. Len(candles') + Len(updates') <= MaxInFlight
  BY <1>1, <1>2
<1> QED
  BY <1>1, <1>2, <1>3, <1>4 DEF QueueInv

LEMMA ComputeQueue ==
  ASSUME QueueInv, FeatureInv, FeatureInv', WarmKept, Compute
  PROVE  QueueInv'
<1> DEFINE candle == Head(candles)
           new == [ids |-> Announced(features'), stamp |-> candle.stamp]
<1> USE QueueSizes
<1>1. /\ published' = published /\ candles' = Tail(candles) /\ candles # <<>> /\ owed' = owed
      /\ managerOn' = managerOn /\ pipelineOn' = pipelineOn
  BY DEF Compute, managerVars
<1>2. /\ IsSeq(candles') /\ Len(candles') = Len(candles) - 1 /\ Len(candles) # 0
      /\ \A i \in 1..Len(candles') : candles'[i].stamp \in 1..published'
  BY <1>1, SeqTail, TailRest DEF QueueInv
<1>3. candle.stamp \in 1..published
  BY <1>1, HeadFirst DEF QueueInv
<1>4. CASE updates' = updates
  <2>1. \A i \in 1..Len(updates') : /\ updates'[i].stamp \in 1..published'
                                    /\ \A id \in updates'[i].ids : Warm(id)'
    BY <1>1, <1>4 DEF QueueInv, WarmKept
  <2> QED
    BY <1>1, <1>2, <1>4, <2>1 DEF QueueInv
<1>5. CASE managerOn /\ updates' = Append(updates, new)
  <2>1. AllAnnouncedWarm'
    BY AnnouncedWarm, PTL
  <2>2. new.stamp \in 1..published /\ \A id \in new.ids : Warm(id)'
    BY <1>3, <2>1 DEF AllAnnouncedWarm
  <2> HIDE DEF new
  <2>3. /\ IsSeq(updates') /\ Len(updates') = Len(updates) + 1
        /\ \A i \in 1..Len(updates) : updates'[i] = updates[i]
        /\ updates'[Len(updates) + 1] = new
    BY <1>5, SeqAppend DEF QueueInv
  <2>4. ASSUME NEW i \in 1..(Len(updates) + 1)
        PROVE  updates'[i].stamp \in 1..published' /\ \A id \in updates'[i].ids : Warm(id)'
    <3>1. CASE i = Len(updates) + 1
      BY <1>1, <2>2, <2>3, <3>1
    <3>2. CASE i # Len(updates) + 1
      <4>1. i \in 1..Len(updates)
        BY <3>2
      <4>2. updates[i].stamp \in 1..published /\ \A id \in updates[i].ids : Warm(id)'
        BY <4>1 DEF QueueInv, WarmKept
      <4> QED
        BY <1>1, <2>3, <4>1, <4>2
    <3> QED
      BY <3>1, <3>2
  <2> QED
    BY <1>1, <1>2, <1>5, <2>3, <2>4 DEF QueueInv
<1>6. (updates' = updates) \/ (managerOn /\ updates' = Append(updates, new))
  <2>1. CASE Computes(candle)
    <3>1. features' = [i \in DOMAIN features |-> Update(features[i], candle.bar)]
      BY <2>1 DEF Compute
    <3>2. updates' = IF managerOn /\ Announced(features') # {} THEN Append(updates, new) ELSE updates
      BY <2>1, <3>1, Zenon DEF Compute
    <3> HIDE DEF new
    <3> QED
      BY <3>2
  <2>2. CASE ~Computes(candle)
    BY <2>2 DEF Compute
  <2> QED
    BY <2>1, <2>2
<1> QED
  BY <1>4, <1>5, <1>6

LEMMA JudgeQueue ==
  ASSUME QueueInv, WarmKept, NEW strength, Judge(strength)
  PROVE  QueueInv'
<1> USE QueueSizes
<1>1. /\ published' = published /\ candles' = candles /\ updates # <<>> /\ updates' = Tail(updates)
      /\ owed' = (IF owed > 0 THEN owed - 1 ELSE 0)
      /\ managerOn' = managerOn /\ pipelineOn' = pipelineOn
  BY DEF Judge, pipelineVars
<1>2. IsSeq(updates') /\ Len(updates') = Len(updates) - 1 /\ Len(updates) # 0
  BY <1>1, SeqTail DEF QueueInv
<1>3. ASSUME NEW i \in 1..Len(updates')
      PROVE  updates'[i].stamp \in 1..published' /\ \A id \in updates'[i].ids : Warm(id)'
  <2>1. updates'[i] = updates[i + 1] /\ i + 1 \in 1..Len(updates)
    BY <1>1, TailRest DEF QueueInv
  <2> QED
    BY <1>1, <2>1 DEF QueueInv, WarmKept
<1>4. owed' \in 0..MaxInFlight /\ (~managerOn' => Len(updates') <= owed')
  BY <1>1, <1>2 DEF QueueInv
<1>5. /\ IsSeq(candles') /\ Len(candles') + Len(updates') <= MaxInFlight
      /\ \A i \in 1..Len(candles') : candles'[i].stamp \in 1..published'
  BY <1>1, <1>2 DEF QueueInv
<1> QED
  BY <1>1, <1>2, <1>3, <1>4, <1>5 DEF QueueInv

\* A call that touches neither queue.
LEMMA CallQueue ==
  ASSUME QueueInv, WarmKept, UNCHANGED <<candles, updates, published>>,
         pipelineOn' \in BOOLEAN, managerOn' \in BOOLEAN,
         owed' \in 0..MaxInFlight, ~managerOn' => Len(updates) <= owed'
  PROVE  QueueInv'
<1>1. \A i \in 1..Len(updates') : /\ updates'[i].stamp \in 1..published'
                                  /\ \A id \in updates'[i].ids : Warm(id)'
  BY DEF QueueInv, WarmKept
<1> QED
  BY <1>1 DEF QueueInv

LEMMA QueueStep ==
  ASSUME QueueInv, FeatureInv, FeatureInv', WarmKept, [Next]_vars
  PROVE  QueueInv'
<1> USE QueueSizes
<1>1. CASE \E bar \in Bars, closed \in BOOLEAN : Candle(bar, closed)
  BY <1>1, CandleQueue
<1>2. CASE Compute
  BY <1>2, ComputeQueue
<1>3. CASE \E strength \in [Strategies -> Strength] : Judge(strength)
  BY <1>3, JudgeQueue
<1>4. CASE StopManager
  <2>1. Len(updates) \in 0..MaxInFlight /\ Len(updates) <= Len(updates)
    BY DEF QueueInv
  <2>2. /\ owed' = Len(updates) /\ managerOn' = FALSE /\ pipelineOn' = pipelineOn
        /\ UNCHANGED <<candles, updates, published>>
    BY <1>4 DEF StopManager, Change, pipelineVars
  <2>3. owed' \in 0..MaxInFlight /\ (~managerOn' => Len(updates) <= owed')
    BY <2>1, <2>2
  <2>4. pipelineOn' \in BOOLEAN /\ managerOn' \in BOOLEAN
    BY <2>2 DEF QueueInv
  <2> QED
    BY <2>2, <2>3, <2>4, CallQueue
<1>5. CASE StartManager
  BY <1>5, CallQueue DEF StartManager, Change, pipelineVars, QueueInv
<1>6. CASE StartPipeline \/ StopPipeline
  BY <1>6, CallQueue DEF StartPipeline, StopPipeline, Change, managerVars, QueueInv
<1>7. ASSUME NEW spec \in Attachable, AddFeature(spec) PROVE QueueInv'
  BY <1>7, CallQueue DEF AddFeature, Change, managerVars, QueueInv
<1>8. ASSUME NEW s \in Strategies, NEW w \in Weights, EnableStrategy(s, w) \/ SetWeight(s, w)
      PROVE  QueueInv'
  BY <1>8, CallQueue DEF EnableStrategy, SetWeight, Change, pipelineVars, QueueInv
<1>9. ASSUME NEW s \in Strategies, DisableStrategy(s) PROVE QueueInv'
  BY <1>9, CallQueue DEF DisableStrategy, Change, pipelineVars, QueueInv
<1>10. CASE UNCHANGED vars
  BY <1>10, CallQueue DEF vars, pipelineVars, managerVars, QueueInv
<1> QED
  BY <1>1, <1>2, <1>3, <1>4, <1>5, <1>6, <1>7, <1>8, <1>9, <1>10 DEF Next, Configure

-----------------------------------------------------------------------------
(* The store against the instances *)

\* What StoreMirrorsFeatures says, of any store, instances and positions fed.
Mirrored(st, fs, fed) ==
  LET ids == {IdOf(fs[i]) : i \in fed}
  IN  /\ DOMAIN st \ {RawClose} = ids
      /\ \A id \in ids :
           st[id] = Entry(fs[Max({i \in fed : IdOf(fs[i]) = id})], st[RawClose].at)

FedOnes == {i \in DOMAIN features : Age(i) > 0}

LEMMA MirrorMeans == StoreMirrorsFeatures <=> Mirrored(store, features, FedOnes)
BY Zenon DEF StoreMirrorsFeatures, Mirrored, FedOnes

LEMMA MirrorStays ==
  ASSUME NEW st, NEW fs, NEW gs, NEW n \in Nat, NEW fed \in SUBSET (0..n),
         \A i \in fed : gs[i] = fs[i], Mirrored(st, fs, fed)
  PROVE  Mirrored(st, gs, fed)
<1>1. {IdOf(gs[i]) : i \in fed} = {IdOf(fs[i]) : i \in fed}
  <2>1. \A i \in fed : IdOf(gs[i]) = IdOf(fs[i])
    BY Zenon
  <2> QED
    BY <2>1
<1>2. ASSUME NEW id \in {IdOf(fs[i]) : i \in fed}
      PROVE  st[id] = Entry(gs[Max({i \in fed : IdOf(gs[i]) = id})], st[RawClose].at)
  <2> DEFINE T == {i \in fed : IdOf(fs[i]) = id}
  <2>1. {i \in fed : IdOf(gs[i]) = id} = T
    <3>1. \A i \in fed : IdOf(gs[i]) = IdOf(fs[i])
      BY Zenon
    <3> QED
      BY <3>1
  <2>2. T \in SUBSET (0..n) /\ T # {}
    OBVIOUS
  <2>3. Max(T) \in fed
    <3>1. Max(T) \in T
      <4> HIDE DEF T
      <4> QED
        BY <2>2, MaxMin
    <3> QED
      BY <3>1
  <2>4. st[id] = Entry(fs[Max(T)], st[RawClose].at)
    BY Zenon DEF Mirrored
  <2> HIDE DEF T
  <2> QED
    BY <2>1, <2>3, <2>4, Zenon
<1> QED
  BY <1>1, <1>2, Zenon DEF Mirrored

\* The raw close is not a feature.
LEMMA NoRawClose ==
  ASSUME FeatureInv, NEW i \in 1..Len(features)
  PROVE  IdOf(features[i]) # RawClose /\ IdOf(features[i]) = <<features[i].kind, features[i].window>>
<1>1. features[i].kind \in Kinds
  BY DEF FeatureInv, Fed, Ripe
<1>2. "CLOSE" \notin Kinds
  BY DEF Kinds
<1> QED
  BY <1>1, <1>2 DEF IdOf, RawClose

\* A store written after every instance has been fed shows them all.
LEMMA StoredMirrors ==
  ASSUME NEW fs, NEW n, DOMAIN fs = 1..n, \A i \in 1..n : IdOf(fs[i]) # RawClose,
         DOMAIN store \ {RawClose} \subseteq {IdOf(fs[i]) : i \in 1..n}, NEW candle
  PROVE  /\ Mirrored(Stored(fs, candle), fs, 1..n)
         /\ \A id \in DOMAIN Stored(fs, candle) : Stored(fs, candle)[id].at = candle.stamp
<1> DEFINE ids == {IdOf(fs[i]) : i \in 1..n}
           st == Stored(fs, candle)
<1>1. st = [id \in DOMAIN store \cup ids \cup {RawClose} |->
              IF id = RawClose THEN Close(candle)
              ELSE IF id \in ids THEN Entry(fs[LatestOf(fs, id)], candle.stamp)
              ELSE store[id]]
  BY Zenon DEF Stored
<1>2. RawClose \notin ids
  BY Zenon
<1> DEFINE all == DOMAIN store \cup ids \cup {RawClose}
<1>3. all = ids \cup {RawClose}
  BY Zenon
<1> HIDE DEF ids, st
<1>4. DOMAIN st = ids \cup {RawClose}
  BY <1>1, <1>3, Zenon
<1>5. st[RawClose] = Close(candle)
  BY <1>1, Zenon
<1>6. ASSUME NEW id \in ids PROVE st[id] = Entry(fs[LatestOf(fs, id)], candle.stamp)
  <2>1. id \in all /\ id # RawClose
    BY <1>2, Zenon
  <2> QED
    BY <1>1, <2>1, Zenon
<1>7. st[RawClose].at = candle.stamp /\ \A f : Entry(f, candle.stamp).at = candle.stamp
  BY <1>5 DEF Close, Entry
<1>8. \A id \in DOMAIN st : st[id].at = candle.stamp
  <2> SUFFICES ASSUME NEW id \in DOMAIN st PROVE st[id].at = candle.stamp
    OBVIOUS
  <2>1. CASE id \in ids
    BY <1>6, <1>7, <2>1, Zenon
  <2>2. CASE id = RawClose
    BY <1>7, <2>2, Zenon
  <2> QED
    BY <1>4, <2>1, <2>2, Zenon
<1>9. DOMAIN st \ {RawClose} = ids
  BY <1>2, <1>4, Zenon
<1>10. \A id \in ids : st[id] = Entry(fs[Max({i \in 1..n : IdOf(fs[i]) = id})], st[RawClose].at)
  BY <1>6, <1>7, Zenon DEF LatestOf
<1>11. Mirrored(st, fs, 1..n)
  BY <1>9, <1>10, Zenon DEF Mirrored, ids
<1> QED
  BY <1>8, <1>11, Zenon DEF st

StoreInv ==
  /\ \A id \in DOMAIN store : store[id].at \in 1..published
  /\ Mirrored(store, features, FedOnes)

LEMMA InitStore == Init /\ FeatureInv => StoreInv
<1> SUFFICES ASSUME Init, FeatureInv PROVE StoreInv
  OBVIOUS
<1>1. store = <<>> /\ DOMAIN <<>> = {}
  BY DEF Init
<1>2. FedOnes = {}
  <2>1. ASSUME NEW i \in DOMAIN features PROVE ~(Age(i) > 0)
    <3>1. seen = <<>> /\ Len(<<>>) = 0
      BY DEF Init
    <3>2. since[i] \in 0..Len(seen)
      BY SeqDomain DEF FeatureInv
    <3> QED
      BY <3>1, <3>2 DEF Age
  <2> QED
    BY <2>1 DEF FedOnes
<1> QED
  BY <1>1, <1>2 DEF StoreInv, Mirrored

LEMMA StoreKept ==
  ASSUME StoreInv, FeatureInv, published \in Nat, store' = store,
         published' \in {published, published + 1}, FedOnes' = FedOnes,
         \A i \in FedOnes : features'[i] = features[i]
  PROVE  StoreInv'
<1>1. Len(features) \in Nat /\ FedOnes \in SUBSET (0..Len(features))
  BY SeqDomain DEF FeatureInv, FedOnes
<1>2. Mirrored(store, features', FedOnes)
  BY <1>1, MirrorStays DEF StoreInv
<1>3. Mirrored(store, features, FedOnes)'
  BY <1>2, Zenon
<1>4. \A id \in DOMAIN store' : store'[id].at \in 1..published'
  BY DEF StoreInv
<1> QED
  BY <1>3, <1>4 DEF StoreInv

LEMMA ComputeStore ==
  ASSUME StoreInv, FeatureInv, FeatureInv', QueueInv, Compute
  PROVE  StoreInv'
<1> DEFINE candle == Head(candles)
<1>1. since' = since /\ published' = published /\ published \in Nat
  BY DEF Compute, QueueInv
<1>2. CASE Computes(candle)
  <2> DEFINE fs == [i \in DOMAIN features |-> Update(features[i], candle.bar)]
             n == Len(features)
  <2>1. features' = fs /\ seen' = Append(seen, candle.bar) /\ store' = Stored(fs, candle)
    BY <1>2, Zenon DEF Compute, Computes
  <2>2. /\ Len(features') = n
        /\ \A i \in 1..n : Age(i)' = Age(i) + 1 /\ IdOf(features'[i]) = IdOf(features[i])
    BY <1>1, <2>1, FeaturesFed
  <2>3. store' = Stored(features', candle)
    BY <2>1, Zenon
  <2> HIDE DEF fs
  <2>4. DOMAIN features = 1..n /\ DOMAIN features' = 1..n /\ n \in Nat
    BY <2>2, SeqDomain DEF FeatureInv
  <2>5. FedOnes' = 1..n
    <3>1. \A i \in 1..n : Age(i)' > 0
      BY <2>2, AgeType
    <3> QED
      BY <2>4, <3>1 DEF FedOnes
  <2>6. \A i \in 1..n : IdOf(features'[i]) # RawClose
    BY <2>2, NoRawClose
  <2>7. DOMAIN store \ {RawClose} \subseteq {IdOf(features'[i]) : i \in 1..n}
    <3>1. DOMAIN store \ {RawClose} = {IdOf(features[i]) : i \in FedOnes}
      BY Zenon DEF StoreInv, Mirrored
    <3>2. FedOnes \subseteq 1..n
      BY <2>4 DEF FedOnes
    <3> QED
      BY <2>2, <3>1, <3>2
  <2> HIDE DEF n
  <2>8. /\ Mirrored(Stored(features', candle), features', 1..n)
        /\ \A id \in DOMAIN Stored(features', candle) :
             Stored(features', candle)[id].at = candle.stamp
    BY <2>4, <2>6, <2>7, StoredMirrors, Zenon
  <2>9. candle.stamp \in 1..published
    BY HeadFirst DEF QueueInv, Compute
  <2>10. \A id \in DOMAIN store' : store'[id].at \in 1..published'
    BY <1>1, <2>3, <2>8, <2>9, Zenon
  <2>11. Mirrored(store, features, FedOnes)'
    BY <2>3, <2>5, <2>8, Zenon
  <2> QED
    BY <2>10, <2>11 DEF StoreInv
<1>3. CASE ~Computes(candle) /\ candle.closed
  <2>1. features = <<>> /\ features' = features /\ store' = store
    BY <1>3 DEF Compute, Computes
  <2>2. FedOnes = {} /\ FedOnes' = {}
    <3>1. DOMAIN <<>> = {}
      OBVIOUS
    <3> QED
      BY <2>1, <3>1 DEF FedOnes
  <2> QED
    BY <1>1, <2>1, <2>2, StoreKept
<1>4. CASE ~Computes(candle) /\ ~candle.closed
  <2>1. features' = features /\ store' = store /\ seen' = seen
    BY <1>4 DEF Compute
  <2>2. FedOnes' = FedOnes
    BY <1>1, <2>1 DEF FedOnes, Age
  <2> QED
    BY <1>1, <2>1, <2>2, StoreKept
<1> QED
  BY <1>2, <1>3, <1>4

LEMMA AddStore ==
  ASSUME StoreInv, FeatureInv, QueueInv, NEW spec \in Attachable, AddFeature(spec)
  PROVE  StoreInv'
<1> DEFINE n == Len(features)
<1>1. spec[1] \in Kinds /\ spec[2] \in Nat \ {0}
  BY SignalAssumption
<1>2. store' = store /\ published' = published /\ published \in Nat
  BY DEF AddFeature, Change, QueueInv
<1>3. /\ FeatureInv' /\ Len(features') = n + 1
      /\ \A i \in 1..n : features'[i] = features[i] /\ Age(i)' = Age(i)
      /\ \A i : i = n + 1 => Age(i)' = 0
  BY <1>1, FeaturesGrow DEF AddFeature, Change
<1>4. DOMAIN features = 1..n /\ DOMAIN features' = 1..(n + 1) /\ n \in Nat
  BY <1>3, SeqDomain DEF FeatureInv
<1> HIDE DEF n
<1>5. FedOnes' = FedOnes
  <2>1. 1..(n + 1) = (1..n) \cup {n + 1}
    BY <1>4
  <2> QED
    BY <1>3, <1>4, <2>1 DEF FedOnes
<1>6. \A i \in FedOnes : features'[i] = features[i]
  BY <1>3, <1>4 DEF FedOnes
<1> QED
  BY <1>2, <1>5, <1>6, StoreKept

LEMMA StoreStep ==
  ASSUME StoreInv, FeatureInv, FeatureInv', QueueInv, [Next]_vars
  PROVE  StoreInv'
<1>1. CASE Compute
  BY <1>1, ComputeStore
<1>2. ASSUME NEW spec \in Attachable, AddFeature(spec) PROVE StoreInv'
  BY <1>2, AddStore
<1>3. ASSUME UNCHANGED <<features, since, seen, store>>, published' \in {published, published + 1}
      PROVE  StoreInv'
  <2>1. FedOnes' = FedOnes /\ published \in Nat
    BY <1>3 DEF FedOnes, Age, QueueInv
  <2> QED
    BY <1>3, <2>1, StoreKept
<1>4. CASE \E bar \in Bars, closed \in BOOLEAN : Candle(bar, closed)
  BY <1>3, <1>4 DEF Candle, pipelineVars
<1>5. CASE \E strength \in [Strategies -> Strength] : Judge(strength)
  BY <1>3, <1>5 DEF Judge, pipelineVars
<1>6. CASE StartPipeline \/ StopPipeline \/ StartManager \/ StopManager
  BY <1>3, <1>6 DEF StartPipeline, StopPipeline, StartManager, StopManager, pipelineVars, Change
<1>7. ASSUME NEW s \in Strategies, NEW w \in Weights, EnableStrategy(s, w) \/ SetWeight(s, w)
      PROVE  StoreInv'
  BY <1>3, <1>7 DEF EnableStrategy, SetWeight, pipelineVars, Change
<1>8. ASSUME NEW s \in Strategies, DisableStrategy(s) PROVE StoreInv'
  BY <1>3, <1>8 DEF DisableStrategy, pipelineVars, Change
<1>9. CASE UNCHANGED vars
  BY <1>3, <1>9 DEF vars, pipelineVars
<1> QED
  BY <1>1, <1>2, <1>4, <1>5, <1>6, <1>7, <1>8, <1>9 DEF Next, Configure

-----------------------------------------------------------------------------
(* A list without some members, which is a recursive function: an induction
   over it is an argument about the least position at which it goes wrong. *)

\* What is kept of the first n positions of a list.
KeptUpTo(list, out, n, kept) ==
  kept = [i \in 0..n |->
            IF i = 0 THEN <<>>
            ELSE IF list[i] \in out THEN kept[i - 1] ELSE Append(kept[i - 1], list[i])]

LEMMA KeptAt ==
  ASSUME NEW list, NEW out, NEW n, NEW kept, KeptUpTo(list, out, n, kept), NEW i \in 0..n
  PROVE  kept[i] = IF i = 0 THEN <<>>
                   ELSE IF list[i] \in out THEN kept[i - 1] ELSE Append(kept[i - 1], list[i])
BY Zenon DEF KeptUpTo

\* The recursion has a solution.
LEMMA KeptExists ==
  ASSUME NEW list, NEW out, NEW n \in Nat
  PROVE  \E kept : KeptUpTo(list, out, n, kept)
<1> DEFINE Bad == {k \in Nat : ~\E kept : KeptUpTo(list, out, k, kept)}
<1>1. Bad = {}
  <2> SUFFICES ASSUME Bad # {} PROVE FALSE
    OBVIOUS
  <2>1. PICK k \in Bad : \A m \in Bad : k <= m
    BY LeastNat
  <2>2. CASE k = 0
    <3> DEFINE none == [i \in 0..0 |-> <<>>]
    <3>1. KeptUpTo(list, out, 0, none)
      BY DEF KeptUpTo
    <3> QED
      BY <2>2, <3>1
  <2>3. CASE k # 0
    <3>1. k - 1 \in Nat /\ k - 1 \notin Bad
      BY <2>1, <2>3
    <3>2. PICK f : KeptUpTo(list, out, k - 1, f)
      BY <3>1
    <3> DEFINE g == [i \in 0..k |->
                       IF i = 0 THEN <<>>
                       ELSE IF list[i] \in out THEN f[i - 1] ELSE Append(f[i - 1], list[i])]
    <3>3. ASSUME NEW i \in 0..(k - 1) PROVE g[i] = f[i]
      <4>1. i \in 0..k
        BY <3>1
      <4>2. g[i] = IF i = 0 THEN <<>>
                   ELSE IF list[i] \in out THEN f[i - 1] ELSE Append(f[i - 1], list[i])
        BY <4>1, Zenon
      <4> HIDE DEF g
      <4> QED
        BY <3>2, <4>2, KeptAt
    <3> HIDE DEF g
    <3>4. \A i \in 0..k : i # 0 => g[i - 1] = f[i - 1]
      <4>1. \A i \in 0..k : i # 0 => i - 1 \in 0..(k - 1)
        BY <3>1
      <4> QED
        BY <3>3, <4>1
    <3> USE DEF g
    <3>5. KeptUpTo(list, out, k, g)
      BY <3>4 DEF KeptUpTo
    <3> QED
      BY <2>1, <3>5
  <2> QED
    BY <2>2, <2>3
<1> QED
  BY <1>1

\* What is kept is in the list and not to be left out, and nothing comes twice.
KeptRight(S, list, out, i, t) ==
  /\ t \in Seq(S)
  /\ \A j \in 1..Len(t) : t[j] \notin out /\ \E k \in 1..i : t[j] = list[k]
  /\ \A j, k \in 1..Len(t) : t[j] = t[k] => j = k

LEMMA KeptStep ==
  ASSUME NEW S, NEW list \in Seq(S), IsInjective(list), NEW out, NEW i \in 1..Len(list), NEW t,
         KeptRight(S, list, out, i - 1, t)
  PROVE  KeptRight(S, list, out, i, IF list[i] \in out THEN t ELSE Append(t, list[i]))
<1> USE DEF KeptRight
<1>0. i \in Nat \ {0} /\ list[i] \in S /\ Len(t) \in Nat /\ t \in Seq(S)
  OBVIOUS
<1>1. CASE list[i] \in out
  BY <1>0, <1>1
<1>2. CASE list[i] \notin out
  <2> DEFINE u == Append(t, list[i])
  <2>1. u \in Seq(S) /\ Len(u) = Len(t) + 1 /\ u[Len(u)] = list[i]
        /\ \A j \in 1..Len(t) : u[j] = t[j]
    BY <1>0
  <2>2. \A j \in 1..Len(t) : t[j] # list[i]
    <3> SUFFICES ASSUME NEW j \in 1..Len(t) PROVE t[j] # list[i]
      OBVIOUS
    <3>1. PICK k \in 1..(i - 1) : t[j] = list[k]
      OBVIOUS
    <3>2. k \in DOMAIN list /\ i \in DOMAIN list /\ k # i
      BY <1>0, <3>1
    <3> QED
      BY <3>1, <3>2 DEF IsInjective
  <2> HIDE DEF u
  <2>3. \A j \in 1..Len(u) : u[j] \notin out /\ \E k \in 1..i : u[j] = list[k]
    <3> SUFFICES ASSUME NEW j \in 1..Len(u)
                 PROVE  u[j] \notin out /\ \E k \in 1..i : u[j] = list[k]
      OBVIOUS
    <3>1. CASE j = Len(u)
      BY <1>0, <1>2, <2>1, <3>1
    <3>2. CASE j # Len(u)
      <4>1. j \in 1..Len(t)
        BY <1>0, <2>1, <3>2
      <4>2. t[j] \notin out /\ \E k \in 1..(i - 1) : t[j] = list[k]
        BY <4>1
      <4> QED
        BY <1>0, <2>1, <4>1, <4>2
    <3> QED
      BY <3>1, <3>2
  <2>4. \A j, k \in 1..Len(u) : u[j] = u[k] => j = k
    BY <1>0, <2>1, <2>2
  <2>5. KeptRight(S, list, out, i, u)
    BY <1>0, <2>1, <2>3, <2>4
  <2> QED
    BY <1>2, <2>5 DEF u
<1> QED
  BY <1>1, <1>2

\* Removal from a list without duplicates.
LEMMA WithoutRight ==
  ASSUME NEW S, NEW list \in Seq(S), IsInjective(list), NEW out
  PROVE  KeptRight(S, list, out, Len(list), Without(list, out))
<1> DEFINE n == Len(list)
           kept == CHOOSE f : KeptUpTo(list, out, n, f)
           Bad == {i \in Nat : i <= n /\ ~KeptRight(S, list, out, i, kept[i])}
<1>0. n \in Nat
  OBVIOUS
<1>1. Without(list, out) = kept[n]
  BY DEF Without, KeptUpTo
<1>2. KeptUpTo(list, out, n, kept)
  BY <1>0, KeptExists
<1> HIDE DEF kept
<1>3. kept[0] = <<>> /\ \A i \in 1..n : kept[i] = IF list[i] \in out THEN kept[i - 1]
                                                  ELSE Append(kept[i - 1], list[i])
  <2>1. \A i \in 1..n : i \in 0..n /\ i # 0
    BY <1>0
  <2>2. 0 \in 0..n
    BY <1>0
  <2> HIDE DEF n
  <2> QED
    BY <1>2, <2>1, <2>2, KeptAt
<1>4. Bad = {}
  <2> SUFFICES ASSUME Bad # {} PROVE FALSE
    OBVIOUS
  <2>1. PICK i \in Bad : \A m \in Bad : i <= m
    BY LeastNat
  <2>2. CASE i = 0
    <3>1. KeptRight(S, list, out, 0, <<>>)
      BY DEF KeptRight
    <3> QED
      BY <1>3, <2>2, <3>1
  <2>3. CASE i # 0
    <3>1. i - 1 \in Nat /\ i - 1 <= n /\ i - 1 \notin Bad /\ i \in 1..n
      BY <1>0, <2>1, <2>3
    <3>2. KeptRight(S, list, out, i - 1, kept[i - 1])
      BY <3>1
    <3> QED
      BY <1>3, <2>1, <3>1, <3>2, KeptStep
  <2> QED
    BY <2>2, <2>3
<1> QED
  BY <1>0, <1>1, <1>4

-----------------------------------------------------------------------------
(* The votes *)

Directions == {"BUY", "SELL", "NONE"}

\* One vote per strategy, each of the form a strategy gives it.
Polled(b) ==
  /\ IsSeq(b)
  /\ \A i \in 1..Len(b) : /\ b[i].strategy \in Strategies /\ b[i].direction \in Directions
                          /\ b[i].confidence \in 0..100 /\ b[i].weight \in Nat
                          /\ b[i].direction # "NONE" => b[i].confidence >= 75
  /\ \A i, j \in 1..Len(b) : b[i].strategy = b[j].strategy => i = j

VoteInv ==
  /\ engine \in Engines
  /\ active \in Seq(Strategies) /\ IsInjective(active)
  /\ ToSet(active) \subseteq DOMAIN weights /\ ToSet(active) \subseteq DOMAIN metrics
  /\ \A s \in DOMAIN weights : weights[s] \in Nat
  /\ Polled(ballot)
  /\ \A i \in 1..Len(ballot) : \A id \in Reads(ballot[i].strategy) : Warm(id)
  /\ signal = Consensus(engine, ballot)

LEMMA DirectionType ==
  ASSUME NEW s \in Strategies, NEW snapshot
  PROVE  Direction(s, snapshot) \in Directions
<1>1. CrossDirection(snapshot) \in Directions
  <2> HIDE DEF Less
  <2> QED
    BY DEF CrossDirection, Directions
<1>2. RSIDirection(snapshot) \in Directions
  BY DEF RSIDirection, Directions
<1>3. BandDirection(snapshot) \in Directions
  <2> DEFINE bb    == snapshot[<<"BB", BandWindow>>].value
             away  == snapshot[RawClose].value[1] * bb[2] - bb[1]
             past  == away * away * bb[4] > 4 * bb[3] * bb[2] * bb[2]
  <2>1. BandDirection(snapshot) =
          IF past /\ away < 0 THEN "BUY" ELSE IF past /\ away > 0 THEN "SELL" ELSE "NONE"
    BY Zenon DEF BandDirection
  <2> HIDE DEF past, away
  <2> QED
    BY <2>1 DEF Directions
<1> QED
  BY <1>1, <1>2, <1>3 DEF Direction, Strategies

LEMMA ConfidenceType ==
  ASSUME NEW s \in Strategies, NEW strength \in [Strategies -> Strength], NEW d \in Directions
  PROVE  /\ Confidence(s, d, strength) \in 0..100
         /\ d # "NONE" => Confidence(s, d, strength) >= 75
<1>1. strength[s] \in 75..100
  BY SignalAssumption
<1> QED
  BY <1>1 DEF Confidence

LEMMA BallotRight ==
  ASSUME VoteInv, NEW snapshot, NEW strength \in [Strategies -> Strength]
  PROVE  LET b == Ballot(active, snapshot, strength, weights)
         IN  /\ Polled(b)
             /\ \A i \in 1..Len(b) : ~Abstains(b[i].strategy, snapshot)
<1> DEFINE out == {s \in Strategies : Silent(s, snapshot)}
           t == Without(active, out)
           n == Len(t)
           b == Ballot(active, snapshot, strength, weights)
<1>1. KeptRight(Strategies, active, out, Len(active), t)
  BY WithoutRight DEF VoteInv
<1>2. DOMAIN t = 1..n /\ n \in Nat /\ \A i \in 1..n : t[i] \in Strategies
  <2>1. t \in Seq(Strategies)
    BY <1>1 DEF KeptRight
  <2> HIDE DEF t
  <2> QED
    BY <2>1
<1>3. b = [i \in DOMAIN t |-> Vote(t[i], snapshot, strength, weights)]
  BY Zenon DEF Ballot
<1> HIDE DEF n, t, b
<1>4. b = [i \in 1..n |-> Vote(t[i], snapshot, strength, weights)]
  BY <1>2, <1>3, Zenon
<1>5. IsSeq(b) /\ Len(b) = n
  BY <1>2, <1>4, FunSeq
<1>6. ASSUME NEW i \in 1..n
      PROVE  /\ b[i].strategy = t[i] /\ b[i].direction \in Directions
             /\ b[i].confidence \in 0..100 /\ b[i].weight \in Nat
             /\ b[i].direction # "NONE" => b[i].confidence >= 75
             /\ ~Abstains(t[i], snapshot)
  <2> DEFINE d == Direction(t[i], snapshot)
             c == Confidence(t[i], d, strength)
             w == WeightOf(weights, t[i])
  <2>1. t[i] \in Strategies /\ d \in Directions
    BY <1>2, DirectionType
  <2> HIDE DEF d
  <2>2. c \in 0..100 /\ (d # "NONE" => c >= 75)
    BY <2>1, ConfidenceType
  <2>3. w \in Nat
    BY DEF WeightOf, VoteInv
  <2>4. b[i] = Vote(t[i], snapshot, strength, weights)
    BY <1>4, Zenon
  <2>5. b[i] = [strategy |-> t[i], direction |-> d, confidence |-> c, weight |-> w]
    BY <2>4, Zenon DEF Vote, d
  <2> HIDE DEF c, w
  <2>6. ~Silent(t[i], snapshot)
    BY <1>1, <2>1 DEF KeptRight, n
  <2>7. ~Abstains(t[i], snapshot)
    BY <2>6 DEF Silent
  <2> QED
    BY <2>1, <2>2, <2>3, <2>5, <2>7
<1>7. \A i, j \in 1..n : b[i].strategy = b[j].strategy => i = j
  BY <1>1, <1>6 DEF KeptRight, n
<1>8. Polled(b)
  BY <1>2, <1>5, <1>6, <1>7 DEF Polled
<1> QED
  BY <1>5, <1>6, <1>8 DEF b

\* Every feature in the store that is ready is warm.
LEMMA ReadyWarm ==
  ASSUME FeatureInv, StoreInv, NEW id, id # RawClose, Ready(store, id)
  PROVE  Warm(id)
<1> DEFINE T == {i \in FedOnes : IdOf(features[i]) = id}
           last == Max(T)
<1>1. DOMAIN features = 1..Len(features) /\ Len(features) \in Nat
  BY SeqDomain DEF FeatureInv
<1>2. id \in DOMAIN store /\ store[id].ready
  BY DEF Ready
<1>3. id \in {IdOf(features[i]) : i \in FedOnes}
  BY <1>2, Zenon DEF StoreInv, Mirrored
<1>4. last \in T
  <2>1. T \in SUBSET (0..Len(features)) /\ T # {}
    BY <1>1, <1>3 DEF FedOnes
  <2> HIDE DEF T
  <2> QED
    BY <1>1, <2>1, MaxMin
<1>5. store[id] = Entry(features[last], store[RawClose].at)
  BY <1>3, Zenon DEF StoreInv, Mirrored
<1>6. last \in 1..Len(features) /\ IdOf(features[last]) = id
  BY <1>1, <1>4 DEF FedOnes
<1> HIDE DEF last
<1>7. features[last].ready
  <2>1. \A f, at : Entry(f, at).ready = f.ready
    BY DEF Entry
  <2> QED
    BY <1>2, <1>5, <2>1, Zenon
<1>8. Age(last) >= WarmUp(features[last].kind, features[last].window)
  BY <1>6, <1>7 DEF FeatureInv, Fed, Ripe
<1>9. id[1] = features[last].kind /\ id[2] = features[last].window
  BY <1>6 DEF IdOf
<1> QED
  BY <1>1, <1>6, <1>8, <1>9 DEF Warm

LEMMA ReadsFeatures ==
  ASSUME NEW s \in Strategies, NEW id \in Reads(s)
  PROVE  id # RawClose
BY DEF Strategies, Reads, RawClose

LEMMA InitVote == Init => VoteInv
<1> SUFFICES ASSUME Init PROVE VoteInv
  OBVIOUS
<1>1. /\ engine \in Engines /\ active = Enabled
      /\ weights = [s \in ToSet(Enabled) |-> StartWeight[s]]
      /\ metrics = [s \in ToSet(Enabled) |-> 0]
      /\ ballot = <<>> /\ signal = NoSignal
  BY DEF Init
<1>2. \A s \in ToSet(Enabled) : s \in Strategies /\ StartWeight[s] \in Nat
  <2>1. \A s \in ToSet(Enabled) : s \in Strategies
    BY SignalAssumption DEF ToSet
  <2>2. \A s \in Strategies : StartWeight[s] \in Nat
    BY SignalAssumption
  <2> QED
    BY <2>1, <2>2
<1>3. ToSet(active) \subseteq DOMAIN weights /\ ToSet(active) \subseteq DOMAIN metrics
      /\ \A s \in DOMAIN weights : weights[s] \in Nat
  BY <1>1, <1>2
<1>4. Polled(<<>>) /\ Len(<<>>) = 0
  BY DEF Polled, IsSeq
<1> QED
  BY <1>1, <1>3, <1>4, SignalAssumption DEF VoteInv, Consensus

LEMMA JudgeVote ==
  ASSUME VoteInv, FeatureInv, StoreInv, WarmKept, NEW strength \in [Strategies -> Strength],
         Judge(strength)
  PROVE  VoteInv'
<1> DEFINE b == Ballot(active, store, strength, weights)
<1>1. Polled(b) /\ \A i \in 1..Len(b) : ~Abstains(b[i].strategy, store)
  BY BallotRight
<1>2. /\ ballot' = b /\ signal' = Consensus(engine, b) /\ DOMAIN metrics' = DOMAIN metrics
      /\ UNCHANGED <<active, weights, engine>>
  BY Zenon DEF Judge
<1> HIDE DEF b
<1>3. ASSUME NEW i \in 1..Len(b), NEW id \in Reads(b[i].strategy) PROVE Warm(id)'
  <2>1. b[i].strategy \in Strategies
    BY <1>1 DEF Polled
  <2>2. id # RawClose
    BY <2>1, ReadsFeatures
  <2>3. Ready(store, id)
    BY <1>1 DEF Abstains
  <2> QED
    BY <2>2, <2>3, ReadyWarm DEF WarmKept
<1>4. Polled(ballot') /\ \A i \in 1..Len(ballot') : \A id \in Reads(ballot'[i].strategy) : Warm(id)'
  BY <1>1, <1>2, <1>3, Zenon
<1>5. signal' = Consensus(engine', ballot')
  BY <1>2, Zenon
<1>6. ToSet(active') \subseteq DOMAIN weights' /\ ToSet(active') \subseteq DOMAIN metrics'
      /\ engine' \in Engines /\ active' \in Seq(Strategies) /\ IsInjective(active')
      /\ \A s \in DOMAIN weights' : weights'[s] \in Nat
  BY <1>2 DEF VoteInv
<1> QED
  BY <1>4, <1>5, <1>6, Zenon DEF VoteInv

\* A call that leaves the last ballot alone.
LEMMA CallVote ==
  ASSUME VoteInv, WarmKept, UNCHANGED <<ballot, signal, engine>>,
         active' \in Seq(Strategies), IsInjective(active'),
         ToSet(active') \subseteq DOMAIN weights', ToSet(active') \subseteq DOMAIN metrics',
         \A s \in DOMAIN weights' : weights'[s] \in Nat
  PROVE  VoteInv'
<1>1. Polled(ballot') /\ signal' = Consensus(engine', ballot') /\ engine' \in Engines
  BY DEF VoteInv
<1>2. \A i \in 1..Len(ballot') : \A id \in Reads(ballot'[i].strategy) : Warm(id)'
  BY DEF VoteInv, WarmKept
<1> QED
  BY <1>1, <1>2, Zenon DEF VoteInv

LEMMA EnableVote ==
  ASSUME VoteInv, WarmKept, NEW s \in Strategies, NEW w \in Weights, EnableStrategy(s, w)
  PROVE  VoteInv'
<1>1. /\ active' = Append(active, s) /\ s \notin ToSet(active)
      /\ weights' = [x \in DOMAIN weights \cup {s} |-> IF x = s THEN w ELSE weights[x]]
      /\ metrics' = [x \in DOMAIN metrics \cup {s} |-> IF x \in DOMAIN metrics THEN metrics[x] ELSE 0]
      /\ UNCHANGED <<ballot, signal, engine>>
  <2>1. s \notin ToSet(active)
    BY DEF EnableStrategy, Contains, ToSet, VoteInv
  <2> QED
    BY <2>1, Zenon DEF EnableStrategy, Change, voteVars
<1>2. active \in Seq(Strategies) /\ Len(active) \in Nat /\ w \in Nat
  BY SignalAssumption DEF VoteInv
<1>3. /\ active' \in Seq(Strategies) /\ Len(active') = Len(active) + 1
      /\ active'[Len(active) + 1] = s /\ \A i \in 1..Len(active) : active'[i] = active[i]
  BY <1>1, <1>2
<1>4. IsInjective(active')
  <2>1. \A i, j \in 1..Len(active) : active[i] = active[j] => i = j
    BY <1>2 DEF VoteInv, IsInjective
  <2>2. \A i \in 1..Len(active) : active[i] # s
    BY <1>1, <1>2 DEF ToSet
  <2>3. \A i, j \in 1..(Len(active) + 1) : active'[i] = active'[j] => i = j
    BY <1>2, <1>3, <2>1, <2>2
  <2>4. DOMAIN active' = 1..(Len(active) + 1)
    BY <1>3
  <2> QED
    BY <2>3, <2>4 DEF IsInjective
<1>5. ToSet(active') \subseteq ToSet(active) \cup {s}
  <2>1. DOMAIN active' = 1..(Len(active) + 1) /\ DOMAIN active = 1..Len(active)
    BY <1>2, <1>3
  <2> QED
    BY <1>2, <1>3, <2>1 DEF ToSet
<1>6. DOMAIN weights' = DOMAIN weights \cup {s} /\ DOMAIN metrics' = DOMAIN metrics \cup {s}
  BY <1>1
<1>7. \A x \in DOMAIN weights' : weights'[x] \in Nat
  BY <1>1, <1>2 DEF VoteInv
<1>8. ToSet(active') \subseteq DOMAIN weights' /\ ToSet(active') \subseteq DOMAIN metrics'
  BY <1>5, <1>6 DEF VoteInv
<1> QED
  BY <1>1, <1>3, <1>4, <1>7, <1>8, CallVote

LEMMA DisableVote ==
  ASSUME VoteInv, WarmKept, NEW s \in Strategies, DisableStrategy(s)
  PROVE  VoteInv'
<1> DEFINE t == Without(active, {s})
<1>1. active' = t /\ UNCHANGED <<weights, metrics, ballot, signal, engine>>
  BY DEF DisableStrategy, Change, voteVars
<1>2. KeptRight(Strategies, active, {s}, Len(active), t)
  BY WithoutRight DEF VoteInv
<1> HIDE DEF t
<1>3. t \in Seq(Strategies) /\ IsInjective(t)
  BY <1>2 DEF KeptRight, IsInjective
<1>4. ToSet(t) \subseteq ToSet(active)
  <2>1. active \in Seq(Strategies)
    BY DEF VoteInv
  <2> QED
    BY <1>2, <1>3, <2>1 DEF KeptRight, ToSet
<1> QED
  BY <1>1, <1>3, <1>4, CallVote DEF VoteInv

LEMMA VoteStep ==
  ASSUME VoteInv, FeatureInv, StoreInv, WarmKept, [Next]_vars
  PROVE  VoteInv'
<1>1. CASE \E strength \in [Strategies -> Strength] : Judge(strength)
  BY <1>1, JudgeVote
<1>2. ASSUME NEW s \in Strategies, NEW w \in Weights, EnableStrategy(s, w) PROVE VoteInv'
  BY <1>2, EnableVote
<1>3. ASSUME NEW s \in Strategies, DisableStrategy(s) PROVE VoteInv'
  BY <1>3, DisableVote
<1>4. ASSUME NEW s \in Strategies, NEW w \in Weights, SetWeight(s, w) PROVE VoteInv'
  <2>1. /\ weights' = [x \in DOMAIN weights \cup {s} |-> IF x = s THEN w ELSE weights[x]]
        /\ UNCHANGED <<active, metrics, ballot, signal, engine>>
    BY <1>4, Zenon DEF SetWeight, Change, voteVars
  <2>2. w \in Nat
    BY SignalAssumption
  <2>3. \A x \in DOMAIN weights' : weights'[x] \in Nat
    BY <2>1, <2>2 DEF VoteInv
  <2>4. ToSet(active') \subseteq DOMAIN weights' /\ ToSet(active') \subseteq DOMAIN metrics'
    BY <2>1 DEF VoteInv
  <2> QED
    BY <2>1, <2>3, <2>4, CallVote DEF VoteInv
<1>5. ASSUME UNCHANGED <<active, weights, metrics, ballot, signal, engine>> PROVE VoteInv'
  BY <1>5, CallVote DEF VoteInv
<1>6. CASE Compute
  BY <1>5, <1>6 DEF Compute, managerVars, voteVars
<1>7. CASE \E bar \in Bars, closed \in BOOLEAN : Candle(bar, closed)
  BY <1>5, <1>7 DEF Candle, managerVars, voteVars
<1>8. ASSUME NEW spec \in Attachable, AddFeature(spec) PROVE VoteInv'
  BY <1>5, <1>8 DEF AddFeature, Change, managerVars, voteVars
<1>9. CASE StartPipeline \/ StopPipeline \/ StartManager \/ StopManager
  BY <1>5, <1>9 DEF StartPipeline, StopPipeline, StartManager, StopManager, Change, managerVars,
     voteVars
<1>10. CASE UNCHANGED vars
  BY <1>5, <1>10 DEF vars, managerVars, voteVars
<1> QED
  BY <1>1, <1>2, <1>3, <1>4, <1>6, <1>7, <1>8, <1>9, <1>10 DEF Next, Configure

-----------------------------------------------------------------------------
(* The invariant *)

IInv == FeatureInv /\ QueueInv /\ StoreInv /\ VoteInv

LEMMA InitInv == Init => IInv
BY InitFeatures, InitQueue, InitStore, InitVote DEF IInv

LEMMA NextInv == IInv /\ [Next]_vars => IInv'
<1> SUFFICES ASSUME IInv, [Next]_vars PROVE IInv'
  OBVIOUS
<1>1. FeatureInv /\ FeatureInv' /\ FeaturesKept
  BY FeatureStep DEF IInv
<1>2. WarmKept
  BY <1>1, StaysWarm DEF WarmKept
<1>3. QueueInv' /\ StoreInv' /\ VoteInv'
  BY <1>1, <1>2, QueueStep, StoreStep, VoteStep DEF IInv
<1> QED
  BY <1>1, <1>3 DEF IInv

LEMMA Always == Spec => []IInv
BY InitInv, NextInv, PTL DEF Spec

LEMMA MajorityDirection ==
  ASSUME NEW b
  PROVE  Majority(b).direction \in Directions
<1> DEFINE leads(d) == \A e \in {"BUY", "SELL", "NONE"} \ {d} : Votes(b, d) > Votes(b, e)
           lead == CHOOSE e \in {"BUY", "SELL"} : leads(e)
<1>1. CASE \E d \in {"BUY", "SELL"} : leads(d)
  <2>1. lead \in {"BUY", "SELL"}
    BY <1>1, Zenon
  <2>2. Majority(b) = [direction |-> lead, confidence |-> <<100 * Votes(b, lead), Len(b)>>]
    BY <1>1, Zenon DEF Majority
  <2> HIDE DEF lead
  <2> QED
    BY <2>1, <2>2 DEF Directions
<1>2. CASE ~\E d \in {"BUY", "SELL"} : leads(d)
  <2>1. Majority(b) = NoSignal
    BY <1>2, Zenon DEF Majority
  <2> QED
    BY <2>1 DEF NoSignal, Directions
<1> QED
  BY <1>1, <1>2

LEMMA SignalType ==
  ASSUME NEW e, NEW b
  PROVE  Consensus(e, b).direction \in Directions
<1>1. NoSignal.direction \in Directions
  BY DEF NoSignal, Directions
<1>2. Weighted(b).direction \in Directions
  <2> DEFINE buy == Score(b, "BUY")
             sell == Score(b, "SELL")
             all == Possible(b)
  <2>1. Weighted(b) = IF all = 0 \/ buy = sell THEN NoSignal
                      ELSE IF buy > sell THEN [direction |-> "BUY", confidence |-> <<buy, all>>]
                      ELSE [direction |-> "SELL", confidence |-> <<sell, all>>]
    BY Zenon DEF Weighted
  <2> HIDE DEF buy, sell, all
  <2> QED
    BY <1>1, <2>1 DEF Directions
<1> QED
  BY <1>1, <1>2, MajorityDirection, Zenon DEF Consensus

\* Whatever is published, attached, enabled, weighed, started and stopped, and
\* in whatever order the tasks run, the state of the pipeline, the store, the
\* manager and the queues between them is of its type: nothing is stamped with
\* a candle not yet published, a strategy is active once and has a weight and
\* counters, and an indicator has a value when it says so.
THEOREM TypeCorrect == Spec => []TypeOK
<1>1. IInv => TypeOK
  <2> SUFFICES ASSUME IInv PROVE TypeOK
    OBVIOUS
  <2>1. DOMAIN features = 1..Len(features) /\ DOMAIN since = 1..Len(since)
    BY SeqDomain DEF IInv, FeatureInv
  <2>2. /\ DOMAIN features = DOMAIN since
        /\ \A i \in DOMAIN features : /\ features[i].kind \in Kinds
                                      /\ since[i] \in 0..Len(seen)
                                      /\ features[i].ready <=> features[i].value # None
    BY <2>1 DEF IInv, FeatureInv, Fed, Ripe
  <2>3. \A id \in DOMAIN store : store[id].at \in 1..published
    BY DEF IInv, StoreInv
  <2>4. DOMAIN candles = 1..Len(candles) /\ DOMAIN updates = 1..Len(updates)
    BY SeqDomain DEF IInv, QueueInv
  <2>5. /\ {pipelineOn, managerOn} \subseteq BOOLEAN
        /\ \A i \in DOMAIN candles : candles[i].stamp \in 1..published
        /\ \A i \in DOMAIN updates : updates[i].stamp \in 1..published
        /\ Len(candles) + Len(updates) <= MaxInFlight
        /\ owed \in 0..MaxInFlight
    BY <2>4 DEF IInv, QueueInv
  <2>6. /\ ToSet(active) \subseteq Strategies /\ IsInjective(active)
        /\ ToSet(active) \subseteq DOMAIN weights /\ ToSet(active) \subseteq DOMAIN metrics
    BY DEF IInv, VoteInv, ToSet
  <2>7. signal.direction \in {"BUY", "SELL", "NONE"}
    BY SignalType DEF IInv, VoteInv, Directions
  <2> QED
    BY <2>2, <2>3, <2>5, <2>6, <2>7 DEF TypeOK
<1> QED
  BY Always, <1>1, PTL

\* Once the manager is stopped it judges no more updates than were under way
\* then, whoever goes on publishing and whatever is attached meanwhile.
THEOREM StopBounded == Spec => []StopDrains
<1>1. IInv => StopDrains
  BY DEF IInv, QueueInv, StopDrains
<1> QED
  BY Always, <1>1, PTL

\* No feature is announced, and none is voted on, before an instance of it has
\* seen as many closed candles as its window takes, for any number of features
\* attached at any time, in any order of the tasks.
THEOREM NothingCold == Spec => []OnlyWarm
<1>1. IInv => OnlyWarm
  <2> SUFFICES ASSUME IInv PROVE OnlyWarm
    OBVIOUS
  <2>1. DOMAIN updates = 1..Len(updates) /\ DOMAIN ballot = 1..Len(ballot)
    BY SeqDomain DEF IInv, QueueInv, VoteInv, Polled
  <2> QED
    BY <2>1 DEF IInv, QueueInv, VoteInv, OnlyWarm
<1> QED
  BY Always, <1>1, PTL

\* A reader of the live store, at any time, sees every feature as of the candle
\* of the raw close, and as its instance is: no mixture of two candles.
THEOREM StoreIsOneCandle == Spec => []StoreMirrorsFeatures
<1>1. IInv => StoreMirrorsFeatures
  BY MirrorMeans, Zenon DEF IInv, StoreInv
<1> QED
  BY Always, <1>1, PTL

\* An indicator is ready from the candle on that completes its window, neither
\* earlier nor later and without a gap (the first half of FeaturesAreRight).
ReadyInTime ==
  \A i \in DOMAIN features :
    features[i].ready <=> Age(i) >= WarmUp(features[i].kind, features[i].window)

THEOREM ReadyWhenFull == Spec => []ReadyInTime
<1>1. IInv => ReadyInTime
  <2> SUFFICES ASSUME IInv PROVE ReadyInTime
    OBVIOUS
  <2>1. DOMAIN features = 1..Len(features)
    BY SeqDomain DEF IInv, FeatureInv
  <2> QED
    BY <2>1 DEF IInv, FeatureInv, Fed, Ripe, ReadyInTime
<1> QED
  BY Always, <1>1, PTL

-----------------------------------------------------------------------------
(* Sums over a list *)

SummedUpTo(list, n, sum) ==
  sum = [i \in 0..n |-> IF i = 0 THEN 0 ELSE sum[i - 1] + list[i]]

LEMMA SumAt ==
  ASSUME NEW list, NEW n, NEW sum, SummedUpTo(list, n, sum), NEW i \in 0..n
  PROVE  sum[i] = IF i = 0 THEN 0 ELSE sum[i - 1] + list[i]
BY Zenon DEF SummedUpTo

LEMMA SumExists ==
  ASSUME NEW list, NEW n \in Nat
  PROVE  \E sum : SummedUpTo(list, n, sum)
<1> DEFINE Bad == {k \in Nat : ~\E sum : SummedUpTo(list, k, sum)}
<1>1. Bad = {}
  <2> SUFFICES ASSUME Bad # {} PROVE FALSE
    OBVIOUS
  <2>1. PICK k \in Bad : \A m \in Bad : k <= m
    BY LeastNat
  <2>2. CASE k = 0
    <3> DEFINE zero == [i \in 0..0 |-> 0]
    <3>1. SummedUpTo(list, 0, zero)
      BY DEF SummedUpTo
    <3> QED
      BY <2>2, <3>1
  <2>3. CASE k # 0
    <3>1. k - 1 \in Nat /\ k - 1 \notin Bad
      BY <2>1, <2>3
    <3>2. PICK f : SummedUpTo(list, k - 1, f)
      BY <3>1
    <3> DEFINE g == [i \in 0..k |-> IF i = 0 THEN 0 ELSE f[i - 1] + list[i]]
    <3>3. ASSUME NEW i \in 0..(k - 1) PROVE g[i] = f[i]
      <4>1. i \in 0..k
        BY <3>1
      <4>2. g[i] = IF i = 0 THEN 0 ELSE f[i - 1] + list[i]
        BY <4>1, Zenon
      <4>3. f[i] = IF i = 0 THEN 0 ELSE f[i - 1] + list[i]
        BY <3>2, SumAt
      <4> QED
        BY <4>2, <4>3, Zenon
    <3> HIDE DEF g
    <3>4. \A i \in 0..k : i # 0 => g[i - 1] = f[i - 1]
      <4>1. \A i \in 0..k : i # 0 => i - 1 \in 0..(k - 1)
        BY <3>1
      <4> QED
        BY <3>3, <4>1
    <3>5. SummedUpTo(list, k, g)
      <4>1. g = [i \in 0..k |-> IF i = 0 THEN 0 ELSE f[i - 1] + list[i]]
        BY Zenon DEF g
      <4>2. [i \in 0..k |-> IF i = 0 THEN 0 ELSE f[i - 1] + list[i]]
              = [i \in 0..k |-> IF i = 0 THEN 0 ELSE g[i - 1] + list[i]]
        BY <3>4
      <4> QED
        BY <4>1, <4>2, Zenon DEF SummedUpTo
    <3> QED
      BY <2>1, <3>5
  <2> QED
    BY <2>2, <2>3
<1> QED
  BY <1>1

\* The partial sums of a list.
LEMMA PartialSums ==
  ASSUME NEW list, NEW n \in Nat, Len(list) = n
  PROVE  \E sum : /\ sum[0] = 0 /\ \A i \in 1..n : sum[i] = sum[i - 1] + list[i]
                  /\ Total(list) = sum[n]
<1> DEFINE sum == CHOOSE f : SummedUpTo(list, n, f)
<1>1. Total(list) = sum[n]
  BY DEF Total, SummedUpTo
<1>2. SummedUpTo(list, n, sum)
  BY SumExists
<1> HIDE DEF sum
<1>3. sum[0] = 0
  <2>1. 0 \in 0..n
    OBVIOUS
  <2> QED
    BY <1>2, <2>1, SumAt
<1>4. ASSUME NEW i \in 1..n PROVE sum[i] = sum[i - 1] + list[i]
  <2>1. i \in 0..n /\ i # 0
    OBVIOUS
  <2>2. sum[i] = IF i = 0 THEN 0 ELSE sum[i - 1] + list[i]
    BY <1>2, <2>1, SumAt
  <2> QED
    BY <2>1, <2>2, Zenon
<1> QED
  BY <1>1, <1>3, <1>4

LEMMA Distribute ==
  ASSUME NEW m \in Nat, NEW x \in Nat, NEW y \in Nat
  PROVE  m * (x + y) = m * x + m * y /\ m * x \in Nat /\ m * y \in Nat
OBVIOUS

\* Term by term at most, or at least, a multiple of another list; and no term
\* exceeds the sum.
LEMMA TotalBounds ==
  ASSUME NEW n \in Nat, NEW a, NEW b, Len(a) = n, Len(b) = n, NEW m \in Nat,
         \A i \in 1..n : a[i] \in Nat /\ b[i] \in Nat
  PROVE  /\ Total(a) \in Nat /\ Total(b) \in Nat
         /\ \A i \in 1..n : a[i] <= Total(a)
         /\ (\A i \in 1..n : a[i] <= m * b[i]) => Total(a) <= m * Total(b)
         /\ (\A i \in 1..n : m * b[i] <= a[i]) => m * Total(b) <= Total(a)
<1>1. PICK sa : /\ sa[0] = 0 /\ \A i \in 1..n : sa[i] = sa[i - 1] + a[i]
                /\ Total(a) = sa[n]
  BY PartialSums, Zenon
<1>2. PICK sb : /\ sb[0] = 0 /\ \A i \in 1..n : sb[i] = sb[i - 1] + b[i]
                /\ Total(b) = sb[n]
  BY PartialSums, Zenon
<1> DEFINE Most  == \A i \in 1..n : a[i] <= m * b[i]
           Least == \A i \in 1..n : m * b[i] <= a[i]
           Good(k) == /\ sa[k] \in Nat /\ sb[k] \in Nat
                      /\ \A i \in 1..k : a[i] <= sa[k]
                      /\ Most => sa[k] <= m * sb[k]
                      /\ Least => m * sb[k] <= sa[k]
           Bad == {k \in Nat : k <= n /\ ~Good(k)}
<1>3. Bad = {}
  <2> SUFFICES ASSUME Bad # {} PROVE FALSE
    OBVIOUS
  <2>1. PICK k \in Bad : \A l \in Bad : k <= l
    BY LeastNat
  <2>2. CASE k = 0
    <3>1. m * 0 = 0
      OBVIOUS
    <3>2. Good(0)
      BY <1>1, <1>2, <3>1
    <3> QED
      BY <2>1, <2>2, <3>2
  <2>3. CASE k # 0
    <3>1. k - 1 \in Nat /\ k - 1 <= n /\ k - 1 \notin Bad /\ k \in 1..n
      <4>1. k \in Nat /\ k <= n
        BY Zenon
      <4> HIDE DEF Bad
      <4> QED
        BY <2>1, <2>3, <4>1
    <3>2. Good(k - 1)
      <4> HIDE DEF Good
      <4> QED
        BY <3>1
    <3>3. PICK x \in Nat : x = sa[k - 1]
      BY <3>2
    <3>4. PICK y \in Nat : y = sb[k - 1]
      BY <3>2
    <3>5. PICK p \in Nat : p = a[k]
      BY <3>1
    <3>6. PICK q \in Nat : q = b[k]
      BY <3>1
    <3>7. sa[k] = x + p /\ sb[k] = y + q
      BY <1>1, <1>2, <3>1, <3>3, <3>4, <3>5, <3>6
    <3>8. m * (y + q) = m * y + m * q /\ m * y \in Nat /\ m * q \in Nat
      BY Distribute
    <3>9. \A i \in 1..k : a[i] <= sa[k]
      <4> SUFFICES ASSUME NEW i \in 1..k PROVE a[i] <= sa[k]
        OBVIOUS
      <4>1. a[i] \in Nat
        BY <3>1
      <4>2. CASE i = k
        BY <3>5, <3>7, <4>2
      <4>3. CASE i # k
        <5>1. i \in 1..(k - 1)
          BY <3>1, <4>3
        <5>2. a[i] <= x
          BY <3>2, <3>3, <5>1
        <5> QED
          BY <3>7, <4>1, <5>2
      <4> QED
        BY <4>2, <4>3
    <3>10. Most => sa[k] <= m * sb[k]
      <4> SUFFICES ASSUME Most PROVE x + p <= m * y + m * q
        BY <3>7, <3>8
      <4>1. x <= m * y
        BY <3>2, <3>3, <3>4
      <4>2. p <= m * q
        BY <3>1, <3>5, <3>6
      <4> QED
        BY <3>8, <4>1, <4>2
    <3>11. Least => m * sb[k] <= sa[k]
      <4> SUFFICES ASSUME Least PROVE m * y + m * q <= x + p
        BY <3>7, <3>8
      <4>1. m * y <= x
        BY <3>2, <3>3, <3>4
      <4>2. m * q <= p
        BY <3>1, <3>5, <3>6
      <4> QED
        BY <3>8, <4>1, <4>2
    <3>12. Good(k)
      BY <3>7, <3>9, <3>10, <3>11
    <3> QED
      BY <2>1, <3>12
  <2> QED
    BY <2>2, <2>3
<1>4. Good(n)
  <2> HIDE DEF Good
  <2> QED
    BY <1>3
<1> QED
  BY <1>1, <1>2, <1>4

-----------------------------------------------------------------------------
(* What the two ways of counting conclude *)

LEMMA Products ==
  ASSUME NEW x \in Nat, NEW y \in Nat, NEW m \in Nat
  PROVE  /\ x * y \in Nat /\ (y = 0 => x * y = 0 /\ m * y = 0)
         /\ (x <= m => x * y <= m * y) /\ (m <= x => m * y <= x * y)
         /\ (x > 0 /\ y > 0 => x * y > 0)
<1>1. x * y \in Nat /\ (y = 0 => x * y = 0 /\ m * y = 0)
  OBVIOUS
<1>2. ASSUME NEW k \in Nat, NEW l \in Nat, k <= l PROVE k * y <= l * y
  <2>1. PICK d \in Nat : l = k + d
    <3>1. l - k \in Nat /\ l = k + (l - k)
      BY <1>2
    <3> QED
      BY <3>1
  <2>2. l * y = k * y + d * y /\ d * y \in Nat /\ k * y \in Nat
    BY <2>1
  <2> QED
    BY <2>2
<1>3. x > 0 /\ y > 0 => x * y > 0
  OBVIOUS
<1> QED
  BY <1>1, <1>2, <1>3

\* The score of a direction, against any bound m on the confidences.
LEMMA ScoreFacts ==
  ASSUME NEW b, Polled(b), NEW d \in {"BUY", "SELL"}, NEW m \in Nat
  PROVE  LET n == Len(b)
         IN  /\ Score(b, d) \in Nat /\ Possible(b) \in Nat
             /\ (\A i \in 1..n : b[i].direction = d /\ b[i].weight > 0 => b[i].confidence <= m)
                  => Score(b, d) <= m * Possible(b)
             /\ (\A i \in 1..n : b[i].weight > 0 => b[i].direction = d /\ m <= b[i].confidence)
                  => m * Possible(b) <= Score(b, d)
             /\ (\E i \in 1..n : b[i].direction = d /\ b[i].weight > 0)
                  => Score(b, d) > 0 /\ Possible(b) > 0
             /\ (\A i \in 1..n : b[i].direction = d => b[i].weight = 0) => Score(b, d) = 0
<1> DEFINE n == Len(b)
           term(i) == IF b[i].direction = d THEN b[i].confidence * b[i].weight ELSE 0
           ts == [i \in 1..n |-> term(i)]
           ws == [i \in 1..n |-> b[i].weight]
<1>1. DOMAIN b = 1..n /\ n \in Nat
  BY SeqDomain DEF Polled
<1>2. Score(b, d) = Total(ts) /\ Possible(b) = Total(ws)
  BY <1>1, Zenon DEF Score, Possible
<1>3. ASSUME NEW i \in 1..n
      PROVE  /\ b[i].confidence \in Nat /\ b[i].weight \in Nat
             /\ b[i].direction = d => b[i].confidence > 0
  <2>1. /\ b[i].confidence \in 0..100 /\ b[i].weight \in Nat
        /\ b[i].direction # "NONE" => b[i].confidence >= 75
    BY DEF Polled
  <2>2. d # "NONE"
    OBVIOUS
  <2>3. PICK c \in 0..100 : c = b[i].confidence
    BY <2>1
  <2>4. b[i].direction = d => c >= 75
    BY <2>1, <2>2, <2>3, Zenon
  <2>5. c \in Nat /\ (c >= 75 => c > 0)
    OBVIOUS
  <2> QED
    BY <2>1, <2>3, <2>4, <2>5, Zenon
<1> HIDE DEF n
<1>4. ASSUME NEW i \in 1..n
      PROVE  /\ ws[i] = b[i].weight /\ ws[i] \in Nat /\ ts[i] \in Nat
             /\ b[i].direction # d => ts[i] = 0
             /\ ws[i] = 0 => ts[i] = 0 /\ m * ws[i] = 0
             /\ b[i].direction = d => /\ b[i].confidence <= m => ts[i] <= m * ws[i]
                                      /\ m <= b[i].confidence => m * ws[i] <= ts[i]
                                      /\ ws[i] > 0 => ts[i] > 0
             /\ m * ws[i] \in Nat
  <2>1. PICK x \in Nat : x = b[i].confidence
    BY <1>3
  <2>2. PICK y \in Nat : y = b[i].weight
    BY <1>3
  <2>3. ws[i] = y /\ ts[i] = IF b[i].direction = d THEN x * y ELSE 0
    BY <2>1, <2>2, Zenon
  <2>4. b[i].direction = d => x > 0
    BY <1>3, <2>1
  <2>5. /\ x * y \in Nat /\ (y = 0 => x * y = 0 /\ m * y = 0)
        /\ (x <= m => x * y <= m * y) /\ (m <= x => m * y <= x * y)
        /\ (x > 0 /\ y > 0 => x * y > 0)
    BY Products
  <2>6. m * y \in Nat
    BY Products
  <2> HIDE DEF ts, ws
  <2>7. CASE b[i].direction = d
    <3>1. ts[i] = x * y /\ ws[i] = y
      BY <2>3, <2>7
    <3> QED
      BY <2>1, <2>2, <2>4, <2>5, <2>6, <2>7, <3>1
  <2>8. CASE b[i].direction # d
    BY <2>2, <2>3, <2>5, <2>6, <2>8
  <2> QED
    BY <2>7, <2>8
<1>5. IsSeq(ts) /\ Len(ts) = n /\ IsSeq(ws) /\ Len(ws) = n
  <2>1. ts = [i \in 1..n |-> ts[i]] /\ ws = [i \in 1..n |-> ws[i]]
    BY Zenon
  <2> HIDE DEF ts, ws
  <2> QED
    BY <1>1, <2>1, FunSeq
<1> HIDE DEF ts, ws
<1>6. /\ Total(ts) \in Nat /\ Total(ws) \in Nat
      /\ \A i \in 1..n : ts[i] <= Total(ts)
      /\ (\A i \in 1..n : ts[i] <= m * ws[i]) => Total(ts) <= m * Total(ws)
      /\ (\A i \in 1..n : m * ws[i] <= ts[i]) => m * Total(ws) <= Total(ts)
  BY <1>1, <1>4, <1>5, TotalBounds
<1>7. /\ \A i \in 1..n : ws[i] <= Total(ws)
      /\ (\A i \in 1..n : ts[i] <= 0 * ws[i]) => Total(ts) <= 0 * Total(ws)
  BY <1>1, <1>4, <1>5, TotalBounds
<1>8. (\A i \in 1..n : b[i].direction = d /\ b[i].weight > 0 => b[i].confidence <= m)
        => \A i \in 1..n : ts[i] <= m * ws[i]
  BY <1>4
<1>9. (\A i \in 1..n : b[i].weight > 0 => b[i].direction = d /\ m <= b[i].confidence)
        => \A i \in 1..n : m * ws[i] <= ts[i]
  BY <1>4
<1>10. (\E i \in 1..n : b[i].direction = d /\ b[i].weight > 0) => Total(ts) > 0 /\ Total(ws) > 0
  <2> SUFFICES ASSUME NEW i \in 1..n, b[i].direction = d, b[i].weight > 0
               PROVE  Total(ts) > 0 /\ Total(ws) > 0
    OBVIOUS
  <2>1. ws[i] \in Nat /\ ts[i] \in Nat /\ ws[i] > 0 /\ ts[i] > 0
    BY <1>4
  <2>2. ts[i] <= Total(ts) /\ ws[i] <= Total(ws)
    BY <1>6, <1>7
  <2> QED
    BY <1>6, <2>1, <2>2
<1>11. (\A i \in 1..n : b[i].direction = d => b[i].weight = 0) => Total(ts) = 0
  <2> SUFFICES ASSUME \A i \in 1..n : b[i].direction = d => b[i].weight = 0 PROVE Total(ts) = 0
    OBVIOUS
  <2>1. \A i \in 1..n : ts[i] = 0 /\ 0 * ws[i] = 0
    BY <1>4
  <2>2. 0 * Total(ws) = 0
    BY <1>6
  <2> QED
    BY <1>6, <1>7, <2>1, <2>2
<1> QED
  BY <1>2, <1>6, <1>8, <1>9, <1>10, <1>11 DEF n

\* The levels of some voters.
LEMMA LevelBounds ==
  ASSUME Polled(ballot), NEW S \in SUBSET (1..Len(ballot)), S # {}
  PROVE  /\ Max(Levels(S)) \in 0..100 /\ Min(Levels(S)) \in 0..100
         /\ engine = "majority" => Max(Levels(S)) = 100 /\ Min(Levels(S)) = 100
         /\ engine # "majority" =>
              \A i \in S : /\ ballot[i].confidence <= Max(Levels(S))
                           /\ Min(Levels(S)) <= ballot[i].confidence
<1> DEFINE T == Levels(S)
<1>1. T \in SUBSET (0..100) /\ T # {}
  <2>1. \A i \in S : ballot[i].confidence \in 0..100
    BY DEF Polled
  <2>2. T = {IF engine = "majority" THEN 100 ELSE ballot[i].confidence : i \in S}
    BY Zenon DEF Levels
  <2>3. \A i \in S : (IF engine = "majority" THEN 100 ELSE ballot[i].confidence) \in 0..100
    BY <2>1
  <2> HIDE DEF T
  <2> QED
    BY <2>2, <2>3
<1>2. engine = "majority" => T = {100}
  BY DEF Levels
<1>3. engine # "majority" => \A i \in S : ballot[i].confidence \in T
  BY DEF Levels
<1> HIDE DEF T
<1>4. /\ Max(T) \in T /\ \A x \in T : x <= Max(T)
      /\ Min(T) \in T /\ \A x \in T : Min(T) <= x
  BY <1>1, MaxMin
<1> QED
  BY <1>1, <1>2, <1>3, <1>4 DEF T

\* The three things ConsensusSound says, of a signal.
Once == \A i, j \in DOMAIN ballot : ballot[i].strategy = ballot[j].strategy => i = j
Backed(d, c) ==
  d # "NONE" => /\ For(d) \cap Counted # {}
                /\ 0 < c[1] /\ c[1] <= Max(Levels(For(d))) * c[2]
Followed(d, c) ==
  \A e \in {"BUY", "SELL"} :
    Counted # {} /\ Counted \subseteq For(e) =>
      d = e /\ Min(Levels(Counted)) * c[2] <= c[1] /\ c[1] <= Max(Levels(Counted)) * c[2]

LEMMA SoundMeans ==
  Once /\ Backed(signal.direction, signal.confidence) /\ Followed(signal.direction, signal.confidence)
    => ConsensusSound
BY Zenon DEF ConsensusSound, Once, Backed, Followed

LEMMA WeightedSound ==
  ASSUME Polled(ballot), engine # "majority"
  PROVE  LET r == Weighted(ballot) IN Backed(r.direction, r.confidence) /\ Followed(r.direction, r.confidence)
<1> DEFINE n == Len(ballot)
           all == Possible(ballot)
           r == Weighted(ballot)
           s(d) == Score(ballot, d)
<1>1. DOMAIN ballot = 1..n
  BY SeqDomain DEF Polled
<1>2. \A i \in 1..n : ballot[i].weight \in Nat /\ ballot[i].direction \in Directions
  BY DEF Polled
<1>3. \A S, i : i \in S \cap (1..n) => i \in 1..n
  OBVIOUS
<1>4. /\ Counted = {i \in 1..n : ballot[i].weight > 0}
      /\ \A d : For(d) = {i \in 1..n : ballot[i].direction = d}
  BY <1>1 DEF Counted, For
<1>5. ASSUME NEW d \in {"BUY", "SELL"}
      PROVE  s(d) \in Nat /\ all \in Nat
  BY ScoreFacts
\* Of two directions, the one with the higher score is what comes out.
<1>6. ASSUME NEW d \in {"BUY", "SELL"}, NEW o \in {"BUY", "SELL"}, d # o, s(d) > s(o), all # 0
      PROVE  r.direction = d /\ r.confidence = <<s(d), all>>
  <2> DEFINE buy == s("BUY")
             sell == s("SELL")
  <2>1. r = IF all = 0 \/ buy = sell THEN NoSignal
            ELSE IF buy > sell THEN [direction |-> "BUY", confidence |-> <<buy, all>>]
            ELSE [direction |-> "SELL", confidence |-> <<sell, all>>]
    BY Zenon DEF Weighted
  <2>2. buy \in Nat /\ sell \in Nat
    BY <1>5
  <2>3. (d = "BUY" /\ o = "SELL") \/ (d = "SELL" /\ o = "BUY")
    BY <1>6
  <2>4. CASE d = "BUY" /\ o = "SELL"
    <3>1. buy > sell
      BY <1>6, <2>4
    <3> HIDE DEF buy, sell, all, r
    <3>2. r = [direction |-> "BUY", confidence |-> <<buy, all>>]
      BY <1>6, <2>1, <2>2, <3>1
    <3> QED
      BY <2>4, <3>2 DEF buy
  <2>5. CASE d = "SELL" /\ o = "BUY"
    <3>1. sell > buy
      BY <1>6, <2>5
    <3> HIDE DEF buy, sell, all, r
    <3>2. r = [direction |-> "SELL", confidence |-> <<sell, all>>]
      BY <1>6, <2>1, <2>2, <3>1
    <3> QED
      BY <2>5, <3>2 DEF sell
  <2> QED
    BY <2>3, <2>4, <2>5
\* And nothing else does.
<1>7. r.direction # "NONE" =>
        \E d, o \in {"BUY", "SELL"} : d # o /\ s(d) > s(o) /\ all # 0 /\ r.direction = d
  <2> DEFINE buy == s("BUY")
             sell == s("SELL")
  <2>1. r = IF all = 0 \/ buy = sell THEN NoSignal
            ELSE IF buy > sell THEN [direction |-> "BUY", confidence |-> <<buy, all>>]
            ELSE [direction |-> "SELL", confidence |-> <<sell, all>>]
    BY Zenon DEF Weighted
  <2>2. buy \in Nat /\ sell \in Nat
    BY <1>5
  <2>3. NoSignal.direction = "NONE"
    BY DEF NoSignal
  <2> HIDE DEF r, all, buy, sell
  <2>4. r.direction # "NONE" => \/ all # 0 /\ buy > sell /\ r.direction = "BUY"
                                \/ all # 0 /\ sell > buy /\ r.direction = "SELL"
    BY <2>1, <2>2, <2>3
  <2> QED
    BY <2>4, Zenon DEF buy, sell
<1> HIDE DEF r
<1>8. Backed(r.direction, r.confidence)
  <2> SUFFICES ASSUME r.direction # "NONE"
               PROVE  /\ For(r.direction) \cap Counted # {}
                      /\ 0 < r.confidence[1]
                      /\ r.confidence[1] <= Max(Levels(For(r.direction))) * r.confidence[2]
    BY Zenon DEF Backed
  <2>1. PICK d \in {"BUY", "SELL"}, o \in {"BUY", "SELL"} :
               d # o /\ s(d) > s(o) /\ all # 0 /\ r.direction = d
    BY <1>7
  <2>2. r.confidence = <<s(d), all>>
    BY <1>6, <2>1
  <2>3. s(d) > 0 /\ s(d) \in Nat /\ s(d) # 0
    BY <1>5, <2>1
  <2>4. \E i \in 1..n : ballot[i].direction = d /\ ballot[i].weight # 0
    <3>1. (\A i \in 1..n : ballot[i].direction = d => ballot[i].weight = 0) => s(d) = 0
      BY ScoreFacts
    <3> QED
      BY <2>3, <3>1
  <2>5. For(d) \cap Counted # {} /\ For(d) \in SUBSET (1..n) /\ For(d) # {}
    <3>1. PICK i \in 1..n : ballot[i].direction = d /\ ballot[i].weight # 0
      BY <2>4
    <3>2. ballot[i].weight > 0
      BY <1>2, <3>1
    <3>3. i \in For(d) /\ i \in Counted
      BY <1>4, <3>1, <3>2
    <3> QED
      BY <1>4, <3>3
  <2> DEFINE m == Max(Levels(For(d)))
  <2>6. m \in Nat /\ \A i \in For(d) : ballot[i].confidence <= m
    <3>1. m \in 0..100 /\ \A i \in For(d) : ballot[i].confidence <= m
      BY <2>5, LevelBounds, Zenon
    <3> HIDE DEF m
    <3> QED
      BY <3>1
  <2> HIDE DEF m
  <2>7. s(d) <= m * all
    <3>1. \A i \in 1..n : ballot[i].direction = d /\ ballot[i].weight > 0 => ballot[i].confidence <= m
      BY <1>4, <2>6
    <3> QED
      BY <2>6, <3>1, ScoreFacts
  <2> HIDE DEF s, all
  <2>8. r.confidence[1] = s(d) /\ r.confidence[2] = all
    BY <2>2
  <2> QED
    BY <2>1, <2>3, <2>5, <2>7, <2>8, Zenon DEF m
<1>9. Followed(r.direction, r.confidence)
  <2> SUFFICES ASSUME NEW e \in {"BUY", "SELL"}, Counted # {}, Counted \subseteq For(e)
               PROVE  /\ r.direction = e
                      /\ Min(Levels(Counted)) * r.confidence[2] <= r.confidence[1]
                      /\ r.confidence[1] <= Max(Levels(Counted)) * r.confidence[2]
    BY Zenon DEF Followed
  <2>1. PICK o \in {"BUY", "SELL"} : o # e
    OBVIOUS
  <2>2. \A i \in 1..n : ballot[i].weight > 0 => ballot[i].direction = e
    BY <1>4
  <2>3. \E i \in 1..n : ballot[i].direction = e /\ ballot[i].weight > 0
    BY <1>4
  <2>4. s(e) > 0 /\ all > 0
    BY <2>3, ScoreFacts
  <2>5. s(o) = 0
    <3>1. \A i \in 1..n : ballot[i].direction = o => ballot[i].weight = 0
      BY <1>2, <2>1, <2>2
    <3> QED
      BY <3>1, ScoreFacts
  <2>6. r.direction = e /\ r.confidence = <<s(e), all>>
    <3>1. all # 0 /\ s(e) > s(o)
      BY <1>5, <2>4, <2>5
    <3> QED
      BY <1>6, <2>1, <3>1
  <2> DEFINE high == Max(Levels(Counted))
             low == Min(Levels(Counted))
  <2>7. /\ high \in Nat /\ low \in Nat
        /\ \A i \in Counted : ballot[i].confidence <= high /\ low <= ballot[i].confidence
    <3>1. Counted \in SUBSET (1..n)
      BY <1>4
    <3>2. /\ high \in 0..100 /\ low \in 0..100
          /\ \A i \in Counted : ballot[i].confidence <= high /\ low <= ballot[i].confidence
      BY <3>1, LevelBounds, Zenon
    <3> HIDE DEF high, low
    <3> QED
      BY <3>2
  <2> HIDE DEF high, low
  <2>8. s(e) <= high * all
    <3>1. \A i \in 1..n : ballot[i].direction = e /\ ballot[i].weight > 0
                            => ballot[i].confidence <= high
      BY <1>4, <2>7
    <3> QED
      BY <2>7, <3>1, ScoreFacts
  <2>9. low * all <= s(e)
    <3>1. \A i \in 1..n : ballot[i].weight > 0
                            => ballot[i].direction = e /\ low <= ballot[i].confidence
      BY <1>4, <2>2, <2>7
    <3> QED
      BY <2>7, <3>1, ScoreFacts
  <2> HIDE DEF s, all
  <2>10. r.confidence[1] = s(e) /\ r.confidence[2] = all
    BY <2>6
  <2> QED
    BY <2>6, <2>8, <2>9, <2>10, Zenon DEF high, low
<1> QED
  BY <1>8, <1>9, Zenon DEF r

\* The voters of a direction, counted.
LEMMA VoteCount ==
  ASSUME NEW b, Polled(b), NEW d
  PROVE  /\ Votes(b, d) \in Nat /\ Votes(b, d) <= Len(b) /\ Len(b) \in Nat
         /\ Votes(b, d) = 0 <=> \A i \in 1..Len(b) : b[i].direction # d
         /\ (\A i \in 1..Len(b) : b[i].direction = d) => Votes(b, d) = Len(b)
<1> DEFINE n == Len(b)
           V == {i \in DOMAIN b : b[i].direction = d}
<1>1. DOMAIN b = 1..n /\ n \in Nat
  BY SeqDomain DEF Polled
<1>2. Votes(b, d) = Cardinality(V)
  BY Zenon DEF Votes
<1> HIDE DEF n
<1>3. V \subseteq 1..n
  BY <1>1
<1>4. IsFiniteSet(1..n) /\ Cardinality(1..n) = n
  BY <1>1, FS_Interval
<1>5. IsFiniteSet(V) /\ Cardinality(V) <= n
  BY <1>3, <1>4, FS_Subset
<1>6. Cardinality(V) \in Nat /\ (Cardinality(V) = 0 <=> V = {})
  BY <1>5, FS_CardinalityType, FS_EmptySet
<1>7. V = {} <=> \A i \in 1..n : b[i].direction # d
  BY <1>1
<1>8. (\A i \in 1..n : b[i].direction = d) => V = 1..n
  BY <1>1
<1> HIDE DEF V
<1> QED
  BY <1>1, <1>2, <1>4, <1>5, <1>6, <1>7, <1>8 DEF n

LEMMA MajoritySound ==
  ASSUME Polled(ballot), engine = "majority"
  PROVE  LET r == Majority(ballot) IN Backed(r.direction, r.confidence) /\ Followed(r.direction, r.confidence)
<1> DEFINE n == Len(ballot)
           r == Majority(ballot)
           v(d) == Votes(ballot, d)
           leads(d) == \A e \in {"BUY", "SELL", "NONE"} \ {d} : Votes(ballot, d) > Votes(ballot, e)
           lead == CHOOSE e \in {"BUY", "SELL"} : leads(e)
<1>1. DOMAIN ballot = 1..n /\ n \in Nat
  BY SeqDomain DEF Polled
<1>2. \A d : v(d) \in Nat /\ v(d) <= n
  BY VoteCount
<1>3. /\ Counted = 1..n
      /\ \A d : For(d) = {i \in 1..n : ballot[i].direction = d}
  BY <1>1 DEF Counted, For
<1>4. (\E d \in {"BUY", "SELL"} : leads(d)) =>
        /\ lead \in {"BUY", "SELL"} /\ leads(lead)
        /\ r = [direction |-> lead, confidence |-> <<100 * v(lead), n>>]
  BY Zenon DEF Majority
<1>5. ~(\E d \in {"BUY", "SELL"} : leads(d)) => r = NoSignal
  BY Zenon DEF Majority
<1>6. \A d \in {"BUY", "SELL"} : leads(d) => v(d) > v("NONE") /\ v(d) > 0
  <2> SUFFICES ASSUME NEW d \in {"BUY", "SELL"}, leads(d) PROVE v(d) > v("NONE") /\ v(d) > 0
    OBVIOUS
  <2>1. v(d) > v("NONE")
    OBVIOUS
  <2> HIDE DEF v
  <2> QED
    BY <1>2, <2>1
<1>7. Backed(r.direction, r.confidence)
  <2> SUFFICES ASSUME r.direction # "NONE"
               PROVE  /\ For(r.direction) \cap Counted # {}
                      /\ 0 < r.confidence[1]
                      /\ r.confidence[1] <= Max(Levels(For(r.direction))) * r.confidence[2]
    BY Zenon DEF Backed
  <2>1. \E d \in {"BUY", "SELL"} : leads(d)
    BY <1>5 DEF NoSignal
  <2>2. /\ lead \in {"BUY", "SELL"} /\ v(lead) > 0
        /\ r = [direction |-> lead, confidence |-> <<100 * v(lead), n>>]
    BY <1>4, <1>6, <2>1, Zenon
  <2> HIDE DEF lead, r
  <2>3. PICK i \in 1..n : ballot[i].direction = lead
    <3>1. v(lead) # 0
      BY <1>2, <2>2
    <3> QED
      BY <3>1, VoteCount
  <2>4. i \in For(lead) /\ i \in Counted /\ For(lead) \in SUBSET (1..n)
    BY <1>3, <2>3
  <2>5. Max(Levels(For(lead))) = 100
    BY <2>4, LevelBounds
  <2>6. v(lead) \in Nat /\ v(lead) <= n /\ v(lead) > 0
    BY <1>2, <2>2
  <2> HIDE DEF v, n
  <2>7. r.direction = lead /\ r.confidence[1] = 100 * v(lead) /\ r.confidence[2] = n
    BY <2>2
  <2>8. 0 < 100 * v(lead) /\ 100 * v(lead) <= 100 * n
    BY <1>1, <2>6
  <2> QED
    BY <2>4, <2>5, <2>7, <2>8, Zenon
<1>8. Followed(r.direction, r.confidence)
  <2> SUFFICES ASSUME NEW e \in {"BUY", "SELL"}, Counted # {}, Counted \subseteq For(e)
               PROVE  /\ r.direction = e
                      /\ Min(Levels(Counted)) * r.confidence[2] <= r.confidence[1]
                      /\ r.confidence[1] <= Max(Levels(Counted)) * r.confidence[2]
    BY Zenon DEF Followed
  <2>1. \A i \in 1..n : ballot[i].direction = e
    BY <1>3
  <2>2. v(e) = n /\ n > 0
    <3>1. n # 0
      BY <1>3
    <3>2. v(e) = n
      BY <2>1, VoteCount
    <3> QED
      BY <1>1, <3>1, <3>2
  <2>3. \A d : d # e => v(d) = 0
    <3> SUFFICES ASSUME NEW d, d # e PROVE v(d) = 0
      OBVIOUS
    <3>1. \A i \in 1..n : ballot[i].direction # d
      BY <2>1
    <3> QED
      BY <3>1, VoteCount
  <2>4. leads(e)
    <3> SUFFICES ASSUME NEW d \in {"BUY", "SELL", "NONE"} \ {e} PROVE v(e) > v(d)
      OBVIOUS
    <3>1. d # e
      OBVIOUS
    <3>2. v(d) = 0
      BY <2>3, <3>1
    <3> HIDE DEF v, n
    <3> QED
      BY <1>1, <2>2, <3>2
  <2>5. lead = e
    <3>1. lead \in {"BUY", "SELL"} /\ v(lead) > 0
      BY <1>4, <1>6, <2>4, Zenon
    <3> HIDE DEF lead
    <3>2. lead # e => v(lead) = 0
      BY <2>3
    <3> HIDE DEF v
    <3> QED
      BY <3>1, <3>2
  <2>6. r = [direction |-> lead, confidence |-> <<100 * v(lead), n>>]
    BY <1>4, <2>4, Zenon
  <2>7. Max(Levels(Counted)) = 100 /\ Min(Levels(Counted)) = 100
    <3>1. Counted \in SUBSET (1..n)
      BY <1>3
    <3> QED
      BY <3>1, LevelBounds, Zenon
  <2> HIDE DEF lead, r, v, n
  <2>8. r.direction = e /\ r.confidence[1] = 100 * n /\ r.confidence[2] = n
    BY <2>2, <2>5, <2>6
  <2>9. 100 * n <= 100 * n
    BY <1>1
  <2> QED
    BY <2>7, <2>8, <2>9, Zenon
<1> QED
  BY <1>7, <1>8, Zenon

LEMMA NobodySound ==
  ASSUME ballot = <<>>
  PROVE  Backed(NoSignal.direction, NoSignal.confidence)
         /\ Followed(NoSignal.direction, NoSignal.confidence)
<1>1. DOMAIN <<>> = {}
  OBVIOUS
<1>2. Counted = {}
  BY <1>1 DEF Counted
<1>3. NoSignal.direction = "NONE"
  BY DEF NoSignal
<1> QED
  BY <1>2, <1>3, Zenon DEF Backed, Followed

\* What consensus makes of the votes, for any weights, any confidences the
\* strategies may have and both engines: a signal has a supporter whose vote
\* counts and is at most as confident as its most confident one, and voters
\* that agree get their signal, within the range of their confidences.
THEOREM ConsensusIsSound == Spec => []ConsensusSound
<1>1. IInv => ConsensusSound
  <2> SUFFICES ASSUME IInv PROVE ConsensusSound
    OBVIOUS
  <2>1. Polled(ballot) /\ signal = Consensus(engine, ballot)
    BY DEF IInv, VoteInv
  <2>2. Once
    <3>1. DOMAIN ballot = 1..Len(ballot)
      BY <2>1, SeqDomain DEF Polled
    <3> QED
      BY <2>1, <3>1 DEF Polled, Once
  <2>3. CASE ballot = <<>>
    <3>1. signal = NoSignal
      BY <2>1, <2>3, Zenon DEF Consensus
    <3> QED
      BY <2>2, <2>3, <3>1, NobodySound, SoundMeans, Zenon
  <2>4. CASE ballot # <<>> /\ engine = "majority"
    <3>1. signal = Majority(ballot)
      BY <2>1, <2>4, Zenon DEF Consensus
    <3> QED
      BY <2>1, <2>2, <2>4, <3>1, MajoritySound, SoundMeans, Zenon
  <2>5. CASE ballot # <<>> /\ engine # "majority"
    <3>1. signal = Weighted(ballot)
      BY <2>1, <2>5, Zenon DEF Consensus
    <3> QED
      BY <2>1, <2>2, <2>5, <3>1, WeightedSound, SoundMeans, Zenon
  <2> QED
    BY <2>3, <2>4, <2>5
<1> QED
  BY Always, <1>1, PTL

-----------------------------------------------------------------------------
(* Sums of lists of integers: what one term more, at either end, does. *)

LEMMA UpTo ==
  ASSUME NEW T \in SUBSET Nat, NEW n \in Nat, 0 \in T,
         \A k \in 1..n : k - 1 \in T => k \in T
  PROVE  \A k \in 0..n : k \in T
<1> DEFINE Bad == {k \in 0..n : k \notin T}
<1>1. ASSUME Bad # {} PROVE FALSE
  <2>0. Bad \in SUBSET Nat
    OBVIOUS
  <2>1. PICK k \in Bad : \A m \in Bad : k <= m
    <3> HIDE DEF Bad
    <3> QED
      BY <1>1, <2>0, LeastNat
  <2>2. k \in 1..n /\ k - 1 \in 0..n
    BY <2>1
  <2>3. k - 1 \notin Bad
    BY <2>1, <2>2
  <2>4. k - 1 \in T
    BY <2>2, <2>3
  <2> QED
    BY <2>1, <2>2, <2>4
<1> QED
  BY <1>1

Ints(q, n) == Len(q) = n /\ \A i \in 1..n : q[i] \in Int

\* The partial sums of q are s.
Sums(q, n, s) ==
  /\ s[0] = 0 /\ Total(q) = s[n]
  /\ \A i \in 0..n : s[i] \in Int
  /\ \A i \in 1..n : s[i] = s[i - 1] + q[i]

LEMMA SumsExist ==
  ASSUME NEW n \in Nat, NEW q, Ints(q, n)
  PROVE  \E s : Sums(q, n, s)
<1>0. Len(q) = n /\ \A i \in 1..n : q[i] \in Int
  BY DEF Ints
<1>1. PICK s : /\ s[0] = 0 /\ \A i \in 1..n : s[i] = s[i - 1] + q[i]
               /\ Total(q) = s[n]
  BY <1>0, PartialSums, Zenon
<1> DEFINE T == {k \in Nat : s[k] \in Int}
<1>2. 0 \in T
  BY <1>1
<1>3. ASSUME NEW k \in 1..n, k - 1 \in T PROVE k \in T
  BY <1>0, <1>1, <1>3
<1>4. \A k \in 0..n : k \in T
  <2> HIDE DEF T
  <2>1. T \in SUBSET Nat
    BY DEF T
  <2> QED
    BY <1>2, <1>3, <2>1, UpTo
<1> QED
  BY <1>1, <1>4 DEF Sums

LEMMA SumsEnds ==
  ASSUME NEW n \in Nat, NEW q, NEW s, Sums(q, n, s)
  PROVE  s[0] = 0 /\ Total(q) = s[n] /\ s[n] \in Int
<1>1. n \in 0..n
  OBVIOUS
<1> QED
  BY <1>1 DEF Sums

LEMMA SumsNext ==
  ASSUME NEW n \in Nat, NEW q, NEW s, Sums(q, n, s), NEW i \in 1..n
  PROVE  s[i] = s[i - 1] + q[i] /\ s[i] \in Int /\ s[i - 1] \in Int
<1>1. i \in 0..n /\ i - 1 \in 0..n
  OBVIOUS
<1> QED
  BY <1>1 DEF Sums

LEMMA TotalType ==
  ASSUME NEW n \in Nat, NEW q, Ints(q, n)
  PROVE  Total(q) \in Int
BY SumsExist, SumsEnds

LEMMA TimesSum ==
  ASSUME NEW k \in Int, NEW x \in Int, NEW y \in Int
  PROVE  k * (x + y) = k * x + k * y /\ k * x \in Int /\ k * y \in Int
OBVIOUS

\* A list whose terms are k times those of another one.
LEMMA TotalTimes ==
  ASSUME NEW n \in Nat, NEW p, NEW q, Ints(p, n), Len(q) = n, NEW k \in Int,
         \A i \in 1..n : q[i] = k * p[i]
  PROVE  Total(q) = k * Total(p)
<1>0. \A i \in 1..n : p[i] \in Int /\ q[i] \in Int
  BY DEF Ints
<1>1. PICK s : Sums(p, n, s)
  BY SumsExist
<1>2. PICK t : Sums(q, n, t)
  BY <1>0, SumsExist DEF Ints
<1> DEFINE T == {i \in Nat : t[i] = k * s[i]}
<1>3. 0 \in T
  BY <1>1, <1>2, SumsEnds, k * 0 = 0
<1>4. ASSUME NEW i \in 1..n, i - 1 \in T PROVE i \in T
  <2>1. s[i] = s[i - 1] + p[i] /\ s[i - 1] \in Int /\ p[i] \in Int
    BY <1>0, <1>1, SumsNext
  <2>2. t[i] = t[i - 1] + q[i]
    BY <1>2, SumsNext
  <2>3. k * (s[i - 1] + p[i]) = k * s[i - 1] + k * p[i]
    BY <2>1, TimesSum
  <2>4. t[i - 1] = k * s[i - 1] /\ q[i] = k * p[i]
    BY <1>4
  <2> QED
    BY <2>1, <2>2, <2>3, <2>4
<1>5. n \in T
  <2> HIDE DEF T
  <2>1. T \in SUBSET Nat
    BY DEF T
  <2>2. \A i \in 0..n : i \in T
    BY <1>3, <1>4, <2>1, UpTo
  <2> QED
    BY <2>2
<1> QED
  BY <1>1, <1>2, <1>5, SumsEnds

LEMMA TotalSame ==
  ASSUME NEW n \in Nat, NEW p, NEW q, Ints(p, n), Len(q) = n, \A i \in 1..n : q[i] = p[i]
  PROVE  Total(q) = Total(p)
<1>1. \A i \in 1..n : q[i] = 1 * p[i]
  BY DEF Ints
<1>2. Total(q) = 1 * Total(p)
  BY <1>1, TotalTimes
<1> QED
  BY <1>2, TotalType

LEMMA TotalEmpty == \A q : Len(q) = 0 => Total(q) = 0
<1> SUFFICES ASSUME NEW q, Len(q) = 0 PROVE Total(q) = 0
  OBVIOUS
<1>1. Ints(q, 0)
  BY DEF Ints
<1> QED
  BY <1>1, SumsExist, SumsEnds

\* A term at the end.
LEMMA TotalLast ==
  ASSUME NEW n \in Nat, NEW p, NEW q, Len(p) = n, Ints(q, n + 1), \A i \in 1..n : p[i] = q[i]
  PROVE  Total(q) = Total(p) + q[n + 1]
<1>0. Ints(p, n)
  BY DEF Ints
<1>1. PICK s : Sums(p, n, s)
  BY <1>0, SumsExist
<1>2. PICK t : Sums(q, n + 1, t)
  BY SumsExist
<1> DEFINE T == {i \in Nat : t[i] = s[i]}
<1>3. 0 \in T
  BY <1>1, <1>2, SumsEnds
<1>4. ASSUME NEW i \in 1..n, i - 1 \in T PROVE i \in T
  <2>1. s[i] = s[i - 1] + p[i]
    BY <1>1, SumsNext
  <2>2. t[i] = t[i - 1] + q[i]
    BY <1>2, SumsNext
  <2> QED
    BY <1>4, <2>1, <2>2
<1>5. n \in T
  <2> HIDE DEF T
  <2>1. T \in SUBSET Nat
    BY DEF T
  <2>2. \A i \in 0..n : i \in T
    BY <1>3, <1>4, <2>1, UpTo
  <2> QED
    BY <2>2
<1>6. t[n + 1] = t[n] + q[n + 1]
  <2>1. PICK m : m = n + 1
    OBVIOUS
  <2>2. m \in 1..m /\ m - 1 = n /\ m \in Nat
    BY <2>1
  <2>3. t[m] = t[m - 1] + q[m]
    BY <1>2, <2>1, <2>2, SumsNext
  <2> QED
    BY <2>1, <2>2, <2>3
<1>7. Total(q) = t[n + 1]
  BY <1>2, SumsEnds
<1> QED
  BY <1>1, <1>5, <1>6, <1>7, SumsEnds

\* A term in front.
LEMMA TotalFront ==
  ASSUME NEW n \in Nat, NEW p, NEW q, Len(p) = n, Ints(q, n + 1), \A i \in 1..n : p[i] = q[i + 1]
  PROVE  Total(q) = q[1] + Total(p)
<1>0. Ints(p, n) /\ q[1] \in Int
  BY DEF Ints
<1>1. PICK s : Sums(p, n, s)
  BY <1>0, SumsExist
<1>2. PICK t : Sums(q, n + 1, t)
  BY SumsExist
<1> DEFINE T == {i \in Nat : t[i + 1] = q[1] + s[i]}
<1>3. 0 \in T
  <2>1. 1 \in 1..(n + 1) /\ 1 - 1 = 0
    OBVIOUS
  <2>2. t[1] = t[1 - 1] + q[1]
    BY <1>2, <2>1, SumsNext
  <2>3. t[0] = 0 /\ s[0] = 0
    BY <1>1, <1>2, SumsEnds
  <2> QED
    BY <1>0, <2>1, <2>2, <2>3
<1>4. ASSUME NEW i \in 1..n, i - 1 \in T PROVE i \in T
  <2>1. i + 1 \in 1..(n + 1) /\ i \in Nat /\ (i + 1) - 1 = i /\ (i - 1) + 1 = i
    OBVIOUS
  <2>2. s[i] = s[i - 1] + p[i] /\ s[i - 1] \in Int /\ p[i] \in Int /\ q[i + 1] = p[i]
    BY <1>0, <1>1, SumsNext DEF Ints
  <2>3. t[i + 1] = t[i] + q[i + 1]
    BY <1>2, <2>1, SumsNext
  <2>4. t[i] = q[1] + s[i - 1]
    BY <1>4, <2>1
  <2> QED
    BY <1>0, <2>1, <2>2, <2>3, <2>4
<1>5. n \in T
  <2> HIDE DEF T
  <2>1. T \in SUBSET Nat
    BY DEF T
  <2>2. \A i \in 0..n : i \in T
    BY <1>3, <1>4, <2>1, UpTo
  <2> QED
    BY <2>2
<1> QED
  BY <1>1, <1>2, <1>5, SumsEnds

\* The sum of a window, kept up to date as the window moves.
LEMMA PushTotal ==
  ASSUME NEW q, IsSeq(q), NEW m \in Nat \ {0}, Len(q) <= m, NEW x \in Int,
         \A i \in 1..Len(q) : q[i] \in Int
  PROVE  /\ Total(Push(q, x, m)) = Total(q) - (IF Len(q) = m THEN Head(q) ELSE 0) + x
         /\ \A i \in 1..Len(Push(q, x, m)) : Push(q, x, m)[i] \in Int
<1>0. Len(q) \in Nat
  BY SeqDomain
<1>1. CASE Len(q) = m
  <2> DEFINE t == Tail(q)
             r == Append(t, x)
  <2>1. PICK n \in Nat : m = n + 1
    <3>1. m - 1 \in Nat /\ m = (m - 1) + 1
      OBVIOUS
    <3> QED
      BY <3>1
  <2>2. q # <<>>
    BY <1>1
  <2>3. IsSeq(t) /\ Len(t) = n
    BY <1>1, <2>1, <2>2, SeqTail
  <2>4. \A i \in 1..n : t[i] = q[i + 1]
    BY <2>2, <2>3, TailRest
  <2>5. Head(q) = q[1]
    BY <2>2, HeadFirst
  <2>6. Ints(q, n + 1) /\ q[1] \in Int
    BY <1>1, <2>1 DEF Ints
  <2>7. Ints(t, n)
    BY <2>3, <2>4, <2>6 DEF Ints
  <2> HIDE DEF t
  <2>8. Total(q) = q[1] + Total(t) /\ Total(t) \in Int
    BY <2>3, <2>4, <2>6, <2>7, TotalFront, TotalType
  <2>9. IsSeq(r) /\ Len(r) = n + 1 /\ (\A i \in 1..n : r[i] = t[i]) /\ r[n + 1] = x
    BY <2>3, SeqAppend
  <2> HIDE DEF r
  <2>10. Ints(r, n + 1)
    <3> SUFFICES ASSUME NEW i \in 1..(n + 1) PROVE r[i] \in Int
      BY <2>9 DEF Ints
    <3> QED
      BY <2>7, <2>9 DEF Ints
  <2>11. Total(r) = Total(t) + r[n + 1]
    BY <2>3, <2>9, <2>10, TotalLast
  <2>12. Push(q, x, m) = r
    BY <1>1 DEF Push, r, t
  <2>13. Total(r) = Total(q) - q[1] + x
    BY <2>6, <2>8, <2>9, <2>11
  <2> QED
    BY <1>1, <2>5, <2>9, <2>10, <2>12, <2>13 DEF Ints
<1>2. CASE Len(q) # m
  <2> DEFINE r == Append(q, x)
  <2>1. PICK n \in Nat : n = Len(q)
    BY <1>0
  <2>2. IsSeq(r) /\ Len(r) = n + 1 /\ (\A i \in 1..n : r[i] = q[i]) /\ r[n + 1] = x
    BY <2>1, SeqAppend
  <2> HIDE DEF r
  <2>3. Ints(r, n + 1) /\ Ints(q, n)
    <3>1. Ints(q, n)
      BY <2>1 DEF Ints
    <3> SUFFICES ASSUME NEW i \in 1..(n + 1) PROVE r[i] \in Int
      BY <2>2, <3>1 DEF Ints
    <3> QED
      BY <2>2, <3>1 DEF Ints
  <2>4. Total(r) = Total(q) + r[n + 1] /\ Total(q) \in Int
    BY <2>1, <2>2, <2>3, TotalLast, TotalType
  <2>5. Push(q, x, m) = r
    BY <1>2 DEF Push, r
  <2> QED
    BY <1>2, <2>2, <2>3, <2>4, <2>5 DEF Ints
<1> QED
  BY <1>1, <1>2

-----------------------------------------------------------------------------
(* Windows on a list *)

LEMMA SubSeqAt ==
  ASSUME NEW q, IsSeq(q), NEW a \in Nat, NEW b \in Nat, a >= 1, a <= b + 1, b <= Len(q)
  PROVE  LET r == SubSeq(q, a, b)
         IN  /\ IsSeq(r) /\ Len(r) = b - a + 1
             /\ \A i \in 1..(b - a + 1) : r[i] = q[a + i - 1]
<1> DEFINE r == SubSeq(q, a, b)
           S == ToSet(q)
<1>1. q \in Seq(S) /\ Len(q) \in Nat
  BY SeqDomain DEF IsSeq
<1> HIDE DEF S
<1>2. Len(r) = b - a + 1 /\ \A i \in 1..(b - a + 1) : r[i] = q[a + i - 1]
  BY <1>1
<1>3. \A i \in 1..(b - a + 1) : q[a + i - 1] \in S
  <2> SUFFICES ASSUME NEW i \in 1..(b - a + 1) PROVE q[a + i - 1] \in S
    OBVIOUS
  <2>1. a + i - 1 \in 1..Len(q)
    BY <1>1
  <2> QED
    BY <1>1, <2>1
<1>4. r = [i \in 1..(b - a + 1) |-> r[i]]
  <2>1. r \in Seq(S)
    BY <1>1, <1>2, <1>3
  <2> HIDE DEF r
  <2>2. r = [i \in 1..Len(r) |-> r[i]]
    BY <2>1
  <2> QED
    BY <1>2, <2>2
<1> HIDE DEF r
<1>5. IsSeq(r)
  <2>1. PICK m \in Nat : m = b - a + 1
    OBVIOUS
  <2>2. r = [i \in 1..m |-> r[i]]
    BY <1>4, <2>1
  <2> QED
    BY <2>2, FunSeq
<1> QED
  BY <1>2, <1>5 DEF r

LEMMA LastOfAt ==
  ASSUME NEW q, IsSeq(q), NEW n \in Nat, n <= Len(q)
  PROVE  /\ IsSeq(LastOf(q, n)) /\ Len(LastOf(q, n)) = n
         /\ \A i \in 1..n : LastOf(q, n)[i] = q[Len(q) - n + i]
<1> DEFINE a == Len(q) - n + 1
           b == Len(q)
           r == SubSeq(q, a, b)
<1>1. a \in Nat /\ b \in Nat /\ a >= 1 /\ a <= b + 1 /\ b - a + 1 = n
  BY SeqDomain
<1>2. \A i \in 1..n : a + i - 1 = Len(q) - n + i
  BY SeqDomain
<1> HIDE DEF a
<1>3. IsSeq(r) /\ Len(r) = b - a + 1 /\ \A i \in 1..(b - a + 1) : r[i] = q[a + i - 1]
  BY <1>1, SubSeqAt
<1>4. LastOf(q, n) = r
  BY Zenon DEF LastOf, a
<1> HIDE DEF r
<1> QED
  BY <1>1, <1>2, <1>3, <1>4

LEMMA FirstOfAt ==
  ASSUME NEW q, IsSeq(q), NEW n \in Nat, n <= Len(q)
  PROVE  /\ IsSeq(FirstOf(q, n)) /\ Len(FirstOf(q, n)) = n
         /\ \A i \in 1..n : FirstOf(q, n)[i] = q[i]
<1> DEFINE r == SubSeq(q, 1, n)
<1>1. IsSeq(r) /\ Len(r) = n - 1 + 1 /\ \A i \in 1..(n - 1 + 1) : r[i] = q[1 + i - 1]
  <2>1. 1 <= n + 1 /\ 1 \in Nat /\ 1 >= 1
    OBVIOUS
  <2> QED
    BY <2>1, SubSeqAt
<1>2. FirstOf(q, n) = r
  BY Zenon DEF FirstOf
<1> HIDE DEF r
<1> QED
  BY <1>1, <1>2

LEMMA BeyondAt ==
  ASSUME NEW q, IsSeq(q), NEW n \in Nat, n <= Len(q)
  PROVE  /\ IsSeq(Beyond(q, n)) /\ Len(Beyond(q, n)) = Len(q) - n
         /\ \A i \in 1..(Len(q) - n) : Beyond(q, n)[i] = q[n + i]
<1> DEFINE a == n + 1
           b == Len(q)
           r == SubSeq(q, a, b)
<1>1. a \in Nat /\ b \in Nat /\ a >= 1 /\ a <= b + 1 /\ b - a + 1 = Len(q) - n
  BY SeqDomain
<1>2. \A i \in 1..(Len(q) - n) : a + i - 1 = n + i
  BY SeqDomain
<1>3. Beyond(q, n) = r
  BY Zenon DEF Beyond
<1> HIDE DEF a
<1>4. IsSeq(r) /\ Len(r) = b - a + 1 /\ \A i \in 1..(b - a + 1) : r[i] = q[a + i - 1]
  BY <1>1, SubSeqAt
<1> HIDE DEF r
<1> QED
  BY <1>1, <1>2, <1>3, <1>4

\* q is how the list xs, of n members, ends.
EndOf(q, n, xs) ==
  /\ Len(q) <= n
  /\ \A i \in 1..Len(q) : q[i] = xs[n - Len(q) + i]

\* The lists xs, of n members, and ys, with x behind them.
Grown(n, xs, ys, x) == (\A i \in 1..n : ys[i] = xs[i]) /\ ys[n + 1] = x

LEMMA PushEnd ==
  ASSUME NEW n \in Nat, NEW xs, NEW ys, NEW x, Grown(n, xs, ys, x),
         NEW q, IsSeq(q), NEW m \in Nat \ {0}, Len(q) <= m, EndOf(q, n, xs)
  PROVE  EndOf(Push(q, x, m), n + 1, ys)
<1>0. Len(q) \in Nat
  BY SeqDomain
<1>1. CASE Len(q) = m
  <2> DEFINE t == Tail(q)
             r == Append(t, x)
  <2>2. q # <<>>
    BY <1>1
  <2>3. IsSeq(t) /\ Len(t) = m - 1
    BY <1>1, <2>2, SeqTail
  <2>4. \A i \in 1..(m - 1) : t[i] = q[i + 1] /\ i + 1 \in 1..m
    BY <1>1, <2>2, <2>3, TailRest
  <2> HIDE DEF t
  <2>5. Len(r) = m /\ (\A i \in 1..(m - 1) : r[i] = t[i]) /\ r[m - 1 + 1] = x
    BY <2>3, SeqAppend
  <2> HIDE DEF r
  <2>6. m <= n /\ \A i \in 1..m : q[i] = xs[n - m + i]
    BY <1>1 DEF EndOf
  <2>7. ASSUME NEW i \in 1..m PROVE r[i] = ys[n + 1 - m + i]
    <3>1. CASE i = m
      <4>1. n + 1 - m + i = n + 1 /\ m - 1 + 1 = i
        BY <3>1
      <4> QED
        BY <2>5, <4>1 DEF Grown
    <3>2. CASE i # m
      <4>1. i \in 1..(m - 1)
        BY <3>2
      <4>2. r[i] = q[i + 1] /\ q[i + 1] = xs[n - m + (i + 1)]
        BY <2>4, <2>5, <2>6, <4>1
      <4>3. n - m + (i + 1) = n + 1 - m + i /\ n + 1 - m + i \in 1..n
        BY <2>6, <4>1
      <4> QED
        BY <4>2, <4>3 DEF Grown
    <3> QED
      BY <3>1, <3>2
  <2>8. Push(q, x, m) = r
    BY <1>1 DEF Push, r, t
  <2>9. m <= n + 1
    BY <2>6
  <2>10. EndOf(r, n + 1, ys)
    BY <2>5, <2>7, <2>9 DEF EndOf
  <2> QED
    BY <2>8, <2>10, Zenon
<1>2. CASE Len(q) # m
  <2> DEFINE r == Append(q, x)
  <2>1. PICK k \in Nat : k = Len(q)
    BY <1>0
  <2>2. Len(r) = k + 1 /\ (\A i \in 1..k : r[i] = q[i]) /\ r[k + 1] = x
    BY <2>1, SeqAppend
  <2> HIDE DEF r
  <2>3. k <= n /\ \A i \in 1..k : q[i] = xs[n - k + i]
    BY <2>1 DEF EndOf
  <2>4. ASSUME NEW i \in 1..(k + 1) PROVE r[i] = ys[n + 1 - (k + 1) + i]
    <3>1. n + 1 - (k + 1) + i = n - k + i
      BY <2>3
    <3>2. CASE i = k + 1
      <4>1. n - k + i = n + 1
        BY <3>2
      <4> QED
        BY <2>2, <3>1, <3>2, <4>1 DEF Grown
    <3>3. CASE i # k + 1
      <4>1. i \in 1..k /\ n - k + i \in 1..n
        BY <2>3, <3>3
      <4> QED
        BY <2>2, <2>3, <3>1, <4>1 DEF Grown
    <3> QED
      BY <3>2, <3>3
  <2>5. Push(q, x, m) = r
    BY <1>2 DEF Push, r
  <2>6. k + 1 <= n + 1
    BY <2>3
  <2>7. EndOf(r, n + 1, ys)
    BY <2>2, <2>4, <2>6 DEF EndOf
  <2> QED
    BY <2>5, <2>7, Zenon
<1> QED
  BY <1>1, <1>2


LEMMA EndInts ==
  ASSUME NEW n \in Nat, NEW xs, Ints(xs, n), NEW q, IsSeq(q), EndOf(q, n, xs)
  PROVE  Ints(q, Len(q)) /\ Len(q) \in Nat
<1>1. Len(q) \in Nat /\ Len(q) <= n
  BY SeqDomain DEF EndOf
<1>2. \A i \in 1..Len(q) : n - Len(q) + i \in 1..n
  BY <1>1
<1> QED
  BY <1>1, <1>2 DEF EndOf, Ints

LEMMA EndIsLast ==
  ASSUME NEW n \in Nat, NEW xs, IsSeq(xs), Len(xs) = n, NEW q, IsSeq(q), EndOf(q, n, xs)
  PROVE  /\ Len(LastOf(xs, Len(q))) = Len(q) /\ IsSeq(LastOf(xs, Len(q)))
         /\ \A i \in 1..Len(q) : LastOf(xs, Len(q))[i] = q[i]
<1>1. Len(q) \in Nat /\ Len(q) <= n
  BY SeqDomain DEF EndOf
<1> QED
  BY <1>1, LastOfAt DEF EndOf

-----------------------------------------------------------------------------
(* Means *)

\* The mean of the end of xs, by a running sum.
Averages(f, n, xs) ==
  /\ EndOf(f.hist, n, xs)
  /\ f.acc = IF n = 0 THEN <<>> ELSE <<Total(f.hist)>>
  /\ f.ready => f.value = <<Total(f.hist), f.window>>

LEMMA RollSeen ==
  ASSUME NEW f, NEW n \in Nat, Ripe(f, n), Rolled(f, n), f.kind \in {"SMA", "VOL_SMA"},
         NEW xs, NEW ys, NEW x \in Int, Ints(xs, n), Grown(n, xs, ys, x), Averages(f, n, xs)
  PROVE  Averages(Roll(f, x), n + 1, ys)
<1> DEFINE old == IF Len(f.hist) = f.window THEN Head(f.hist) ELSE 0
           sum == (IF f.acc = <<>> THEN 0 ELSE f.acc[1]) - old + x
           h   == Push(f.hist, x, f.window)
           g   == Settle([f EXCEPT !.hist = h, !.acc = <<sum>>], Len(h) = f.window, <<sum, f.window>>)
<1>1. Roll(f, x) = g
  BY Zenon DEF Roll
<1>2. /\ f.window \in Nat \ {0} /\ IsSeq(f.hist) /\ Len(f.hist) = Capped(n, f.window)
      /\ EndOf(f.hist, n, xs)
  BY DEF Ripe, Rolled, Holds, HistCap, Averages
<1>3. Ints(f.hist, Len(f.hist)) /\ Len(f.hist) \in Nat /\ Len(f.hist) <= f.window
  BY <1>2, EndInts DEF Capped
<1>4. sum = Total(h)
  <2>1. Total(h) = Total(f.hist) - old + x
    BY <1>2, <1>3, PushTotal DEF Ints
  <2>2. (IF f.acc = <<>> THEN 0 ELSE f.acc[1]) = Total(f.hist)
    <3>1. CASE n = 0
      <4>1. Len(f.hist) = 0
        BY <1>2, <3>1 DEF Capped
      <4>2. f.acc = <<>>
        BY <3>1 DEF Averages
      <4> QED
        BY <4>1, <4>2, TotalEmpty
    <3>2. CASE n # 0
      <4>1. f.acc = <<Total(f.hist)>>
        BY <3>2 DEF Averages
      <4> QED
        BY <4>1
    <3> QED
      BY <3>1, <3>2
  <2> HIDE DEF h, old
  <2> QED
    BY <2>1, <2>2
<1>5. EndOf(h, n + 1, ys)
  BY <1>2, <1>3, PushEnd
<1> HIDE DEF sum
<1>6. Settled(f, g, h, <<sum>>, Len(h) = f.window, <<sum, f.window>>)
  BY SettleHistAcc, Zenon DEF Ripe
<1> HIDE DEF g, h
<1>7. Averages(g, n + 1, ys)
  <2>1. /\ g.window = f.window /\ g.hist = h /\ g.acc = <<sum>>
        /\ g.ready => g.value = <<sum, f.window>>
    BY <1>6 DEF Settled
  <2>2. n + 1 # 0
    OBVIOUS
  <2> QED
    BY <1>4, <1>5, <2>1, <2>2 DEF Averages
<1> QED
  BY <1>1, <1>7, Zenon

LEMMA MeanRight ==
  ASSUME NEW f, NEW n \in Nat, Ripe(f, n), Rolled(f, n), f.kind \in {"SMA", "VOL_SMA"},
         NEW xs, IsSeq(xs), Ints(xs, n), Averages(f, n, xs), f.ready
  PROVE  /\ f.value = <<Total(LastOf(xs, f.window)), f.window>>
         /\ Total(LastOf(xs, f.window)) \in Int
<1>1. f.window \in Nat \ {0} /\ Len(f.hist) = f.window /\ IsSeq(f.hist)
  BY DEF Ripe, Rolled, Holds, HistCap, WarmUp, Capped
<1> DEFINE l == LastOf(xs, f.window)
<1>2. Len(l) = f.window /\ \A i \in 1..f.window : l[i] = f.hist[i]
  BY <1>1, EndIsLast DEF Averages, Ints
<1>3. Ints(f.hist, f.window)
  BY <1>1, EndInts DEF Averages
<1> HIDE DEF l
<1>4. Total(l) = Total(f.hist) /\ Total(f.hist) \in Int
  BY <1>1, <1>2, <1>3, TotalSame, TotalType
<1>5. f.value = <<Total(f.hist), f.window>>
  BY DEF Averages
<1> QED
  BY <1>4, <1>5 DEF l


-----------------------------------------------------------------------------
(* Deviations *)

LEMMA SeqSame ==
  ASSUME NEW p, IsSeq(p), NEW q, IsSeq(q), Len(p) = Len(q), \A i \in 1..Len(q) : p[i] = q[i]
  PROVE  p = q
<1>1. p = [i \in 1..Len(p) |-> p[i]] /\ q = [i \in 1..Len(q) |-> q[i]]
  BY DEF IsSeq
<1>2. PICK n \in Nat : n = Len(q) /\ n = Len(p)
  BY SeqDomain
<1>3. p = [i \in 1..n |-> p[i]] /\ q = [i \in 1..n |-> q[i]]
  BY <1>1, <1>2, Zenon
<1>4. \A i \in 1..n : p[i] = q[i]
  BY <1>2
<1>5. [i \in 1..n |-> p[i]] = [i \in 1..n |-> q[i]]
  BY <1>4
<1> QED
  BY <1>3, <1>5, Zenon

LEMMA PrefixTotal ==
  ASSUME NEW n \in Nat, NEW q, Ints(q, n), NEW s, Sums(q, n, s), NEW k \in 0..n,
         NEW p, Len(p) = k, \A i \in 1..k : p[i] = q[i]
  PROVE  Total(p) = s[k]
<1>0. k \in Nat /\ \A i \in 1..k : i \in 1..n
  OBVIOUS
<1>1. Ints(p, k)
  BY <1>0 DEF Ints
<1>2. PICK t : Sums(p, k, t)
  BY <1>0, <1>1, SumsExist
<1> DEFINE T == {i \in Nat : t[i] = s[i]}
<1>3. 0 \in T
  BY <1>0, <1>2, SumsEnds
<1>4. ASSUME NEW i \in 1..k, i - 1 \in T PROVE i \in T
  <2>1. s[i] = s[i - 1] + q[i]
    BY <1>0, SumsNext
  <2>2. t[i] = t[i - 1] + p[i]
    BY <1>2 DEF Sums
  <2> QED
    BY <1>4, <2>1, <2>2
<1>5. k \in T
  <2> HIDE DEF T
  <2>1. T \in SUBSET Nat
    BY DEF T
  <2>2. \A i \in 0..k : i \in T
    BY <1>0, <1>3, <1>4, <2>1, UpTo
  <2> QED
    BY <1>0, <2>2
<1>6. Total(p) = t[k]
  BY <1>0, <1>2, SumsEnds
<1> QED
  BY <1>5, <1>6

\* A list made from another one member by member.
LEMMA MappedSeq ==
  ASSUME NEW q, IsSeq(q), NEW n, Len(q) = n, NEW r, r = [i \in DOMAIN q |-> r[i]]
  PROVE  IsSeq(r) /\ Len(r) = n /\ n \in Nat
<1>1. DOMAIN q = 1..n /\ n \in Nat
  BY SeqDomain
<1>2. r = [i \in 1..n |-> r[i]]
  BY <1>1, Zenon
<1> QED
  BY <1>1, <1>2, FunSeq

LEMMA SquareType == \A x \in Int : x * x \in Int
OBVIOUS

LEMMA SquaresAt ==
  ASSUME NEW q, IsSeq(q), NEW n, Ints(q, n)
  PROVE  Ints(Squares(q), n) /\ \A i \in 1..n : Squares(q)[i] = q[i] * q[i]
<1> DEFINE r == Squares(q)
<1>1. DOMAIN q = 1..n /\ n \in Nat /\ Len(q) = n /\ \A i \in 1..n : q[i] \in Int
  BY SeqDomain DEF Ints
<1>2. r = [i \in DOMAIN q |-> r[i]] /\ \A i \in 1..n : r[i] = q[i] * q[i]
  BY <1>1 DEF Squares
<1> HIDE DEF r
<1>3. Len(r) = n
  BY <1>1, <1>2, MappedSeq
<1>4. \A i \in 1..n : r[i] \in Int
  BY <1>1, <1>2, SquareType
<1> QED
  BY <1>2, <1>3, <1>4 DEF Ints, r

LEMMA ApartAt ==
  ASSUME NEW q, IsSeq(q), NEW n, Ints(q, n), NEW x \in Int
  PROVE  Ints(Apart(q, x), n) /\ \A i \in 1..n : Apart(q, x)[i] = (x - q[i]) * (x - q[i])
<1> DEFINE r == Apart(q, x)
<1>1. DOMAIN q = 1..n /\ n \in Nat /\ Len(q) = n /\ \A i \in 1..n : q[i] \in Int
  BY SeqDomain DEF Ints
<1>2. r = [i \in DOMAIN q |-> r[i]] /\ \A i \in 1..n : r[i] = (x - q[i]) * (x - q[i])
  BY <1>1 DEF Apart
<1> HIDE DEF r
<1>3. Len(r) = n
  BY <1>1, <1>2, MappedSeq
<1>4. \A i \in 1..n : r[i] \in Int
  <2> TAKE i \in 1..n
  <2>1. x - q[i] \in Int
    BY <1>1
  <2> QED
    BY <1>2, <2>1, SquareType
<1> QED
  BY <1>2, <1>3, <1>4 DEF Ints, r

LEMMA ApartStep ==
  ASSUME NEW i \in Int, NEW x \in Int, NEW s \in Int, NEW t \in Int, NEW p \in Int, NEW u \in Int,
         u = (i - 1) * (x * x) - 2 * (x * s) + t
  PROVE  u + (x - p) * (x - p) = i * (x * x) - 2 * (x * (s + p)) + (t + p * p)
OBVIOUS

\* How far x is from n numbers, in terms of their sum and that of their squares.
LEMMA ApartTotal ==
  ASSUME NEW q, IsSeq(q), NEW n, Ints(q, n), NEW x \in Int
  PROVE  Total(Apart(q, x)) = n * (x * x) - 2 * (x * Total(q)) + Total(Squares(q))
<1>0. n \in Nat /\ \A i \in 1..n : q[i] \in Int
  BY SeqDomain DEF Ints
<1>1. PICK s : Sums(q, n, s)
  BY <1>0, SumsExist
<1>2. PICK t : Sums(Squares(q), n, t)
  BY <1>0, SquaresAt, SumsExist
<1>3. PICK u : Sums(Apart(q, x), n, u)
  BY <1>0, ApartAt, SumsExist
<1> DEFINE T == {i \in Nat : u[i] = i * (x * x) - 2 * (x * s[i]) + t[i]}
<1>4. 0 \in T
  BY <1>0, <1>1, <1>2, <1>3, SumsEnds
<1>5. ASSUME NEW i \in 1..n, i - 1 \in T PROVE i \in T
  <2>1. s[i] = s[i - 1] + q[i] /\ s[i - 1] \in Int /\ q[i] \in Int
    BY <1>0, <1>1, SumsNext
  <2>2. t[i] = t[i - 1] + q[i] * q[i] /\ t[i - 1] \in Int
    <3>1. t[i] = t[i - 1] + Squares(q)[i] /\ t[i - 1] \in Int
      BY <1>0, <1>2, SumsNext
    <3>2. Squares(q)[i] = q[i] * q[i]
      BY SquaresAt
    <3> QED
      BY <3>1, <3>2, Zenon
  <2>3. u[i] = u[i - 1] + (x - q[i]) * (x - q[i]) /\ u[i - 1] \in Int
    BY <1>0, <1>3, SumsNext, ApartAt
  <2>4. u[i - 1] = (i - 1) * (x * x) - 2 * (x * s[i - 1]) + t[i - 1]
    BY <1>5
  <2>5. u[i - 1] + (x - q[i]) * (x - q[i])
          = i * (x * x) - 2 * (x * (s[i - 1] + q[i])) + (t[i - 1] + q[i] * q[i])
    BY <2>1, <2>2, <2>3, <2>4, ApartStep, i \in Int
  <2>6. u[i] = i * (x * x) - 2 * (x * s[i]) + t[i]
    BY <2>1, <2>2, <2>3, <2>5, Zenon
  <2> QED
    BY <2>6
<1>6. n \in T
  <2> HIDE DEF T
  <2>1. T \in SUBSET Nat
    BY DEF T
  <2>2. \A i \in 0..n : i \in T
    BY <1>0, <1>4, <1>5, <2>1, UpTo
  <2> QED
    BY <1>0, <2>2
<1>7. Total(q) = s[n] /\ Total(Squares(q)) = t[n] /\ Total(Apart(q, x)) = u[n]
  BY <1>0, <1>1, <1>2, <1>3, SumsEnds
<1> QED
  BY <1>6, <1>7

LEMMA SpreadStep ==
  ASSUME NEW i \in Int, NEW x \in Int, NEW s \in Int, NEW t \in Int, NEW d \in Int,
         d = (i - 1) * t - s * s
  PROVE  d + ((i - 1) * (x * x) - 2 * (x * s) + t) = i * (t + x * x) - (s + x) * (s + x)
OBVIOUS

\* The variance, pairwise and from the sums.
LEMMA SpreadIs ==
  ASSUME NEW q, IsSeq(q), NEW n, Ints(q, n)
  PROVE  /\ Spread(q) = n * Total(Squares(q)) - Total(q) * Total(q)
         /\ Spread(q) \in Int
<1>0. n \in Nat /\ Len(q) = n /\ DOMAIN q = 1..n /\ \A i \in 1..n : q[i] \in Int
  BY SeqDomain DEF Ints
<1>1. PICK s : Sums(q, n, s)
  BY <1>0, SumsExist
<1>2. PICK t : Sums(Squares(q), n, t)
  BY <1>0, SquaresAt, SumsExist
<1> DEFINE r == [i \in DOMAIN q |-> Total(Apart(FirstOf(q, i - 1), q[i]))]
<1>3. Spread(q) = Total(r)
  BY Zenon DEF Spread
<1>4. ASSUME NEW i \in 1..n
      PROVE  /\ r[i] = (i - 1) * (q[i] * q[i]) - 2 * (q[i] * s[i - 1]) + t[i - 1]
             /\ r[i] \in Int
  <2> DEFINE p == FirstOf(q, i - 1)
  <2>1. i - 1 \in 0..n /\ i - 1 \in Nat /\ i - 1 <= Len(q) /\ i - 1 \in Int
    BY <1>0
  <2>2. IsSeq(p) /\ Len(p) = i - 1 /\ \A j \in 1..(i - 1) : p[j] = q[j]
    BY <2>1, FirstOfAt
  <2>3. r[i] = Total(Apart(p, q[i]))
    BY <1>0
  <2> HIDE DEF p, r
  <2>4. Ints(p, i - 1)
    <3>1. \A j \in 1..(i - 1) : j \in 1..n
      BY <1>0
    <3> QED
      BY <1>0, <2>2, <3>1 DEF Ints
  <2>5. Total(p) = s[i - 1]
    BY <1>0, <1>1, <2>1, <2>2, PrefixTotal
  <2>6. Total(Squares(p)) = t[i - 1]
    <3>1. Len(Squares(p)) = i - 1 /\ \A j \in 1..(i - 1) : Squares(p)[j] = p[j] * p[j]
      BY <2>2, <2>4, SquaresAt DEF Ints
    <3>2. \A j \in 1..n : Squares(q)[j] = q[j] * q[j]
      BY SquaresAt
    <3>3. \A j \in 1..(i - 1) : Squares(p)[j] = Squares(q)[j]
      <4> TAKE j \in 1..(i - 1)
      <4>1. j \in 1..n
        BY <1>0
      <4> QED
        BY <2>2, <3>1, <3>2, <4>1
    <3>4. Ints(Squares(q), n)
      BY SquaresAt
    <3> QED
      BY <1>0, <1>2, <2>1, <3>1, <3>3, <3>4, PrefixTotal
  <2>7. Total(Apart(p, q[i]))
          = (i - 1) * (q[i] * q[i]) - 2 * (q[i] * Total(p)) + Total(Squares(p))
    BY <1>0, <2>2, <2>4, ApartTotal
  <2>8. Total(Apart(p, q[i])) \in Int
    BY <1>0, <2>1, <2>2, <2>4, ApartAt, TotalType
  <2> QED
    BY <2>3, <2>5, <2>6, <2>7, <2>8
<1>5. Ints(r, n)
  <2>1. r = [i \in 1..n |-> r[i]]
    BY <1>0
  <2> HIDE DEF r
  <2>2. Len(r) = n
    BY <1>0, <2>1, FunSeq
  <2> QED
    BY <1>4, <2>2 DEF Ints
<1> HIDE DEF r
<1>6. PICK d : Sums(r, n, d)
  BY <1>0, <1>5, SumsExist
<1> DEFINE T == {i \in Nat : d[i] = i * t[i] - s[i] * s[i]}
<1>7. 0 \in T
  <2>1. d[0] = 0 /\ t[0] = 0 /\ s[0] = 0
    BY <1>0, <1>1, <1>2, <1>6, SumsEnds
  <2> QED
    BY <2>1
<1>8. ASSUME NEW i \in 1..n, i - 1 \in T PROVE i \in T
  <2>1. s[i] = s[i - 1] + q[i] /\ s[i - 1] \in Int /\ q[i] \in Int
    BY <1>0, <1>1, SumsNext
  <2>2. t[i] = t[i - 1] + q[i] * q[i] /\ t[i - 1] \in Int
    <3>1. t[i] = t[i - 1] + Squares(q)[i] /\ t[i - 1] \in Int
      BY <1>0, <1>2, SumsNext
    <3>2. Squares(q)[i] = q[i] * q[i]
      BY SquaresAt
    <3> QED
      BY <3>1, <3>2, Zenon
  <2>3. d[i] = d[i - 1] + r[i] /\ d[i - 1] \in Int
    BY <1>0, <1>6, SumsNext
  <2>4. d[i - 1] = (i - 1) * t[i - 1] - s[i - 1] * s[i - 1]
    BY <1>8
  <2>5. d[i - 1] + ((i - 1) * (q[i] * q[i]) - 2 * (q[i] * s[i - 1]) + t[i - 1])
          = i * (t[i - 1] + q[i] * q[i]) - (s[i - 1] + q[i]) * (s[i - 1] + q[i])
    BY <2>1, <2>2, <2>3, <2>4, SpreadStep, i \in Int
  <2>6. d[i] = i * t[i] - s[i] * s[i]
    BY <1>4, <2>1, <2>2, <2>3, <2>5, Zenon
  <2> QED
    BY <2>6
<1>9. n \in T
  <2> HIDE DEF T
  <2>1. T \in SUBSET Nat
    BY DEF T
  <2>2. \A i \in 0..n : i \in T
    BY <1>0, <1>7, <1>8, <2>1, UpTo
  <2> QED
    BY <1>0, <2>2
<1>10. Total(q) = s[n] /\ Total(Squares(q)) = t[n] /\ Total(r) = d[n] /\ d[n] \in Int
  BY <1>0, <1>1, <1>2, <1>6, SumsEnds
<1> QED
  BY <1>3, <1>9, <1>10


\* Len elements from the end of xs, and the variance of them all.
Deviates(f, n, xs) ==
  /\ EndOf(f.hist, n, xs)
  /\ f.ready => f.value = <<f.window * Total(Squares(f.hist)) - Total(f.hist) * Total(f.hist),
                            f.window * f.window>>

LEMMA DeviateSeen ==
  ASSUME NEW f, NEW n \in Nat, Ripe(f, n), Rolled(f, n), f.kind = "STDDEV",
         NEW xs, NEW ys, NEW bar, Grown(n, xs, ys, bar.close), Deviates(f, n, xs)
  PROVE  Deviates(UpdateSTDDEV(f, bar), n + 1, ys)
<1> DEFINE x == bar.close
           h == Push(f.hist, x, f.window)
           p == <<f.window * Total(Squares(h)) - Total(h) * Total(h), f.window * f.window>>
           g == Settle([f EXCEPT !.hist = h], Len(h) = f.window, p)
<1>1. UpdateSTDDEV(f, bar) = g
  BY Zenon DEF UpdateSTDDEV
<1>2. /\ f.window \in Nat \ {0} /\ IsSeq(f.hist) /\ Len(f.hist) <= f.window
      /\ EndOf(f.hist, n, xs)
  BY DEF Ripe, Rolled, Holds, HistCap, Deviates, Capped
<1>3. EndOf(h, n + 1, ys)
  BY <1>2, PushEnd
<1> HIDE DEF x, p
<1>4. Settled(f, g, h, f.acc, Len(h) = f.window, p)
  BY SettleHist, Zenon DEF Ripe
<1> HIDE DEF g, h
<1>5. Deviates(g, n + 1, ys)
  <2>1. g.window = f.window /\ g.hist = h /\ (g.ready => g.value = p)
    BY <1>4 DEF Settled
  <2> QED
    BY <1>3, <2>1, Zenon DEF Deviates, p
<1> QED
  BY <1>1, <1>5, Zenon

LEMMA DeviationRight ==
  ASSUME NEW f, NEW n \in Nat, Ripe(f, n), Rolled(f, n), f.kind = "STDDEV",
         NEW xs, IsSeq(xs), Ints(xs, n), Deviates(f, n, xs), f.ready
  PROVE  /\ f.value = <<Spread(LastOf(xs, f.window)), f.window * f.window>>
         /\ Spread(LastOf(xs, f.window)) \in Int
<1>1. f.window \in Nat \ {0} /\ Len(f.hist) = f.window /\ IsSeq(f.hist)
  BY DEF Ripe, Rolled, Holds, HistCap, WarmUp, Capped
<1> DEFINE l == LastOf(xs, f.window)
<1>2. IsSeq(l) /\ Len(l) = f.window /\ \A i \in 1..f.window : l[i] = f.hist[i]
  BY <1>1, EndIsLast DEF Deviates, Ints
<1>3. Ints(f.hist, f.window)
  BY <1>1, EndInts DEF Deviates
<1> HIDE DEF l
<1>4. l = f.hist
  BY <1>1, <1>2, SeqSame
<1>5. /\ Spread(f.hist) = f.window * Total(Squares(f.hist)) - Total(f.hist) * Total(f.hist)
      /\ Spread(f.hist) \in Int
  BY <1>1, <1>3, SpreadIs
<1>6. f.value = <<f.window * Total(Squares(f.hist)) - Total(f.hist) * Total(f.hist),
                  f.window * f.window>>
  BY DEF Deviates
<1> QED
  BY <1>4, <1>5, <1>6, Zenon DEF l

\* The share by which the last element exceeds the first one.
Recalls(f, n, xs) ==
  /\ EndOf(f.hist, n, xs)
  /\ f.ready => f.value = IF f.hist[1] # 0 THEN <<100 * (xs[n] - f.hist[1]), f.hist[1]>>
                          ELSE <<0, 1>>

LEMMA RecallSeen ==
  ASSUME NEW f, NEW n \in Nat, Fed(f, n), f.kind = "ROC",
         NEW xs, NEW ys, NEW bar, Grown(n, xs, ys, bar.close), Recalls(f, n, xs)
  PROVE  Recalls(UpdateROC(f, bar), n + 1, ys)
<1> DEFINE x == bar.close
           m == f.window + 1
           h == Push(f.hist, x, m)
           p == IF Head(h) # 0 THEN <<100 * (x - Head(h)), Head(h)>> ELSE <<0, 1>>
           g == Settle([f EXCEPT !.hist = h], Len(h) = m, p)
<1>1. UpdateROC(f, bar) = g
  BY Zenon DEF UpdateROC
<1>2. /\ f.window \in Nat \ {0} /\ IsSeq(f.hist) /\ Len(f.hist) = Capped(n, m)
      /\ EndOf(f.hist, n, xs) /\ Shape(f)
  BY DEF Fed, Ripe, Rolled, Holds, HistCap, Recalls
<1>3. m \in Nat \ {0} /\ Len(f.hist) <= m
  BY <1>2 DEF Capped
<1> HIDE DEF m
<1>4. EndOf(h, n + 1, ys)
  BY <1>2, <1>3, PushEnd
<1>5. IsSeq(h) /\ Len(h) = Capped(n + 1, m)
  BY <1>2, <1>3, PushFills
<1>6. Head(h) = h[1]
  <2> HIDE DEF h
  <2>1. Len(<<>>) = 0
    OBVIOUS
  <2>2. h # <<>>
    BY <1>3, <1>5, <2>1 DEF Capped
  <2> QED
    BY <1>5, <2>2, HeadFirst
<1>7. x = ys[n + 1]
  BY DEF Grown
<1> HIDE DEF x, p
<1>8. Settled(f, g, h, f.acc, Len(h) = m, p)
  BY <1>2, SettleHist, Zenon
<1> HIDE DEF g, h
<1>9. Recalls(g, n + 1, ys)
  <2>1. g.window = f.window /\ g.hist = h /\ (g.ready => g.value = p)
    BY <1>8 DEF Settled
  <2> QED
    BY <1>4, <1>6, <1>7, <2>1, Zenon DEF Recalls, p
<1> QED
  BY <1>1, <1>9, Zenon

LEMMA ChangeRight ==
  ASSUME NEW f, NEW n \in Nat, Fed(f, n), f.kind = "ROC",
         NEW xs, IsSeq(xs), Ints(xs, n), Recalls(f, n, xs), f.ready
  PROVE  /\ xs[n] \in Int /\ xs[n - f.window] \in Int
         /\ f.value = IF xs[n - f.window] # 0
                      THEN <<100 * (xs[n] - xs[n - f.window]), xs[n - f.window]>> ELSE <<0, 1>>
<1>1. /\ f.window \in Nat \ {0} /\ Len(f.hist) = f.window + 1 /\ n >= f.window + 1
      /\ EndOf(f.hist, n, xs)
  BY DEF Fed, Ripe, Rolled, Holds, HistCap, WarmUp, Capped, Recalls
<1>2. 1 \in 1..Len(f.hist) /\ n - Len(f.hist) + 1 = n - f.window
      /\ n \in 1..n /\ n - f.window \in 1..n
  BY <1>1
<1>3. f.hist[1] = xs[n - f.window]
  BY <1>1, <1>2 DEF EndOf
<1> QED
  BY <1>2, <1>3, Zenon DEF Recalls, Ints

-----------------------------------------------------------------------------
(* Averages weighted by volume *)

Parts(q, j) == [i \in DOMAIN q |-> q[i][j]]

LEMMA PartsAt ==
  ASSUME NEW q, IsSeq(q), NEW j
  PROVE  /\ IsSeq(Parts(q, j)) /\ Len(Parts(q, j)) = Len(q) /\ Len(q) \in Nat
         /\ \A i \in 1..Len(q) : Parts(q, j)[i] = q[i][j]
<1> DEFINE r == Parts(q, j)
<1>1. r = [i \in DOMAIN q |-> r[i]] /\ \A i \in DOMAIN q : r[i] = q[i][j]
  BY DEF Parts
<1> HIDE DEF r
<1>2. IsSeq(r) /\ Len(r) = Len(q)
  BY <1>1, MappedSeq
<1> QED
  BY <1>1, <1>2, SeqDomain DEF r

LEMMA TailParts ==
  ASSUME NEW q, IsSeq(q), q # <<>>, NEW j
  PROVE  /\ Parts(Tail(q), j) = Tail(Parts(q, j)) /\ Head(Parts(q, j)) = Head(q)[j]
         /\ Parts(q, j) # <<>>
<1> DEFINE p == Parts(q, j)
           t == Tail(q)
<1>1. IsSeq(t) /\ Len(t) = Len(q) - 1 /\ Len(q) \in Nat \ {0}
  BY SeqTail
<1>2. IsSeq(p) /\ Len(p) = Len(q) /\ \A i \in 1..Len(q) : p[i] = q[i][j]
  BY PartsAt
<1>3. \A i \in 1..Len(t) : t[i] = q[i + 1] /\ i + 1 \in 1..Len(q)
  BY TailRest
<1>4. Head(q) = q[1] /\ 1 \in 1..Len(q)
  BY HeadFirst
<1> HIDE DEF p, t
<1>5. p # <<>>
  <2>1. Len(<<>>) = 0
    OBVIOUS
  <2> QED
    BY <1>1, <1>2, <2>1
<1>6. IsSeq(Tail(p)) /\ Len(Tail(p)) = Len(q) - 1
  BY <1>2, <1>5, SeqTail
<1>7. \A i \in 1..Len(Tail(p)) : Tail(p)[i] = p[i + 1]
  BY <1>2, <1>5, TailRest
<1>8. IsSeq(Parts(t, j)) /\ Len(Parts(t, j)) = Len(t) /\ \A i \in 1..Len(t) : Parts(t, j)[i] = t[i][j]
  BY <1>1, PartsAt
<1>9. Parts(t, j) = Tail(p)
  <2>1. \A i \in 1..Len(t) : Parts(t, j)[i] = Tail(p)[i]
    <3> TAKE i \in 1..Len(t)
    <3>1. Parts(t, j)[i] = q[i + 1][j] /\ i + 1 \in 1..Len(q)
      BY <1>3, <1>8
    <3>2. Tail(p)[i] = p[i + 1]
      BY <1>1, <1>6, <1>7
    <3> QED
      BY <1>2, <3>1, <3>2
  <2>2. Len(Parts(t, j)) = Len(Tail(p))
    BY <1>1, <1>6, <1>8
  <2>3. \A i \in 1..Len(Tail(p)) : Parts(t, j)[i] = Tail(p)[i]
    BY <1>1, <1>6, <2>1
  <2> QED
    BY <1>6, <1>8, <2>2, <2>3, SeqSame
<1>10. Head(p) = p[1]
  BY <1>2, <1>5, HeadFirst
<1> QED
  BY <1>2, <1>4, <1>5, <1>9, <1>10 DEF p, t

LEMMA AppendParts ==
  ASSUME NEW q, IsSeq(q), NEW x, NEW j
  PROVE  Parts(Append(q, x), j) = Append(Parts(q, j), x[j])
<1> DEFINE p == Parts(q, j)
           r == Append(q, x)
           a == Append(p, x[j])
<1>1. PICK n \in Nat : n = Len(q)
  BY SeqDomain
<1>2. IsSeq(p) /\ Len(p) = n /\ \A i \in 1..n : p[i] = q[i][j]
  BY <1>1, PartsAt
<1>3. IsSeq(r) /\ Len(r) = n + 1 /\ (\A i \in 1..n : r[i] = q[i]) /\ r[n + 1] = x
  BY <1>1, SeqAppend
<1> HIDE DEF p, r
<1>4. IsSeq(a) /\ Len(a) = n + 1 /\ (\A i \in 1..n : a[i] = p[i]) /\ a[n + 1] = x[j]
  BY <1>2, SeqAppend
<1>5. IsSeq(Parts(r, j)) /\ Len(Parts(r, j)) = n + 1 /\ \A i \in 1..(n + 1) : Parts(r, j)[i] = r[i][j]
  BY <1>3, PartsAt
<1> HIDE DEF a
<1>6. \A i \in 1..(n + 1) : Parts(r, j)[i] = a[i]
  <2> TAKE i \in 1..(n + 1)
  <2>1. i = n + 1 \/ i \in 1..n
    OBVIOUS
  <2> QED
    BY <1>2, <1>3, <1>4, <1>5, <2>1
<1>7. Parts(r, j) = a
  BY <1>4, <1>5, <1>6, SeqSame
<1> QED
  BY <1>7 DEF a, r, p

LEMMA PushParts ==
  ASSUME NEW q, IsSeq(q), NEW m \in Nat \ {0}, NEW x, NEW j
  PROVE  /\ Parts(Push(q, x, m), j) = Push(Parts(q, j), x[j], m)
         /\ Len(q) = m => Head(Parts(q, j)) = Head(q)[j]
<1>1. Len(Parts(q, j)) = Len(q)
  BY PartsAt
<1>2. CASE Len(q) = m
  <2>1. q # <<>>
    BY <1>2
  <2>2. /\ Parts(Tail(q), j) = Tail(Parts(q, j)) /\ Head(Parts(q, j)) = Head(q)[j]
        /\ IsSeq(Tail(q))
    BY <2>1, TailParts, SeqTail
  <2>3. Parts(Append(Tail(q), x), j) = Append(Parts(Tail(q), j), x[j])
    BY <2>2, AppendParts
  <2> QED
    BY <1>1, <1>2, <2>2, <2>3, Zenon DEF Push
<1>3. CASE Len(q) # m
  <2>1. Parts(Append(q, x), j) = Append(Parts(q, j), x[j])
    BY AppendParts
  <2> QED
    BY <1>1, <1>3, <2>1, Zenon DEF Push
<1> QED
  BY <1>2, <1>3


\* Two running sums over the pairs ps: of what was paid and of the volume.
Weighs(f, n, ps) ==
  /\ EndOf(f.hist, n, ps)
  /\ f.acc = IF n = 0 THEN <<>> ELSE <<Total(Parts(f.hist, 1)), Total(Parts(f.hist, 2))>>
  /\ f.ready /\ Total(Parts(f.hist, 2)) > 0 =>
       f.value = <<Total(Parts(f.hist, 1)), 3 * Total(Parts(f.hist, 2))>>

IntPairs(ps, n) == Len(ps) = n /\ \A i \in 1..n : ps[i][1] \in Int /\ ps[i][2] \in Int
Trade(bar) == <<(bar.high + bar.low + bar.close) * bar.volume, bar.volume>>

LEMMA EndPairs ==
  ASSUME NEW n \in Nat, NEW ps, IntPairs(ps, n), NEW q, IsSeq(q), EndOf(q, n, ps), NEW j \in {1, 2}
  PROVE  /\ IsSeq(Parts(q, j)) /\ Ints(Parts(q, j), Len(q)) /\ Len(q) \in Nat
         /\ Len(Parts(q, j)) = Len(q)
<1>1. Len(q) \in Nat /\ Len(q) <= n
  BY SeqDomain DEF EndOf
<1>2. /\ IsSeq(Parts(q, j)) /\ Len(Parts(q, j)) = Len(q)
      /\ \A i \in 1..Len(q) : Parts(q, j)[i] = q[i][j]
  BY PartsAt
<1>3. \A i \in 1..Len(q) : q[i][j] \in Int
  <2> TAKE i \in 1..Len(q)
  <2>1. n - Len(q) + i \in 1..n
    BY <1>1
  <2>2. q[i] = ps[n - Len(q) + i]
    BY DEF EndOf
  <2> QED
    BY <2>1, <2>2 DEF IntPairs
<1> QED
  BY <1>1, <1>2, <1>3 DEF Ints

\* One of the two sums, a bar later.
LEMMA PartSum ==
  ASSUME NEW n \in Nat, NEW ps, IntPairs(ps, n), NEW q, IsSeq(q), EndOf(q, n, ps), NEW j \in {1, 2},
         NEW m \in Nat \ {0}, Len(q) <= m, NEW x, x[j] \in Int, NEW s, s = Total(Parts(q, j)),
         NEW old, old = IF Len(q) = m THEN Head(q)[j] ELSE 0
  PROVE  Total(Parts(Push(q, x, m), j)) = s - old + x[j]
<1> DEFINE p == Parts(q, j)
<1>1. IsSeq(p) /\ Ints(p, Len(q)) /\ Len(p) = Len(q)
  BY EndPairs
<1>2. Parts(Push(q, x, m), j) = Push(p, x[j], m) /\ (Len(q) = m => Head(p) = Head(q)[j])
  BY PushParts
<1> HIDE DEF p
<1>3. Total(Push(p, x[j], m)) = Total(p) - (IF Len(p) = m THEN Head(p) ELSE 0) + x[j]
  <2>1. \A i \in 1..Len(p) : p[i] \in Int
    BY <1>1 DEF Ints
  <2> QED
    BY <1>1, <2>1, PushTotal
<1>4. (IF Len(p) = m THEN Head(p) ELSE 0) = old
  BY <1>1, <1>2
<1> QED
  BY <1>2, <1>3, <1>4 DEF p

LEMMA WeighSeen ==
  ASSUME NEW f, NEW n \in Nat, Ripe(f, n), Rolled(f, n), f.kind = "VWAP",
         NEW ps, NEW qs, NEW bar, IntPairs(ps, n), Trade(bar)[1] \in Int, Trade(bar)[2] \in Int,
         Grown(n, ps, qs, Trade(bar)), Weighs(f, n, ps)
  PROVE  Weighs(UpdateVWAP(f, bar), n + 1, qs)
<1> DEFINE typical == bar.high + bar.low + bar.close
           old == IF Len(f.hist) = f.window THEN Head(f.hist) ELSE <<0, 0>>
           acc == IF f.acc = <<>> THEN <<0, 0>> ELSE f.acc
           pv  == acc[1] - old[1] + typical * bar.volume
           v   == acc[2] - old[2] + bar.volume
           x   == <<typical * bar.volume, bar.volume>>
           h   == Push(f.hist, x, f.window)
           p   == IF v > 0 THEN <<pv, 3 * v>> ELSE <<typical, 3>>
           g   == Settle([f EXCEPT !.hist = h, !.acc = <<pv, v>>], Len(h) = f.window, p)
<1>1. UpdateVWAP(f, bar) = g
  BY Zenon DEF UpdateVWAP
<1>2. /\ f.window \in Nat \ {0} /\ IsSeq(f.hist) /\ Len(f.hist) = Capped(n, f.window)
      /\ Len(f.hist) <= f.window /\ EndOf(f.hist, n, ps)
  BY DEF Ripe, Rolled, Holds, HistCap, Weighs, Capped
<1>3. x = Trade(bar) /\ x[1] = typical * bar.volume /\ x[2] = bar.volume
      /\ x[1] \in Int /\ x[2] \in Int
  BY DEF Trade
<1>4. acc[1] = Total(Parts(f.hist, 1)) /\ acc[2] = Total(Parts(f.hist, 2))
  <2>1. CASE n = 0
    <3>1. Len(f.hist) = 0
      BY <1>2, <2>1 DEF Capped
    <3>2. Len(Parts(f.hist, 1)) = 0 /\ Len(Parts(f.hist, 2)) = 0
      BY <1>2, <3>1, PartsAt
    <3>3. Total(Parts(f.hist, 1)) = 0 /\ Total(Parts(f.hist, 2)) = 0
      BY <3>2, TotalEmpty
    <3>4. f.acc = <<>>
      BY <2>1 DEF Weighs
    <3> QED
      BY <3>3, <3>4
  <2>2. CASE n # 0
    <3>1. f.acc = <<Total(Parts(f.hist, 1)), Total(Parts(f.hist, 2))>>
      BY <2>2 DEF Weighs
    <3>2. f.acc # <<>>
      BY <3>1
    <3> QED
      BY <3>1, <3>2
  <2> QED
    BY <2>1, <2>2
<1>5. /\ old[1] = IF Len(f.hist) = f.window THEN Head(f.hist)[1] ELSE 0
      /\ old[2] = IF Len(f.hist) = f.window THEN Head(f.hist)[2] ELSE 0
  OBVIOUS
<1> HIDE DEF old, acc, typical, x
<1>6. Total(Parts(h, 1)) = pv
  <2>1. Total(Parts(h, 1)) = acc[1] - old[1] + x[1]
    BY <1>2, <1>3, <1>4, <1>5, PartSum
  <2> QED
    BY <1>3, <2>1
<1>7. Total(Parts(h, 2)) = v
  <2>1. Total(Parts(h, 2)) = acc[2] - old[2] + x[2]
    BY <1>2, <1>3, <1>4, <1>5, PartSum
  <2> QED
    BY <1>3, <2>1
<1>8. EndOf(h, n + 1, qs)
  BY <1>2, <1>3, PushEnd
<1> HIDE DEF pv, v, p
<1>9. Settled(f, g, h, <<pv, v>>, Len(h) = f.window, p)
  BY SettleHistAcc, Zenon DEF Ripe
<1> HIDE DEF g, h
<1>10. Weighs(g, n + 1, qs)
  <2>1. g.hist = h /\ g.acc = <<pv, v>> /\ (g.ready => g.value = p)
    BY <1>9 DEF Settled
  <2>2. v > 0 => p = <<pv, 3 * v>>
    BY Zenon DEF p
  <2>3. n + 1 # 0
    OBVIOUS
  <2> QED
    BY <1>6, <1>7, <1>8, <2>1, <2>2, <2>3, Zenon DEF Weighs
<1> QED
  BY <1>1, <1>10, Zenon

\* xs and vs are the two parts of ps.
LEMMA WeightedRight ==
  ASSUME NEW f, NEW n \in Nat, Ripe(f, n), Rolled(f, n), f.kind = "VWAP",
         NEW ps, IsSeq(ps), IntPairs(ps, n), Weighs(f, n, ps), f.ready,
         NEW w, w = Parts(LastOf(ps, f.window), 1), NEW v, v = Parts(LastOf(ps, f.window), 2)
  PROVE  /\ Total(w) \in Int /\ Total(v) \in Int
         /\ Total(v) > 0 => f.value = <<Total(w), 3 * Total(v)>>
<1>1. f.window \in Nat \ {0} /\ Len(f.hist) = f.window /\ IsSeq(f.hist)
  BY DEF Ripe, Rolled, Holds, HistCap, WarmUp, Capped
<1> DEFINE l == LastOf(ps, f.window)
<1>2. IsSeq(l) /\ Len(l) = f.window /\ \A i \in 1..f.window : l[i] = f.hist[i]
  BY <1>1, EndIsLast DEF Weighs, IntPairs
<1> HIDE DEF l
<1>3. l = f.hist
  BY <1>1, <1>2, SeqSame
<1>4. w = Parts(f.hist, 1) /\ v = Parts(f.hist, 2)
  BY <1>3 DEF l
<1>5. Ints(w, f.window) /\ Ints(v, f.window)
  BY <1>1, <1>4, EndPairs DEF Weighs
<1>6. Total(w) \in Int /\ Total(v) \in Int
  BY <1>1, <1>5, TotalType
<1> QED
  BY <1>4, <1>6, Zenon DEF Weighs


-----------------------------------------------------------------------------
(* Powers, and averages that move by a share of the distance *)

PowersTo(b, n, p) == p = [i \in 0..n |-> IF i = 0 THEN 1 ELSE b * p[i - 1]]

LEMMA PowerAt ==
  ASSUME NEW b, NEW n, NEW p, PowersTo(b, n, p), NEW i \in 0..n
  PROVE  p[i] = IF i = 0 THEN 1 ELSE b * p[i - 1]
BY Zenon DEF PowersTo

LEMMA PowersExist ==
  ASSUME NEW b, NEW n \in Nat
  PROVE  \E p : PowersTo(b, n, p)
<1> DEFINE T == {k \in Nat : \E p : PowersTo(b, k, p)}
<1>1. 0 \in T
  <2> DEFINE one == [i \in 0..0 |-> 1]
  <2>1. PowersTo(b, 0, one)
    BY DEF PowersTo
  <2> QED
    BY <2>1
<1>2. ASSUME NEW k \in 1..n, k - 1 \in T PROVE k \in T
  <2>1. k - 1 \in Nat /\ k \in Nat
    OBVIOUS
  <2>2. PICK f : PowersTo(b, k - 1, f)
    BY <1>2
  <2> DEFINE g == [i \in 0..k |-> IF i = 0 THEN 1 ELSE b * f[i - 1]]
  <2>3. ASSUME NEW i \in 0..(k - 1) PROVE g[i] = f[i]
    <3>1. i \in 0..k
      BY <2>1
    <3>2. g[i] = IF i = 0 THEN 1 ELSE b * f[i - 1]
      BY <3>1, Zenon
    <3>3. f[i] = IF i = 0 THEN 1 ELSE b * f[i - 1]
      BY <2>2, PowerAt
    <3> QED
      BY <3>2, <3>3, Zenon
  <2> HIDE DEF g
  <2>4. \A i \in 0..k : i # 0 => g[i - 1] = f[i - 1]
    <3>1. \A i \in 0..k : i # 0 => i - 1 \in 0..(k - 1)
      BY <2>1
    <3> QED
      BY <2>3, <3>1
  <2>5. PowersTo(b, k, g)
    <3>1. g = [i \in 0..k |-> IF i = 0 THEN 1 ELSE b * f[i - 1]]
      BY Zenon DEF g
    <3>2. [i \in 0..k |-> IF i = 0 THEN 1 ELSE b * f[i - 1]]
            = [i \in 0..k |-> IF i = 0 THEN 1 ELSE b * g[i - 1]]
      BY <2>4
    <3> QED
      BY <3>1, <3>2, Zenon DEF PowersTo
  <2> QED
    BY <2>1, <2>5
<1>3. \A k \in 0..n : k \in T
  <2> HIDE DEF T
  <2>1. T \in SUBSET Nat
    BY DEF T
  <2> QED
    BY <1>1, <1>2, <2>1, UpTo
<1>4. n \in T
  BY <1>3
<1> QED
  BY <1>4

LEMMA PowerIs ==
  ASSUME NEW b, NEW n \in Nat
  PROVE  \E p : /\ Power(b, n) = p[n] /\ p[0] = 1
                /\ \A i \in 1..n : p[i] = b * p[i - 1]
<1> DEFINE p == CHOOSE f : PowersTo(b, n, f)
<1>1. Power(b, n) = p[n]
  BY DEF Power, PowersTo
<1>2. PowersTo(b, n, p)
  BY PowersExist
<1> HIDE DEF p
<1>3. p[0] = 1
  <2>1. 0 \in 0..n
    OBVIOUS
  <2> QED
    BY <1>2, <2>1, PowerAt
<1>4. ASSUME NEW i \in 1..n PROVE p[i] = b * p[i - 1]
  <2>1. i \in 0..n /\ i # 0
    OBVIOUS
  <2>2. p[i] = IF i = 0 THEN 1 ELSE b * p[i - 1]
    BY <1>2, <2>1, PowerAt
  <2> QED
    BY <2>1, <2>2, Zenon
<1> QED
  BY <1>1, <1>3, <1>4

LEMMA PowerNext ==
  ASSUME NEW b \in Int, NEW n \in Nat
  PROVE  /\ Power(b, 0) = 1 /\ Power(b, n) \in Int
         /\ Power(b, n + 1) = b * Power(b, n)
<1>0. Power(b, 0) = 1
  BY PowerIs
<1>1. PICK p : Power(b, n) = p[n] /\ p[0] = 1 /\ \A i \in 1..n : p[i] = b * p[i - 1]
  BY PowerIs
<1>2. PICK m : m = n + 1
  OBVIOUS
<1>3. m \in Nat /\ m \in 1..m /\ m - 1 = n
  BY <1>2
<1>4. PICK r : Power(b, m) = r[m] /\ r[0] = 1 /\ \A i \in 1..m : r[i] = b * r[i - 1]
  BY <1>3, PowerIs
<1> DEFINE T == {i \in Nat : r[i] = p[i] /\ p[i] \in Int}
<1>5. 0 \in T
  BY <1>1, <1>4
<1>6. ASSUME NEW i \in 1..n, i - 1 \in T PROVE i \in T
  <2>1. i \in 1..m /\ i \in Nat
    BY <1>2
  <2>2. p[i] = b * p[i - 1] /\ r[i] = b * r[i - 1]
    BY <1>1, <1>4, <2>1
  <2>3. r[i - 1] = p[i - 1] /\ p[i - 1] \in Int
    BY <1>6
  <2>4. p[i] \in Int
    BY <2>2, <2>3, TimesSum
  <2> QED
    BY <2>1, <2>2, <2>3, <2>4
<1>7. n \in T
  <2> HIDE DEF T
  <2>1. T \in SUBSET Nat
    BY DEF T
  <2>2. \A i \in 0..n : i \in T
    BY <1>5, <1>6, <2>1, UpTo
  <2> QED
    BY <2>2
<1>8. r[m] = b * r[n]
  BY <1>3, <1>4, Zenon
<1> QED
  BY <1>0, <1>1, <1>2, <1>4, <1>7, <1>8

\* The terms of Blend for the numbers after the first w ones.
Terms(q, w, keep, part, total) ==
  [j \in 1..(Len(q) - w) |->
     part * Beyond(q, w)[j] * Power(keep, Len(q) - w - j) * Power(total, j - 1)]

LEMMA BlendIs ==
  ASSUME NEW q, NEW w, NEW keep, NEW part, NEW total
  PROVE  Blend(q, w, keep, part, total)
           = Power(keep, Len(q) - w) * Total(FirstOf(q, w)) + w * Total(Terms(q, w, keep, part, total))
BY Zenon DEF Blend, Terms

LEMMA TermType ==
  ASSUME NEW a \in Int, NEW b \in Int, NEW c \in Int, NEW d \in Int
  PROVE  a * b * c * d \in Int
<1>1. a * b \in Int
  BY TimesSum
<1>2. (a * b) * c \in Int
  BY <1>1, TimesSum
<1> QED
  BY <1>2, TimesSum

LEMMA TermsAt ==
  ASSUME NEW q, IsSeq(q), NEW n, Ints(q, n), NEW w \in Nat \ {0}, n >= w,
         NEW keep \in Int, NEW part \in Int, NEW total \in Int
  PROVE  /\ Ints(Terms(q, w, keep, part, total), n - w)
         /\ \A j \in 1..(n - w) :
              /\ Terms(q, w, keep, part, total)[j]
                   = part * q[w + j] * Power(keep, n - w - j) * Power(total, j - 1)
              /\ q[w + j] \in Int /\ Power(keep, n - w - j) \in Int /\ Power(total, j - 1) \in Int
<1> DEFINE r == Terms(q, w, keep, part, total)
<1>1. n \in Nat /\ Len(q) = n /\ \A i \in 1..n : q[i] \in Int
  BY SeqDomain DEF Ints
<1>2. PICK m \in Nat : m = n - w
  BY <1>1
<1>3. \A j \in 1..m : Beyond(q, w)[j] = q[w + j]
  BY <1>1, <1>2, BeyondAt
<1>4. r = [j \in 1..m |-> part * Beyond(q, w)[j] * Power(keep, m - j) * Power(total, j - 1)]
  BY <1>1, <1>2, Zenon DEF Terms
<1> HIDE DEF r
<1>5. ASSUME NEW j \in 1..m
      PROVE  /\ r[j] = part * q[w + j] * Power(keep, m - j) * Power(total, j - 1)
             /\ q[w + j] \in Int /\ Power(keep, m - j) \in Int /\ Power(total, j - 1) \in Int
             /\ r[j] \in Int
  <2>1. w + j \in 1..n /\ m - j \in Nat /\ j - 1 \in Nat
    BY <1>1, <1>2
  <2>2. q[w + j] \in Int /\ Power(keep, m - j) \in Int /\ Power(total, j - 1) \in Int
    BY <1>1, <2>1, PowerNext
  <2>3. r[j] = part * q[w + j] * Power(keep, m - j) * Power(total, j - 1)
    BY <1>3, <1>4
  <2>4. part * q[w + j] * Power(keep, m - j) * Power(total, j - 1) \in Int
    BY <2>2, TermType
  <2> QED
    BY <2>2, <2>3, <2>4
<1>6. Len(r) = m
  <2>1. r = [j \in 1..m |-> r[j]]
    BY <1>4
  <2> QED
    BY <2>1, FunSeq
<1> QED
  BY <1>2, <1>5, <1>6 DEF Ints, r

LEMMA BlendType ==
  ASSUME NEW q, IsSeq(q), NEW n, Ints(q, n), NEW w \in Nat \ {0}, n >= w,
         NEW keep \in Int, NEW part \in Int, NEW total \in Int
  PROVE  /\ Power(keep, n - w) \in Int /\ Total(FirstOf(q, w)) \in Int
         /\ Total(Terms(q, w, keep, part, total)) \in Int
         /\ Blend(q, w, keep, part, total) \in Int
<1>1. n \in Nat /\ Len(q) = n /\ (\A i \in 1..n : q[i] \in Int) /\ n - w \in Nat
  BY SeqDomain DEF Ints
<1>2. Ints(FirstOf(q, w), w)
  BY <1>1, FirstOfAt DEF Ints
<1>3. Total(FirstOf(q, w)) \in Int
  BY <1>2, TotalType
<1>4. Total(Terms(q, w, keep, part, total)) \in Int
  BY <1>1, TermsAt, TotalType
<1>5. Power(keep, n - w) \in Int
  BY <1>1, PowerNext
<1>6. Power(keep, n - w) * Total(FirstOf(q, w)) \in Int /\ w * Total(Terms(q, w, keep, part, total)) \in Int
  BY <1>3, <1>4, <1>5, TimesSum
<1> QED
  BY <1>1, <1>3, <1>4, <1>5, <1>6, BlendIs

\* It starts as the sum,
LEMMA BlendFirst ==
  ASSUME NEW q, IsSeq(q), NEW w \in Nat \ {0}, Ints(q, w),
         NEW keep \in Int, NEW part \in Int, NEW total \in Int
  PROVE  Blend(q, w, keep, part, total) = Total(q) /\ Power(total, 0) = 1
<1>1. Len(q) = w /\ Len(q) - w = 0 /\ w - w = 0 /\ w >= w
  BY DEF Ints
<1>2. FirstOf(q, w) = q
  BY <1>1, FirstOfAt, SeqSame
<1>3. Power(keep, 0) = 1 /\ Power(total, 0) = 1
  BY PowerNext, 0 \in Nat
<1>4. Ints(Terms(q, w, keep, part, total), 0)
  BY <1>1, TermsAt
<1>5. Total(Terms(q, w, keep, part, total)) = 0
  BY <1>4, TotalEmpty DEF Ints
<1>6. Total(q) \in Int
  BY TotalType
<1>7. Blend(q, w, keep, part, total) = 1 * Total(q) + w * 0
  BY <1>1, <1>2, <1>3, <1>5, BlendIs
<1> QED
  BY <1>3, <1>6, <1>7

LEMMA TermMore ==
  ASSUME NEW k \in Int, NEW a \in Int, NEW b \in Int, NEW c \in Int, NEW d \in Int
  PROVE  a * b * (k * c) * d = k * (a * b * c * d)
OBVIOUS

LEMMA BlendSum ==
  ASSUME NEW k \in Int, NEW p \in Int, NEW s \in Int, NEW w \in Int, NEW t \in Int,
         NEW a \in Int, NEW y \in Int, NEW d \in Int
  PROVE  (k * p) * s + w * (k * t + a * y * 1 * d) = k * (p * s + w * t) + a * y * (w * d)
OBVIOUS

\* and moves with every number.
LEMMA BlendStep ==
  ASSUME NEW q, IsSeq(q), NEW n \in Nat, Ints(q, n), NEW w \in Nat \ {0}, n >= w,
         NEW keep \in Int, NEW part \in Int, NEW total \in Int,
         NEW r, IsSeq(r), Ints(r, n + 1), \A i \in 1..n : r[i] = q[i]
  PROVE  /\ Blend(r, w, keep, part, total)
              = keep * Blend(q, w, keep, part, total)
                + part * r[n + 1] * (w * Power(total, n - w))
         /\ Power(total, n + 1 - w) = total * Power(total, n - w)
         /\ Power(total, n - w) \in Int
<1> DEFINE tq == Terms(q, w, keep, part, total)
           tr == Terms(r, w, keep, part, total)
<1>1. PICK m \in Nat : m = n - w
  OBVIOUS
<1>2. Len(q) = n /\ Len(r) = n + 1 /\ n + 1 >= w /\ n + 1 - w = m + 1 /\ w + (m + 1) = n + 1
      /\ n + 1 \in 1..(n + 1)
  BY <1>1 DEF Ints
<1>3. /\ Ints(tq, m)
      /\ \A j \in 1..m :
           /\ tq[j] = part * q[w + j] * Power(keep, m - j) * Power(total, j - 1)
           /\ q[w + j] \in Int /\ Power(keep, m - j) \in Int /\ Power(total, j - 1) \in Int
  BY <1>1, TermsAt
<1>4. /\ Ints(tr, m + 1)
      /\ \A j \in 1..(m + 1) :
           tr[j] = part * r[w + j] * Power(keep, m + 1 - j) * Power(total, j - 1)
  <2>1. PICK l : l = n + 1
    OBVIOUS
  <2>2. Ints(r, l) /\ l >= w /\ l - w = m + 1
    BY <1>2, <2>1
  <2>3. /\ Ints(tr, l - w)
        /\ \A j \in 1..(l - w) :
             tr[j] = part * r[w + j] * Power(keep, l - w - j) * Power(total, j - 1)
    BY <2>2, TermsAt
  <2>4. PICK u : u = l - w
    OBVIOUS
  <2>5. u = m + 1
    BY <2>2, <2>4
  <2> HIDE DEF tr
  <2>6. Ints(tr, u) /\ \A j \in 1..u : tr[j] = part * r[w + j] * Power(keep, u - j) * Power(total, j - 1)
    BY <2>3, <2>4, Zenon
  <2>7. Ints(tr, m + 1)
    BY <2>5, <2>6, Zenon
  <2>8. ASSUME NEW j \in 1..(m + 1)
        PROVE  tr[j] = part * r[w + j] * Power(keep, m + 1 - j) * Power(total, j - 1)
    <3>1. j \in 1..u
      BY <2>5
    <3>2. u - j = m + 1 - j
      BY <2>5
    <3>3. tr[j] = part * r[w + j] * Power(keep, u - j) * Power(total, j - 1)
      BY <2>6, <3>1, Zenon
    <3> QED
      BY <3>2, <3>3, Zenon
  <2> QED
    BY <2>7, <2>8
<1> HIDE DEF tq, tr
<1> DEFINE front == [j \in 1..m |-> tr[j]]
<1>5. Len(front) = m /\ \A j \in 1..m : front[j] = tr[j]
  <2>1. front = [j \in 1..m |-> front[j]] /\ \A j \in 1..m : front[j] = tr[j]
    OBVIOUS
  <2> HIDE DEF front
  <2> QED
    BY <2>1, FunSeq
<1> HIDE DEF front
<1>6. \A j \in 1..m : front[j] = keep * tq[j]
  <2> TAKE j \in 1..m
  <2>1. j \in 1..(m + 1) /\ w + j \in 1..n /\ m + 1 - j = (m - j) + 1 /\ m - j \in Nat
    BY <1>1
  <2>2. Power(keep, (m - j) + 1) = keep * Power(keep, m - j)
    BY <2>1, PowerNext
  <2>3. tr[j] = part * q[w + j] * (keep * Power(keep, m - j)) * Power(total, j - 1)
    BY <1>4, <2>1, <2>2
  <2>4. part * q[w + j] * (keep * Power(keep, m - j)) * Power(total, j - 1)
          = keep * (part * q[w + j] * Power(keep, m - j) * Power(total, j - 1))
    BY <1>3, TermMore
  <2>5. front[j] = tr[j] /\ tq[j] = part * q[w + j] * Power(keep, m - j) * Power(total, j - 1)
    BY <1>3, <1>5
  <2>6. tr[j] = keep * (part * q[w + j] * Power(keep, m - j) * Power(total, j - 1))
    BY <2>3, <2>4, Zenon
  <2> QED
    BY <2>5, <2>6, Zenon
<1>7. Total(front) = keep * Total(tq)
  <2>1. Ints(tq, m)
    BY <1>3, Zenon
  <2> QED
    BY <1>5, <1>6, <2>1, TotalTimes
<1>8. Total(tr) = Total(front) + tr[m + 1]
  BY <1>4, <1>5, TotalLast
<1>9. tr[m + 1] = part * r[n + 1] * 1 * Power(total, m)
  <2>1. m + 1 \in 1..(m + 1) /\ m + 1 - (m + 1) = 0 /\ m + 1 - 1 = m
    OBVIOUS
  <2>2. PICK j : j = m + 1
    OBVIOUS
  <2>3. tr[j] = part * r[w + j] * Power(keep, m + 1 - j) * Power(total, j - 1)
    BY <1>4, <2>1, <2>2
  <2>4. w + j = n + 1 /\ m + 1 - j = 0 /\ j - 1 = m
    BY <1>2, <2>1, <2>2
  <2>5. Power(keep, 0) = 1
    BY PowerNext, 0 \in Nat
  <2> QED
    BY <2>2, <2>3, <2>4, <2>5
<1>10. FirstOf(r, w) = FirstOf(q, w)
  <2>1. IsSeq(FirstOf(q, w)) /\ Len(FirstOf(q, w)) = w /\ \A i \in 1..w : FirstOf(q, w)[i] = q[i]
    BY <1>2, FirstOfAt
  <2>2. IsSeq(FirstOf(r, w)) /\ Len(FirstOf(r, w)) = w /\ \A i \in 1..w : FirstOf(r, w)[i] = r[i]
    BY <1>2, FirstOfAt
  <2>3. \A i \in 1..w : i \in 1..n
    OBVIOUS
  <2> QED
    BY <2>1, <2>2, <2>3, SeqSame
<1>11. Power(keep, m + 1) = keep * Power(keep, m) /\ Power(keep, m) \in Int
       /\ Power(total, m + 1) = total * Power(total, m) /\ Power(total, m) \in Int
  BY PowerNext
<1>12. Total(FirstOf(q, w)) \in Int /\ Total(tq) \in Int /\ r[n + 1] \in Int
  <2>1. Total(FirstOf(q, w)) \in Int
    BY BlendType
  <2> QED
    BY <1>2, <1>3, <2>1, TotalType DEF Ints
<1>13. Blend(q, w, keep, part, total) = Power(keep, m) * Total(FirstOf(q, w)) + w * Total(tq)
  BY <1>1, <1>2, BlendIs DEF tq
<1>14. Blend(r, w, keep, part, total)
         = (keep * Power(keep, m)) * Total(FirstOf(q, w))
           + w * (keep * Total(tq) + part * r[n + 1] * 1 * Power(total, m))
  <2>1. Blend(r, w, keep, part, total) = Power(keep, m + 1) * Total(FirstOf(r, w)) + w * Total(tr)
    BY <1>2, BlendIs DEF tr
  <2> QED
    BY <1>7, <1>8, <1>9, <1>10, <1>11, <2>1
<1>15. (keep * Power(keep, m)) * Total(FirstOf(q, w))
         + w * (keep * Total(tq) + part * r[n + 1] * 1 * Power(total, m))
         = keep * (Power(keep, m) * Total(FirstOf(q, w)) + w * Total(tq))
           + part * r[n + 1] * (w * Power(total, m))
  BY <1>11, <1>12, BlendSum, w \in Int
<1> QED
  BY <1>1, <1>2, <1>11, <1>13, <1>14, <1>15


\* xs, a list of n integers, and ys, the same list with x behind it.
Chain(n, xs, ys, x) ==
  /\ IsSeq(xs) /\ IsSeq(ys) /\ Ints(xs, n) /\ Ints(ys, n + 1)
  /\ Grown(n, xs, ys, x) /\ x \in Int

\* A moving average of n numbers, as a fraction.
Level(q, n, w, part, total) == <<Blend(q, w, w - 1, part, total), w * Power(total, n - w)>>

LEMMA LevelType ==
  ASSUME NEW q, IsSeq(q), NEW n \in Nat, Ints(q, n), NEW w \in Nat \ {0}, n >= w,
         NEW part \in Int, NEW total \in Int
  PROVE  /\ Level(q, n, w, part, total)[1] \in Int /\ Level(q, n, w, part, total)[2] \in Int
<1>1. w - 1 \in Int /\ n - w \in Nat /\ w \in Int
  OBVIOUS
<1>2. Blend(q, w, w - 1, part, total) \in Int
  BY <1>1, BlendType
<1>3. Power(total, n - w) \in Int
  BY <1>1, PowerNext
<1>4. w * Power(total, n - w) \in Int
  BY <1>1, <1>3, TimesSum
<1> QED
  BY <1>2, <1>4 DEF Level

LEMMA LevelFirst ==
  ASSUME NEW q, IsSeq(q), NEW w \in Nat \ {0}, Ints(q, w), NEW part \in Int, NEW total \in Int
  PROVE  Level(q, w, w, part, total) = <<Total(q), w>>
<1>1. w - 1 \in Int /\ w - w = 0 /\ w * 1 = w
  OBVIOUS
<1>2. Blend(q, w, w - 1, part, total) = Total(q) /\ Power(total, 0) = 1
  BY <1>1, BlendFirst
<1> QED
  BY <1>1, <1>2, Zenon DEF Level

LEMMA Shuffle ==
  ASSUME NEW a \in Int, NEW b \in Int, NEW c \in Int
  PROVE  a * (b * c) = b * (a * c)
OBVIOUS

LEMMA LevelStep ==
  ASSUME NEW n \in Nat, NEW xs, NEW ys, NEW x, Chain(n, xs, ys, x), NEW w \in Nat \ {0}, n >= w,
         NEW part \in Int, NEW total \in Int, NEW v, v = Level(xs, n, w, part, total)
  PROVE  /\ Level(ys, n + 1, w, part, total) = <<(w - 1) * v[1] + part * x * v[2], total * v[2]>>
         /\ v[1] \in Int /\ v[2] \in Int
<1>1. /\ IsSeq(xs) /\ IsSeq(ys) /\ Ints(xs, n) /\ Ints(ys, n + 1)
      /\ (\A i \in 1..n : ys[i] = xs[i]) /\ ys[n + 1] = x /\ x \in Int
  BY DEF Chain, Grown
<1>2. w - 1 \in Int /\ w \in Int
  OBVIOUS
<1>3. v[1] = Blend(xs, w, w - 1, part, total) /\ v[2] = w * Power(total, n - w)
  BY DEF Level
<1>4. v[1] \in Int /\ v[2] \in Int
  BY <1>1, LevelType
<1>5. /\ Blend(ys, w, w - 1, part, total)
           = (w - 1) * Blend(xs, w, w - 1, part, total) + part * ys[n + 1] * (w * Power(total, n - w))
      /\ Power(total, n + 1 - w) = total * Power(total, n - w)
      /\ Power(total, n - w) \in Int
  BY <1>1, <1>2, BlendStep
<1>6. w * (total * Power(total, n - w)) = total * (w * Power(total, n - w))
  BY <1>2, <1>5, Shuffle
<1>7. Blend(ys, w, w - 1, part, total) = (w - 1) * v[1] + part * x * v[2]
  BY <1>1, <1>3, <1>5, Zenon
<1>8. w * Power(total, (n + 1) - w) = total * v[2]
  <2>1. n + 1 - w = (n + 1) - w
    OBVIOUS
  <2> QED
    BY <1>3, <1>5, <1>6, <2>1, Zenon
<1>9. Level(ys, n + 1, w, part, total)
        = <<Blend(ys, w, w - 1, part, total), w * Power(total, (n + 1) - w)>>
  BY Zenon DEF Level
<1> QED
  BY <1>4, <1>7, <1>8, <1>9, Zenon

\* The exponential average: seeded with a mean, it moves by 2 / (window + 1).
Smooths(f, n, xs) ==
  /\ EndOf(f.hist, n, xs)
  /\ f.ready => f.value = Level(xs, n, f.window, 2, f.window + 1)

LEMMA SmoothSeen ==
  ASSUME NEW f, NEW n \in Nat, Fed(f, n), f.kind = "EMA",
         NEW xs, NEW ys, NEW bar, Chain(n, xs, ys, bar.close), Smooths(f, n, xs)
  PROVE  Smooths(UpdateEMA(f, bar), n + 1, ys)
<1> DEFINE x == bar.close
           w == f.window
           h == Push(f.hist, x, w)
           m == w + 1
           v == IF Len(h) < w THEN None
                ELSE IF ~f.ready THEN <<Total(h), w>>
                ELSE <<2 * x * f.value[2] + (m - 2) * f.value[1], m * f.value[2]>>
           g == [f EXCEPT !.hist = h, !.ready = Len(h) = w, !.value = v]
<1>1. UpdateEMA(f, bar) = g
  BY Zenon DEF UpdateEMA
<1>2. /\ w \in Nat \ {0} /\ IsSeq(f.hist) /\ Len(f.hist) = Capped(n, w) /\ Len(f.hist) <= w
      /\ EndOf(f.hist, n, xs) /\ Shape(f) /\ (f.ready <=> n >= w)
  BY DEF Fed, Ripe, Rolled, Holds, HistCap, Smooths, Capped, WarmUp
<1>3. EndOf(h, n + 1, ys)
  BY <1>2, PushEnd DEF Chain
<1>4. IsSeq(h) /\ Len(h) = Capped(n + 1, w)
  BY <1>2, PushFills
<1>5. g.window = w /\ g.hist = h /\ g.ready = (Len(h) = w) /\ g.value = v
  <2> HIDE DEF h, v, x
  <2> QED
    BY <1>2 DEF Shape, With
<1>6. ASSUME Len(h) = w PROVE v = Level(ys, n + 1, w, 2, w + 1)
  <2>1. n + 1 >= w /\ ~(Len(h) < w)
    BY <1>2, <1>4, <1>6 DEF Capped
  <2>2. CASE ~f.ready
    <3>1. n + 1 = w
      BY <1>2, <2>1, <2>2
    <3>2. v = <<Total(h), w>>
      BY <2>1, <2>2
    <3> HIDE DEF h, v
    <3>3. IsSeq(ys) /\ Ints(ys, w)
      BY <3>1 DEF Chain
    <3>4. \A i \in 1..w : h[i] = ys[i]
      <4> TAKE i \in 1..w
      <4>1. i \in 1..Len(h)
        BY <1>6
      <4>2. h[i] = ys[((n + 1) - Len(h)) + i]
        BY <1>3, <4>1, Zenon DEF EndOf
      <4>3. ((n + 1) - Len(h)) + i = i
        BY <1>2, <1>6, <3>1
      <4> QED
        BY <4>2, <4>3, Zenon
    <3>5. Total(h) = Total(ys)
      BY <1>2, <1>6, <3>3, <3>4, TotalSame
    <3>6. Level(ys, w, w, 2, w + 1) = <<Total(ys), w>>
      <4>1. 2 \in Int /\ w + 1 \in Int
        BY <1>2
      <4> QED
        BY <1>2, <3>3, <4>1, LevelFirst
    <3> QED
      BY <3>1, <3>2, <3>5, <3>6, Zenon
  <2>3. CASE f.ready
    <3>1. n >= w
      BY <1>2, <2>3
    <3>2. v = <<2 * x * f.value[2] + (m - 2) * f.value[1], m * f.value[2]>>
      BY <2>1, <2>3
    <3>3. f.value = Level(xs, n, w, 2, w + 1)
      BY <2>3 DEF Smooths
    <3> HIDE DEF h, v
    <3>4. /\ Level(ys, n + 1, w, 2, w + 1)
               = <<(w - 1) * f.value[1] + 2 * x * f.value[2], (w + 1) * f.value[2]>>
          /\ f.value[1] \in Int /\ f.value[2] \in Int
      <4>1. 2 \in Int /\ w + 1 \in Int
        BY <1>2
      <4> HIDE DEF x, w
      <4> QED
        BY <1>2, <3>1, <3>3, <4>1, LevelStep DEF x
    <3>5. x \in Int
      BY DEF Chain
    <3> HIDE DEF x, w
    <3>6. 2 * x * f.value[2] + (m - 2) * f.value[1] = (w - 1) * f.value[1] + 2 * x * f.value[2]
      <4>1. m - 2 = w - 1
        BY <1>2
      <4>2. PICK a \in Int : a = 2 * x * f.value[2]
        BY <3>4, <3>5, TimesSum
      <4>3. PICK b \in Int : b = (w - 1) * f.value[1]
        BY <1>2, <3>4, TimesSum
      <4>4. a + b = b + a
        OBVIOUS
      <4> HIDE DEF m
      <4> QED
        BY <4>1, <4>2, <4>3, <4>4, Zenon
    <3> QED
      BY <3>2, <3>4, <3>6, Zenon
  <2> QED
    BY <2>2, <2>3
<1> HIDE DEF g, h, v, w
<1>7. Smooths(g, n + 1, ys)
  BY <1>3, <1>5, <1>6, Zenon DEF Smooths
<1> QED
  BY <1>1, <1>7, Zenon


-----------------------------------------------------------------------------
(* Lists of bars, and of what they hold *)

IsBar(b) == /\ b.close \in Int /\ b.high \in Int /\ b.low \in Int /\ b.volume \in Int
            /\ b.low <= b.close /\ b.close <= b.high
BarList(bars, n) == IsSeq(bars) /\ Len(bars) = n /\ \A i \in 1..n : IsBar(bars[i])

LEMMA MoreBars ==
  ASSUME NEW n \in Nat, NEW bars, BarList(bars, n), NEW bar, IsBar(bar), NEW all, all = Append(bars, bar)
  PROVE  BarList(all, n + 1) /\ Grown(n, bars, all, bar)
<1>1. IsSeq(bars) /\ Len(bars) = n /\ \A i \in 1..n : IsBar(bars[i])
  BY DEF BarList
<1>2. IsSeq(all) /\ Len(all) = n + 1 /\ (\A i \in 1..n : all[i] = bars[i]) /\ all[n + 1] = bar
  BY <1>1, SeqAppend
<1>3. \A i \in 1..(n + 1) : IsBar(all[i])
  <2> TAKE i \in 1..(n + 1)
  <2>1. i = n + 1 \/ i \in 1..n
    OBVIOUS
  <2> QED
    BY <1>1, <1>2, <2>1
<1> QED
  BY <1>2, <1>3 DEF BarList, Grown

LEMMA ClosesAt ==
  ASSUME NEW n \in Nat, NEW bars, BarList(bars, n)
  PROVE  /\ IsSeq(Closes(bars)) /\ Ints(Closes(bars), n)
         /\ \A i \in 1..n : Closes(bars)[i] = bars[i].close
<1> DEFINE r == Closes(bars)
<1>1. DOMAIN bars = 1..n /\ IsSeq(bars) /\ Len(bars) = n /\ \A i \in 1..n : bars[i].close \in Int
  BY SeqDomain DEF BarList, IsBar
<1>2. r = [i \in DOMAIN bars |-> r[i]] /\ \A i \in DOMAIN bars : r[i] = bars[i].close
  BY DEF Closes
<1> HIDE DEF r
<1>3. IsSeq(r) /\ Len(r) = n
  BY <1>1, <1>2, MappedSeq
<1>4. \A i \in 1..n : r[i] = bars[i].close
  BY <1>1, <1>2
<1> QED
  BY <1>1, <1>3, <1>4 DEF Ints, r

LEMMA VolumesAt ==
  ASSUME NEW n \in Nat, NEW bars, BarList(bars, n)
  PROVE  /\ IsSeq(Volumes(bars)) /\ Ints(Volumes(bars), n)
         /\ \A i \in 1..n : Volumes(bars)[i] = bars[i].volume
<1> DEFINE r == Volumes(bars)
<1>1. DOMAIN bars = 1..n /\ IsSeq(bars) /\ Len(bars) = n /\ \A i \in 1..n : bars[i].volume \in Int
  BY SeqDomain DEF BarList, IsBar
<1>2. r = [i \in DOMAIN bars |-> r[i]] /\ \A i \in DOMAIN bars : r[i] = bars[i].volume
  BY DEF Volumes
<1> HIDE DEF r
<1>3. IsSeq(r) /\ Len(r) = n
  BY <1>1, <1>2, MappedSeq
<1>4. \A i \in 1..n : r[i] = bars[i].volume
  BY <1>1, <1>2
<1> QED
  BY <1>1, <1>3, <1>4 DEF Ints, r

\* The two lists of integers, and the one more a bar makes of it.
LEMMA BarChains ==
  ASSUME NEW n \in Nat, NEW bars, BarList(bars, n), NEW bar, IsBar(bar), NEW all, all = Append(bars, bar)
  PROVE  /\ Chain(n, Closes(bars), Closes(all), bar.close)
         /\ Chain(n, Volumes(bars), Volumes(all), bar.volume)
<1>0. BarList(all, n + 1) /\ Grown(n, bars, all, bar)
  BY MoreBars
<1>1. BarList(all, n + 1) /\ (\A i \in 1..n : all[i] = bars[i]) /\ all[n + 1] = bar
  BY <1>0 DEF Grown
<1>2. n + 1 \in Nat /\ n + 1 \in 1..(n + 1) /\ \A i \in 1..n : i \in 1..(n + 1)
  OBVIOUS
<1>3. /\ IsSeq(Closes(bars)) /\ Ints(Closes(bars), n)
      /\ IsSeq(Volumes(bars)) /\ Ints(Volumes(bars), n)
      /\ \A i \in 1..n : Closes(bars)[i] = bars[i].close /\ Volumes(bars)[i] = bars[i].volume
  BY ClosesAt, VolumesAt
<1>4. /\ IsSeq(Closes(all)) /\ Ints(Closes(all), n + 1)
      /\ IsSeq(Volumes(all)) /\ Ints(Volumes(all), n + 1)
      /\ \A i \in 1..(n + 1) : Closes(all)[i] = all[i].close /\ Volumes(all)[i] = all[i].volume
  BY <1>1, <1>2, ClosesAt, VolumesAt
<1>5. bar.close \in Int /\ bar.volume \in Int
  BY DEF IsBar
<1>6. Grown(n, Closes(bars), Closes(all), bar.close) /\ Grown(n, Volumes(bars), Volumes(all), bar.volume)
  BY <1>1, <1>2, <1>3, <1>4 DEF Grown
<1> QED
  BY <1>3, <1>4, <1>5, <1>6 DEF Chain

LEMMA MaxIs ==
  ASSUME NEW S \in SUBSET Int, NEW m \in S, \A x \in S : m >= x
  PROVE  Max(S) = m
<1> DEFINE u == Max(S)
<1>1. u \in S /\ \A x \in S : u >= x
  BY Zenon DEF Max
<1> HIDE DEF u
<1>2. u \in Int /\ m \in Int /\ u >= m /\ m >= u
  BY <1>1
<1>3. u = m
  BY <1>2
<1> QED
  BY <1>3 DEF u

LEMMA MinIs ==
  ASSUME NEW S \in SUBSET Int, NEW m \in S, \A x \in S : m <= x
  PROVE  Min(S) = m
<1> DEFINE u == Min(S)
<1>1. u \in S /\ \A x \in S : u <= x
  BY Zenon DEF Min
<1> HIDE DEF u
<1>2. u \in Int /\ m \in Int /\ u <= m /\ m <= u
  BY <1>1
<1>3. u = m
  BY <1>2
<1> QED
  BY <1>3 DEF u

LEMMA TwoOf ==
  ASSUME NEW a \in Int, NEW b \in Int
  PROVE  /\ Max({a, b}) = IF a >= b THEN a ELSE b
         /\ Min({a, b}) = IF a <= b THEN a ELSE b
<1> DEFINE S == {a, b}
<1>1. S \in SUBSET Int /\ a \in S /\ b \in S
  OBVIOUS
<1>2. a >= b => \A x \in S : a >= x
  OBVIOUS
<1>3. ~(a >= b) => \A x \in S : b >= x
  OBVIOUS
<1>4. a <= b => \A x \in S : a <= x
  OBVIOUS
<1>5. ~(a <= b) => \A x \in S : b <= x
  OBVIOUS
<1> HIDE DEF S
<1>6. Max(S) = IF a >= b THEN a ELSE b
  BY <1>1, <1>2, <1>3, MaxIs
<1>7. Min(S) = IF a <= b THEN a ELSE b
  BY <1>1, <1>4, <1>5, MinIs
<1> QED
  BY <1>6, <1>7 DEF S

\* The greatest of the three distances is the size of the range that takes
\* the previous close in.
LEMMA WidestOf ==
  ASSUME NEW h \in Int, NEW l \in Int, l <= h, NEW c \in Int
  PROVE  Max({h - l} \cup {Abs(h - c), Abs(l - c)}) = Max({h, c}) - Min({l, c})
<1> DEFINE S == {h - l} \cup {Abs(h - c), Abs(l - c)}
           m == Max({h, c}) - Min({l, c})
<1>1. Abs(h - c) = (IF h - c < 0 THEN c - h ELSE h - c) /\ Abs(l - c) = (IF l - c < 0 THEN c - l ELSE l - c)
  BY DEF Abs
<1>2. Max({h, c}) = (IF h >= c THEN h ELSE c) /\ Min({l, c}) = (IF l <= c THEN l ELSE c)
  BY TwoOf
<1>3. S \in SUBSET Int
  BY <1>1
<1>4. m \in S
  BY <1>1, <1>2
<1>5. \A x \in S : m >= x
  BY <1>1, <1>2
<1> HIDE DEF S, m
<1>6. Max(S) = m
  BY <1>3, <1>4, <1>5, MaxIs
<1> QED
  BY <1>6 DEF S, m

RangeAt(bars, i) ==
  IF i = 1 THEN bars[i].high - bars[i].low
  ELSE Max({bars[i].high, bars[i-1].close}) - Min({bars[i].low, bars[i-1].close})

LEMMA RangesAt ==
  ASSUME NEW n \in Nat, NEW bars, BarList(bars, n)
  PROVE  /\ IsSeq(Ranges(bars)) /\ Ints(Ranges(bars), n)
         /\ \A i \in 1..n : Ranges(bars)[i] = RangeAt(bars, i)
<1> DEFINE r == Ranges(bars)
<1>1. DOMAIN bars = 1..n /\ IsSeq(bars) /\ Len(bars) = n /\ \A i \in 1..n : IsBar(bars[i])
  BY SeqDomain DEF BarList
<1>2. r = [i \in DOMAIN bars |-> r[i]] /\ \A i \in DOMAIN bars : r[i] = RangeAt(bars, i)
  BY DEF Ranges, RangeAt
<1> HIDE DEF r
<1>3. IsSeq(r) /\ Len(r) = n
  BY <1>1, <1>2, MappedSeq
<1>4. ASSUME NEW i \in 1..n PROVE r[i] \in Int
  <2>1. bars[i].high \in Int /\ bars[i].low \in Int
    BY <1>1 DEF IsBar
  <2>2. CASE i = 1
    <3>1. r[i] = bars[i].high - bars[i].low
      BY <1>1, <1>2, <2>2 DEF RangeAt
    <3> QED
      BY <2>1, <3>1
  <2>3. CASE i # 1
    <3>1. i - 1 \in 1..n
      BY <2>3
    <3>2. bars[i-1].close \in Int
      BY <1>1, <3>1 DEF IsBar
    <3>3. Max({bars[i].high, bars[i-1].close}) \in Int /\ Min({bars[i].low, bars[i-1].close}) \in Int
      BY <2>1, <3>2, TwoOf
    <3>4. r[i] = Max({bars[i].high, bars[i-1].close}) - Min({bars[i].low, bars[i-1].close})
      BY <1>1, <1>2, <2>3 DEF RangeAt
    <3> QED
      BY <3>3, <3>4
  <2> QED
    BY <2>2, <2>3
<1> QED
  BY <1>1, <1>2, <1>3, <1>4 DEF Ints, r

LEMMA RangeChain ==
  ASSUME NEW n \in Nat, NEW bars, BarList(bars, n), NEW bar, IsBar(bar), NEW all, all = Append(bars, bar)
  PROVE  Chain(n, Ranges(bars), Ranges(all), Ranges(all)[n + 1])
<1>0. BarList(all, n + 1) /\ Grown(n, bars, all, bar)
  BY MoreBars
<1>1. BarList(all, n + 1) /\ \A i \in 1..n : all[i] = bars[i]
  BY <1>0 DEF Grown
<1>2. n + 1 \in Nat /\ n + 1 \in 1..(n + 1)
  OBVIOUS
<1>3. IsSeq(Ranges(bars)) /\ Ints(Ranges(bars), n)
  BY RangesAt
<1>4. IsSeq(Ranges(all)) /\ Ints(Ranges(all), n + 1)
  BY <1>1, <1>2, RangesAt
<1>5. ASSUME NEW i \in 1..n PROVE Ranges(all)[i] = Ranges(bars)[i]
  <2>1. i \in 1..(n + 1) /\ (i # 1 => i - 1 \in 1..n)
    OBVIOUS
  <2>2. Ranges(all)[i] = RangeAt(all, i)
    <3>1. PICK m \in Nat : m = n + 1
      OBVIOUS
    <3>2. BarList(all, m) /\ i \in 1..m
      BY <1>1, <2>1, <3>1
    <3> QED
      BY <3>2, RangesAt
  <2>3. Ranges(bars)[i] = RangeAt(bars, i)
    BY RangesAt
  <2>4. all[i] = bars[i] /\ (i # 1 => all[i-1] = bars[i-1])
    BY <1>1, <2>1
  <2>5. RangeAt(all, i) = RangeAt(bars, i)
    BY <2>4 DEF RangeAt
  <2> QED
    BY <2>2, <2>3, <2>5
<1>6. Ranges(all)[n + 1] \in Int
  BY <1>2, <1>4 DEF Ints
<1> QED
  BY <1>3, <1>4, <1>5, <1>6 DEF Chain, Grown


\* The average of the true ranges.  The deque holds the first ones.
Ranged(f, n, bars) ==
  /\ \A i \in 1..Len(f.hist) : f.hist[i] = Ranges(bars)[i]
  /\ f.acc = IF n = 0 THEN <<>> ELSE <<bars[n].close>>
  /\ f.ready => f.value = Level(Ranges(bars), n, f.window, 1, f.window)

LEMMA TrueRangeIs ==
  ASSUME NEW f, NEW n \in Nat, NEW bars, BarList(bars, n), NEW bar, IsBar(bar),
         NEW all, all = Append(bars, bar), f.acc = IF n = 0 THEN <<>> ELSE <<bars[n].close>>
  PROVE  TrueRange(f, bar) = Ranges(all)[n + 1]
<1>1. BarList(all, n + 1) /\ Grown(n, bars, all, bar)
  BY MoreBars
<1>2. PICK m \in Nat : m = n + 1
  OBVIOUS
<1>3. Ranges(all)[m] = RangeAt(all, m) /\ all[m] = bar
  <2>1. BarList(all, m)
    BY <1>1, <1>2, Zenon
  <2>2. all[m] = bar
    BY <1>1, <1>2, Zenon DEF Grown
  <2>3. m \in 1..m
    BY <1>2
  <2> QED
    BY <2>1, <2>2, <2>3, RangesAt
<1>4. bar.high \in Int /\ bar.low \in Int /\ bar.low <= bar.high
  BY DEF IsBar
<1>5. CASE n = 0
  <2>1. m = 1 /\ RangeAt(all, m) = bar.high - bar.low
    BY <1>2, <1>3, <1>5 DEF RangeAt
  <2>2. f.acc = <<>>
    BY <1>5
  <2>3. TrueRange(f, bar) = Max({bar.high - bar.low} \cup {})
    BY <2>2, Zenon DEF TrueRange
  <2> DEFINE d == bar.high - bar.low
  <2>4. {d} \cup {} = {d} /\ d \in Int
    BY <1>4
  <2> HIDE DEF d
  <2>5. Max({d}) = d
    BY <2>4, MaxIs
  <2> QED
    BY <1>2, <1>3, <2>1, <2>3, <2>4, <2>5, Zenon DEF d
<1>6. CASE n # 0
  <2> DEFINE c == bars[n].close
  <2>1. f.acc = <<c>>
    BY <1>6
  <2>2. f.acc # <<>> /\ f.acc[1] = c
    BY <2>1
  <2>3. n \in 1..n /\ m # 1 /\ m - 1 = n
    BY <1>2, <1>6
  <2>4. c \in Int /\ all[n] = bars[n]
    BY <1>1, <2>3 DEF BarList, IsBar, Grown
  <2>5. RangeAt(all, m) = Max({bar.high, c}) - Min({bar.low, c})
    BY <1>3, <2>3, <2>4 DEF RangeAt
  <2> HIDE DEF c
  <2>6. TrueRange(f, bar) = Max({bar.high - bar.low} \cup {Abs(bar.high - c), Abs(bar.low - c)})
    BY <2>2, Zenon DEF TrueRange
  <2>7. Max({bar.high - bar.low} \cup {Abs(bar.high - c), Abs(bar.low - c)})
          = Max({bar.high, c}) - Min({bar.low, c})
    BY <1>4, <2>4, WidestOf
  <2> QED
    BY <1>2, <1>3, <2>5, <2>6, <2>7, Zenon
<1> QED
  BY <1>5, <1>6

LEMMA RangedSeen ==
  ASSUME NEW f, NEW n \in Nat, Fed(f, n), f.kind = "ATR",
         NEW bars, BarList(bars, n), NEW bar, IsBar(bar), NEW all, all = Append(bars, bar),
         Ranged(f, n, bars)
  PROVE  Ranged(UpdateATR(f, bar), n + 1, all)
<1> DEFINE tr == TrueRange(f, bar)
           w  == f.window
           a  == <<bar.close>>
           h  == IF Len(f.hist) < w THEN Append(f.hist, tr) ELSE f.hist
           xs == Ranges(bars)
           ys == Ranges(all)
           g  == UpdateATR(f, bar)
<1>1. /\ w \in Nat \ {0} /\ IsSeq(f.hist) /\ Len(f.hist) = Capped(n, w) /\ Shape(f)
      /\ (f.ready <=> n >= w)
  BY DEF Fed, Ripe, Rolled, Holds, HistCap, WarmUp
<1>2. tr = ys[n + 1]
  <2>1. f.acc = IF n = 0 THEN <<>> ELSE <<bars[n].close>>
    BY Zenon DEF Ranged
  <2> QED
    BY <2>1, TrueRangeIs
<1>3. Chain(n, xs, ys, tr)
  BY <1>2, RangeChain
<1>4. /\ IsSeq(ys) /\ Ints(ys, n + 1) /\ tr \in Int /\ \A i \in 1..n : ys[i] = xs[i]
  BY <1>3 DEF Chain, Grown
<1>5. all[n + 1].close = bar.close /\ n + 1 # 0
  <2>1. Grown(n, bars, all, bar)
    BY MoreBars
  <2> QED
    BY <2>1 DEF Grown
<1>6. \A i \in 1..Len(f.hist) : f.hist[i] = ys[i]
  <2> TAKE i \in 1..Len(f.hist)
  <2>1. i \in 1..n
    BY <1>1 DEF Capped
  <2> QED
    BY <1>4, <2>1 DEF Ranged
<1> HIDE DEF tr, xs, ys
<1>7. CASE Len(f.hist) < w
  <2> DEFINE p == <<Total(h), w>>
  <2>1. g = Settle([f EXCEPT !.acc = a, !.hist = h], Len(h) = w, p)
    BY <1>7, Zenon DEF UpdateATR, tr
  <2>2. Len(f.hist) = n /\ n + 1 <= w
    BY <1>1, <1>7 DEF Capped
  <2>3. h = Append(f.hist, tr)
    BY <1>7
  <2> HIDE DEF h
  <2>4. IsSeq(h) /\ Len(h) = n + 1 /\ (\A i \in 1..n : h[i] = f.hist[i]) /\ h[n + 1] = tr
    BY <1>1, <2>2, <2>3, SeqAppend
  <2>5. \A i \in 1..(n + 1) : h[i] = ys[i]
    <3> TAKE i \in 1..(n + 1)
    <3>1. i = n + 1 \/ i \in 1..n
      OBVIOUS
    <3> QED
      BY <1>2, <1>6, <2>2, <2>4, <3>1
  <2> HIDE DEF p, a
  <2>6. Settled(f, Settle([f EXCEPT !.acc = a, !.hist = h], Len(h) = w, p), h, a, Len(h) = w, p)
    BY <1>1, SettleAccHist, Zenon
  <2> HIDE DEF g, w
  <2>7. Settled(f, g, h, a, Len(h) = w, p)
    BY <2>1, <2>6, Zenon
  <2>8. g.hist = h /\ g.acc = a /\ g.window = w /\ g.ready = (Len(h) = w) /\ (g.ready => g.value = p)
    BY <2>7 DEF Settled, w
  <2>9. ASSUME Len(h) = w PROVE p = Level(ys, n + 1, w, 1, w)
    <3>1. n + 1 = w
      BY <2>4, <2>9
    <3>2. PICK k \in Nat : k = n + 1
      OBVIOUS
    <3>3. Ints(ys, k) /\ Len(h) = k /\ \A i \in 1..k : h[i] = ys[i]
      BY <1>4, <2>4, <2>5, <3>2
    <3>4. Total(h) = Total(ys)
      BY <3>3, TotalSame
    <3>5. Ints(ys, w) /\ w \in Nat \ {0} /\ 1 \in Int /\ w \in Int
      BY <1>1, <1>4, <3>1
    <3>6. Level(ys, w, w, 1, w) = <<Total(ys), w>>
      BY <1>4, <3>5, LevelFirst
    <3> QED
      BY <3>1, <3>4, <3>6, Zenon DEF p
  <2>10. Ranged(g, n + 1, all)
    <3>1. \A i \in 1..Len(g.hist) : g.hist[i] = Ranges(all)[i]
      BY <2>4, <2>5, <2>8 DEF ys
    <3>2. g.acc = IF n + 1 = 0 THEN <<>> ELSE <<all[n + 1].close>>
      BY <1>5, <2>8, Zenon DEF a
    <3>3. g.ready => g.value = Level(Ranges(all), n + 1, g.window, 1, g.window)
      BY <2>8, <2>9, Zenon DEF ys
    <3> QED
      BY <3>1, <3>2, <3>3, Zenon DEF Ranged
  <2> QED
    BY <2>10 DEF g
<1>8. CASE ~(Len(f.hist) < w)
  <2> DEFINE q == <<f.value[1] * (w - 1) + tr * f.value[2], w * f.value[2]>>
             e == [f EXCEPT !.acc = a, !.hist = f.hist]
  <2>1. g = ValueOut(e, q)
    BY <1>8, Zenon DEF UpdateATR, ValueOut, tr
  <2>2. n >= w /\ f.ready
    BY <1>1, <1>8 DEF Capped
  <2> HIDE DEF q, a
  <2>3. e = With(f, f.hist, a, f.ready, f.value)
    BY <1>1, AccHist, Zenon
  <2> HIDE DEF e
  <2>4. g = With(f, f.hist, a, f.ready, q)
    <3>1. ValueOut(e, q) = With(f, f.hist, a, f.ready, q)
      BY <2>3, ValueOutWith
    <3> QED
      BY <2>1, <3>1, Zenon
  <2> HIDE DEF g
  <2>5. g.window = f.window /\ g.hist = f.hist /\ g.acc = a /\ g.value = q
    BY <2>4, WithFields
  <2>6. q = Level(ys, n + 1, w, 1, w)
    <3>1. f.value = Level(xs, n, w, 1, w)
      BY <2>2 DEF Ranged, xs
    <3>2. 1 \in Int /\ w \in Int /\ w \in Nat \ {0}
      BY <1>1
    <3> HIDE DEF w
    <3>3. /\ Level(ys, n + 1, w, 1, w) = <<(w - 1) * f.value[1] + 1 * tr * f.value[2], w * f.value[2]>>
          /\ f.value[1] \in Int /\ f.value[2] \in Int
      BY <1>3, <2>2, <3>1, <3>2, LevelStep
    <3>4. (w - 1) * f.value[1] + 1 * tr * f.value[2] = f.value[1] * (w - 1) + tr * f.value[2]
      BY <1>4, <3>2, <3>3
    <3> QED
      BY <3>3, <3>4, Zenon DEF q
  <2>7. Ranged(g, n + 1, all)
    <3>1. \A i \in 1..Len(g.hist) : g.hist[i] = Ranges(all)[i]
      BY <1>6, <2>5, Zenon DEF ys
    <3>2. g.acc = IF n + 1 = 0 THEN <<>> ELSE <<all[n + 1].close>>
      BY <1>5, <2>5, Zenon DEF a
    <3>3. g.value = Level(Ranges(all), n + 1, g.window, 1, g.window)
      BY <2>5, <2>6, Zenon DEF ys
    <3> QED
      BY <3>1, <3>2, <3>3, Zenon DEF Ranged
  <2> QED
    BY <2>7 DEF g
<1> QED
  BY <1>7, <1>8

-----------------------------------------------------------------------------
(* Volume, by the direction of the price *)

Accumulated(f, n, bars) ==
  /\ f.acc = IF n = 0 THEN <<>> ELSE <<bars[n].close>>
  /\ n # 0 => f.value = <<Total(Flows(bars)), 1>>

FlowAt(bars, i) ==
  IF i = 1 \/ bars[i].close > bars[i-1].close THEN bars[i].volume
  ELSE IF bars[i].close < bars[i-1].close THEN -bars[i].volume ELSE 0

LEMMA FlowsAt ==
  ASSUME NEW n \in Nat, NEW bars, BarList(bars, n)
  PROVE  /\ IsSeq(Flows(bars)) /\ Ints(Flows(bars), n)
         /\ \A i \in 1..n : Flows(bars)[i] = FlowAt(bars, i)
<1> DEFINE r == Flows(bars)
<1>1. DOMAIN bars = 1..n /\ IsSeq(bars) /\ Len(bars) = n /\ \A i \in 1..n : IsBar(bars[i])
  BY SeqDomain DEF BarList
<1>2. r = [i \in DOMAIN bars |-> r[i]] /\ \A i \in DOMAIN bars : r[i] = FlowAt(bars, i)
  BY DEF Flows, FlowAt
<1> HIDE DEF r
<1>3. IsSeq(r) /\ Len(r) = n
  BY <1>1, <1>2, MappedSeq
<1>4. ASSUME NEW i \in 1..n PROVE r[i] \in Int
  <2>1. bars[i].volume \in Int
    BY <1>1 DEF IsBar
  <2>2. r[i] \in {bars[i].volume, -bars[i].volume, 0}
    BY <1>1, <1>2 DEF FlowAt
  <2> QED
    BY <2>1, <2>2
<1> QED
  BY <1>1, <1>2, <1>3, <1>4 DEF Ints, r

LEMMA AccumulateSeen ==
  ASSUME NEW f, NEW n \in Nat, Fed(f, n), f.kind = "OBV",
         NEW bars, BarList(bars, n), NEW bar, IsBar(bar), NEW all, all = Append(bars, bar),
         Accumulated(f, n, bars)
  PROVE  Accumulated(UpdateOBV(f, bar), n + 1, all)
<1> DEFINE v == IF f.acc = <<>> THEN bar.volume
                ELSE IF bar.close > f.acc[1] THEN f.value[1] + bar.volume
                ELSE IF bar.close < f.acc[1] THEN f.value[1] - bar.volume
                ELSE f.value[1]
           a == <<bar.close>>
           g == [f EXCEPT !.acc = a, !.ready = TRUE, !.value = <<v, 1>>]
<1>1. UpdateOBV(f, bar) = g
  BY Zenon DEF UpdateOBV
<1>2. Shape(f)
  BY DEF Fed, Ripe
<1>3. g.acc = a /\ g.value = <<v, 1>>
  <2> HIDE DEF v, a
  <2> QED
    BY <1>2 DEF Shape, With
<1>4. PICK m \in Nat : m = n + 1
  OBVIOUS
<1>5. BarList(all, m) /\ (\A i \in 1..n : all[i] = bars[i]) /\ all[m] = bar
  <2>1. BarList(all, n + 1) /\ Grown(n, bars, all, bar)
    BY MoreBars
  <2> QED
    BY <1>4, <2>1 DEF Grown
<1>6. /\ Len(Flows(bars)) = n /\ Ints(Flows(all), m)
      /\ \A i \in 1..n : Flows(bars)[i] = FlowAt(bars, i)
      /\ \A i \in 1..m : Flows(all)[i] = FlowAt(all, i)
  BY <1>5, FlowsAt DEF Ints
<1>7. ASSUME NEW i \in 1..n PROVE Flows(bars)[i] = Flows(all)[i]
  <2>1. i \in 1..m /\ (i # 1 => i - 1 \in 1..n)
    BY <1>4
  <2>2. all[i] = bars[i] /\ (i # 1 => all[i-1] = bars[i-1])
    BY <1>5, <2>1
  <2>3. FlowAt(all, i) = FlowAt(bars, i)
    BY <2>2 DEF FlowAt
  <2> QED
    BY <1>6, <2>1, <2>3
<1>8. Total(Flows(all)) = Total(Flows(bars)) + Flows(all)[m]
  BY <1>4, <1>6, <1>7, TotalLast
<1>9. Flows(all)[m] = FlowAt(all, m) /\ bar.volume \in Int /\ bar.close \in Int
  <2>1. m \in 1..m
    BY <1>4
  <2> QED
    BY <1>6, <2>1 DEF IsBar
<1>10. v = Total(Flows(all))
  <2>1. CASE n = 0
    <3>1. f.acc = <<>> /\ m = 1
      BY <1>4, <2>1 DEF Accumulated
    <3>2. v = bar.volume
      BY <3>1
    <3>3. FlowAt(all, m) = bar.volume
      BY <1>5, <3>1 DEF FlowAt
    <3>4. Total(Flows(bars)) = 0
      BY <1>6, <2>1, TotalEmpty
    <3> HIDE DEF v
    <3> QED
      BY <1>8, <1>9, <3>2, <3>3, <3>4
  <2>2. CASE n # 0
    <3> DEFINE c == bars[n].close
               t == Total(Flows(bars))
    <3>1. n \in 1..n /\ m # 1 /\ m - 1 = n
      BY <1>4, <2>2
    <3>2. c \in Int /\ all[n] = bars[n]
      BY <1>5, <3>1 DEF BarList, IsBar
    <3>3. f.acc = <<c>> /\ f.value = <<t, 1>>
      BY <2>2 DEF Accumulated
    <3>4. f.acc # <<>> /\ f.acc[1] = c /\ f.value[1] = t
      BY <3>3
    <3>5. FlowAt(all, m) = IF bar.close > c THEN bar.volume
                           ELSE IF bar.close < c THEN -bar.volume ELSE 0
      BY <1>5, <3>1, <3>2 DEF FlowAt
    <3>6. t \in Int
      BY FlowsAt, TotalType
    <3>7. v = IF bar.close > c THEN t + bar.volume ELSE IF bar.close < c THEN t - bar.volume ELSE t
      BY <3>4
    <3> HIDE DEF v, c, t
    <3>8. Total(Flows(all)) = t + FlowAt(all, m)
      BY <1>8, <1>9 DEF t
    <3> QED
      BY <1>9, <3>2, <3>5, <3>6, <3>7, <3>8
  <2> QED
    BY <2>1, <2>2
<1> HIDE DEF g, v
<1>11. Accumulated(g, n + 1, all)
  <2>1. g.acc = IF m = 0 THEN <<>> ELSE <<all[m].close>>
    BY <1>3, <1>4, <1>5
  <2>2. g.value = <<Total(Flows(all)), 1>>
    BY <1>3, <1>10
  <2> QED
    BY <1>4, <2>1, <2>2, Zenon DEF Accumulated
<1> QED
  BY <1>1, <1>11, Zenon


-----------------------------------------------------------------------------
(* The share of the gains *)

LEMMA GainType == \A x \in Int : Gain(x) \in Int
BY DEF Gain

LEMMA GainsAt ==
  ASSUME NEW n \in Nat, NEW c, Ints(c, n + 1)
  PROVE  /\ IsSeq(Gains(c)) /\ Ints(Gains(c), n) /\ IsSeq(Losses(c)) /\ Ints(Losses(c), n)
         /\ \A i \in 1..n : /\ Gains(c)[i] = Gain(c[i+1] - c[i])
                            /\ Losses(c)[i] = Gain(-(c[i+1] - c[i]))
<1> DEFINE m == Moves(c)
           g == Gains(c)
           l == Losses(c)
<1>1. Len(c) - 1 = n /\ \A i \in 1..(n + 1) : c[i] \in Int
  BY DEF Ints
<1>2. m = [i \in 1..n |-> c[i+1] - c[i]]
  BY <1>1, Zenon DEF Moves
<1> HIDE DEF m
<1>3. DOMAIN m = 1..n /\ \A i \in 1..n : m[i] = c[i+1] - c[i] /\ m[i] \in Int
  <2>1. DOMAIN m = 1..n /\ \A i \in 1..n : m[i] = c[i+1] - c[i]
    BY <1>2
  <2>2. \A i \in 1..n : c[i+1] \in Int /\ c[i] \in Int
    <3> TAKE i \in 1..n
    <3>1. i \in 1..(n + 1) /\ i + 1 \in 1..(n + 1)
      OBVIOUS
    <3> QED
      BY <1>1, <3>1
  <2> QED
    BY <2>1, <2>2
<1>4. g = [i \in DOMAIN m |-> Gain(m[i])] /\ l = [i \in DOMAIN m |-> Gain(-m[i])]
  BY Zenon DEF Gains, Losses, m
<1> HIDE DEF g, l
<1>5. /\ g = [i \in 1..n |-> g[i]] /\ l = [i \in 1..n |-> l[i]]
      /\ \A i \in 1..n : g[i] = Gain(m[i]) /\ l[i] = Gain(-m[i])
  BY <1>3, <1>4
<1>6. IsSeq(g) /\ Len(g) = n /\ IsSeq(l) /\ Len(l) = n
  BY <1>5, FunSeq
<1>7. \A i \in 1..n : g[i] \in Int /\ l[i] \in Int
  <2> TAKE i \in 1..n
  <2>1. m[i] \in Int /\ -m[i] \in Int
    BY <1>3
  <2> QED
    BY <1>5, <2>1, GainType
<1>8. \A i \in 1..n : g[i] = Gain(c[i+1] - c[i]) /\ l[i] = Gain(-(c[i+1] - c[i]))
  BY <1>3, <1>5
<1> QED
  BY <1>6, <1>7, <1>8 DEF Ints, g, l

LEMMA MoveChains ==
  ASSUME NEW m \in Nat, NEW n, n = m + 1, NEW xs, NEW ys, NEW x, Chain(n, xs, ys, x)
  PROVE  /\ Chain(m, Gains(xs), Gains(ys), Gain(x - xs[n]))
         /\ Chain(m, Losses(xs), Losses(ys), Gain(-(x - xs[n])))
<1>1. /\ Ints(xs, m + 1) /\ Ints(ys, n + 1) /\ (\A i \in 1..n : ys[i] = xs[i])
      /\ ys[n + 1] = x /\ x \in Int /\ n \in Nat
  BY DEF Chain, Grown
<1>2. /\ IsSeq(Gains(xs)) /\ Ints(Gains(xs), m) /\ IsSeq(Losses(xs)) /\ Ints(Losses(xs), m)
      /\ \A i \in 1..m : /\ Gains(xs)[i] = Gain(xs[i+1] - xs[i])
                         /\ Losses(xs)[i] = Gain(-(xs[i+1] - xs[i]))
  BY <1>1, GainsAt
<1>3. /\ IsSeq(Gains(ys)) /\ Ints(Gains(ys), n) /\ IsSeq(Losses(ys)) /\ Ints(Losses(ys), n)
      /\ \A i \in 1..n : /\ Gains(ys)[i] = Gain(ys[i+1] - ys[i])
                         /\ Losses(ys)[i] = Gain(-(ys[i+1] - ys[i]))
  BY <1>1, GainsAt
<1>4. \A i \in 1..m : Gains(ys)[i] = Gains(xs)[i] /\ Losses(ys)[i] = Losses(xs)[i]
  <2> TAKE i \in 1..m
  <2>1. i \in 1..n /\ i + 1 \in 1..n
    OBVIOUS
  <2>2. ys[i] = xs[i] /\ ys[i+1] = xs[i+1]
    BY <1>1, <2>1
  <2> QED
    BY <1>2, <1>3, <2>1, <2>2
<1>5. Gains(ys)[n] = Gain(x - xs[n]) /\ Losses(ys)[n] = Gain(-(x - xs[n])) /\ xs[n] \in Int
  <2>1. n \in 1..n
    OBVIOUS
  <2>2. ys[n] = xs[n] /\ xs[n] \in Int
    BY <1>1, <2>1 DEF Ints
  <2>3. Gains(ys)[n] = Gain(ys[n+1] - ys[n]) /\ Losses(ys)[n] = Gain(-(ys[n+1] - ys[n]))
    BY <1>3, <2>1
  <2> QED
    BY <1>1, <2>2, <2>3
<1>6. Gain(x - xs[n]) \in Int /\ Gain(-(x - xs[n])) \in Int
  BY <1>1, <1>5, GainType
<1>7. Ints(Gains(ys), m + 1) /\ Ints(Losses(ys), m + 1)
  BY <1>3
<1>8. Grown(m, Gains(xs), Gains(ys), Gain(x - xs[n])) /\ Grown(m, Losses(xs), Losses(ys), Gain(-(x - xs[n])))
  BY <1>4, <1>5 DEF Grown
<1> QED
  BY <1>2, <1>3, <1>6, <1>7, <1>8 DEF Chain

\* Gains and losses, summed until there is a window of them, then averaged.
Shares(f, n, c) ==
  /\ EndOf(f.hist, n, c)
  /\ n # 0 /\ n <= f.window => f.acc = <<Total(Gains(c)), Total(Losses(c)), 1>>
  /\ n > f.window => f.acc = <<Level(Gains(c), n - 1, f.window, 1, f.window)[1],
                               Level(Losses(c), n - 1, f.window, 1, f.window)[1],
                               Level(Gains(c), n - 1, f.window, 1, f.window)[2]>>
  /\ f.ready => f.value = RSIValue(f.acc[1], f.acc[2])

\* The sums, one move later.
LEMMA SharesWarm ==
  ASSUME NEW m \in Nat, NEW gs, NEW hs, NEW x, Chain(m, gs, hs, x)
  PROVE  Total(hs) = Total(gs) + x /\ Total(gs) \in Int
<1>1. Len(gs) = m /\ Ints(gs, m) /\ Ints(hs, m + 1) /\ (\A i \in 1..m : gs[i] = hs[i]) /\ hs[m + 1] = x
  BY DEF Chain, Grown, Ints
<1> QED
  BY <1>1, TotalLast, TotalType

\* And the averages.
LEMMA SharesOn ==
  ASSUME NEW m \in Nat, NEW gs, NEW hs, NEW x, Chain(m, gs, hs, x), NEW w \in Nat \ {0}, m >= w,
         NEW v, v = Level(gs, m, w, 1, w)
  PROVE  Level(hs, m + 1, w, 1, w) = <<v[1] * (w - 1) + x * v[2], v[2] * w>>
<1>1. 1 \in Int /\ w \in Int
  OBVIOUS
<1>2. /\ Level(hs, m + 1, w, 1, w) = <<(w - 1) * v[1] + 1 * x * v[2], w * v[2]>>
      /\ v[1] \in Int /\ v[2] \in Int
  BY <1>1, LevelStep
<1>3. x \in Int
  BY DEF Chain
<1>4. (w - 1) * v[1] + 1 * x * v[2] = v[1] * (w - 1) + x * v[2] /\ w * v[2] = v[2] * w
  BY <1>1, <1>2, <1>3
<1> QED
  BY <1>2, <1>4, Zenon

LEMMA ShareSeen ==
  ASSUME NEW f, NEW n \in Nat, Fed(f, n), f.kind = "RSI",
         NEW xs, NEW ys, NEW bar, Chain(n, xs, ys, bar.close), Shares(f, n, xs)
  PROVE  Shares(UpdateRSI(f, bar), n + 1, ys)
<1> DEFINE x == bar.close
           w == f.window
           cap == w + 2
           h == Push(f.hist, x, cap)
           g == UpdateRSI(f, bar)
           d == bar.close - Last(f.hist)
           warm == <<f.acc[1] + Gain(d), f.acc[2] + Gain(-d), 1>>
           on == <<f.acc[1] * (w - 1) + Gain(d) * f.acc[3],
                   f.acc[2] * (w - 1) + Gain(-d) * f.acc[3], f.acc[3] * w>>
<1>1. /\ w \in Nat \ {0} /\ IsSeq(f.hist) /\ Len(f.hist) = Capped(n, cap) /\ Shape(f)
      /\ EndOf(f.hist, n, xs)
  BY DEF Fed, Ripe, Rolled, Holds, HistCap, Shares
<1>2. cap \in Nat \ {0} /\ Len(f.hist) <= cap
  BY <1>1 DEF Capped
<1> DEFINE acc(a) ==
      /\ n + 1 <= w => a = <<Total(Gains(ys)), Total(Losses(ys)), 1>>
      /\ n + 1 > w => a = <<Level(Gains(ys), n, w, 1, w)[1], Level(Losses(ys), n, w, 1, w)[1],
                            Level(Gains(ys), n, w, 1, w)[2]>>
<1>3. EndOf(h, n + 1, ys) /\ Len(h) = Capped(n + 1, cap)
  <2>1. Grown(n, xs, ys, x)
    BY DEF Chain
  <2> HIDE DEF cap, x
  <2> QED
    BY <1>1, <1>2, <2>1, PushEnd, PushFills
<1>4. ASSUME NEW a, NEW full \in BOOLEAN, NEW v, full => v = RSIValue(a[1], a[2]), acc(a),
             g = Settle([f EXCEPT !.hist = h, !.acc = a], full, v)
      PROVE  Shares(g, n + 1, ys)
  <2> HIDE DEF h, g, w, x, cap
  <2>1. Settled(f, Settle([f EXCEPT !.hist = h, !.acc = a], full, v), h, a, full, v)
    BY <1>1, SettleHistAcc, Zenon
  <2>2. Settled(f, g, h, a, full, v)
    BY <1>4, <2>1, Zenon
  <2>3. g.window = w /\ g.hist = h /\ g.acc = a /\ (g.ready => g.value = RSIValue(a[1], a[2]))
    BY <1>4, <2>2 DEF Settled, w
  <2>4. (n + 1) - 1 = n /\ w \in Nat
    BY <1>1
  <2>5. n + 1 <= w => g.acc = <<Total(Gains(ys)), Total(Losses(ys)), 1>>
    BY <1>4, <2>3
  <2>6. n + 1 > w => g.acc = <<Level(Gains(ys), (n + 1) - 1, w, 1, w)[1],
                               Level(Losses(ys), (n + 1) - 1, w, 1, w)[1],
                               Level(Gains(ys), (n + 1) - 1, w, 1, w)[2]>>
    BY <1>4, <2>3, <2>4
  <2>7. EndOf(g.hist, n + 1, ys) /\ (g.ready => g.value = RSIValue(g.acc[1], g.acc[2]))
    BY <1>3, <2>3
  <2> QED
    BY <2>3, <2>5, <2>6, <2>7, Zenon DEF Shares
<1>5. CASE f.hist = <<>>
  <2>1. g = Settle([f EXCEPT !.hist = h, !.acc = <<0, 0, 1>>], FALSE, None)
    BY <1>5, Zenon DEF UpdateRSI
  <2>2. n = 0
    <3>1. Len(f.hist) = 0
      BY <1>5
    <3> QED
      BY <1>1, <3>1 DEF Capped
  <2>3. acc(<<0, 0, 1>>)
    <3>1. Ints(ys, 0 + 1)
      BY <2>2 DEF Chain
    <3>2. Len(Gains(ys)) = 0 /\ Len(Losses(ys)) = 0
      BY <3>1, GainsAt, 0 \in Nat DEF Ints
    <3>3. Total(Gains(ys)) = 0 /\ Total(Losses(ys)) = 0
      BY <3>2, TotalEmpty
    <3>4. ~(n + 1 > w)
      BY <1>1, <2>2
    <3> HIDE DEF w
    <3> QED
      BY <3>3, <3>4
  <2>4. Shares(g, n + 1, ys)
    <3> HIDE DEF g, h, acc
    <3> QED
      BY <1>4, <2>1, <2>3, FALSE \in BOOLEAN
  <2> QED
    BY <2>4, Zenon DEF g, x
<1>6. CASE f.hist # <<>>
  <2>1. PICK m \in Nat : n = m + 1
    <3>1. Len(f.hist) # 0
      <4> HIDE DEF w, cap
      <4>1. f.hist \in Seq(ToSet(f.hist))
        BY <1>1 DEF IsSeq
      <4> QED
        BY <1>6, <4>1
    <3>2. n # 0
      BY <1>1, <3>1 DEF Capped
    <3>3. n - 1 \in Nat /\ n = (n - 1) + 1
      BY <3>2
    <3> QED
      BY <3>3
  <2>2. Last(f.hist) = xs[n]
    <3> DEFINE k == Len(f.hist)
    <3>1. Last(f.hist) = f.hist[k]
      BY Zenon DEF Last
    <3>2. k \in Nat \ {0}
      <4> HIDE DEF cap
      <4>1. k = n \/ k = cap
        BY <1>1 DEF Capped
      <4> HIDE DEF k
      <4> QED
        BY <1>2, <2>1, <4>1
    <3>3. k \in 1..k /\ n - k + k = n
      <4> HIDE DEF k
      <4> QED
        BY <3>2
    <3>4. f.hist[k] = xs[n - k + k]
      BY <1>1, <3>3 DEF EndOf
    <3> QED
      BY <3>1, <3>3, <3>4
  <2> DEFINE gs == Gains(xs)
             ls == Losses(xs)
             up == Gain(d)
             down == Gain(-d)
  <2>3. Chain(m, gs, Gains(ys), up) /\ Chain(m, ls, Losses(ys), down)
    BY <2>1, <2>2, MoveChains
  <2> HIDE DEF d, up, down, gs, ls
  <2>4. m = n - 1
    BY <2>1
  <2>5. n <= w => /\ Total(Gains(ys)) = f.acc[1] + up /\ Total(Losses(ys)) = f.acc[2] + down
    <3> SUFFICES ASSUME n <= w PROVE Total(Gains(ys)) = f.acc[1] + up /\ Total(Losses(ys)) = f.acc[2] + down
      OBVIOUS
    <3>1. f.acc = <<Total(gs), Total(ls), 1>>
      BY <2>1 DEF Shares, gs, ls
    <3>2. f.acc[1] = Total(gs) /\ f.acc[2] = Total(ls)
      BY <3>1
    <3>3. Total(Gains(ys)) = Total(gs) + up /\ Total(Losses(ys)) = Total(ls) + down
      BY <2>3, SharesWarm
    <3> QED
      BY <3>2, <3>3
  <2>6. CASE Len(h) < w + 1
    <3>1. g = Settle([f EXCEPT !.hist = h, !.acc = warm], FALSE, None)
      BY <1>6, <2>6, Zenon DEF UpdateRSI, d
    <3>2. n + 1 <= w
      BY <1>1, <1>3, <2>6 DEF Capped
    <3>3. acc(warm)
      <4>1. warm = <<f.acc[1] + up, f.acc[2] + down, 1>>
        BY DEF up, down
      <4>2. n <= w /\ ~(n + 1 > w)
        BY <1>1, <3>2
      <4> HIDE DEF warm, w
      <4> QED
        BY <2>5, <4>1, <4>2
    <3>4. Shares(g, n + 1, ys)
      <4> HIDE DEF g, h, acc, warm
      <4> QED
        BY <1>4, <3>1, <3>3, FALSE \in BOOLEAN
    <3> QED
      BY <3>4, Zenon DEF g, x
  <2>7. CASE ~(Len(h) < w + 1) /\ Len(f.hist) < w + 1
    <3> DEFINE a == [warm EXCEPT ![3] = w]
    <3>1. g = Settle([f EXCEPT !.hist = h, !.acc = a], TRUE, RSIValue(warm[1], warm[2]))
      BY <1>6, <2>7, Zenon DEF UpdateRSI, d
    <3>2. n = w
      BY <1>1, <1>3, <2>7 DEF Capped
    <3>3. a = <<f.acc[1] + up, f.acc[2] + down, w>>
      <4>1. warm = <<f.acc[1] + up, f.acc[2] + down, 1>>
        BY Zenon DEF up, down
      <4> HIDE DEF warm, w
      <4> QED
        BY <4>1
    <3>4. warm[1] = a[1] /\ warm[2] = a[2]
      <4>1. warm = <<f.acc[1] + up, f.acc[2] + down, 1>>
        BY Zenon DEF up, down
      <4> HIDE DEF warm, w, a
      <4> QED
        BY <3>3, <4>1
    <3>5. acc(a)
      <4>1. n <= w /\ ~(n + 1 <= w)
        BY <1>1, <3>2
      <4>2. /\ IsSeq(Gains(ys)) /\ Ints(Gains(ys), w) /\ IsSeq(Losses(ys)) /\ Ints(Losses(ys), w)
        BY <2>1, <2>3, <3>2 DEF Chain
      <4>3. 1 \in Int /\ w \in Int
        BY <1>1
      <4> HIDE DEF warm, a, w
      <4>4. Level(Gains(ys), w, w, 1, w) = <<Total(Gains(ys)), w>>
        BY <1>1, <4>2, <4>3, LevelFirst
      <4>5. Level(Losses(ys), w, w, 1, w) = <<Total(Losses(ys)), w>>
        BY <1>1, <4>2, <4>3, LevelFirst
      <4>6. a = <<Total(Gains(ys)), Total(Losses(ys)), w>>
        BY <2>5, <3>3, <4>1
      <4>7. a = <<Level(Gains(ys), n, w, 1, w)[1], Level(Losses(ys), n, w, 1, w)[1],
                  Level(Gains(ys), n, w, 1, w)[2]>>
        BY <3>2, <4>4, <4>5, <4>6
      <4> QED
        BY <4>1, <4>7
    <3>6. Shares(g, n + 1, ys)
      <4> HIDE DEF g, h, acc, warm, a
      <4>1. RSIValue(warm[1], warm[2]) = RSIValue(a[1], a[2])
        BY <3>4
      <4> QED
        BY <1>4, <3>1, <3>5, <4>1, TRUE \in BOOLEAN
    <3> QED
      BY <3>6, Zenon DEF g, x
  <2>8. CASE ~(Len(h) < w + 1) /\ ~(Len(f.hist) < w + 1)
    <3>1. g = Settle([f EXCEPT !.hist = h, !.acc = on], TRUE, RSIValue(on[1], on[2]))
      BY <1>6, <2>8, Zenon DEF UpdateRSI, d
    <3>2. n > w /\ m >= w /\ ~(n + 1 <= w)
      BY <1>1, <2>1, <2>8 DEF Capped
    <3> DEFINE u == Level(gs, m, w, 1, w)
               v == Level(ls, m, w, 1, w)
    <3>3. f.acc = <<u[1], v[1], u[2]>>
      BY <2>4, <3>2, Zenon DEF Shares, gs, ls
    <3>4. u[2] = v[2]
      BY DEF Level
    <3>5. /\ Level(Gains(ys), m + 1, w, 1, w) = <<u[1] * (w - 1) + up * u[2], u[2] * w>>
          /\ Level(Losses(ys), m + 1, w, 1, w) = <<v[1] * (w - 1) + down * v[2], v[2] * w>>
      <4> HIDE DEF w
      <4> QED
        BY <1>1, <2>3, <3>2, SharesOn
    <3>6. on = <<f.acc[1] * (w - 1) + up * f.acc[3], f.acc[2] * (w - 1) + down * f.acc[3], f.acc[3] * w>>
      BY Zenon DEF up, down
    <3> HIDE DEF on, u, v
    <3>7. f.acc[1] = u[1] /\ f.acc[2] = v[1] /\ f.acc[3] = u[2] /\ f.acc[3] = v[2]
      BY <3>3, <3>4
    <3>8. on = <<u[1] * (w - 1) + up * u[2], v[1] * (w - 1) + down * v[2], u[2] * w>>
      BY <3>6, <3>7, Zenon
    <3>9. acc(on)
      <4> DEFINE p1 == u[1] * (w - 1) + up * u[2]
                 p2 == v[1] * (w - 1) + down * v[2]
                 p3 == u[2] * w
                 p4 == v[2] * w
      <4>1. Level(Gains(ys), n, w, 1, w) = <<p1, p3>> /\ Level(Losses(ys), n, w, 1, w) = <<p2, p4>>
        BY <2>1, <3>5, Zenon
      <4>2. on = <<p1, p2, p3>>
        BY <3>8, Zenon
      <4> HIDE DEF p1, p2, p3, p4, w
      <4>3. on = <<Level(Gains(ys), n, w, 1, w)[1], Level(Losses(ys), n, w, 1, w)[1],
                   Level(Gains(ys), n, w, 1, w)[2]>>
        BY <4>1, <4>2
      <4> QED
        BY <3>2, <4>3
    <3>10. Shares(g, n + 1, ys)
      <4> HIDE DEF g, h, acc
      <4> QED
        BY <1>4, <3>1, <3>9, TRUE \in BOOLEAN
    <3> QED
      BY <3>10, Zenon DEF g, x
  <2> QED
    BY <2>6, <2>7, <2>8
<1> QED
  BY <1>5, <1>6


-----------------------------------------------------------------------------
(* Where the close lies between the highest high and the lowest low *)

\* A list of integers has a greatest and a least element.
LEMMA Extremes ==
  ASSUME NEW n \in Nat \ {0}, NEW q, Ints(q, n)
  PROVE  \E a, b \in 1..n : \A i \in 1..n : q[i] <= q[a] /\ q[b] <= q[i]
<1> DEFINE T == {k \in Nat : k = 0 \/ \E a, b \in 1..k : \A i \in 1..k : q[i] <= q[a] /\ q[b] <= q[i]}
<1>0. \A i \in 1..n : q[i] \in Int
  BY DEF Ints
<1>1. 0 \in T
  OBVIOUS
<1>2. ASSUME NEW k \in 1..n, k - 1 \in T PROVE k \in T
  <2>1. k \in Nat /\ q[k] \in Int /\ k \in 1..k
    BY <1>0
  <2>2. CASE k - 1 = 0
    <3>1. \A i \in 1..k : i = k
      BY <2>2
    <3>2. \A i \in 1..k : q[i] <= q[k] /\ q[k] <= q[i]
      BY <2>1, <3>1
    <3> QED
      BY <2>1, <3>2
  <2>3. CASE k - 1 # 0
    <3>1. PICK a \in 1..(k - 1), b \in 1..(k - 1) : \A i \in 1..(k - 1) : q[i] <= q[a] /\ q[b] <= q[i]
      BY <1>2, <2>3
    <3>2. /\ a \in 1..k /\ b \in 1..k /\ a \in 1..n /\ b \in 1..n
          /\ \A i \in 1..k : (i = k \/ i \in 1..(k - 1)) /\ i \in 1..n
      BY <2>1
    <3>3. q[a] \in Int /\ q[b] \in Int
      BY <1>0, <3>2
    <3>4. \E c \in 1..k : \A i \in 1..k : q[i] <= q[c]
      <4>1. CASE q[a] <= q[k]
        <5>1. \A i \in 1..k : q[i] <= q[k]
          BY <1>0, <2>1, <3>1, <3>2, <3>3, <4>1
        <5> QED
          BY <2>1, <5>1
      <4>2. CASE ~(q[a] <= q[k])
        <5>1. \A i \in 1..k : q[i] <= q[a]
          BY <1>0, <2>1, <3>1, <3>2, <3>3, <4>2
        <5> QED
          BY <3>2, <5>1
      <4> QED
        BY <4>1, <4>2
    <3>5. \E c \in 1..k : \A i \in 1..k : q[c] <= q[i]
      <4>1. CASE q[k] <= q[b]
        <5>1. \A i \in 1..k : q[k] <= q[i]
          BY <1>0, <2>1, <3>1, <3>2, <3>3, <4>1
        <5> QED
          BY <2>1, <5>1
      <4>2. CASE ~(q[k] <= q[b])
        <5>1. \A i \in 1..k : q[b] <= q[i]
          BY <1>0, <2>1, <3>1, <3>2, <3>3, <4>2
        <5> QED
          BY <3>2, <5>1
      <4> QED
        BY <4>1, <4>2
    <3> QED
      BY <2>1, <3>4, <3>5
  <2> QED
    BY <2>2, <2>3
<1>3. n \in T
  <2> HIDE DEF T
  <2>1. T \in SUBSET Nat
    BY DEF T
  <2>2. \A k \in 0..n : k \in T
    BY <1>1, <1>2, <2>1, UpTo
  <2> QED
    BY <2>2
<1> QED
  BY <1>3

\* What a window of bars says of its last close: a fraction of 0 to 100.
LEMMA StochKType ==
  ASSUME NEW w \in Nat \ {0}, NEW l, BarList(l, w), NEW k, k = StochK(l)
  PROVE  /\ IsPair(k) /\ k[1] \in Int /\ k[2] \in Int /\ k[2] # 0
         /\ Between(k, 0, 100)
<1> DEFINE hs == {l[i].high : i \in DOMAIN l}
           ls == {l[i].low : i \in DOMAIN l}
           high == Max(hs)
           low == Min(ls)
           c == Last(l).close
<1>1. IsSeq(l) /\ DOMAIN l = 1..w /\ Len(l) = w /\ (\A i \in 1..w : IsBar(l[i])) /\ w \in 1..w
  BY SeqDomain DEF BarList
<1>2. Last(l) = l[w]
  BY <1>1, Zenon DEF Last
<1>3. \A i \in 1..w : l[i].high \in Int /\ l[i].low \in Int
  BY <1>1 DEF IsBar
<1>4. c \in Int /\ l[w].low <= c /\ c <= l[w].high
  BY <1>1, <1>2 DEF IsBar
<1>5. high \in Int /\ l[w].high <= high
  <2> DEFINE q == [i \in 1..w |-> l[i].high]
  <2>1. Ints(q, w)
    <3>1. Len(q) = w
      OBVIOUS
    <3> QED
      BY <1>3, <3>1 DEF Ints
  <2>2. PICK a \in 1..w : \A i \in 1..w : q[i] <= q[a]
    <3> HIDE DEF q
    <3> QED
      BY <2>1, Extremes
  <2>3. \A i \in 1..w : l[i].high <= l[a].high
    BY <2>2
  <2>4. hs \in SUBSET Int /\ l[a].high \in hs /\ \A x \in hs : l[a].high >= x
    BY <1>1, <1>3, <2>3
  <2> HIDE DEF hs
  <2>5. high = l[a].high
    BY <2>4, MaxIs
  <2> QED
    BY <1>1, <1>3, <2>3, <2>5
<1>6. low \in Int /\ low <= l[w].low
  <2> DEFINE q == [i \in 1..w |-> l[i].low]
  <2>1. Ints(q, w)
    <3>1. Len(q) = w
      OBVIOUS
    <3> QED
      BY <1>3, <3>1 DEF Ints
  <2>2. PICK a \in 1..w : \A i \in 1..w : q[a] <= q[i]
    <3> HIDE DEF q
    <3> QED
      BY <2>1, Extremes
  <2>3. \A i \in 1..w : l[a].low <= l[i].low
    BY <2>2
  <2>4. ls \in SUBSET Int /\ l[a].low \in ls /\ \A x \in ls : l[a].low <= x
    BY <1>1, <1>3, <2>3
  <2> HIDE DEF ls
  <2>5. low = l[a].low
    BY <2>4, MinIs
  <2> QED
    BY <1>1, <1>3, <2>3, <2>5
<1>7. k = IF high = low THEN <<50, 1>> ELSE <<100 * (c - low), high - low>>
  BY Zenon DEF StochK
<1> HIDE DEF high, low, c
<1>8. low <= c /\ c <= high
  <2>1. l[w].high \in Int /\ l[w].low \in Int
    BY <1>1, <1>3
  <2> QED
    BY <1>4, <1>5, <1>6, <2>1
<1>9. CASE high = low
  <2>1. k[1] = 50 /\ k[2] = 1 /\ IsPair(k)
    BY <1>7, <1>9 DEF IsPair
  <2> QED
    BY <2>1 DEF Between
<1>10. CASE high # low
  <2> DEFINE x == c - low
             y == high - low
  <2>1. k = <<100 * x, y>>
    BY <1>7, <1>10
  <2>2. x \in Int /\ y \in Int /\ 0 <= x /\ x <= y /\ 0 < y
    BY <1>4, <1>5, <1>6, <1>8, <1>10
  <2> HIDE DEF x, y
  <2>3. k[1] = 100 * x /\ k[2] = y /\ IsPair(k)
    BY <2>1 DEF IsPair
  <2> QED
    BY <2>2, <2>3 DEF Between
<1> QED
  BY <1>9, <1>10

HighLow(bars) == [i \in DOMAIN bars |-> <<bars[i].high, bars[i].low>>]
KAt(bars, w, i) == StochK(LastOf(FirstOf(bars, i), w))
KList(bars, w) == [i \in DOMAIN bars |-> KAt(bars, w, i)]

\* The first bars, and the last of them.
LEMMA WindowBars ==
  ASSUME NEW n \in Nat, NEW bars, BarList(bars, n), NEW i \in 0..n, NEW w \in Nat, w <= i
  PROVE  /\ BarList(FirstOf(bars, i), i) /\ BarList(LastOf(FirstOf(bars, i), w), w)
         /\ \A j \in 1..w : LastOf(FirstOf(bars, i), w)[j] = bars[i - w + j]
<1> DEFINE p == FirstOf(bars, i)
           l == LastOf(p, w)
<1>1. IsSeq(bars) /\ Len(bars) = n /\ (\A j \in 1..n : IsBar(bars[j])) /\ i \in Nat /\ i <= n
  BY DEF BarList
<1>2. IsSeq(p) /\ Len(p) = i /\ \A j \in 1..i : p[j] = bars[j]
  BY <1>1, FirstOfAt
<1> HIDE DEF p
<1>3. IsSeq(l) /\ Len(l) = w /\ \A j \in 1..w : l[j] = p[i - w + j]
  BY <1>1, <1>2, LastOfAt
<1> HIDE DEF l
<1>4. \A j \in 1..w : i - w + j \in 1..i /\ i - w + j \in 1..n
  BY <1>1
<1>5. \A j \in 1..w : l[j] = bars[i - w + j] /\ IsBar(l[j])
  <2> TAKE j \in 1..w
  <2>1. i - w + j \in 1..i /\ i - w + j \in 1..n /\ l[j] = p[i - w + j]
    BY <1>3, <1>4
  <2>2. p[i - w + j] = bars[i - w + j] /\ IsBar(bars[i - w + j])
    BY <1>1, <1>2, <2>1
  <2> QED
    BY <2>1, <2>2
<1>6. \A j \in 1..i : IsBar(p[j])
  <2> TAKE j \in 1..i
  <2>1. j \in 1..n
    BY <1>1
  <2> QED
    BY <1>1, <1>2, <2>1
<1>7. BarList(p, i) /\ BarList(l, w)
  BY <1>2, <1>3, <1>5, <1>6 DEF BarList
<1> QED
  BY <1>5, <1>7, Zenon DEF p, l


\* The lists, and what one bar more makes of them.
LEMMA StochLists ==
  ASSUME NEW n \in Nat, NEW bars, BarList(bars, n), NEW w
  PROVE  /\ IsSeq(HighLow(bars)) /\ Len(HighLow(bars)) = n
         /\ IsSeq(KList(bars, w)) /\ Len(KList(bars, w)) = n
         /\ \A i \in 1..n : /\ HighLow(bars)[i] = <<bars[i].high, bars[i].low>>
                            /\ KList(bars, w)[i] = KAt(bars, w, i)
<1> DEFINE r == HighLow(bars)
           k == KList(bars, w)
<1>1. DOMAIN bars = 1..n /\ IsSeq(bars) /\ Len(bars) = n
  BY SeqDomain DEF BarList
<1>2. r = [i \in DOMAIN bars |-> r[i]] /\ \A i \in DOMAIN bars : r[i] = <<bars[i].high, bars[i].low>>
  BY DEF HighLow
<1>3. k = [i \in DOMAIN bars |-> k[i]] /\ \A i \in DOMAIN bars : k[i] = KAt(bars, w, i)
  BY DEF KList
<1> HIDE DEF r, k
<1>4. IsSeq(r) /\ Len(r) = n /\ IsSeq(k) /\ Len(k) = n
  BY <1>1, <1>2, <1>3, MappedSeq
<1> QED
  BY <1>1, <1>2, <1>3, <1>4, Zenon DEF r, k

SameStart(n, bars, all) ==
  /\ \A i \in 1..n : FirstOf(all, i) = FirstOf(bars, i)
  /\ FirstOf(all, n + 1) = all

LEMMA FirstOfMore ==
  ASSUME NEW n \in Nat, NEW bars, BarList(bars, n), NEW bar, IsBar(bar), NEW all, all = Append(bars, bar)
  PROVE  SameStart(n, bars, all)
<1>1. BarList(all, n + 1) /\ Grown(n, bars, all, bar)
  BY MoreBars
<1>2. /\ IsSeq(bars) /\ Len(bars) = n /\ IsSeq(all) /\ Len(all) = n + 1
      /\ \A i \in 1..n : all[i] = bars[i]
  BY <1>1 DEF BarList, Grown
<1>3. ASSUME NEW i \in 1..n PROVE FirstOf(all, i) = FirstOf(bars, i)
  <2> DEFINE p == FirstOf(all, i)
             q == FirstOf(bars, i)
  <2>1. i \in Nat /\ i <= n /\ i <= n + 1 /\ \A j \in 1..i : j \in 1..n
    OBVIOUS
  <2>2. IsSeq(p) /\ Len(p) = i /\ \A j \in 1..i : p[j] = all[j]
    BY <1>2, <2>1, FirstOfAt
  <2>3. IsSeq(q) /\ Len(q) = i /\ \A j \in 1..i : q[j] = bars[j]
    BY <1>2, <2>1, FirstOfAt
  <2> HIDE DEF p, q
  <2>4. p = q
    BY <1>2, <2>1, <2>2, <2>3, SeqSame
  <2> QED
    BY <2>4 DEF p, q
<1>4. FirstOf(all, n + 1) = all
  <2> DEFINE p == FirstOf(all, n + 1)
  <2>1. PICK m \in Nat : m = n + 1
    OBVIOUS
  <2>2. m <= Len(all)
    BY <1>2, <2>1
  <2>3. IsSeq(p) /\ Len(p) = m /\ \A j \in 1..m : p[j] = all[j]
    BY <1>2, <2>1, <2>2, FirstOfAt
  <2> HIDE DEF p
  <2>4. p = all
    BY <1>2, <2>1, <2>3, SeqSame
  <2> QED
    BY <2>4 DEF p
<1> QED
  BY <1>3, <1>4, Zenon DEF SameStart

LEMMA StochGrown ==
  ASSUME NEW n \in Nat, NEW bars, BarList(bars, n), NEW bar, IsBar(bar),
         NEW all, all = Append(bars, bar), NEW w
  PROVE  /\ Grown(n, HighLow(bars), HighLow(all), <<bar.high, bar.low>>)
         /\ Grown(n, KList(bars, w), KList(all, w), StochK(LastOf(all, w)))
<1>1. BarList(all, n + 1) /\ Grown(n, bars, all, bar)
  BY MoreBars
<1>2. all[n + 1] = bar /\ \A i \in 1..n : all[i] = bars[i]
  BY <1>1 DEF Grown
<1>3. PICK m \in Nat : m = n + 1
  OBVIOUS
<1>4. m \in 1..m /\ \A i \in 1..n : i \in 1..m
  BY <1>3
<1>5. \A i \in 1..m : /\ HighLow(all)[i] = <<all[i].high, all[i].low>>
                      /\ KList(all, w)[i] = KAt(all, w, i)
  BY <1>1, <1>3, StochLists
<1>6. \A i \in 1..n : /\ HighLow(bars)[i] = <<bars[i].high, bars[i].low>>
                      /\ KList(bars, w)[i] = KAt(bars, w, i)
  BY StochLists
<1>7. (\A i \in 1..n : FirstOf(all, i) = FirstOf(bars, i)) /\ FirstOf(all, m) = all
  <2>1. SameStart(n, bars, all)
    BY FirstOfMore
  <2> QED
    BY <1>3, <2>1, Zenon DEF SameStart
<1>8. Grown(n, HighLow(bars), HighLow(all), <<bar.high, bar.low>>)
  <2>1. \A i \in 1..n : HighLow(all)[i] = HighLow(bars)[i]
    BY <1>2, <1>4, <1>5, <1>6
  <2>2. HighLow(all)[m] = <<all[m].high, all[m].low>> /\ all[m] = bar
    BY <1>2, <1>3, <1>4, <1>5
  <2> QED
    BY <1>3, <2>1, <2>2 DEF Grown
<1>9. Grown(n, KList(bars, w), KList(all, w), StochK(LastOf(all, w)))
  <2>1. ASSUME NEW i \in 1..n PROVE KList(all, w)[i] = KList(bars, w)[i]
    <3>1. KList(all, w)[i] = KAt(all, w, i) /\ KList(bars, w)[i] = KAt(bars, w, i)
      BY <1>4, <1>5, <1>6
    <3>2. KAt(all, w, i) = KAt(bars, w, i)
      BY <1>7, Zenon DEF KAt
    <3> QED
      BY <3>1, <3>2
  <2>2. KList(all, w)[m] = KAt(all, w, m)
    BY <1>4, <1>5
  <2>3. KAt(all, w, m) = StochK(LastOf(all, w))
    BY <1>7, Zenon DEF KAt
  <2> QED
    BY <1>3, <2>1, <2>2, <2>3 DEF Grown
<1> QED
  BY <1>8, <1>9

\* The highs and lows of the window; the places of the close in it.
Oscillates(f, n, bars) ==
  /\ EndOf(f.hist, n, HighLow(bars))
  /\ EndOf(f.acc, n, KList(bars, f.window))
  /\ f.ready => f.value = f.acc[3] \o <<FractionSum(f.acc)[1], FractionSum(f.acc)[2] * SmoothWindow>>

\* The place computed from the deque is the one of the window.
Placed(high, low, close) == IF high = low THEN <<50, 1>> ELSE <<100 * (close - low), high - low>>

Spans(h, high, low) == high = Max({h[i][1] : i \in DOMAIN h}) /\ low = Min({h[i][2] : i \in DOMAIN h})

InPlace(bars, n, w, high, low) == StochK(LastOf(bars, w)) = Placed(high, low, bars[n].close)

LEMMA PlaceIs ==
  ASSUME NEW n \in Nat, NEW bars, BarList(bars, n), NEW w \in Nat \ {0}, w <= n,
         NEW h, IsSeq(h), Len(h) = w, EndOf(h, n, HighLow(bars)),
         NEW high, NEW low, Spans(h, high, low)
  PROVE  InPlace(bars, n, w, high, low)
<1> DEFINE l == LastOf(bars, w)
<1>1. IsSeq(bars) /\ Len(bars) = n /\ DOMAIN h = 1..w /\ w \in 1..w
  BY SeqDomain DEF BarList
<1>2. IsSeq(l) /\ Len(l) = w /\ \A i \in 1..w : l[i] = bars[n - w + i]
  BY <1>1, LastOfAt
<1> HIDE DEF l
<1>3. DOMAIN l = 1..w
  BY <1>2, SeqDomain
<1>4. ASSUME NEW i \in 1..w PROVE h[i][1] = l[i].high /\ h[i][2] = l[i].low
  <2>1. n - w + i \in 1..n
    OBVIOUS
  <2>2. HighLow(bars)[n - w + i] = <<bars[n - w + i].high, bars[n - w + i].low>>
    BY <2>1, StochLists
  <2>3. h[i] = HighLow(bars)[n - w + i]
    BY DEF EndOf
  <2> QED
    BY <1>2, <2>2, <2>3
<1>5. /\ {h[i][1] : i \in DOMAIN h} = {l[i].high : i \in DOMAIN l}
      /\ {h[i][2] : i \in DOMAIN h} = {l[i].low : i \in DOMAIN l}
  BY <1>1, <1>3, <1>4
<1>6. high = Max({l[i].high : i \in DOMAIN l}) /\ low = Min({l[i].low : i \in DOMAIN l})
  BY <1>5, Zenon DEF Spans
<1>7. Last(l).close = bars[n].close
  <2>1. Last(l) = l[w]
    BY <1>2, Zenon DEF Last
  <2>2. n - w + w = n
    OBVIOUS
  <2> QED
    BY <1>1, <1>2, <2>1, <2>2
<1> QED
  BY <1>6, <1>7, Zenon DEF StochK, Placed, InPlace, l


\* The sum of three fractions.
FractionsTo(ks, n, s) ==
  s = [i \in 0..n |-> IF i = 0 THEN <<0, 1>>
                      ELSE <<s[i-1][1] * ks[i][2] + ks[i][1] * s[i-1][2], s[i-1][2] * ks[i][2]>>]

LEMMA FractionAt ==
  ASSUME NEW ks, NEW n, NEW s, FractionsTo(ks, n, s), NEW i \in 0..n
  PROVE  s[i] = IF i = 0 THEN <<0, 1>>
                ELSE <<s[i-1][1] * ks[i][2] + ks[i][1] * s[i-1][2], s[i-1][2] * ks[i][2]>>
BY Zenon DEF FractionsTo

Plus(s, k) == <<s[1] * k[2] + k[1] * s[2], s[2] * k[2]>>

LEMMA ThreeFractions ==
  ASSUME NEW ks, Len(ks) = 3
  PROVE  FractionSum(ks) = Plus(Plus(Plus(<<0, 1>>, ks[1]), ks[2]), ks[3])
<1> DEFINE s0 == <<0, 1>>
           s1 == Plus(s0, ks[1])
           s2 == Plus(s1, ks[2])
           s3 == Plus(s2, ks[3])
           t == [i \in 0..3 |-> IF i = 0 THEN s0 ELSE IF i = 1 THEN s1 ELSE IF i = 2 THEN s2 ELSE s3]
           next(s) == [i \in 0..3 |-> IF i = 0 THEN <<0, 1>> ELSE Plus(s[i-1], ks[i])]
<1>1. \A s : FractionsTo(ks, 3, s) <=> s = next(s)
  BY Zenon DEF FractionsTo, Plus
<1>2. t[0] = s0 /\ t[1] = s1 /\ t[2] = s2 /\ t[3] = s3
  <2> HIDE DEF s0, s1, s2, s3
  <2> QED
    OBVIOUS
<1>3. t = next(t)
  <2>1. \A i \in 0..3 : i = 0 \/ i = 1 \/ i = 2 \/ i = 3
    OBVIOUS
  <2>2. ASSUME NEW i \in 0..3 PROVE t[i] = IF i = 0 THEN <<0, 1>> ELSE Plus(t[i-1], ks[i])
    <3> HIDE DEF t
    <3>1. CASE i = 0
      BY <1>2, <3>1
    <3>2. CASE i = 1
      <4>1. i # 0 /\ i - 1 = 0
        BY <3>2
      <4> QED
        BY <1>2, <3>2, <4>1, Zenon
    <3>3. CASE i = 2
      <4>1. i # 0 /\ i - 1 = 1
        BY <3>3
      <4> QED
        BY <1>2, <3>3, <4>1, Zenon
    <3>4. CASE i = 3
      <4>1. i # 0 /\ i - 1 = 2
        BY <3>4
      <4> QED
        BY <1>2, <3>4, <4>1, Zenon
    <3> QED
      BY <2>1, <3>1, <3>2, <3>3, <3>4
  <2> HIDE DEF s0, s1, s2, s3
  <2>3. t = [i \in 0..3 |-> t[i]]
    OBVIOUS
  <2> HIDE DEF t
  <2>4. [i \in 0..3 |-> t[i]] = next(t)
    BY <2>2
  <2> QED
    BY <2>3, <2>4
<1> DEFINE s == CHOOSE f : FractionsTo(ks, 3, f)
<1>4. FractionSum(ks) = s[3]
  BY DEF FractionSum, FractionsTo
<1>5. FractionsTo(ks, 3, s)
  <2>1. FractionsTo(ks, 3, t)
    BY <1>1, <1>3, Zenon
  <2> QED
    BY <2>1
<1> HIDE DEF s, t
<1>6. s = next(s)
  BY <1>1, <1>5, Zenon
<1>7. \A i \in 0..3 : s[i] = IF i = 0 THEN <<0, 1>> ELSE Plus(s[i-1], ks[i])
  BY <1>6, Zenon
<1>8. s[0] = s0 /\ s[1] = Plus(s[0], ks[1]) /\ s[2] = Plus(s[1], ks[2]) /\ s[3] = Plus(s[2], ks[3])
  <2>1. 0 \in 0..3 /\ 1 \in 0..3 /\ 2 \in 0..3 /\ 3 \in 0..3 /\ 1 - 1 = 0 /\ 2 - 1 = 1 /\ 3 - 1 = 2
        /\ 1 # 0 /\ 2 # 0 /\ 3 # 0
    OBVIOUS
  <2>2. s[1] = Plus(s[1-1], ks[1]) /\ s[2] = Plus(s[2-1], ks[2]) /\ s[3] = Plus(s[3-1], ks[3])
    BY <1>7, <2>1, Zenon
  <2>3. s[0] = s0
    BY <1>7, <2>1, Zenon
  <2> QED
    BY <2>1, <2>2, <2>3, Zenon
<1> QED
  BY <1>4, <1>8, Zenon

LEMMA OscillateSeen ==
  ASSUME NEW f, NEW n \in Nat, Fed(f, n), f.kind = "STOCH",
         NEW bars, BarList(bars, n), NEW bar, IsBar(bar), NEW all, all = Append(bars, bar),
         Oscillates(f, n, bars)
  PROVE  Oscillates(UpdateSTOCH(f, bar), n + 1, all)
<1> DEFINE w    == f.window
           x    == <<bar.high, bar.low>>
           h    == Push(f.hist, x, f.window)
           high == Max({h[i][1] : i \in DOMAIN h})
           low  == Min({h[i][2] : i \in DOMAIN h})
           k    == IF high = low THEN <<50, 1>> ELSE <<100 * (bar.close - low), high - low>>
           ks   == Push(f.acc, k, SmoothWindow)
           sum  == FractionSum(ks)
           p    == <<sum[1], sum[2] * SmoothWindow>>
           g    == UpdateSTOCH(f, bar)
<1>1. /\ w \in Nat \ {0} /\ Shape(f) /\ IsSeq(f.hist) /\ Len(f.hist) = Capped(n, w)
      /\ Holds(f.acc, IF n < w THEN 0 ELSE Capped(n - w + 1, SmoothWindow))
  BY DEF Fed, Smoothed, Ripe, Rolled, HistCap, Holds
<1>2. IsSeq(h) /\ Len(h) = Capped(n + 1, w)
  <2> HIDE DEF x
  <2> QED
    BY <1>1, PushFills
<1>3. /\ Grown(n, HighLow(bars), HighLow(all), x)
      /\ Grown(n, KList(bars, w), KList(all, w), StochK(LastOf(all, w)))
  BY StochGrown
<1>4. EndOf(h, n + 1, HighLow(all))
  <2>1. Len(f.hist) <= w
    BY <1>1 DEF Capped
  <2> HIDE DEF x
  <2> QED
    BY <1>1, <1>3, <2>1, PushEnd DEF Oscillates
<1>5. CASE Len(h) < w
  <2>1. g = Settle([f EXCEPT !.hist = h], FALSE, None)
    BY <1>5, Zenon DEF UpdateSTOCH
  <2>2. Len(f.acc) = 0
    <3>1. n < w
      BY <1>1, <1>2, <1>5 DEF Capped
    <3> QED
      BY <1>1, <3>1 DEF Holds
  <2> HIDE DEF h, g
  <2>3. Settled(f, g, h, f.acc, FALSE, None)
    BY <1>1, <2>1, SettleHist, Zenon
  <2>4. g.window = w /\ g.hist = h /\ g.acc = f.acc /\ g.ready = FALSE
    BY <2>3 DEF Settled
  <2>5. EndOf(g.acc, n + 1, KList(all, w))
    <3>1. Len(g.acc) = 0
      BY <2>2, <2>4
    <3>2. 0 <= n + 1 /\ 1..0 = {}
      OBVIOUS
    <3> QED
      BY <3>1, <3>2, Zenon DEF EndOf
  <2> QED
    BY <1>4, <2>4, <2>5, Zenon DEF Oscillates, g
<1>6. CASE ~(Len(h) < w)
  <2>1. g = Settle([f EXCEPT !.hist = h, !.acc = ks], Len(ks) = SmoothWindow, k \o p)
    BY <1>6, Zenon DEF UpdateSTOCH
  <2>2. n + 1 >= w /\ Len(h) = w
    BY <1>1, <1>2, <1>6 DEF Capped
  <2>3. BarList(all, n + 1) /\ all[n + 1] = bar
    <3>1. BarList(all, n + 1) /\ Grown(n, bars, all, bar)
      BY MoreBars
    <3> QED
      BY <3>1 DEF Grown
  <2>4. k = StochK(LastOf(all, w))
    <3>1. PICK m \in Nat : m = n + 1
      OBVIOUS
    <3>2. BarList(all, m) /\ w <= m /\ EndOf(h, m, HighLow(all)) /\ all[m].close = bar.close
      BY <1>4, <2>2, <2>3, <3>1
    <3>3. StochK(LastOf(all, w)) = Placed(high, low, all[m].close)
      <4>1. Spans(h, high, low)
        BY Zenon DEF Spans
      <4> HIDE DEF h, w, high, low
      <4>2. /\ m \in Nat /\ BarList(all, m) /\ w \in Nat \ {0} /\ w <= m
            /\ IsSeq(h) /\ Len(h) = w /\ EndOf(h, m, HighLow(all))
        BY <1>1, <1>2, <2>2, <3>1, <3>2
      <4>3. InPlace(all, m, w, high, low)
        BY <4>1, <4>2, PlaceIs
      <4> QED
        BY <4>3, Zenon DEF InPlace
    <3> QED
      BY <3>2, <3>3, Zenon DEF Placed
  <2> HIDE DEF k
  <2>5. IsSeq(f.acc) /\ Len(f.acc) <= SmoothWindow /\ SmoothWindow \in Nat \ {0}
    BY <1>1 DEF Holds, Capped, SmoothWindow
  <2>6. Grown(n, KList(bars, w), KList(all, w), k)
    BY <1>3, <2>4, Zenon
  <2>7. EndOf(ks, n + 1, KList(all, w))
    <3>1. EndOf(f.acc, n, KList(bars, w))
      BY DEF Oscillates
    <3> HIDE DEF w
    <3> QED
      BY <2>5, <2>6, <3>1, PushEnd
  <2>8. Len(ks) = SmoothWindow => ks[3] = k
    <3>1. SmoothWindow = 3
      BY DEF SmoothWindow
    <3>2. CASE Len(f.acc) = 3
      <4>1. ks = Append(Tail(f.acc), k)
        BY <3>1, <3>2, Zenon DEF Push
      <4>2. f.acc # <<>>
        <5>1. Len(<<>>) # 3
          OBVIOUS
        <5> QED
          BY <3>2, <5>1, Zenon
      <4>3. IsSeq(Tail(f.acc)) /\ Len(Tail(f.acc)) = 2
        BY <2>5, <3>2, <4>2, SeqTail
      <4> DEFINE t == Tail(f.acc)
      <4> HIDE DEF t
      <4>4. Append(t, k)[Len(t) + 1] = k
        BY <4>3, SeqAppend, Zenon DEF t
      <4>5. Len(t) + 1 = 3
        BY <4>3 DEF t
      <4> QED
        BY <4>1, <4>4, <4>5, Zenon DEF t
    <3>3. CASE Len(f.acc) # 3
      <4>1. ks = Append(f.acc, k)
        BY <3>1, <3>3, Zenon DEF Push
      <4>2. Len(ks) = Len(f.acc) + 1 /\ ks[Len(f.acc) + 1] = k
        BY <2>5, <4>1, SeqAppend
      <4> QED
        BY <3>1, <4>2
    <3> QED
      BY <3>2, <3>3
  <2> HIDE DEF h, g, ks, p
  <2>9. Settled(f, g, h, ks, Len(ks) = SmoothWindow, k \o p)
    BY <1>1, <2>1, SettleHistAcc, Zenon
  <2>10. g.window = w /\ g.hist = h /\ g.acc = ks /\ (g.ready => Len(ks) = SmoothWindow /\ g.value = k \o p)
    BY <2>9 DEF Settled
  <2>11. g.ready => g.value = g.acc[3] \o <<FractionSum(g.acc)[1], FractionSum(g.acc)[2] * SmoothWindow>>
    BY <2>8, <2>10, Zenon DEF p
  <2> QED
    BY <1>4, <2>7, <2>10, <2>11, Zenon DEF Oscillates, g
<1> QED
  BY <1>5, <1>6


\* The four parts of two pairs.
LEMMA ConcatAt ==
  ASSUME NEW S, NEW p \in Seq(S), NEW q \in Seq(S), NEW i \in 1..(Len(p) + Len(q))
  PROVE  (p \o q)[i] = IF i <= Len(p) THEN p[i] ELSE q[i - Len(p)]
OBVIOUS

Four(v, p, q) == v[1] = p[1] /\ v[2] = p[2] /\ v[3] = q[1] /\ v[4] = q[2]

LEMMA JoinedAt ==
  ASSUME NEW p, IsPair(p), NEW q, IsPair(q)
  PROVE  Four(p \o q, p, q)
<1> DEFINE a == p[1]
           b == p[2]
           c == q[1]
           d == q[2]
<1>1. p = <<a, b>> /\ q = <<c, d>>
  BY Zenon DEF IsPair
<1> HIDE DEF a, b, c, d
<1>2. p \o q = <<a, b>> \o <<c, d>>
  BY <1>1, Zenon
<1>3. (<<a, b>> \o <<c, d>>)[1] = a /\ (<<a, b>> \o <<c, d>>)[2] = b
      /\ (<<a, b>> \o <<c, d>>)[3] = c /\ (<<a, b>> \o <<c, d>>)[4] = d
  <2> DEFINE S == {a, b, c, d}
  <2>1. <<a, b>> \in Seq(S) /\ <<c, d>> \in Seq(S) /\ Len(<<a, b>>) = 2 /\ Len(<<c, d>>) = 2
    OBVIOUS
  <2>2. ASSUME NEW s \in Seq(S), NEW t \in Seq(S), Len(s) = 2, Len(t) = 2
        PROVE  (s \o t)[1] = s[1] /\ (s \o t)[2] = s[2] /\ (s \o t)[3] = t[1] /\ (s \o t)[4] = t[2]
    <3>1. /\ 1 \in 1..(Len(s) + Len(t)) /\ 2 \in 1..(Len(s) + Len(t))
          /\ 3 \in 1..(Len(s) + Len(t)) /\ 4 \in 1..(Len(s) + Len(t))
          /\ 1 <= Len(s) /\ 2 <= Len(s) /\ ~(3 <= Len(s)) /\ ~(4 <= Len(s))
          /\ 3 - Len(s) = 1 /\ 4 - Len(s) = 2
      BY <2>2
    <3> HIDE DEF S
    <3>2. (s \o t)[1] = s[1] /\ (s \o t)[2] = s[2]
      BY <3>1, ConcatAt
    <3>3. (s \o t)[3] = t[3 - Len(s)] /\ (s \o t)[4] = t[4 - Len(s)]
      BY <3>1, ConcatAt
    <3> QED
      BY <3>1, <3>2, <3>3, Zenon
  <2> HIDE DEF S
  <2>3. /\ (<<a, b>> \o <<c, d>>)[1] = <<a, b>>[1] /\ (<<a, b>> \o <<c, d>>)[2] = <<a, b>>[2]
        /\ (<<a, b>> \o <<c, d>>)[3] = <<c, d>>[1] /\ (<<a, b>> \o <<c, d>>)[4] = <<c, d>>[2]
    BY <2>1, <2>2, Zenon
  <2> QED
    BY <2>3
<1> QED
  BY <1>2, <1>3, Zenon DEF Four, a, b, c, d

ThreeSum(a, b, c, d, e, f) ==
  (((0 * b + a * 1) * d + c * (1 * b)) * f + e * ((1 * b) * d)) * (3 * f * d * b)
    = (e * d * b + c * f * b + a * f * d) * (((1 * b) * d) * f * 3)

LEMMA SumOfThree ==
  ASSUME NEW a \in Int, NEW b \in Int, NEW c \in Int, NEW d \in Int, NEW e \in Int, NEW f \in Int
  PROVE  ThreeSum(a, b, c, d, e, f)
BY DEF ThreeSum

LEMMA OscillationRight ==
  ASSUME NEW f, NEW n \in Nat, Fed(f, n), f.kind = "STOCH",
         NEW bars, BarList(bars, n), Oscillates(f, n, bars), f.ready
  PROVE  ValueIsRight(f, bars)
<1> DEFINE w == f.window
           v == f.value
           k(i) == StochK(LastOf(FirstOf(bars, n - i), w))
           p == k(0)
           q == k(1)
           r == k(2)
           a == f.acc
           s == FractionSum(a)
           z == <<s[1], s[2] * SmoothWindow>>
<1>1. w \in Nat \ {0} /\ n >= w + 2 /\ IsSeq(a) /\ Len(a) = 3 /\ v = a[3] \o z
  <2>1. w \in Nat \ {0} /\ WarmUp(f.kind, w) = w + 3 - 1 /\ n >= WarmUp(f.kind, w)
    BY DEF Fed, Ripe, WarmUp, SmoothWindow
  <2>2. n >= w + 2 /\ ~(n < w) /\ ~(n - w + 1 < 3)
    BY <2>1
  <2>3. Holds(a, 3)
    BY <2>2 DEF Fed, Smoothed, Capped, SmoothWindow
  <2>4. v = a[3] \o z
    BY Zenon DEF Oscillates
  <2> QED
    BY <2>1, <2>2, <2>3, <2>4 DEF Holds
<1>2. a[1] = r /\ a[2] = q /\ a[3] = p
  <2>1. \A i \in 1..3 : a[i] = KList(bars, w)[n - 3 + i]
    BY <1>1 DEF Oscillates, EndOf
  <2>2. \A j \in 1..n : KList(bars, w)[j] = KAt(bars, w, j)
    BY StochLists
  <2>3. ASSUME NEW i \in 0..2 PROVE a[3 - i] = k(i)
    <3>1. n - 3 + (3 - i) = n - i /\ n - i \in 1..n /\ 3 - i \in 1..3
      BY <1>1
    <3>2. a[3 - i] = KAt(bars, w, n - i)
      BY <2>1, <2>2, <3>1
    <3> QED
      BY <3>2, Zenon DEF KAt
  <2>4. 0 \in 0..2 /\ 1 \in 0..2 /\ 2 \in 0..2 /\ 3 - 0 = 3 /\ 3 - 1 = 2 /\ 3 - 2 = 1
    OBVIOUS
  <2> HIDE DEF k
  <2>5. a[3 - 0] = k(0) /\ a[3 - 1] = k(1) /\ a[3 - 2] = k(2)
    BY <2>3, <2>4, Zenon
  <2> QED
    BY <2>4, <2>5, Zenon
<1>3. ASSUME NEW i \in 0..2
      PROVE  IsPair(k(i)) /\ k(i)[1] \in Int /\ k(i)[2] \in Int /\ k(i)[2] # 0 /\ Between(k(i), 0, 100)
  <2>1. n - i \in 0..n /\ w <= n - i
    BY <1>1
  <2>2. BarList(LastOf(FirstOf(bars, n - i), w), w)
    BY <1>1, <2>1, WindowBars
  <2> QED
    BY <1>1, <2>2, StochKType
<1>4. /\ IsPair(p) /\ p[1] \in Int /\ p[2] \in Int /\ Between(p, 0, 100)
      /\ q[1] \in Int /\ q[2] \in Int /\ r[1] \in Int /\ r[2] \in Int
  <2>1. 0 \in 0..2 /\ 1 \in 0..2 /\ 2 \in 0..2
    OBVIOUS
  <2> HIDE DEF k
  <2> QED
    BY <1>3, <2>1, Zenon
<1> HIDE DEF p, q, r, a, w
<1>5. v[1] = p[1] /\ v[2] = p[2] /\ v[3] = s[1] /\ v[4] = s[2] * 3
  <2>1. IsPair(z) /\ z[1] = s[1] /\ z[2] = s[2] * 3
    BY PairRight DEF SmoothWindow
  <2> HIDE DEF z, s, v
  <2>2. v = p \o z
    BY <1>1, <1>2, Zenon
  <2>3. Four(v, p, z)
    <3>1. Four(p \o z, p, z)
      BY <1>4, <2>1, JoinedAt
    <3> QED
      BY <2>2, <3>1, Zenon
  <2> QED
    BY <2>1, <2>3, Zenon DEF Four
<1>6. s = Plus(Plus(Plus(<<0, 1>>, r), q), p)
  <2>1. FractionSum(a) = Plus(Plus(Plus(<<0, 1>>, a[1]), a[2]), a[3])
    BY <1>1, ThreeFractions
  <2> QED
    BY <1>2, <2>1, Zenon
<1>7. /\ s[1] = ((0 * r[2] + r[1] * 1) * q[2] + q[1] * (1 * r[2])) * p[2] + p[1] * ((1 * r[2]) * q[2])
      /\ s[2] = ((1 * r[2]) * q[2]) * p[2]
  <2> DEFINE t1 == Plus(<<0, 1>>, r)
             t2 == Plus(t1, q)
  <2>1. t1[1] = 0 * r[2] + r[1] * 1 /\ t1[2] = 1 * r[2]
    BY DEF Plus
  <2>2. t2[1] = t1[1] * q[2] + q[1] * t1[2] /\ t2[2] = t1[2] * q[2]
    <3> HIDE DEF t1
    <3> QED
      BY DEF Plus
  <2>3. s[1] = t2[1] * p[2] + p[1] * t2[2] /\ s[2] = t2[2] * p[2]
    <3>1. s = Plus(t2, p)
      BY <1>6, Zenon
    <3> HIDE DEF t1, t2, s
    <3> QED
      BY <3>1 DEF Plus
  <2> HIDE DEF t1, t2, s
  <2> QED
    BY <2>1, <2>2, <2>3, Zenon
<1> HIDE DEF s, v
<1>8. Same(<<v[3], v[4]>>, p[1] * q[2] * r[2] + q[1] * p[2] * r[2] + r[1] * p[2] * q[2],
           3 * p[2] * q[2] * r[2])
  <2>1. s[1] * (3 * p[2] * q[2] * r[2])
          = (p[1] * q[2] * r[2] + q[1] * p[2] * r[2] + r[1] * p[2] * q[2]) * (s[2] * 3)
    <3>1. (((0 * r[2] + r[1] * 1) * q[2] + q[1] * (1 * r[2])) * p[2] + p[1] * ((1 * r[2]) * q[2]))
              * (3 * p[2] * q[2] * r[2])
            = (p[1] * q[2] * r[2] + q[1] * p[2] * r[2] + r[1] * p[2] * q[2])
              * (((1 * r[2]) * q[2]) * p[2] * 3)
      <4>1. ThreeSum(r[1], r[2], q[1], q[2], p[1], p[2])
        BY <1>4, SumOfThree
      <4> QED
        BY <4>1, Zenon DEF ThreeSum
    <3> QED
      BY <1>7, <3>1, Zenon
  <2> QED
    BY <1>5, <2>1 DEF Same
<1>9. Same(v, p[1], p[2]) /\ Between(v, 0, 100)
  <2>1. v[1] * p[2] = p[1] * v[2]
    BY <1>4, <1>5
  <2> QED
    BY <1>4, <1>5, <2>1, Zenon DEF Same, Between
<1>10. Len(bars) = n
  BY DEF BarList
<1> QED
  BY <1>8, <1>9, <1>10, Zenon DEF ValueIsRight, p, q, r, v, w


-----------------------------------------------------------------------------
(* The bands: a mean and a deviation *)

Banded(f, n, xs) ==
  n # 0 => /\ Averages(f.acc[1], n, xs) /\ Deviates(f.acc[2], n, xs)
           /\ f.ready => f.value = f.acc[1].value \o f.acc[2].value

LEMMA NothingEnds ==
  ASSUME NEW xs, NEW q, q = <<>>
  PROVE  EndOf(q, 0, xs)
<1>1. Len(q) = 0 /\ 0 <= 0 /\ 1..0 = {}
  OBVIOUS
<1> QED
  BY <1>1, Zenon DEF EndOf

LEMMA BandSeen ==
  ASSUME NEW f, NEW n \in Nat, Fed(f, n), f.kind = "BB",
         NEW xs, NEW ys, NEW bar, Chain(n, xs, ys, bar.close), Banded(f, n, xs)
  PROVE  Banded(UpdateBB(f, bar), n + 1, ys)
<1> DEFINE s == IF f.acc = <<>> THEN New("SMA", f.window) ELSE f.acc[1]
           d == IF f.acc = <<>> THEN New("STDDEV", f.window) ELSE f.acc[2]
           sma == UpdateSMA(s, bar)
           std == UpdateSTDDEV(d, bar)
           full == sma.ready /\ std.ready
           v == sma.value \o std.value
           a == <<sma, std>>
           g == UpdateBB(f, bar)
<1>1. f.window \in Nat \ {0} /\ Shape(f)
  BY DEF Fed, Ripe
<1>2. /\ Part(f, s, "SMA", n) /\ Part(f, d, "STDDEV", n)
      /\ Averages(s, n, xs) /\ Deviates(d, n, xs)
  <2>1. CASE n = 0
    <3>1. f.acc = <<>>
      BY <2>1 DEF Fed
    <3>2. "SMA" \in Kinds /\ "STDDEV" \in Kinds
      BY DEF Kinds
    <3>3. /\ s.kind = "SMA" /\ s.window = f.window /\ Ripe(s, 0) /\ Rolled(s, 0)
          /\ d.kind = "STDDEV" /\ d.window = f.window /\ Ripe(d, 0) /\ Rolled(d, 0)
      <4> DEFINE w == f.window
      <4>1. s = New("SMA", w) /\ d = New("STDDEV", w) /\ w \in Nat \ {0}
        BY <1>1, <3>1
      <4> HIDE DEF w
      <4>2. /\ New("SMA", w).kind = "SMA" /\ New("SMA", w).window = w
            /\ Ripe(New("SMA", w), 0) /\ Rolled(New("SMA", w), 0)
        BY <3>2, <4>1, NewFed
      <4>3. /\ New("STDDEV", w).kind = "STDDEV" /\ New("STDDEV", w).window = w
            /\ Ripe(New("STDDEV", w), 0) /\ Rolled(New("STDDEV", w), 0)
        BY <3>2, <4>1, NewFed
      <4> HIDE DEF s, d
      <4> QED
        BY <4>1, <4>2, <4>3, Zenon DEF w
    <3>4. /\ ~s.ready /\ ~d.ready
          /\ s.hist = <<>> /\ d.hist = <<>> /\ s.acc = <<>>
      BY <3>1 DEF New
    <3> HIDE DEF s, d
    <3>5. EndOf(s.hist, 0, xs) /\ EndOf(d.hist, 0, xs)
      BY <3>4, NothingEnds
    <3>6. Averages(s, 0, xs) /\ Deviates(d, 0, xs)
      BY <3>4, <3>5 DEF Averages, Deviates
    <3> QED
      BY <2>1, <3>3, <3>4, <3>6 DEF Part
  <2>2. CASE n # 0
    <3>1. IsPair(f.acc) /\ Part(f, f.acc[1], "SMA", n) /\ Part(f, f.acc[2], "STDDEV", n)
      BY <2>2 DEF Fed
    <3>2. f.acc # <<>>
      BY <3>1, PairRight DEF IsPair, None
    <3>3. Averages(f.acc[1], n, xs) /\ Deviates(f.acc[2], n, xs)
      BY <2>2 DEF Banded
    <3> QED
      BY <3>1, <3>2, <3>3, Zenon
  <2> QED
    BY <2>1, <2>2
<1>3. Ints(xs, n) /\ Grown(n, xs, ys, bar.close) /\ bar.close \in Int
  BY DEF Chain
<1> HIDE DEF s, d
<1>4. /\ Ripe(s, n) /\ Rolled(s, n) /\ s.kind = "SMA"
      /\ Ripe(d, n) /\ Rolled(d, n) /\ d.kind = "STDDEV"
  BY <1>2 DEF Part
<1>5. Averages(sma, n + 1, ys)
  <2>1. s.kind \in {"SMA", "VOL_SMA"}
    BY <1>4
  <2>2. Averages(Roll(s, bar.close), n + 1, ys)
    BY <1>2, <1>3, <1>4, <2>1, RollSeen
  <2> QED
    BY <2>2, Zenon DEF UpdateSMA
<1>6. Deviates(std, n + 1, ys)
  BY <1>2, <1>3, <1>4, DeviateSeen
<1>7. g = Settle([f EXCEPT !.acc = a], full, v)
  BY Zenon DEF UpdateBB, s, d
<1> HIDE DEF sma, std, g
<1>8. Settled(f, g, f.hist, a, full, v)
  <2> HIDE DEF v, full
  <2> QED
    BY <1>1, <1>7, SettleAcc, Zenon
<1>9. g.acc = a /\ (g.ready => g.value = v)
  <2> HIDE DEF v, full, a
  <2> QED
    BY <1>8 DEF Settled
<1>10. g.acc[1] = sma /\ g.acc[2] = std
  BY <1>9
<1>11. Banded(g, n + 1, ys)
  BY <1>5, <1>6, <1>9, <1>10, Zenon DEF Banded
<1> QED
  BY <1>11, Zenon DEF g

-----------------------------------------------------------------------------
(* What an instance has seen of a list of bars *)

Bought(bars) == [i \in DOMAIN bars |-> Trade(bars[i])]

LEMMA BoughtAt ==
  ASSUME NEW n \in Nat, NEW bars, BarList(bars, n)
  PROVE  /\ IsSeq(Bought(bars)) /\ IntPairs(Bought(bars), n)
         /\ \A i \in 1..n : Bought(bars)[i] = Trade(bars[i])
<1> DEFINE r == Bought(bars)
<1>1. DOMAIN bars = 1..n /\ IsSeq(bars) /\ Len(bars) = n /\ \A i \in 1..n : IsBar(bars[i])
  BY SeqDomain DEF BarList
<1>2. r = [i \in DOMAIN bars |-> r[i]] /\ \A i \in DOMAIN bars : r[i] = Trade(bars[i])
  BY DEF Bought
<1> HIDE DEF r
<1>3. IsSeq(r) /\ Len(r) = n
  BY <1>1, <1>2, MappedSeq
<1>4. ASSUME NEW b, IsBar(b) PROVE Trade(b)[1] \in Int /\ Trade(b)[2] \in Int
  BY <1>4 DEF Trade, IsBar
<1>5. \A i \in 1..n : r[i] = Trade(bars[i]) /\ r[i][1] \in Int /\ r[i][2] \in Int
  <2> TAKE i \in 1..n
  <2>1. r[i] = Trade(bars[i]) /\ IsBar(bars[i])
    BY <1>1, <1>2
  <2> QED
    BY <1>4, <2>1
<1> QED
  BY <1>3, <1>5 DEF IntPairs, r

LEMMA BoughtGrown ==
  ASSUME NEW n \in Nat, NEW bars, BarList(bars, n), NEW bar, IsBar(bar), NEW all, all = Append(bars, bar)
  PROVE  Grown(n, Bought(bars), Bought(all), Trade(bar))
<1>1. BarList(all, n + 1) /\ Grown(n, bars, all, bar)
  BY MoreBars
<1>2. all[n + 1] = bar /\ \A i \in 1..n : all[i] = bars[i]
  BY <1>1 DEF Grown
<1>3. PICK m \in Nat : m = n + 1
  OBVIOUS
<1>4. m \in 1..m /\ \A i \in 1..n : i \in 1..m
  BY <1>3
<1>5. \A i \in 1..m : Bought(all)[i] = Trade(all[i])
  BY <1>1, <1>3, BoughtAt
<1>6. \A i \in 1..n : Bought(bars)[i] = Trade(bars[i])
  BY BoughtAt
<1>7. \A i \in 1..n : Bought(all)[i] = Bought(bars)[i]
  BY <1>2, <1>4, <1>5, <1>6
<1>8. Bought(all)[m] = Trade(all[m]) /\ all[m] = bar
  BY <1>2, <1>3, <1>4, <1>5
<1> QED
  BY <1>3, <1>7, <1>8 DEF Grown

Saw(f, n, bars) ==
  /\ f.kind = "SMA"     => Averages(f, n, Closes(bars))
  /\ f.kind = "VOL_SMA" => Averages(f, n, Volumes(bars))
  /\ f.kind = "VWAP"    => Weighs(f, n, Bought(bars))
  /\ f.kind = "STDDEV"  => Deviates(f, n, Closes(bars))
  /\ f.kind = "BB"      => Banded(f, n, Closes(bars))
  /\ f.kind = "EMA"     => Smooths(f, n, Closes(bars))
  /\ f.kind = "ATR"     => Ranged(f, n, bars)
  /\ f.kind = "RSI"     => Shares(f, n, Closes(bars))
  /\ f.kind = "ROC"     => Recalls(f, n, Closes(bars))
  /\ f.kind = "STOCH"   => Oscillates(f, n, bars)
  /\ f.kind = "OBV"     => Accumulated(f, n, bars)

\* One bar more.
LEMMA UpdateSaw ==
  ASSUME NEW f, NEW n \in Nat, Fed(f, n), NEW bars, BarList(bars, n), Saw(f, n, bars),
         NEW bar, IsBar(bar), NEW all, all = Append(bars, bar)
  PROVE  Saw(Update(f, bar), n + 1, all)
<1> DEFINE g == Update(f, bar)
<1>1. f.kind \in Kinds /\ g.kind = f.kind
  BY UpdateFed DEF Fed, Ripe
<1>2. f.kind \in Plain => Ripe(f, n) /\ Rolled(f, n)
  BY DEF Fed, Plain
<1>3. Chain(n, Closes(bars), Closes(all), bar.close) /\ Chain(n, Volumes(bars), Volumes(all), bar.volume)
  BY BarChains
<1>4. /\ Ints(Closes(bars), n) /\ Grown(n, Closes(bars), Closes(all), bar.close) /\ bar.close \in Int
      /\ Ints(Volumes(bars), n) /\ Grown(n, Volumes(bars), Volumes(all), bar.volume) /\ bar.volume \in Int
  BY <1>3 DEF Chain
<1>5. CASE f.kind = "SMA"
  <2>1. g = Roll(f, bar.close) /\ f.kind \in Plain /\ f.kind \in {"SMA", "VOL_SMA"}
    BY <1>5 DEF Update, UpdateSMA, Plain
  <2>2. Averages(f, n, Closes(bars))
    BY <1>5, Zenon DEF Saw
  <2>3. Averages(g, n + 1, Closes(all))
    BY <1>2, <1>4, <2>1, <2>2, RollSeen
  <2> HIDE DEF g
  <2> QED
    BY <1>1, <1>5, <2>3 DEF Saw, g
<1>6. CASE f.kind = "VOL_SMA"
  <2>1. g = Roll(f, bar.volume) /\ f.kind \in Plain /\ f.kind \in {"SMA", "VOL_SMA"}
    BY <1>6 DEF Update, UpdateVolSMA, Plain
  <2>2. Averages(f, n, Volumes(bars))
    BY <1>6, Zenon DEF Saw
  <2>3. Averages(g, n + 1, Volumes(all))
    BY <1>2, <1>4, <2>1, <2>2, RollSeen
  <2> HIDE DEF g
  <2> QED
    BY <1>1, <1>6, <2>3 DEF Saw, g
<1>7. CASE f.kind = "VWAP"
  <2>1. g = UpdateVWAP(f, bar) /\ f.kind \in Plain
    BY <1>7 DEF Update, Plain
  <2>2. Weighs(f, n, Bought(bars)) /\ IntPairs(Bought(bars), n)
    BY <1>7, BoughtAt, Zenon DEF Saw
  <2>3. Trade(bar)[1] \in Int /\ Trade(bar)[2] \in Int
    BY DEF Trade, IsBar
  <2>4. Grown(n, Bought(bars), Bought(all), Trade(bar))
    BY BoughtGrown
  <2>5. Weighs(UpdateVWAP(f, bar), n + 1, Bought(all))
    BY <1>2, <1>7, <2>1, <2>2, <2>3, <2>4, WeighSeen
  <2> HIDE DEF g
  <2> QED
    BY <1>1, <1>7, <2>1, <2>5 DEF Saw, g
<1>8. CASE f.kind = "STDDEV"
  <2>1. g = UpdateSTDDEV(f, bar) /\ f.kind \in Plain
    BY <1>8 DEF Update, Plain
  <2>2. Deviates(f, n, Closes(bars))
    BY <1>8, Zenon DEF Saw
  <2>3. Deviates(UpdateSTDDEV(f, bar), n + 1, Closes(all))
    BY <1>2, <1>4, <1>8, <2>1, <2>2, DeviateSeen
  <2> HIDE DEF g
  <2> QED
    BY <1>1, <1>8, <2>1, <2>3 DEF Saw, g
<1>9. CASE f.kind = "BB"
  <2>1. g = UpdateBB(f, bar) /\ Banded(f, n, Closes(bars))
    BY <1>9 DEF Update, Saw
  <2>2. Banded(UpdateBB(f, bar), n + 1, Closes(all))
    BY <1>3, <1>9, <2>1, BandSeen
  <2> HIDE DEF g
  <2> QED
    BY <1>1, <1>9, <2>1, <2>2 DEF Saw, g
<1>10. CASE f.kind = "EMA"
  <2>1. g = UpdateEMA(f, bar) /\ Smooths(f, n, Closes(bars))
    BY <1>10 DEF Update, Saw
  <2>2. Smooths(UpdateEMA(f, bar), n + 1, Closes(all))
    BY <1>3, <1>10, <2>1, SmoothSeen
  <2> HIDE DEF g
  <2> QED
    BY <1>1, <1>10, <2>1, <2>2 DEF Saw, g
<1>11. CASE f.kind = "ATR"
  <2>1. g = UpdateATR(f, bar) /\ Ranged(f, n, bars)
    BY <1>11 DEF Update, Saw
  <2>2. Ranged(UpdateATR(f, bar), n + 1, all)
    BY <1>11, <2>1, RangedSeen
  <2> HIDE DEF g
  <2> QED
    BY <1>1, <1>11, <2>1, <2>2 DEF Saw, g
<1>12. CASE f.kind = "RSI"
  <2>1. g = UpdateRSI(f, bar) /\ Shares(f, n, Closes(bars))
    BY <1>12 DEF Update, Saw
  <2>2. Shares(UpdateRSI(f, bar), n + 1, Closes(all))
    BY <1>3, <1>12, <2>1, ShareSeen
  <2> HIDE DEF g
  <2> QED
    BY <1>1, <1>12, <2>1, <2>2 DEF Saw, g
<1>13. CASE f.kind = "ROC"
  <2>1. g = UpdateROC(f, bar) /\ Recalls(f, n, Closes(bars))
    BY <1>13 DEF Update, Saw
  <2>2. Recalls(UpdateROC(f, bar), n + 1, Closes(all))
    BY <1>4, <1>13, <2>1, RecallSeen
  <2> HIDE DEF g
  <2> QED
    BY <1>1, <1>13, <2>1, <2>2 DEF Saw, g
<1>14. CASE f.kind = "STOCH"
  <2>1. g = UpdateSTOCH(f, bar) /\ Oscillates(f, n, bars)
    BY <1>14 DEF Update, Saw
  <2>2. Oscillates(UpdateSTOCH(f, bar), n + 1, all)
    BY <1>14, <2>1, OscillateSeen
  <2> HIDE DEF g
  <2> QED
    BY <1>1, <1>14, <2>1, <2>2 DEF Saw, g
<1>15. CASE f.kind = "OBV"
  <2>1. g = UpdateOBV(f, bar) /\ Accumulated(f, n, bars)
    BY <1>15 DEF Update, Saw
  <2>2. Accumulated(UpdateOBV(f, bar), n + 1, all)
    BY <1>15, <2>1, AccumulateSeen
  <2> HIDE DEF g
  <2> QED
    BY <1>1, <1>15, <2>1, <2>2 DEF Saw, g
<1> QED
  BY <1>1, <1>5, <1>6, <1>7, <1>8, <1>9, <1>10, <1>11, <1>12, <1>13, <1>14, <1>15 DEF Kinds


LEMMA NewSaw ==
  ASSUME NEW kind \in Kinds, NEW window \in Nat \ {0}, NEW bars
  PROVE  Saw(New(kind, window), 0, bars)
<1> DEFINE f == New(kind, window)
<1>1. /\ f.kind = kind /\ f.hist = <<>> /\ f.acc = <<>> /\ f.ready = FALSE /\ f.window = window
  BY DEF New
<1> HIDE DEF f
<1>2. \A xs : EndOf(<<>>, 0, xs)
  BY NothingEnds
<1>3. \A xs : Averages(f, 0, xs) /\ Deviates(f, 0, xs) /\ Weighs(f, 0, xs) /\ Smooths(f, 0, xs)
              /\ Recalls(f, 0, xs) /\ Banded(f, 0, xs)
  BY <1>1, <1>2 DEF Averages, Deviates, Weighs, Smooths, Recalls, Banded
<1>4. Shares(f, 0, Closes(bars))
  <2>1. EndOf(f.hist, 0, Closes(bars)) /\ ~(0 # 0) /\ ~(0 > f.window) /\ ~f.ready
    BY <1>1, <1>2
  <2> QED
    BY <2>1, Zenon DEF Shares
<1>5. Oscillates(f, 0, bars)
  BY <1>1, <1>2 DEF Oscillates
<1>6. Accumulated(f, 0, bars)
  BY <1>1 DEF Accumulated
<1>7. Ranged(f, 0, bars)
  <2>1. Len(f.hist) = 0 /\ 1..0 = {}
    BY <1>1
  <2> QED
    BY <1>1, <2>1 DEF Ranged
<1> QED
  BY <1>3, <1>4, <1>5, <1>6, <1>7, Zenon DEF Saw, f

-----------------------------------------------------------------------------
(* And what it has seen makes its value right *)

LEMMA SamePair == \A n, d : Same(<<n, d>>, n, d)
BY DEF Same

LEMMA VWAPRight ==
  ASSUME NEW f, NEW n \in Nat, Fed(f, n), f.kind = "VWAP",
         NEW bars, BarList(bars, n), Weighs(f, n, Bought(bars)), f.ready
  PROVE  ValueIsRight(f, bars)
<1> DEFINE w == f.window
           l == LastOf(bars, w)
           b == LastOf(Bought(bars), w)
           t == Turnover(l)
           v == Volumes(l)
<1>1. w \in Nat \ {0} /\ w <= n /\ Ripe(f, n) /\ Rolled(f, n)
  BY DEF Fed, Ripe, WarmUp
<1>2. /\ IsSeq(Bought(bars)) /\ IntPairs(Bought(bars), n) /\ Len(Bought(bars)) = n
      /\ \A i \in 1..n : Bought(bars)[i] = Trade(bars[i])
  BY BoughtAt DEF IntPairs
<1>3. IsSeq(bars) /\ Len(bars) = n /\ \A i \in 1..n : IsBar(bars[i])
  BY DEF BarList
<1>4. IsSeq(l) /\ Len(l) = w /\ \A i \in 1..w : l[i] = bars[n - w + i]
  BY <1>1, <1>3, LastOfAt
<1>5. IsSeq(b) /\ Len(b) = w /\ \A i \in 1..w : b[i] = Bought(bars)[n - w + i]
  BY <1>1, <1>2, LastOfAt
<1> HIDE DEF l, b
<1>6. ASSUME NEW i \in 1..w PROVE b[i] = Trade(l[i]) /\ IsBar(l[i])
  <2>1. n - w + i \in 1..n
    BY <1>1
  <2> QED
    BY <1>2, <1>3, <1>4, <1>5, <2>1
<1>7. BarList(l, w)
  BY <1>4, <1>6 DEF BarList
<1>8. IsSeq(v) /\ Len(v) = w /\ \A i \in 1..w : v[i] = l[i].volume
  BY <1>1, <1>7, VolumesAt DEF Ints
<1>9. IsSeq(t) /\ Len(t) = w /\ \A i \in 1..w : t[i] = (l[i].high + l[i].low + l[i].close) * l[i].volume
  <2>1. DOMAIN l = 1..w
    BY <1>4, SeqDomain
  <2>2. t = [i \in DOMAIN l |-> t[i]]
        /\ \A i \in DOMAIN l : t[i] = (l[i].high + l[i].low + l[i].close) * l[i].volume
    BY DEF Turnover
  <2> HIDE DEF t
  <2>3. IsSeq(t) /\ Len(t) = w
    BY <1>1, <1>4, <2>2, MappedSeq
  <2> QED
    BY <2>1, <2>2, <2>3
<1> HIDE DEF t, v
<1>10. Parts(b, 1) = t /\ Parts(b, 2) = v
  <2>1. \A j : /\ IsSeq(Parts(b, j)) /\ Len(Parts(b, j)) = w
               /\ \A i \in 1..w : Parts(b, j)[i] = b[i][j]
    BY <1>5, PartsAt
  <2>2. \A i \in 1..w : Parts(b, 1)[i] = t[i] /\ Parts(b, 2)[i] = v[i]
    <3> TAKE i \in 1..w
    <3>1. b[i][1] = t[i] /\ b[i][2] = v[i]
      BY <1>6, <1>8, <1>9 DEF Trade
    <3> QED
      BY <2>1, <3>1
  <2> QED
    BY <1>8, <1>9, <2>1, <2>2, SeqSame
<1>11. Total(v) > 0 => f.value = <<Total(t), 3 * Total(v)>>
  BY <1>1, <1>2, <1>10, WeightedRight DEF b
<1>12. Total(v) > 0 => Same(f.value, Total(t), 3 * Total(v))
  BY <1>11, SamePair
<1> QED
  BY <1>12, Zenon DEF ValueIsRight, l, t, v

LEMMA BandsRight ==
  ASSUME NEW f, NEW n \in Nat, Fed(f, n), f.kind = "BB",
         NEW bars, BarList(bars, n), Banded(f, n, Closes(bars)), f.ready
  PROVE  ValueIsRight(f, bars)
<1> DEFINE w == f.window
           c == Closes(bars)
           s == f.acc[1]
           d == f.acc[2]
           t == Total(LastOf(c, w))
           u == Spread(LastOf(c, w))
<1>1. w \in Nat \ {0} /\ w <= n /\ n # 0
  BY DEF Fed, Ripe, WarmUp
<1>2. /\ Averages(s, n, c) /\ Deviates(d, n, c) /\ f.value = s.value \o d.value
      /\ Part(f, s, "SMA", n) /\ Part(f, d, "STDDEV", n)
  BY <1>1 DEF Banded, Fed
<1>3. IsSeq(c) /\ Ints(c, n)
  BY ClosesAt
<1> HIDE DEF c, s, d
<1>4. /\ s.kind = "SMA" /\ s.window = w /\ Ripe(s, n) /\ Rolled(s, n)
      /\ d.kind = "STDDEV" /\ d.window = w /\ Ripe(d, n) /\ Rolled(d, n)
  BY <1>2 DEF Part
<1>5. s.ready /\ d.ready
  BY <1>1, <1>4 DEF Ripe, WarmUp
<1>6. s.value = <<t, w>>
  <2>1. s.kind \in {"SMA", "VOL_SMA"}
    BY <1>4
  <2>2. s.value = <<Total(LastOf(c, s.window)), s.window>>
    BY <1>2, <1>3, <1>4, <1>5, <2>1, MeanRight
  <2> QED
    BY <1>4, <2>2, Zenon
<1>7. d.value = <<u, w * w>>
  <2>2. d.value = <<Spread(LastOf(c, d.window)), d.window * d.window>>
    BY <1>2, <1>3, <1>4, <1>5, DeviationRight
  <2> QED
    BY <1>4, <2>2, Zenon
<1> DEFINE p == <<t, w>>
           q == <<u, w * w>>
           v == f.value
<1>8. Four(v, p, q)
  <2>1. IsPair(p) /\ IsPair(q)
    BY PairRight
  <2> HIDE DEF p, q
  <2>2. Four(p \o q, p, q)
    BY <2>1, JoinedAt
  <2> QED
    BY <1>2, <1>6, <1>7, <2>2, Zenon DEF p, q
<1>9. v[1] = t /\ v[2] = w /\ v[3] = u /\ v[4] = w * w
  <2>1. p[1] = t /\ p[2] = w /\ q[1] = u /\ q[2] = w * w
    OBVIOUS
  <2> QED
    BY <1>8, <2>1, Zenon DEF Four
<1>10. Same(v, t, w)
  BY <1>9, Zenon DEF Same
<1>11. Same(<<v[3], v[4]>>, u, w * w)
  BY <1>9, SamePair, Zenon
<1> QED
  BY <1>10, <1>11, Zenon DEF ValueIsRight, c

LEMMA SawRight ==
  ASSUME NEW f, NEW n \in Nat, Fed(f, n), NEW bars, BarList(bars, n), Saw(f, n, bars), f.ready
  PROVE  ValueIsRight(f, bars)
<1> DEFINE w == f.window
           v == f.value
           c == Closes(bars)
           vs == Volumes(bars)
<1>1. f.kind \in Kinds /\ w \in Nat \ {0} /\ n >= WarmUp(f.kind, w) /\ Ripe(f, n)
  BY DEF Fed, Ripe
<1>2. f.kind \in Plain => Rolled(f, n)
  BY DEF Fed, Plain
<1>3. IsSeq(c) /\ Ints(c, n) /\ IsSeq(vs) /\ Ints(vs, n) /\ Len(bars) = n
  BY ClosesAt, VolumesAt DEF BarList
<1> HIDE DEF c, vs
<1>4. CASE f.kind = "SMA"
  <2>1. f.kind \in Plain /\ f.kind \in {"SMA", "VOL_SMA"} /\ Averages(f, n, c)
    BY <1>4, Zenon DEF Saw, Plain, c
  <2>2. v = <<Total(LastOf(c, w)), w>>
    BY <1>1, <1>2, <1>3, <2>1, MeanRight
  <2>3. Same(v, Total(LastOf(c, w)), w)
    BY <2>2, SamePair, Zenon
  <2> QED
    BY <1>4, <2>3, Zenon DEF ValueIsRight, c
<1>5. CASE f.kind = "VOL_SMA"
  <2>1. f.kind \in Plain /\ f.kind \in {"SMA", "VOL_SMA"} /\ Averages(f, n, vs)
    BY <1>5, Zenon DEF Saw, Plain, vs
  <2>2. v = <<Total(LastOf(vs, w)), w>>
    BY <1>1, <1>2, <1>3, <2>1, MeanRight
  <2>3. Same(v, Total(LastOf(vs, w)), w)
    BY <2>2, SamePair, Zenon
  <2> QED
    BY <1>5, <2>3, Zenon DEF ValueIsRight, vs
<1>6. CASE f.kind = "VWAP"
  <2>1. Weighs(f, n, Bought(bars))
    BY <1>6, Zenon DEF Saw
  <2> QED
    BY <1>6, <2>1, VWAPRight
<1>7. CASE f.kind = "STDDEV"
  <2>1. f.kind \in Plain /\ Deviates(f, n, c)
    BY <1>7, Zenon DEF Saw, Plain, c
  <2>2. v = <<Spread(LastOf(c, w)), w * w>>
    BY <1>1, <1>2, <1>3, <1>7, <2>1, DeviationRight
  <2>3. Same(v, Spread(LastOf(c, w)), w * w)
    BY <2>2, SamePair, Zenon
  <2> QED
    BY <1>7, <2>3, Zenon DEF ValueIsRight, c
<1>8. CASE f.kind = "BB"
  <2>1. Banded(f, n, Closes(bars))
    BY <1>8, Zenon DEF Saw
  <2> QED
    BY <1>8, <2>1, BandsRight
<1>9. CASE f.kind = "EMA"
  <2>1. v = Level(c, n, w, 2, w + 1)
    BY <1>9, Zenon DEF Saw, Smooths, c
  <2>2. Same(v, Blend(c, w, w - 1, 2, w + 1), w * Power(w + 1, n - w))
    BY <2>1, SamePair, Zenon DEF Level
  <2> QED
    BY <1>3, <1>9, <2>2, Zenon DEF ValueIsRight, c
<1>10. CASE f.kind = "ATR"
  <2>1. v = Level(Ranges(bars), n, w, 1, w)
    BY <1>10, Zenon DEF Saw, Ranged
  <2>2. Same(v, Blend(Ranges(bars), w, w - 1, 1, w), w * Power(w, n - w))
    BY <2>1, SamePair, Zenon DEF Level
  <2> QED
    BY <1>3, <1>10, <2>2, Zenon DEF ValueIsRight
<1>11. CASE f.kind = "RSI"
  <2> DEFINE g == Blend(Gains(c), w, w - 1, 1, w)
             l == Blend(Losses(c), w, w - 1, 1, w)
             u1 == Level(Gains(c), n - 1, w, 1, w)
             u2 == Level(Losses(c), n - 1, w, 1, w)
  <2>1. n > w
    BY <1>1, <1>11 DEF WarmUp
  <2>2. f.acc = <<u1[1], u2[1], u1[2]>> /\ v = RSIValue(f.acc[1], f.acc[2])
    BY <1>11, <2>1, Zenon DEF Saw, Shares, c
  <2>3. f.acc[1] = u1[1] /\ f.acc[2] = u2[1]
    <3> HIDE DEF u1, u2
    <3> QED
      BY <2>2
  <2>4. u1[1] = g /\ u2[1] = l
    BY DEF Level
  <2>5. v = IF l = 0 THEN <<100, 1>> ELSE <<100 * g, g + l>>
    BY <2>2, <2>3, <2>4, Zenon DEF RSIValue
  <2> HIDE DEF g, l
  <2>6. IF l = 0 THEN Same(v, 100, 1) ELSE Same(v, 100 * g, g + l)
    BY <2>5, SamePair, Zenon
  <2> QED
    BY <1>11, <2>6, Zenon DEF ValueIsRight, c, g, l
<1>12. CASE f.kind = "ROC"
  <2> DEFINE past == c[n - w]
             now == c[n]
  <2>1. Recalls(f, n, c)
    BY <1>12, Zenon DEF Saw, c
  <2>2. v = IF past # 0 THEN <<100 * (now - past), past>> ELSE <<0, 1>>
    BY <1>3, <1>12, <2>1, ChangeRight
  <2> HIDE DEF past, now
  <2>3. IF past = 0 THEN v[1] = 0 ELSE Same(v, 100 * (now - past), past)
    <3>1. CASE past = 0
      <4>1. v = <<0, 1>>
        BY <2>2, <3>1
      <4> QED
        BY <3>1, <4>1
    <3>2. CASE past # 0
      BY <2>2, <3>2, SamePair, Zenon
    <3> QED
      BY <3>1, <3>2
  <2> QED
    BY <1>3, <1>12, <2>3, Zenon DEF ValueIsRight, c, past, now
<1>13. CASE f.kind = "STOCH"
  <2>1. Oscillates(f, n, bars)
    BY <1>13, Zenon DEF Saw
  <2> QED
    BY <1>13, <2>1, OscillationRight
<1>14. CASE f.kind = "OBV"
  <2>1. n # 0
    BY <1>1, <1>14 DEF WarmUp
  <2>2. v = <<Total(Flows(bars)), 1>>
    BY <1>14, <2>1, Zenon DEF Saw, Accumulated
  <2>3. Same(v, Total(Flows(bars)), 1)
    BY <2>2, SamePair, Zenon
  <2> QED
    BY <1>14, <2>3, Zenon DEF ValueIsRight
<1> QED
  BY <1>1, <1>4, <1>5, <1>6, <1>7, <1>8, <1>9, <1>10, <1>11, <1>12, <1>13, <1>14 DEF Kinds

-----------------------------------------------------------------------------
(* The bars of each instance, and what it has seen of them *)

LEMMA BarType == \A bar \in Bars : IsBar(bar)
BY BarAssumption DEF IsBar

SawBars ==
  /\ \A i \in 1..Len(candles) : IsBar(candles[i].bar)
  /\ \A i \in 1..Len(seen) : IsBar(seen[i])
  /\ \A i \in 1..Len(features) : Saw(features[i], Age(i), BarsOf(i))

\* The bars since an instance was attached.
LEMMA SinceThen ==
  ASSUME NEW q, IsSeq(q), \A i \in 1..Len(q) : IsBar(q[i]), NEW k \in 0..Len(q)
  PROVE  BarList(Beyond(q, k), Len(q) - k)
<1> DEFINE n == Len(q)
           r == Beyond(q, k)
<1>1. n \in Nat /\ k \in Nat /\ k <= n
  BY SeqDomain
<1>2. IsSeq(r) /\ Len(r) = n - k /\ \A i \in 1..(n - k) : r[i] = q[k + i]
  BY <1>1, BeyondAt
<1> HIDE DEF r
<1>3. \A i \in 1..(n - k) : k + i \in 1..n
  BY <1>1
<1>4. \A i \in 1..(n - k) : IsBar(r[i])
  BY <1>2, <1>3
<1> QED
  BY <1>2, <1>4 DEF BarList, r

LEMMA OneMoreSince ==
  ASSUME NEW q, IsSeq(q), NEW k \in 0..Len(q), NEW bar, NEW p, p = Append(q, bar)
  PROVE  Beyond(p, k) = Append(Beyond(q, k), bar)
<1> DEFINE n == Len(q)
           r == Beyond(q, k)
           s == Beyond(p, k)
           t == Append(r, bar)
<1>1. n \in Nat /\ k \in Nat /\ k <= n
  BY SeqDomain
<1>2. IsSeq(p) /\ Len(p) = n + 1 /\ (\A i \in 1..n : p[i] = q[i]) /\ p[n + 1] = bar
  BY SeqAppend
<1>3. IsSeq(r) /\ Len(r) = n - k /\ \A i \in 1..(n - k) : r[i] = q[k + i]
  BY <1>1, BeyondAt
<1>4. k <= Len(p)
  BY <1>1, <1>2
<1>5. IsSeq(s) /\ Len(s) = Len(p) - k /\ \A i \in 1..(Len(p) - k) : s[i] = p[k + i]
  BY <1>1, <1>2, <1>4, BeyondAt
<1> HIDE DEF r, s
<1>6. IsSeq(t) /\ Len(t) = Len(r) + 1 /\ (\A i \in 1..Len(r) : t[i] = r[i]) /\ t[Len(r) + 1] = bar
  BY <1>3, SeqAppend
<1> HIDE DEF t
<1>7. Len(t) = (n - k) + 1 /\ Len(s) = (n - k) + 1 /\ Len(p) - k = (n - k) + 1
  BY <1>1, <1>2, <1>3, <1>5, <1>6
<1>8. ASSUME NEW i \in 1..Len(t) PROVE s[i] = t[i]
  <2>1. i \in 1..(Len(p) - k) /\ s[i] = p[k + i]
    BY <1>5, <1>7
  <2>2. CASE i = (n - k) + 1
    <3>1. k + i = n + 1
      BY <1>1, <2>2
    <3>2. t[i] = bar
      BY <1>3, <1>6, <2>2
    <3> QED
      BY <1>2, <2>1, <3>1, <3>2
  <2>3. CASE i # (n - k) + 1
    <3>1. i \in 1..(n - k) /\ k + i \in 1..n
      BY <1>1, <1>7, <2>3
    <3>2. t[i] = r[i] /\ r[i] = q[k + i]
      BY <1>3, <1>6, <3>1
    <3> QED
      BY <1>2, <2>1, <3>1, <3>2
  <2> QED
    BY <2>2, <2>3
<1>9. s = t
  <2>1. Len(s) = Len(t)
    BY <1>7
  <2> QED
    BY <1>5, <1>6, <1>8, <2>1, SeqSame
<1> QED
  BY <1>9 DEF s, t, r

LEMMA BarsKnown ==
  ASSUME FeatureInv, SawBars, NEW i \in 1..Len(features)
  PROVE  /\ Age(i) \in Nat /\ Fed(features[i], Age(i)) /\ BarList(BarsOf(i), Age(i))
         /\ Saw(features[i], Age(i), BarsOf(i))
<1>1. Age(i) \in Nat
  BY AgeType
<1>2. IsSeq(seen) /\ since[i] \in 0..Len(seen) /\ Fed(features[i], Age(i))
  BY DEF FeatureInv
<1>3. \A j \in 1..Len(seen) : IsBar(seen[j])
  BY DEF SawBars
<1>4. BarList(Beyond(seen, since[i]), Len(seen) - since[i])
  BY <1>2, <1>3, SinceThen
<1>5. BarList(BarsOf(i), Age(i))
  BY <1>4, Zenon DEF BarsOf, Age, Beyond
<1> QED
  BY <1>1, <1>2, <1>5 DEF SawBars

LEMMA InitSaw == Init => SawBars
<1> SUFFICES ASSUME Init PROVE SawBars
  OBVIOUS
<1> DEFINE n == Len(AtStart)
<1>1. n \in Nat /\ DOMAIN AtStart = 1..n /\ \A i \in 1..n : AtStart[i] \in Kinds \X (Nat \ {0})
  BY SignalAssumption
<1> HIDE DEF n
<1>2. /\ features = [i \in 1..n |-> New(AtStart[i][1], AtStart[i][2])]
      /\ since = [i \in 1..n |-> 0] /\ seen = <<>> /\ candles = <<>>
  BY <1>1, Zenon DEF Init
<1>3. Len(features) = n
  BY <1>1, <1>2, FunSeq
<1>4. Len(seen) = 0 /\ Len(candles) = 0
  BY <1>2
<1>5. ASSUME NEW i \in 1..n PROVE Saw(features[i], Age(i), BarsOf(i))
  <2>1. AtStart[i][1] \in Kinds /\ AtStart[i][2] \in Nat \ {0}
    BY <1>1
  <2>2. features[i] = New(AtStart[i][1], AtStart[i][2]) /\ since[i] = 0
    BY <1>2
  <2>3. Age(i) = 0
    BY <1>4, <2>2 DEF Age
  <2> QED
    BY <2>1, <2>2, <2>3, NewSaw
<1> QED
  BY <1>3, <1>4, <1>5 DEF SawBars

\* A closed bar, and every instance has it.
LEMMA BarSeen ==
  ASSUME FeatureInv, SawBars, NEW bar, IsBar(bar), seen' = Append(seen, bar), since' = since,
         features' = [i \in DOMAIN features |-> Update(features[i], bar)]
  PROVE  /\ \A i \in 1..Len(seen') : IsBar(seen'[i])
         /\ \A i \in 1..Len(features') : Saw(features'[i], Age(i)', BarsOf(i)')
<1> DEFINE n == Len(features)
<1>1. DOMAIN features = 1..n
  BY SeqDomain DEF FeatureInv
<1>2. /\ Len(features') = n /\ Len(seen') = Len(seen) + 1
      /\ \A i \in 1..n : Age(i)' = Age(i) + 1
  BY FeaturesFed
<1>3. IsSeq(seen) /\ \A i \in 1..Len(seen) : IsBar(seen[i])
  BY DEF FeatureInv, SawBars
<1>4. ASSUME NEW i \in 1..Len(seen') PROVE IsBar(seen'[i])
  <2>1. Len(seen) \in Nat
    BY <1>3, SeqDomain
  <2>2. (\A j \in 1..Len(seen) : seen'[j] = seen[j]) /\ seen'[Len(seen) + 1] = bar
    BY <1>3, SeqAppend
  <2>3. i \in 1..Len(seen) \/ i = Len(seen) + 1
    BY <1>2, <2>1
  <2> QED
    BY <1>3, <2>2, <2>3
<1>5. ASSUME NEW i \in 1..n PROVE Saw(features'[i], Age(i)', BarsOf(i)')
  <2>1. /\ Age(i) \in Nat /\ Fed(features[i], Age(i)) /\ BarList(BarsOf(i), Age(i))
        /\ Saw(features[i], Age(i), BarsOf(i))
    BY BarsKnown
  <2>2. features'[i] = Update(features[i], bar)
    BY <1>1
  <2>3. since[i] \in 0..Len(seen)
    BY DEF FeatureInv
  <2>4. Beyond(seen', since[i]) = Append(Beyond(seen, since[i]), bar)
    BY <1>3, <2>3, OneMoreSince
  <2>5. BarsOf(i)' = Append(BarsOf(i), bar)
    BY <2>4, Zenon DEF BarsOf, Beyond
  <2>6. PICK all : all = Append(BarsOf(i), bar)
    OBVIOUS
  <2>7. Saw(Update(features[i], bar), Age(i) + 1, all)
    BY <2>1, <2>6, UpdateSaw
  <2> QED
    BY <1>2, <2>2, <2>5, <2>6, <2>7
<1> QED
  BY <1>2, <1>4, <1>5

LEMMA CandleSaw ==
  ASSUME QueueInv, SawBars, NEW bar \in Bars, NEW closed, Candle(bar, closed)
  PROVE  SawBars'
<1> DEFINE new == [bar |-> bar, closed |-> closed, stamp |-> published + 1]
<1>1. UNCHANGED <<features, since, seen>>
  BY DEF Candle, pipelineVars
<1>2. \A i \in 1..Len(candles') : IsBar(candles'[i].bar)
  <2>1. CASE pipelineOn
    <3>1. candles' = Append(candles, new)
      BY <2>1 DEF Candle
    <3>2. IsBar(new.bar)
      BY BarType
    <3> HIDE DEF new
    <3>3. /\ Len(candles') = Len(candles) + 1 /\ Len(candles) \in Nat
          /\ \A i \in 1..Len(candles) : candles'[i] = candles[i]
          /\ candles'[Len(candles) + 1] = new
      BY <3>1, SeqAppend, SeqDomain DEF QueueInv
    <3>4. \A i \in 1..Len(candles') : i \in 1..Len(candles) \/ i = Len(candles) + 1
      BY <3>3
    <3> QED
      BY <3>2, <3>3, <3>4 DEF SawBars
  <2>2. CASE ~pipelineOn
    <3>1. candles' = candles
      BY <2>2 DEF Candle
    <3> QED
      BY <3>1 DEF SawBars
  <2> QED
    BY <2>1, <2>2
<1> QED
  BY <1>1, <1>2 DEF SawBars, Age, BarsOf

LEMMA ComputeSaw ==
  ASSUME FeatureInv, QueueInv, SawBars, Compute
  PROVE  SawBars'
<1> DEFINE bar == Head(candles).bar
<1>1. since' = since /\ candles # <<>> /\ candles' = Tail(candles) /\ IsSeq(candles)
  BY DEF Compute, QueueInv
<1>2. IsBar(bar)
  <2>1. Head(candles) = candles[1] /\ 1 \in 1..Len(candles)
    BY <1>1, HeadFirst
  <2> QED
    BY <2>1 DEF SawBars
<1>3. \A i \in 1..Len(candles') : IsBar(candles'[i].bar)
  <2> TAKE i \in 1..Len(candles')
  <2>1. candles'[i] = candles[i + 1] /\ i + 1 \in 1..Len(candles)
    BY <1>1, TailRest
  <2> QED
    BY <2>1 DEF SawBars
<1>4. CASE Computes(Head(candles))
  <2>1. /\ features' = [i \in DOMAIN features |-> Update(features[i], bar)]
        /\ seen' = Append(seen, bar)
    BY <1>4 DEF Compute, Computes
  <2> HIDE DEF bar
  <2>2. /\ \A i \in 1..Len(seen') : IsBar(seen'[i])
        /\ \A i \in 1..Len(features') : Saw(features'[i], Age(i)', BarsOf(i)')
    BY <1>1, <1>2, <2>1, BarSeen
  <2> QED
    BY <1>3, <2>2 DEF SawBars
<1>5. CASE ~Computes(Head(candles)) /\ Head(candles).closed
  <2>1. features = <<>> /\ features' = features /\ seen' = Append(seen, bar)
    BY <1>5 DEF Compute, Computes
  <2>2. Len(features') = 0
    BY <2>1
  <2>3. features' = [i \in DOMAIN features |-> Update(features[i], bar)]
    BY <2>1
  <2> HIDE DEF bar
  <2>4. /\ \A i \in 1..Len(seen') : IsBar(seen'[i])
        /\ \A i \in 1..Len(features') : Saw(features'[i], Age(i)', BarsOf(i)')
    BY <1>1, <1>2, <2>1, <2>3, BarSeen
  <2> QED
    BY <1>3, <2>4 DEF SawBars
<1>6. CASE ~Computes(Head(candles)) /\ ~Head(candles).closed
  <2>1. UNCHANGED <<features, since, seen>>
    BY <1>1, <1>6 DEF Compute
  <2> QED
    BY <1>3, <2>1 DEF SawBars, Age, BarsOf
<1> QED
  BY <1>4, <1>5, <1>6

LEMMA AddSaw ==
  ASSUME FeatureInv, SawBars, NEW spec \in Attachable, AddFeature(spec)
  PROVE  SawBars'
<1> DEFINE n == Len(features)
           f == New(spec[1], spec[2])
<1>1. spec[1] \in Kinds /\ spec[2] \in Nat \ {0}
  BY SignalAssumption
<1>2. /\ features' = Append(features, f) /\ since' = Append(since, Len(seen))
      /\ seen' = seen /\ candles' = candles
  BY DEF AddFeature, Change
<1>3. /\ Len(features') = n + 1
      /\ \A i \in 1..n : features'[i] = features[i] /\ Age(i)' = Age(i)
      /\ \A i : i = n + 1 => Age(i)' = 0
  BY <1>1, <1>2, FeaturesGrow
<1> HIDE DEF f
<1>4. features'[n + 1] = f /\ n \in Nat /\ Len(since) = n
  BY <1>2, SeqAppend, SeqDomain DEF FeatureInv
<1>5. \A i \in 1..n : since'[i] = since[i]
  BY <1>2, <1>4, SeqAppend DEF FeatureInv
<1>6. \A bars : Saw(f, 0, bars)
  BY <1>1, NewSaw DEF f
<1>7. ASSUME NEW i \in 1..(n + 1) PROVE Saw(features'[i], Age(i)', BarsOf(i)')
  <2>1. CASE i = n + 1
    BY <1>3, <1>4, <1>6, <2>1
  <2>2. CASE i # n + 1
    <3>1. i \in 1..n
      BY <1>4, <2>2
    <3>2. BarsOf(i)' = BarsOf(i)
      BY <1>2, <1>5, <3>1 DEF BarsOf
    <3> QED
      BY <1>3, <3>1, <3>2 DEF SawBars
  <2> QED
    BY <2>1, <2>2
<1> QED
  BY <1>2, <1>3, <1>7 DEF SawBars

LEMMA NothingSeen ==
  ASSUME SawBars, UNCHANGED <<features, since, seen, candles>>
  PROVE  SawBars'
BY DEF SawBars, Age, BarsOf

LEMMA SawStep ==
  ASSUME FeatureInv, QueueInv, SawBars, [Next]_vars
  PROVE  SawBars'
<1>1. CASE Compute
  BY <1>1, ComputeSaw
<1>2. ASSUME NEW spec \in Attachable, AddFeature(spec) PROVE SawBars'
  BY <1>2, AddSaw
<1>3. ASSUME NEW bar \in Bars, NEW closed \in BOOLEAN, Candle(bar, closed) PROVE SawBars'
  BY <1>3, CandleSaw
<1>4. CASE \E strength \in [Strategies -> Strength] : Judge(strength)
  BY <1>4, NothingSeen DEF Judge, pipelineVars
<1>5. CASE StartPipeline \/ StopPipeline \/ StartManager \/ StopManager
  BY <1>5, NothingSeen DEF StartPipeline, StopPipeline, StartManager, StopManager, pipelineVars, Change
<1>6. ASSUME NEW s \in Strategies, NEW w \in Weights,
             EnableStrategy(s, w) \/ SetWeight(s, w)
      PROVE  SawBars'
  BY <1>6, NothingSeen DEF EnableStrategy, SetWeight, pipelineVars, Change
<1>7. ASSUME NEW s \in Strategies, DisableStrategy(s) PROVE SawBars'
  BY <1>7, NothingSeen DEF DisableStrategy, pipelineVars, Change
<1>8. CASE UNCHANGED vars
  BY <1>8, NothingSeen DEF vars, pipelineVars
<1> QED
  BY <1>1, <1>2, <1>3, <1>4, <1>5, <1>6, <1>7, <1>8 DEF Next, Configure

\* The arithmetic of the indicators: for any bars, however many, any windows
\* and instances attached at any time, what the running sums, the smoothing and
\* the deques arrive at is what the definition gives over the closed candles
\* since the instance was attached, from the candle on that completes its
\* window and no earlier (update of every class in intelligence/features).
THEOREM IndicatorsRight == Spec => []FeaturesAreRight
<1>1. Init => SawBars
  BY InitSaw
<1>2. IInv /\ SawBars /\ [Next]_vars => SawBars'
  BY SawStep DEF IInv
<1>3. IInv /\ SawBars => FeaturesAreRight
  <2> SUFFICES ASSUME IInv, SawBars, NEW i \in DOMAIN features
               PROVE  /\ features[i].ready <=> Age(i) >= WarmUp(features[i].kind, features[i].window)
                      /\ features[i].ready => ValueIsRight(features[i], BarsOf(i))
    BY Zenon DEF FeaturesAreRight
  <2>0. FeatureInv
    BY DEF IInv
  <2>1. i \in 1..Len(features)
    BY <2>0, SeqDomain DEF FeatureInv
  <2>2. /\ Age(i) \in Nat /\ Fed(features[i], Age(i)) /\ BarList(BarsOf(i), Age(i))
        /\ Saw(features[i], Age(i), BarsOf(i))
    BY <2>0, <2>1, BarsKnown
  <2>3. features[i].ready <=> Age(i) >= WarmUp(features[i].kind, features[i].window)
    BY <2>2 DEF Fed, Ripe
  <2>4. features[i].ready => ValueIsRight(features[i], BarsOf(i))
    BY <2>2, SawRight
  <2> QED
    BY <2>3, <2>4
<1> QED
  BY Always, <1>1, <1>2, <1>3, PTL DEF Spec
=============================================================================
