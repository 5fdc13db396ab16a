----------------------------- MODULE Indicators -----------------------------
(***************************************************************************)
(* intelligence/features: the indicators the pipeline feeds with candles.  *)
(* An instance is a record: its deque (hist), what it accumulates beside   *)
(* it (acc) and what update returns of it (ready, value).  update is a     *)
(* function from an instance and a bar to an instance.                     *)
(*                                                                         *)
(* Prices and volumes are integers.  A value is exact: the fraction n/d is *)
(* <<n, d>>, None is <<>>, and a value with several parts is their         *)
(* concatenation.  Standard deviations stand as their square, so that the  *)
(* bands of BB are the middle plus and minus twice a root (see Strategies).*)
(***************************************************************************)
EXTENDS Integers, Sequences, FiniteSetsExt, SequencesExt, Lists

Kinds == {"SMA", "EMA", "VWAP", "STDDEV", "BB", "ATR", "RSI", "ROC", "STOCH", "OBV", "VOL_SMA"}

None == <<>>
SmoothWindow == 3   \* of %D

New(kind, window) ==
  [kind |-> kind, window |-> window, hist |-> <<>>, acc |-> <<>>,
   ready |-> FALSE, value |-> None]

\* What a deque with a maxlen does on append.
Push(q, x, maxlen) == IF Len(q) = maxlen THEN Append(Tail(q), x) ELSE Append(q, x)

Squares(q) == [i \in DOMAIN q |-> q[i] * q[i]]
Abs(x)     == IF x < 0 THEN -x ELSE x

Settle(f, full, value) == [f EXCEPT !.ready = full, !.value = IF full THEN value ELSE None]

-----------------------------------------------------------------------------
(* Rolling windows *)

\* A running sum over the window: the oldest element leaves before the new
\* one enters.  acc is <<sum>>.
RollNoExpiry(f, x) ==   \* seeded fault: the oldest element stays in the sum
  LET h == Push(f.hist, x, f.window)
      s == IF f.acc = <<>> THEN x ELSE f.acc[1] + x
  IN  Settle([f EXCEPT !.hist = h, !.acc = <<s>>], Len(h) = f.window, <<s, f.window>>)

Roll(f, x) ==
  LET old == IF Len(f.hist) = f.window THEN Head(f.hist) ELSE 0
      sum == (IF f.acc = <<>> THEN 0 ELSE f.acc[1]) - old + x
      h   == Push(f.hist, x, f.window)
  IN  Settle([f EXCEPT !.hist = h, !.acc = <<sum>>], Len(h) = f.window, <<sum, f.window>>)

UpdateSMA(f, bar)    == Roll(f, bar.close)
UpdateVolSMA(f, bar) == Roll(f, bar.volume)

\* Two running sums, of price times volume and of volume; the typical price
\* is a third of high + low + close.
UpdateVWAP(f, bar) ==
  LET typical == bar.high + bar.low + bar.close
      old == IF Len(f.hist) = f.window THEN Head(f.hist) ELSE <<0, 0>>
      acc == IF f.acc = <<>> THEN <<0, 0>> ELSE f.acc
      pv  == acc[1] - old[1] + typical * bar.volume
      v   == acc[2] - old[2] + bar.volume
      h   == Push(f.hist, <<typical * bar.volume, bar.volume>>, f.window)
  IN  Settle([f EXCEPT !.hist = h, !.acc = <<pv, v>>], Len(h) = f.window,
             IF v > 0 THEN <<pv, 3 * v>> ELSE <<typical, 3>>)

\* The variance of the window, computed from scratch.
UpdateSTDDEV(f, bar) ==
  LET h == Push(f.hist, bar.close, f.window)
      s == Total(h)
  IN  Settle([f EXCEPT !.hist = h], Len(h) = f.window,
             <<f.window * Total(Squares(h)) - s * s, f.window * f.window>>)

\* A mean and a deviation of its own, over the same window: acc.
UpdateBB(f, bar) ==
  LET sma == UpdateSMA(IF f.acc = <<>> THEN New("SMA", f.window) ELSE f.acc[1], bar)
      std == UpdateSTDDEV(IF f.acc = <<>> THEN New("STDDEV", f.window) ELSE f.acc[2], bar)
  IN  Settle([f EXCEPT !.acc = <<sma, std>>], sma.ready /\ std.ready, sma.value \o std.value)

UpdateROC(f, bar) ==
  LET h == Push(f.hist, bar.close, f.window + 1)
  IN  Settle([f EXCEPT !.hist = h], Len(h) = f.window + 1,
             IF Head(h) # 0 THEN <<100 * (bar.close - Head(h)), Head(h)>> ELSE <<0, 1>>)

\* Fractions added up, as sum does.
FractionSum(ks) ==
  LET sum[i \in 0..Len(ks)] ==
        IF i = 0 THEN <<0, 1>>
        ELSE <<sum[i-1][1] * ks[i][2] + ks[i][1] * sum[i-1][2], sum[i-1][2] * ks[i][2]>>
  IN  sum[Len(ks)]

\* hist holds the highs and lows, acc the last values of %K.
UpdateSTOCH(f, bar) ==
  LET h    == Push(f.hist, <<bar.high, bar.low>>, f.window)
      high == Max({h[i][1] : i \in DOMAIN h})
      low  == Min({h[i][2] : i \in DOMAIN h})
      k    == IF high = low THEN <<50, 1>> ELSE <<100 * (bar.close - low), high - low>>
      ks   == Push(f.acc, k, SmoothWindow)
      all  == FractionSum(ks)
  IN  IF Len(h) < f.window THEN Settle([f EXCEPT !.hist = h], FALSE, None)
      ELSE Settle([f EXCEPT !.hist = h, !.acc = ks], Len(ks) = SmoothWindow,
                  k \o <<all[1], all[2] * SmoothWindow>>)

-----------------------------------------------------------------------------
(* Smoothing: seeded from a full window, then one step per bar *)

UpdateEMA(f, bar) ==
  LET h == Push(f.hist, bar.close, f.window)
      n == f.window + 1
  IN  [f EXCEPT !.hist = h, !.ready = Len(h) = f.window,
         !.value = IF Len(h) < f.window THEN None
                   ELSE IF ~f.ready THEN <<Total(h), f.window>>
                   ELSE <<2 * bar.close * f.value[2] + (n - 2) * f.value[1], n * f.value[2]>>]

TrueRange(f, bar) ==
  Max({bar.high - bar.low} \cup
      (IF f.acc = <<>> THEN {} ELSE {Abs(bar.high - f.acc[1]), Abs(bar.low - f.acc[1])}))

UpdateATR(f, bar) ==
  LET tr == TrueRange(f, bar)
      h  == IF Len(f.hist) < f.window THEN Append(f.hist, tr) ELSE f.hist
      g  == [f EXCEPT !.acc = <<bar.close>>, !.hist = h]
  IN  IF Len(f.hist) < f.window THEN Settle(g, Len(h) = f.window, <<Total(h), f.window>>)
      ELSE [g EXCEPT !.value = <<f.value[1] * (f.window - 1) + tr * f.value[2],
                                 f.window * f.value[2]>>]

\* acc is the average gain and loss, as numerators over one denominator
\* <<gain, loss, denominator>>; the index is the share of the gains.  Of the
\* list of all prices only the last one and the length are read: hist keeps
\* the last window + 2.
Gain(x) == IF x > 0 THEN x ELSE 0
RSIValue(gain, loss) == IF loss = 0 THEN <<100, 1>> ELSE <<100 * gain, gain + loss>>

UpdateRSI(f, bar) ==
  LET h    == Push(f.hist, bar.close, f.window + 2)
      d    == bar.close - Last(f.hist)
      a    == f.acc
      warm == <<a[1] + Gain(d), a[2] + Gain(-d), 1>>
      on   == <<a[1] * (f.window - 1) + Gain(d) * a[3],
                a[2] * (f.window - 1) + Gain(-d) * a[3], a[3] * f.window>>
  IN  IF f.hist = <<>>
      THEN Settle([f EXCEPT !.hist = h, !.acc = <<0, 0, 1>>], FALSE, None)
      ELSE IF Len(h) < f.window + 1
      THEN Settle([f EXCEPT !.hist = h, !.acc = warm], FALSE, None)
      ELSE IF Len(f.hist) < f.window + 1
      THEN Settle([f EXCEPT !.hist = h, !.acc = [warm EXCEPT ![3] = f.window]], TRUE,
                  RSIValue(warm[1], warm[2]))
      ELSE Settle([f EXCEPT !.hist = h, !.acc = on], TRUE, RSIValue(on[1], on[2]))

\* Cumulative: ready at once.  acc is the previous close.
UpdateOBV(f, bar) ==
  LET v == IF f.acc = <<>> THEN bar.volume
           ELSE IF bar.close > f.acc[1] THEN f.value[1] + bar.volume
           ELSE IF bar.close < f.acc[1] THEN f.value[1] - bar.volume
           ELSE f.value[1]
  IN  [f EXCEPT !.acc = <<bar.close>>, !.ready = TRUE, !.value = <<v, 1>>]

-----------------------------------------------------------------------------
Update(f, bar) ==
  CASE f.kind = "SMA"     -> UpdateSMA(f, bar)
    [] f.kind = "EMA"     -> UpdateEMA(f, bar)
    [] f.kind = "VWAP"    -> UpdateVWAP(f, bar)
    [] f.kind = "STDDEV"  -> UpdateSTDDEV(f, bar)
    [] f.kind = "BB"      -> UpdateBB(f, bar)
    [] f.kind = "ATR"     -> UpdateATR(f, bar)
    [] f.kind = "RSI"     -> UpdateRSI(f, bar)
    [] f.kind = "ROC"     -> UpdateROC(f, bar)
    [] f.kind = "STOCH"   -> UpdateSTOCH(f, bar)
    [] f.kind = "OBV"     -> UpdateOBV(f, bar)
    [] f.kind = "VOL_SMA" -> UpdateVolSMA(f, bar)

\* How many bars a kind has to see before its first value.
WarmUp(kind, window) ==
  CASE kind \in {"RSI", "ROC"} -> window + 1
    [] kind = "STOCH"          -> window + SmoothWindow - 1
    [] kind = "OBV"            -> 1
    [] OTHER                   -> window

-----------------------------------------------------------------------------
(* What the values have to be, in terms of the bars an instance has seen.  *)
(* A definition over the whole history, against the updates in place.      *)

Same(v, n, d)  == v[1] * d = n * v[2]
Between(v, l, h) == l * v[2] <= v[1] /\ v[1] <= h * v[2]
LastOf(q, n)   == SubSeq(q, Len(q) - n + 1, Len(q))
FirstOf(q, n)  == SubSeq(q, 1, n)
Beyond(q, n)   == SubSeq(q, n + 1, Len(q))
Closes(bars)   == [i \in DOMAIN bars |-> bars[i].close]
Volumes(bars)  == [i \in DOMAIN bars |-> bars[i].volume]
Turnover(bars) == [i \in DOMAIN bars |->
                     (bars[i].high + bars[i].low + bars[i].close) * bars[i].volume]
Moves(c)       == [i \in 1..(Len(c) - 1) |-> c[i+1] - c[i]]
Gains(c)       == [i \in DOMAIN Moves(c) |-> Gain(Moves(c)[i])]
Losses(c)      == [i \in DOMAIN Moves(c) |-> Gain(-Moves(c)[i])]
Ranges(bars)   ==
  [i \in DOMAIN bars |->
     IF i = 1 THEN bars[i].high - bars[i].low
     ELSE Max({bars[i].high, bars[i-1].close}) - Min({bars[i].low, bars[i-1].close})]
Flows(bars) ==
  [i \in DOMAIN bars |->
     IF i = 1 \/ bars[i].close > bars[i-1].close THEN bars[i].volume
     ELSE IF bars[i].close < bars[i-1].close THEN -bars[i].volume ELSE 0]

\* Pairwise: w*w times the variance of w numbers.
Apart(q, x) == [i \in DOMAIN q |-> (x - q[i]) * (x - q[i])]
Spread(q)   == Total([i \in DOMAIN q |-> Total(Apart(FirstOf(q, i - 1), q[i]))])

Power(b, n) ==
  LET power[i \in 0..n] == IF i = 0 THEN 1 ELSE b * power[i - 1]
  IN  power[n]

\* The numerator, over w * total^m, of an average seeded with the mean of
\* the first w numbers and moved m times: x becomes (keep * x + part * y) / total.
Blend(q, w, keep, part, total) ==
  LET m  == Len(q) - w
      ys == Beyond(q, w)
  IN  Power(keep, m) * Total(FirstOf(q, w)) +
      w * Total([j \in 1..m |-> part * ys[j] * Power(keep, m - j) * Power(total, j - 1)])

StochK(bars) ==
  LET high == Max({bars[i].high : i \in DOMAIN bars})
      low  == Min({bars[i].low : i \in DOMAIN bars})
  IN  IF high = low THEN <<50, 1>> ELSE <<100 * (Last(bars).close - low), high - low>>

\* value is what the indicator's definition gives for the bars seen.
ValueIsRight(f, bars) ==
  LET w == f.window
      c == Closes(bars)
      n == Len(bars)
      v == f.value
  IN  CASE f.kind = "SMA"     -> Same(v, Total(LastOf(c, w)), w)
        [] f.kind = "VOL_SMA" -> Same(v, Total(LastOf(Volumes(bars), w)), w)
        [] f.kind = "VWAP"    -> LET window == LastOf(bars, w)
                                     volume == Total(Volumes(window))
                                 IN  volume > 0 => Same(v, Total(Turnover(window)), 3 * volume)
        [] f.kind = "STDDEV"  -> Same(v, Spread(LastOf(c, w)), w * w)
        [] f.kind = "BB"      -> /\ Same(v, Total(LastOf(c, w)), w)
                                 /\ Same(<<v[3], v[4]>>, Spread(LastOf(c, w)), w * w)
        [] f.kind = "EMA"     -> Same(v, Blend(c, w, w - 1, 2, w + 1), w * Power(w + 1, n - w))
        [] f.kind = "ATR"     -> Same(v, Blend(Ranges(bars), w, w - 1, 1, w), w * Power(w, n - w))
        [] f.kind = "RSI"     -> LET g == Blend(Gains(c), w, w - 1, 1, w)
                                     l == Blend(Losses(c), w, w - 1, 1, w)
                                 IN  IF l = 0 THEN Same(v, 100, 1) ELSE Same(v, 100 * g, g + l)
        [] f.kind = "ROC"     -> LET past == c[n - w]
                                 IN  IF past = 0 THEN v[1] = 0 ELSE Same(v, 100 * (c[n] - past), past)
        [] f.kind = "STOCH"   -> LET k(i) == StochK(LastOf(FirstOf(bars, n - i), w))
                                     p == k(0) q == k(1) r == k(2)
                                 IN  /\ Same(v, p[1], p[2]) /\ Between(v, 0, 100)
                                     /\ Same(<<v[3], v[4]>>,
                                             p[1] * q[2] * r[2] + q[1] * p[2] * r[2] + r[1] * p[2] * q[2],
                                             3 * p[2] * q[2] * r[2])
        [] f.kind = "OBV"     -> Same(v, Total(Flows(bars)), 1)
=============================================================================
