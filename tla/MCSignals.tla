------------------------------ MODULE MCSignals -----------------------------
(***************************************************************************)
(* Instances of Signals for TLC.  A bar's high and low enclose its close.  *)
(***************************************************************************)
EXTENDS Signals

CONSTANT Prices   \* the closes of the bars

Bar(close) == [close |-> close, high |-> close + 1, low |-> close - 1, volume |-> close]
BarsOfPrices == {Bar(p) : p \in Prices}

\* The interleavings: two averages to cross, an index and bands.
FewFeatures == <<<<"EMA", 1>>, <<"EMA", 2>>, <<"RSI", 1>>, <<"BB", 2>>>>
OneMore     == {<<"EMA", 2>>}
AllEnabled  == <<"EMA_CROSS", "RSI_REVERSION", "BOLLINGER_REVERSION">>
EvenWeights == [s \in Strategies |-> 2]

\* The arithmetic: every kind of indicator, and long enough for the bands to
\* be left (a price is past two deviations of 6 prices at the earliest), also by
\* a price of zero, at which the strategy raises.
EveryFeature == <<<<"SMA", 3>>, <<"EMA", 2>>, <<"EMA", 3>>, <<"VWAP", 3>>, <<"STDDEV", 3>>, <<"BB", 6>>,
                  <<"ATR", 2>>, <<"RSI", 2>>, <<"ROC", 2>>, <<"STOCH", 2>>, <<"OBV", 1>>,
                  <<"VOL_SMA", 2>>>>
SeveralBars == {[close |-> 8, high |-> 8, low |-> 8, volume |-> 0],
                [close |-> 0, high |-> 9, low |-> 0, volume |-> 1],
                [close |-> 12, high |-> 12, low |-> 4, volume |-> 3]}
UnevenWeights == [s \in Strategies |-> IF s = "EMA_CROSS" THEN 1 ELSE 2]
=============================================================================
