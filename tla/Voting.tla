------------------------------- MODULE Voting -------------------------------
(***************************************************************************)
(* strategies/ and strategy/consensus.py: what a strategy says of a        *)
(* snapshot of the feature store, and how the votes make one signal.       *)
(*                                                                         *)
(* A snapshot maps the ids of features, <<kind, window>>, to what their    *)
(* update returned.  Confidences are percentages.  How far a price is past *)
(* a threshold decides a confidence between 75 and 100 and nothing else:   *)
(* it is a choice (Strength).                                              *)
(***************************************************************************)
EXTENDS Integers, Sequences, FiniteSets, SequencesExt, Lists

CONSTANTS
  FastWindow, SlowWindow,   \* params of EMA_CROSS
  RSIWindow,                \* of RSI_REVERSION
  BandWindow,               \* of BOLLINGER_REVERSION
  Strength                  \* bound: the confidences past a threshold

Strategies == {"EMA_CROSS", "RSI_REVERSION", "BOLLINGER_REVERSION"}
Oversold   == 30
Overbought == 70
RawClose   == <<"CLOSE", 0>>

Ready(snapshot, id) == id \in DOMAIN snapshot /\ snapshot[id].ready
Less(v, w) == v[1] * w[2] < w[1] * v[2]   \* of fractions with positive denominators

\* The features a strategy reads, and looks at the readiness of.
Reads(s) ==
  CASE s = "EMA_CROSS"           -> {<<"EMA", FastWindow>>, <<"EMA", SlowWindow>>}
    [] s = "RSI_REVERSION"       -> {<<"RSI", RSIWindow>>}
    [] s = "BOLLINGER_REVERSION" -> {<<"BB", BandWindow>>}

CrossDirection(snapshot) ==
  LET fast == snapshot[<<"EMA", FastWindow>>].value
      slow == snapshot[<<"EMA", SlowWindow>>].value
  IN  IF Less(slow, fast) THEN "BUY" ELSE IF Less(fast, slow) THEN "SELL" ELSE "NONE"

RSIDirection(snapshot) ==
  LET rsi == snapshot[<<"RSI", RSIWindow>>].value
  IN  IF Less(rsi, <<Oversold, 1>>) THEN "BUY"
      ELSE IF Less(<<Overbought, 1>>, rsi) THEN "SELL" ELSE "NONE"

\* The value of BB is the middle and the variance: the close is past a band
\* when its distance from the middle, squared, exceeds four variances.
BandDirection(snapshot) ==
  LET bb    == snapshot[<<"BB", BandWindow>>].value
      close == snapshot[RawClose].value[1]
      away  == close * bb[2] - bb[1]                  \* times bb[2]
      past  == away * away * bb[4] > 4 * bb[3] * bb[2] * bb[2]
  IN  IF past /\ away < 0 THEN "BUY" ELSE IF past /\ away > 0 THEN "SELL" ELSE "NONE"

FlatBands(snapshot) == snapshot[<<"BB", BandWindow>>].value[3] = 0

\* When evaluate returns None.
Abstains(s, snapshot) ==
  \/ \E id \in Reads(s) : ~Ready(snapshot, id)
  \/ s = "BOLLINGER_REVERSION" /\ (RawClose \notin DOMAIN snapshot \/ FlatBands(snapshot))

\* When it raises: past a band it divides by the close.
Raises(s, snapshot) ==
  /\ s = "BOLLINGER_REVERSION"
  /\ snapshot[RawClose].value[1] = 0 /\ BandDirection(snapshot) # "NONE"

Direction(s, snapshot) ==
  CASE s = "EMA_CROSS"           -> CrossDirection(snapshot)
    [] s = "RSI_REVERSION"       -> RSIDirection(snapshot)
    [] s = "BOLLINGER_REVERSION" -> BandDirection(snapshot)

\* strength[s]: how far past its threshold the price of s is, as a confidence.
Confidence(s, direction, strength) ==
  IF s = "EMA_CROSS" THEN (IF direction = "NONE" THEN 50 ELSE 80)
  ELSE IF direction = "NONE" THEN 0 ELSE strength[s]

\* compute looks a vote's weight up by name; without one it counts 1.
WeightOf(weights, s) == IF s \in DOMAIN weights THEN weights[s] ELSE 1

Vote(s, snapshot, strength, weights) ==
  LET d == Direction(s, snapshot)
  IN  [strategy |-> s, direction |-> d, confidence |-> Confidence(s, d, strength),
       weight |-> WeightOf(weights, s)]

\* evaluate of every strategy in turn; one that returns None or raises casts no vote.
Silent(s, snapshot) == Abstains(s, snapshot) \/ Raises(s, snapshot)
Ballot(active, snapshot, strength, weights) ==
  LET voters == Without(active, {s \in Strategies : Silent(s, snapshot)})
  IN  [i \in DOMAIN voters |-> Vote(voters[i], snapshot, strength, weights)]

-----------------------------------------------------------------------------
\* A signal: a direction and its confidence in percent, a fraction.
NoSignal == [direction |-> "NONE", confidence |-> <<0, 1>>]

Votes(ballot, d) == Cardinality({i \in DOMAIN ballot : ballot[i].direction = d})

\* MajorityVoteConsensus.compute
Majority(ballot) ==
  LET leads(d) == \A e \in {"BUY", "SELL", "NONE"} \ {d} : Votes(ballot, d) > Votes(ballot, e)
  IN  IF \E d \in {"BUY", "SELL"} : leads(d)
      THEN LET d == CHOOSE e \in {"BUY", "SELL"} : leads(e)
           IN  [direction |-> d, confidence |-> <<100 * Votes(ballot, d), Len(ballot)>>]
      ELSE NoSignal

\* WeightedVoteConsensus.compute
ScoreUnscaled(ballot, d) ==   \* seeded fault: the weight is left out of the score
  Total([i \in DOMAIN ballot |-> IF ballot[i].direction = d THEN ballot[i].confidence ELSE 0])
Score(ballot, d) ==
  Total([i \in DOMAIN ballot |-> IF ballot[i].direction = d
                                 THEN ballot[i].confidence * ballot[i].weight ELSE 0])
Possible(ballot) == Total([i \in DOMAIN ballot |-> ballot[i].weight])

Weighted(ballot) ==
  LET buy  == Score(ballot, "BUY")
      sell == Score(ballot, "SELL")
      all  == Possible(ballot)
  IN  IF all = 0 \/ buy = sell THEN NoSignal
      ELSE IF buy > sell THEN [direction |-> "BUY", confidence |-> <<buy, all>>]
      ELSE [direction |-> "SELL", confidence |-> <<sell, all>>]

Consensus(engine, ballot) ==
  IF ballot = <<>> THEN NoSignal
  ELSE IF engine = "majority" THEN Majority(ballot) ELSE Weighted(ballot)
=============================================================================
