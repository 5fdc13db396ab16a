------------------------------ MODULE Signals -------------------------------
(***************************************************************************)
(* From a closed candle to a signal: intelligence/pipeline.py with the     *)
(* feature store, and strategy/manager.py, for one symbol (symbols share   *)
(* nothing but the weights and counters kept by strategy name).            *)
(*                                                                         *)
(* Each handler runs as a task the event bus starts when the message is    *)
(* published, if the component is subscribed then.  Tasks start in the     *)
(* order they were created, and neither handler suspends before its own    *)
(* publish: a queue of tasks not yet started per handler is all there is   *)
(* between a candle and its signal.  Several publishers (the scanner, a    *)
(* replay) may have a candle under way, and calls that attach, enable,     *)
(* disable, weigh, start and stop may come between any two tasks.          *)
(***************************************************************************)
EXTENDS Indicators, Voting

CONSTANTS
  Bars,           \* the bars a candle may have
  Attachable,     \* the features callers may add, as <<kind, window>>
  AtStart,        \* those the lifespan adds, in order
  Enabled,        \* the strategies it enables, in order
  Weights,        \* weights callers may set
  StartWeight,    \* those the lifespan sets
  Engines,        \* consensus_engine: "weighted", "majority"
  MaxCandles,     \* bound: candles published in all
  MaxInFlight,    \* bound: publishers with a candle under way
  MaxChanges      \* bound: calls that change the configuration

ASSUME SignalAssumption ==
  /\ Attachable \subseteq Kinds \X (Nat \ {0})
  /\ AtStart \in Seq(Kinds \X (Nat \ {0}))
  /\ Enabled \in Seq(Strategies) /\ IsInjective(Enabled)
  /\ Weights \subseteq Nat /\ StartWeight \in [Strategies -> Weights]
  /\ Engines \subseteq {"weighted", "majority"} /\ Engines # {}
  /\ {MaxCandles, MaxInFlight, MaxChanges} \subseteq Nat
  /\ Strength \subseteq 75..100 /\ Strength # {}

\* What a candle is: the close is not negative, and between the low and the high.
\* The code takes the candles of an exchange as they come and checks none of this.
ASSUME BarAssumption ==
  \A bar \in Bars : /\ {bar.close, bar.high, bar.low, bar.volume} \subseteq Int
                    /\ 0 <= bar.close /\ bar.low <= bar.close /\ bar.close <= bar.high

VARIABLES
  pipelineOn,   \* IntelligencePipeline._running: subscribed to CandleEvent
  features,     \* _features: the instances of the symbol
  store,        \* FeatureStore: by id, what the latest update returned, and of which candle
  candles,      \* tasks of _handle_candle not started yet: their candles
  managerOn,    \* StrategyManager._running: subscribed to FeaturesUpdated
  active,       \* _active_strategies
  weights,      \* _weights
  metrics,      \* _metrics: signals_generated by name
  engine,       \* consensus_engine
  updates,      \* tasks of _on_features_updated not started yet: their events
  ballot,       \* the signals the latest evaluation compared
  signal,       \* what it concluded
  published,    \* candles published so far
  changes,      \* configuration calls so far
  seen,         \* history variable: the closed bars the pipeline has computed
  since,        \* history variable: per instance the length of seen when it was added
  owed          \* history variable: updates under way when the manager stopped

pipelineVars == <<pipelineOn, features, store, since>>
managerVars  == <<managerOn, active, weights, metrics, engine, owed>>
voteVars     == <<ballot, signal>>
vars == <<pipelineVars, candles, seen, managerVars, updates, voteVars, published, changes>>

IdOf(f) == <<f.kind, f.window>>

Init ==
  /\ pipelineOn = TRUE
  /\ features = [i \in DOMAIN AtStart |-> New(AtStart[i][1], AtStart[i][2])]
  /\ since = [i \in DOMAIN AtStart |-> 0]
  /\ store = <<>>
  /\ candles = <<>>
  /\ managerOn = TRUE
  /\ active = Enabled
  /\ weights = [s \in ToSet(Enabled) |-> StartWeight[s]]
  /\ metrics = [s \in ToSet(Enabled) |-> 0]
  /\ engine \in Engines
  /\ updates = <<>>
  /\ ballot = <<>>
  /\ signal = NoSignal
  /\ published = 0
  /\ changes = 0
  /\ seen = <<>>
  /\ owed = 0

-----------------------------------------------------------------------------
(* The candle's way *)

\* A publisher publishes a CandleEvent: a task of the pipeline, if it listens.
Candle(bar, closed) ==
  /\ published < MaxCandles
  /\ Len(candles) + Len(updates) < MaxInFlight
  /\ published' = published + 1
  /\ candles' = IF pipelineOn
                THEN Append(candles, [bar |-> bar, closed |-> closed, stamp |-> published + 1])
                ELSE candles
  /\ UNCHANGED <<pipelineVars, seen, managerVars, updates, voteVars, changes>>

Entry(f, stamp) == [ready |-> f.ready, value |-> f.value, at |-> stamp]
Close(candle)   == [ready |-> TRUE, value |-> <<candle.bar.close>>, at |-> candle.stamp]

\* The last instance with an id is the one whose entry stays in the store.
EarliestOf(fs, id) == Min({i \in DOMAIN fs : IdOf(fs[i]) = id})   \* seeded fault
LatestOf(fs, id) == Max({i \in DOMAIN fs : IdOf(fs[i]) = id})

Stored(fs, candle) ==
  LET ids == {IdOf(fs[i]) : i \in DOMAIN fs}
  IN  [id \in DOMAIN store \cup ids \cup {RawClose} |->
         IF id = RawClose THEN Close(candle)
         ELSE IF id \in ids THEN Entry(fs[LatestOf(fs, id)], candle.stamp)
         ELSE store[id]]

\* The ids the FeaturesUpdated names: those an instance is ready for.
AnnouncedAll(fs) == {IdOf(fs[i]) : i \in DOMAIN fs}   \* seeded fault
Announced(fs) == {IdOf(fs[i]) : i \in {j \in DOMAIN fs : fs[j].ready}}

Computes(candle) == candle.closed /\ features # <<>>

ComputeUnheard ==   \* seeded fault: the manager's handler is called though it is not subscribed
  LET candle == Head(candles)
      fs     == [i \in DOMAIN features |-> Update(features[i], candle.bar)]
  IN  /\ candles # <<>>
      /\ candles' = Tail(candles)
      /\ features' = fs
      /\ store' = Stored(fs, candle)
      /\ updates' = Append(updates, [ids |-> Announced(fs), stamp |-> candle.stamp])
      /\ seen' = Append(seen, candle.bar)
      /\ UNCHANGED <<pipelineOn, since, managerVars, voteVars, published, changes>>

\* _handle_candle, up to the publish of FeaturesUpdated.
Compute ==
  LET candle == Head(candles)
      fs     == [i \in DOMAIN features |-> Update(features[i], candle.bar)]
  IN  /\ candles # <<>>
      /\ candles' = Tail(candles)
      /\ IF Computes(candle)
         THEN /\ features' = fs
              /\ store' = Stored(fs, candle)
              /\ updates' = IF managerOn /\ Announced(fs) # {}
                            THEN Append(updates, [ids |-> Announced(fs), stamp |-> candle.stamp])
                            ELSE updates
         ELSE UNCHANGED <<features, store, updates>>
      /\ seen' = IF candle.closed THEN Append(seen, candle.bar) ELSE seen
      /\ UNCHANGED <<pipelineOn, since, managerVars, voteVars, published, changes>>

\* _on_features_updated: get_all returns the live store, read when the task runs.
Judge(strength) ==
  LET b == Ballot(active, store, strength, weights)
  IN  /\ updates # <<>>
      /\ updates' = Tail(updates)
      /\ owed' = IF owed > 0 THEN owed - 1 ELSE 0
      /\ metrics' = [s \in DOMAIN metrics |->
                       metrics[s] + Cardinality({i \in DOMAIN b : b[i].strategy = s})]
      /\ ballot' = b
      /\ signal' = Consensus(engine, b)
      /\ UNCHANGED <<pipelineVars, candles, seen, managerOn, active, weights, engine,
                     published, changes>>

-----------------------------------------------------------------------------
(* Configuration calls: none of them suspends *)

Change ==
  /\ changes < MaxChanges
  /\ changes' = changes + 1
  /\ UNCHANGED <<candles, seen, updates, voteVars, published>>

AddFeature(spec) ==
  /\ Change
  /\ features' = Append(features, New(spec[1], spec[2]))
  /\ since' = Append(since, Len(seen))
  /\ UNCHANGED <<pipelineOn, store, managerVars>>

StartPipeline ==
  /\ ~pipelineOn /\ Change
  /\ pipelineOn' = TRUE
  /\ UNCHANGED <<features, store, since, managerVars>>

StopPipeline ==
  /\ pipelineOn /\ Change
  /\ pipelineOn' = FALSE
  /\ UNCHANGED <<features, store, since, managerVars>>

\* Enabling again what is enabled leaves everything, the weight too, as it is.
EnableTwice(s, w) ==   \* seeded fault: no check for a strategy already there
  /\ Change
  /\ active' = Append(active, s)
  /\ weights' = [x \in DOMAIN weights \cup {s} |-> IF x = s THEN w ELSE weights[x]]
  /\ metrics' = [x \in DOMAIN metrics \cup {s} |-> IF x \in DOMAIN metrics THEN metrics[x] ELSE 0]
  /\ UNCHANGED <<pipelineVars, managerOn, engine, owed>>

EnableStrategy(s, w) ==
  /\ ~Contains(active, s) /\ Change
  /\ active' = Append(active, s)
  /\ weights' = [x \in DOMAIN weights \cup {s} |-> IF x = s THEN w ELSE weights[x]]
  /\ metrics' = [x \in DOMAIN metrics \cup {s} |-> IF x \in DOMAIN metrics THEN metrics[x] ELSE 0]
  /\ UNCHANGED <<pipelineVars, managerOn, engine, owed>>

DisableStrategy(s) ==
  /\ Contains(active, s) /\ Change
  /\ active' = Without(active, {s})
  /\ UNCHANGED <<pipelineVars, managerOn, weights, metrics, engine, owed>>

SetWeight(s, w) ==
  /\ Change
  /\ weights' = [x \in DOMAIN weights \cup {s} |-> IF x = s THEN w ELSE weights[x]]
  /\ UNCHANGED <<pipelineVars, managerOn, active, metrics, engine, owed>>

StartManager ==
  /\ ~managerOn /\ Change
  /\ managerOn' = TRUE
  /\ owed' = 0
  /\ UNCHANGED <<pipelineVars, active, weights, metrics, engine>>

StopManager ==
  /\ managerOn /\ Change
  /\ managerOn' = FALSE
  /\ owed' = Len(updates)
  /\ UNCHANGED <<pipelineVars, active, weights, metrics, engine>>

Configure ==
  \/ \E spec \in Attachable : AddFeature(spec)
  \/ StartPipeline \/ StopPipeline \/ StartManager \/ StopManager
  \/ \E s \in Strategies : DisableStrategy(s)
  \/ \E s \in Strategies, w \in Weights : EnableStrategy(s, w) \/ SetWeight(s, w)

Next ==
  \/ \E bar \in Bars, closed \in BOOLEAN : Candle(bar, closed)
  \/ Compute
  \/ \E strength \in [Strategies -> Strength] : Judge(strength)
  \/ Configure

Spec == Init /\ [][Next]_vars

-----------------------------------------------------------------------------
(* Properties *)

\* The type invariant of pipeline, store, manager and the tasks between them.
TypeOK ==
  /\ {pipelineOn, managerOn} \subseteq BOOLEAN
  /\ DOMAIN features = DOMAIN since
  /\ \A i \in DOMAIN features : /\ features[i].kind \in Kinds
                                /\ since[i] \in 0..Len(seen)
                                /\ features[i].ready <=> features[i].value # None
  /\ \A id \in DOMAIN store : store[id].at \in 1..published
  /\ \A i \in DOMAIN candles : candles[i].stamp \in 1..published
  /\ \A i \in DOMAIN updates : updates[i].stamp \in 1..published
  /\ Len(candles) + Len(updates) <= MaxInFlight
  /\ ToSet(active) \subseteq Strategies /\ IsInjective(active)
  /\ ToSet(active) \subseteq DOMAIN weights /\ ToSet(active) \subseteq DOMAIN metrics
  /\ signal.direction \in {"BUY", "SELL", "NONE"}
  /\ owed \in 0..MaxInFlight

Age(i)    == Len(seen) - since[i]
BarsOf(i) == SubSeq(seen, since[i] + 1, Len(seen))
Warm(id)  == \E i \in DOMAIN features : IdOf(features[i]) = id /\ Age(i) >= WarmUp(id[1], id[2])

\* Nothing is announced, and no strategy has voted on a feature, before an
\* instance of that feature has seen all the candles its window needs, however
\* late it was attached and whatever was attached besides (pipeline.py:111,
\* the ready checks of the strategies).
OnlyWarm ==
  /\ \A i \in DOMAIN updates : \A id \in updates[i].ids : Warm(id)
  /\ \A i \in DOMAIN ballot : \A id \in Reads(ballot[i].strategy) : Warm(id)

\* An indicator has a value from the candle on that completes its window, no
\* earlier and without a gap, and the value its running sums and smoothing
\* arrive at is the one its definition gives over the closed candles since it
\* was attached (update of every class in intelligence/features).
FeaturesAreRight ==
  \A i \in DOMAIN features :
    /\ features[i].ready <=> Age(i) >= WarmUp(features[i].kind, features[i].window)
    /\ features[i].ready => ValueIsRight(features[i], BarsOf(i))

\* The store is never a mixture: it shows each feature as its instance is, or
\* the one attached last when there are several, and all of them as of the
\* same candle as the raw close (feature_store.py:18, pipeline.py:94-109).
StoreMirrorsFeatures ==
  LET fed == {i \in DOMAIN features : Age(i) > 0}
      ids == {IdOf(features[i]) : i \in fed}
  IN  /\ DOMAIN store \ {RawClose} = ids
      /\ \A id \in ids :
           LET last == Max({i \in fed : IdOf(features[i]) = id})
           IN  store[id] = Entry(features[last], store[RawClose].at)

For(d)    == {i \in DOMAIN ballot : ballot[i].direction = d}
Counted   == {i \in DOMAIN ballot : engine = "majority" \/ ballot[i].weight > 0}
Levels(S) == {IF engine = "majority" THEN 100 ELSE ballot[i].confidence : i \in S}

\* A signal needs a supporter whose vote counts and is never more confident
\* than its most confident one (who abstains in earnest or opposes can only
\* lower it); voters that agree get their signal, at a confidence between
\* their lowest and highest; and every strategy is heard once (consensus.py).
ConsensusSound ==
  LET d == signal.direction
      c == signal.confidence
  IN  /\ \A i, j \in DOMAIN ballot : ballot[i].strategy = ballot[j].strategy => i = j
      /\ d # "NONE" =>
           /\ For(d) \cap Counted # {}
           /\ 0 < c[1] /\ c[1] <= Max(Levels(For(d))) * c[2]
      /\ \A e \in {"BUY", "SELL"} :
           Counted # {} /\ Counted \subseteq For(e) =>
             d = e /\ Min(Levels(Counted)) * c[2] <= c[1] /\ c[1] <= Max(Levels(Counted)) * c[2]

\* After stop the manager still evaluates the updates whose tasks the bus had
\* already started, and none besides: what is published later does not reach
\* it, so the signals after a stop are bounded (manager.py:65-71).
StopDrains == ~managerOn => Len(updates) <= owed
=============================================================================
