# TredO, specified and checked

TredO is a trading backend (Python, asyncio) with a desktop client (Electron). This directory
holds TLA+ modules that model its stateful parts, TLC configurations that check them on small
instances, and proofs, checked by TLAPS, that the main properties hold for every instance.
Paths below are relative to the repository; `B/` stands for `backend/`.

Contents: [inventory](#1-inventory), [how the code is modelled](#2-how-the-code-is-modelled),
[the modules](#3-the-modules), [the runs](#4-the-runs), [the proofs](#5-the-proofs),
[what the checks found](#6-what-the-checks-found), [limits](#7-what-is-not-covered),
[plan](#8-plan).

## 1. Inventory

All backend components live in one process and one event loop. They meet in two ways: through
the **event bus** (a component publishes a message and awaits all subscribed handlers) and through
**direct calls** (the order service calls the risk engine, the exchange and the position manager).
Nothing is locked: between two `await`s a coroutine runs alone, and at each `await` that really
suspends any other may run. So the hard behaviour of this system is *what is read before an await
and used after it*, and *calls that overlap*.

| component (source) | state | operations | hard behaviour | what makes it correct |
|---|---|---|---|---|
| Order service (`B/execution/order_service.py`) | order store, cached portfolio value | `submit_order`, `close_position` | four awaits inside one submit; closes and cancels in the gaps | cash and positions agree; each call ends; limits hold as far as overlap allows |
| Risk engine (`B/risk/engine.py`) | trade counters, P&L, last order and loss times, kill switch | `validate`, `record_trade_result`, resets, kill switch | its verdict is used after an await; counters move later than they are read | no more fills than the limit plus the overlap |
| Paper exchange (`B/execution/paper_exchange.py`) | cash, prices | `execute_order`, `cancel_order`, `set_price` | price moves between verdict and fill; cancel of a filled order | a purchase never spends cash that is not there |
| Positions (`B/execution/position_manager.py`), orders (`B/execution/models.py`) | positions by id, order state machine | open, close; transitions | several positions in one symbol | one position per filled order |
| Event bus (`B/core/event_bus.py`) | handler lists, bounded history | subscribe, unsubscribe, publish, clear | lists change in place while handlers run | each handler once per message; honest count; newest history kept |
| Agents (`B/agents/`) | life cycle per agent, registry, subscriptions | register and start, stop, stop all, pause, resume | shutdown during a setup, failing setups, restarts, shared ids | nothing half started; registry only of live agents |
| Market scanner (`B/market/scanner.py`, `cache.py`, `subscriptions.py`) | connection task, subscriptions, cached events | start, stop, subscribe, unsubscribe | lost connections, backoff, cancellation at any await | one connection; stop stops; events never go backwards; it keeps trying |
| Replay (`B/replay/`) | iterators, clock, flags | play, pause, stop, step, set speed | every call at every suspension of the loop; merging equal timestamps | merge order, nothing lost; calls take effect at once |
| Pipeline (`B/intelligence/pipeline.py`, `feature_store.py`) | feature instances, feature store | attach, start, stop; closed candle in, `FeaturesUpdated` out | candles that overlap; features attached late or twice | only warm features are announced; the store is of one candle |
| Features (`B/intelligence/features/`) | window, running sums, smoothed values | `update` | elements leaving the window, seeds, smoothing in place | the value is the one the definition gives over the history |
| Strategies and consensus (`B/strategy/`, `B/strategies/`) | enabled strategies, weights, counters | enable, disable, weigh, start, stop; features in, signal out | signals in flight at stop; zero weights, ties | one vote per strategy; no signal without support; confidence within that of its supporters |
| Scheduler (`B/core/scheduler.py`) | task records and their loops | add, remove, enable, disable, start, stop | replaced records, two starts, changes while stop waits | one loop per task; stop leaves none |
| WebSocket push (`B/api/websocket.py`) and client (`electron-app/src/renderer/services/websocket.ts`) | client list; socket, flags, timer | connect, disconnect, broadcast; callbacks, reconnect | the list changes during a broadcast; a late close of an old socket | every client gets every event; one socket; it comes back |
| Memory (`B/memory/`) | SQLite tables, open transaction | log, close a trade, query | a statement or commit that raises, a crash around the commit, a clock that goes back | what was returned is there for ever; nothing is rewritten; queries miss nothing |
| Lifespan (`B/api/lifespan.py`), registry (`B/core/registry.py`) | – | start and stop everything in order | shutdown with work in flight | nothing runs after it |
| AI gateway, exchange connector (`B/ai/`, `B/exchange/`) | connection settings | HTTP and CCXT calls | retries, lost answers | – |
| Other routes, settings, screens | none to speak of | – | – | – |

In the application the parts meet as follows (`B/api/lifespan.py`): scanner and replay publish
`CandleEvent`; the pipeline answers with `FeaturesUpdated`; the strategy manager with
`SignalGenerated`; the WebSocket manager broadcasts these and the status messages to the clients.
The order core, the scheduler and the journal are complete but not wired in (section 6).

`PROJECT.json` lists every component with its status, and every hazard at its line.

## 2. How the code is modelled

* **An action is the code between two suspensions.** A coroutine has a program counter (`pc`,
  `closing`, `at`, `status`, `life` plus `pc`) that names the await it is suspended at. An `await`
  of something that never suspends (`execute_order`, `get_current_price`, a publish without
  handlers, the `anext` of a source) is no suspension, and the code around it is one action.
* **A publish suspends** until the handlers have ended. What they do is not part of the publishing
  component: each thing a handler may do to it is an action of its own that may run in the gap.
* **Cancellation** (`task.cancel()`) takes effect at the await the task is suspended at. The task
  takes no other step first.
* **A publish may raise**, since the bus names failed handlers by index in a list that may have lost
  one (`B/core/event_bus.py:103`). Where the code around a publish catches nothing, the caller ends there
  with what it had written: `PublishRaises` and `CloseRaises` in the order core, `Crash` in the scanner
  and the replay.
* **Money and prices are integers**, percentages integer percent, time a counter. The properties
  compare amounts and never look at fractions.
* **Identities** (orders, handlers, agents, streams, sources) are constants; contents of messages
  are left out unless a property reads them.
* **History variables** (commented as such) record what a property needs and no guard reads:
  `fillTime` and `fillsToday` in the order core, `published` and `shrunk` of the bus,
  `failures` of an agent, `lost` and `latest` of the scanner, `call` and `passed` of the replay,
  `seen`, `since` and `owed` of the signals, `misused` of the scheduler, `overlapped`, `threw` and the
  fields `tried`, `gone` and `cut` of a broadcast, `returned` of the journal.
* Definitions marked *seeded fault* are the mutated forms of the definition they precede. They
  take no part in any specification; putting one in place of its original breaks the property
  that watches for it.

## 3. The modules

**Order core.** `OrderModel` is the order state machine, `RiskEngine` the rules and counters,
`PaperExchange` cash and prices, `PositionManager` the positions. Each declares its own variables
and the operators other modules call. `OrderService` composes them: `Submit`, `ValidateApprove` or
`ValidateReject`, `Fill` or `ExchangeReject` or `ExchangeRaise`, `Open`, `Return` are the pieces of
`submit_order` between its awaits, `Close` and `ReturnClosed` those of `close_position`. Either call may
end with an error at any of its publishes (`PublishRaises`, `CloseRaises`); a submit that ends so between
the fill and the position is `unopened`.
`Cancel`, `Market`, `NewPeriod`, `KillSwitch` and `Clock` are what others do meanwhile.
`TradeLedger` is the abstract specification: an order is placed, approved or refused, becomes a
long or a short holding by *one* step that also moves the cash, and is settled at most once; a
purchase never costs more than the cash. `OrderService` implements it (`ImplementsLedger`) under
the mapping `Phase`, `StakeOf`, `balance`, in which an order holds from the moment it is filled,
though its position appears an await later.

**Event bus.** `EventBus` models a publish as `Publish` (record the message, read the list, start a
task per handler), `HandlerEnds` per task, and `Resume` (read the *live* list again to name the
failed handlers, count, return or raise). `clear_all` replaces the dictionary of lists; a publish
under way keeps the old list, so lists are numbered by an `epoch`.

**Agents.** `AgentManager` models `register_and_start`, `stop_agent` and `stop_all` as overlapping
calls over agents with the code's transition table. `setup` and `announcing` are where a start
suspends; both may raise, and the error path (`StartFails`) is the code's, including the case where
the move to FAILED is itself illegal. `stop_all` has a stop task per agent and clears the registry
when all have ended. Several agents may share an id.

**Market scanner.** `MarketScanner` numbers the tasks that `start` makes. A task dials, sends its
subscriptions, reads, publishes, loses the connection, backs off. `stop` cancels and waits.
`Continue` is what the event loop does by itself and is fair. Losing a connection and receiving a
message are not fair: the network owes neither. The publish of a lost connection stands outside the
`try`: if it raises, the task has `Crash`ed, `_running` stays true, and a `stop` that waits for it raises.

**Replay.** `Replay` models the merge of the sources (`NextItems`, `Earliest`, `Advance`), the wait
of the clock (`WaitFor`, `Pace`: real-time mode, catching up, full speed, pause, sleep in chunks) and
`play`, `pause`, `stop`, `step`, `set_speed` at every suspension. How long a wait takes is a
choice of 1 to `MaxChunks` chunks. Every end of the task goes through the `finally` clause (`FinishAs`):
by itself or by a cancellation it is `done`, by a publish or a source that raises it has `Crash`ed.

**Lists.** `Lists` has what Python's lists do and the standard modules leave out, `Without` and `Total`,
as recursive functions, which the provers can reason on. `Push`, `Voting` and `Indicators` use it.

**Signals.** `Indicators` holds the eleven indicators as functions from an instance and a bar to an
instance (`Update`), with exact fractions for values, next to their definitions over a history
(`ValueIsRight`). `Voting` holds the three strategies and both consensus engines as functions of a snapshot
of the store. `Signals` composes them: `Candle` publishes, `Compute` is one task of the pipeline
(update every instance, write the store, publish), `Judge` one task of the strategy manager (read
the store, vote, conclude), and `Configure` the calls `AddFeature`, `Enable`, `Disable`, `SetWeight`
and the starts and stops of both components. A strategy that raises (Bollinger divides by the close) casts
no vote, as one that abstains (`Silent`). What lies between a candle and its signal is a queue of
tasks the bus has created and the loop has not started.

**Scheduler.** `Scheduler` separates the dict (`entries`, slots in insertion order), the records and
the loops that were ever created, so that a replaced record and a lost handle are visible. A deleted key
leaves its slot; once no slot is free a new key makes the dict drop the deleted ones (`Compacts`), under
the iterators that walk it. `LoopStep`
is what a loop does when it is resumed; `Stop` and `StopGoesOn` walk the live dict, cancelling one
loop and waiting for it before the next. A loop that its callback's own `CancelledError` ends is `quit`,
not `done`. Its definitions have the prefix `Scheduler` where another
module would otherwise use the same name, as `CoreProofs` extends it together with `EventBus`.

**Push.** `Push` has a server end (`Accept`, `Register`, `Hangup`, `Broadcast`, `SendEnds`), a network
that breaks (`Break`) and a renderer (`Connect`, `Disconnect`, `Reconnect`, `OnOpen`, `OnClose`). Each
end of a socket learns of a break by itself, so the server may list several sockets of one renderer.
`Hangup` is any end of an endpoint, also one that fails at a message while the link is up. A publisher
may be cancelled in the middle of a broadcast (`SendCancelled`), and a handler of the renderer may throw
when it is told of a close (`OnClose`).

**Journal.** `Journal` has the committed rows (`file`) and what the connection sees (`view`). A log call
either inserts and commits, or raises before the insert, or raises at the commit and leaves the row
in the open transaction, where the next commit of any call takes it along; `CloseOrCrash` rolls it
back. The queries are operators over `view`; `ORDER BY` and Python's `sort` are one operator, `Ordered`,
which places each member of a set by how many come before it.

`MC*` modules give these their constants for TLC. `*Proofs` modules hold theorems.

## 4. The runs

| run | instance | what it shows |
|---|---|---|
| `order_service` | 2 orders, both may be in flight, a long and a short request, cash that covers one purchase only, one publish that raises | The books balance at every await (`BooksBalance`); filled orders and positions correspond (`FilledIffPosition`); a service whose calls have returned hands the risk engine its cash, which lacks the holdings (`ValueLacksHoldings`); it implements the ledger (`ImplementsLedger`); every submit ends, if need be with an error (`EverySubmitEnds`). |
| `order_limits` | 3 orders, 2 in flight, limit 1 per day, interval 2, one publish that raises | `DailyFillBound` and `FillPacing`: overlapping calls exceed the limits on frequency, by less than their number, besides orders whose call ended before they were counted. |
| `exposure` (violation) | 4 orders in one symbol, one at a time | `ExposureWithinLimit` fails (section 6). |
| `event_bus` | 2 handlers, 2 messages of one type, history of 1, one `clear_all` | One call per handler and message (`OncePerMessage`); an honest count, and only an *un*subscribe can mislead the error report (`OnlyRemovalsMislead`); the history holds the newest messages (`TypeOK`). |
| `agent_manager` | 3 agents, 2 of them with one id, 4 calls | No agent is left INITIALIZED (`InitializedIsStarting`); the registry ends up live (`RegistryIsLive`); subscriptions are bounded by starts (`OneWrapperPerStart`); every call ends (`EveryCallEnds`). |
| `market_scanner` | 3 tasks, 2 stop calls, 1 stream, 2 timestamps, backoff up to 3 | At most one task that is not about to end (`OneConnection`); stop leaves none (`StopStops`); timestamps never go backwards across reconnections (`NeverBackwards`); it keeps trying, unless its own publish raises (`KeepsTrying`); the delay doubles as documented (`TypeOK`). |
| `replay` | 3 sources with 3, 2 and 3 candles and equal timestamps within and across them, sleeps of up to 3 chunks | Candles in merge order, complete unless stopped or crashed (`MergedInOrder`); nothing after stop and at most one more after pause or step (`AtMostOneMore`); an unpaused replay ends (`EveryReplayEnds`). |
| `signals` | 4 features, a fifth that may be attached once more, 3 strategies, 2 prices, weights 0 and 2, both engines, 3 candles, 2 of them in flight, 2 configuration calls | Nothing cold is announced or voted on (`OnlyWarm`); the store shows one candle (`StoreMirrorsFeatures`); the consensus rules (`ConsensusSound`); what a stop leaves under way is bounded (`StopDrains`). |
| `features` | 12 instances of the 11 kinds, all sequences of up to 7 candles of 3 shapes (one without volume, one without range) | `FeaturesAreRight`: each value is the one its definition gives over the candles since it was attached, and is there exactly from the candle that completes the window. |
| `scheduler` | 2 names, 3 records, 2 loops, dicts of 2 slots or more, 1 stop call at a time | Only five named misuses leave a loop behind (`OnlyMisuseDuplicates`); a stop that returns has joined the rest (`StopJoins`); a loop survives its callback's exceptions, though not a `CancelledError` of its own, and calls back again and again (`LoopsGoOn`). |
| `push` | 3 sockets, 1 broadcast | A broadcast that is not cancelled misses at most one client per removal, and none sends to a client twice (`CastReachesAll`); at most one socket, and the status says what it is (`RendererFollows`); it comes back after every loss, unless a handler throws (`Reconnects`). |
| `journal` | 2 trades, 3 rows over 4 tables, a clock of 2 values, limits 0, 1, 2 and 5 | What a call returned is in the file for ever (`ReturnedIsDurable`); rows are only added, trades closed once (`LoggedImmutably`); each query is right (`QueriesAreRight`). |

`KillSwitchHaltsTrading` (`OrderService`), `FailuresLogged` (`EventBus`), `NoRogueAgents`
(`AgentManager`), `SubscriptionApplied` (`MarketScanner`) and `PlayStarts` (`Replay`) are statements of
the documents that do not hold. Added to the configuration of their component, TLC shows in a few
steps how (section 6).

**Bounds.** Every bound is a constant: `MaxInFlight` (overlapping submits, candles under way), `MaxRaises`
(calls of the order core that end because a publish raises), `MaxTime`, `MaxEpoch` (`clear_all` calls),
`MaxCalls`, `MaxTasks`, `StopCalls`, `MaxStamp`, `MaxChunks`, `MaxCandles`, `MaxChanges`, `MaxNames`,
`MaxRecords`, `MaxLoops`, `Stops`, `MaxSockets`, `Casts`, `MaxRows`, `MaxClock`.

* Two overlapping calls suffice for every race between a read and a write in the order core; the
  third order in `order_limits` is the one that exceeds the limit. One call that a raising publish ends,
  at any of its awaits, meets every state of the other. `Prices` has two values so that
  a position closes at a profit, a loss or neither.
* The bus needs two handlers (an index into a list that lost an element) and two messages (overlap,
  trimming). Agents need four calls: a failed start, its restart, a shutdown, and a call that
  overlaps it. The scanner needs a third task to start after two have been stopped.
* `signals` needs three candles: windows are at most two, and the third is handled while the
  store already has values. Windows of 1 and 2 make an average that is warm while the other is not.
  `features` has seven candles since the widest window is six, the least at which a price can be
  more than two deviations away; both bands are left.
* `scheduler` needs two loops (a stop that waits for the first while the second changes, a replaced
  record, a second start) and a third record, added when `Room`, here two slots, is used up and one of
  them is deleted: that is what resizes the dict under the waiting stop.
* `push` needs three sockets: one the server has not noticed to be broken, one that closes late and
  one that is current. One broadcast is enough, since all another can do to its walk is to remove
  clients, which `Hangup` does too.
* `journal` needs two rows of one instant in one table and one in another; ids, tags and profits
  are compared only for equality, which is what its symmetry rests on.

Deadlock checking is off where the bounded actions (orders, calls, messages, candles, sockets) run
out; the replay can always be played again and the journal's clock set, and there it is on.

**Fairness.** Weak fairness of the steps the event loop itself takes: resuming a coroutine whose
handlers, sleep or network operation has ended. It is assumed that handlers, `setup`, `cleanup` and
a task's callback end, as the code awaits them without a timeout. In the renderer the browser calls
`onopen` or `onclose` of every socket in the end and timers fire; the server accepts. No fairness of
callers, of the network (a connection may stay silent, or break, for ever), of sends, of failures,
or of prices and the clock.

## 5. The proofs

`tlapm` proves the following for every value of the constants, from the named assumptions of the
modules (`ServiceAssumption`, `BusAssumption`, `AgentAssumption`, `ScannerAssumption`,
`ReplayAssumption`, `SchedulerAssumption`, `PushAssumption`, `JournalAssumption`, `SignalAssumption` and
those of the modules they extend). They say that constants are of the right kind and bound none of them from
above: sets and bounds of any size, of orders a finite one, weights natural, prices of orders positive.
`SignalAssumption` has the confidences past a threshold between 75 and 100, as the strategies clamp them;
`ReplayAssumption` has the candles of a source in chronological order, as a recording has them. The one assumption about the
world is `BarAssumption` (`Signals`): prices are not negative and a candle's close lies between its low and
its high. The normalizer takes candles as the exchange sends them and checks none of this; without it %K
leaves the range from 0 to 100 that `ValueIsRight` asks for. Only `IndicatorsRight` uses it.

| module | theorems |
|---|---|
| `OrderServiceProofs` | `TypeCorrect`, `FilledHavePositions` (`FilledIffPosition`), `ValueFollowsCash` (`ValueLacksHoldings`), `DailyLimit` (`DailyFillBound`), `OrderInterval` (`FillPacing`), `CashMatchesPositions` (`BooksBalance`), `Refinement` (`ImplementsLedger`) |
| `AgentManagerProofs` | `TypeCorrect`, `NoneStranded` (`InitializedIsStarting`), `OnlyLiveRegistered` (`RegistryIsLive`), `WrappersBounded` (`OneWrapperPerStart`) |
| `CoreProofs` (event bus) | `TypeCorrect` (`TypeOK`), `OneCallPerHandler` (`OncePerMessage`), `HonestReport` (`OnlyRemovalsMislead`) |
| `CoreProofs` (scheduler) | `SchedulerTypeCorrect` (`SchedulerTypeOK`), `NoLoopLeftBehind` (`OnlyMisuseDuplicates`), `StopJoinsLoops` (`StopJoins`) |
| `MarketScannerProofs` | `TypeCorrect` (`TypeOK`), `SingleConnection` (`OneConnection`), `StopJoinsTask` (`StopStops`), `InTimeOrder` (`NeverBackwards`) |
| `ReplayProofs` | `TypeCorrect`, `ReplayMerges` (`MergedInOrder`), `RunningFlag` (`RunningIsAlive`), `CallsHold` (`AtMostOneMore`) |
| `PushProofs` | `TypeCorrect` (`TypeOK`), `BroadcastReaches` (`CastReachesAll`), `OneSocket` (`RendererFollows`) |
| `SignalsProofs` | `TypeCorrect` (`TypeOK`), `NothingCold` (`OnlyWarm`), `ReadyWhenFull`, `IndicatorsRight` (`FeaturesAreRight`), `StoreIsOneCandle` (`StoreMirrorsFeatures`), `ConsensusIsSound` (`ConsensusSound`), `StopBounded` (`StopDrains`) |
| `JournalProofs` | `TypeCorrect` (`TypeOK`), `Durability` (`ReturnedIsDurable`), `Immutability` (`LoggedImmutably`), `QueriesRight` (`QueriesAreRight`) |

*Order core.* `FilledIffPosition` is not inductive: it says nothing about where a call is. `IInv`
adds to the types `SubmitInv` (what the order's state and fill price are at each await of its
`submit_order`) and `HoldingInv` (which order states, positions, fill prices and closes go
together). `ValueLacksHoldings` is two facts put together: the cached value is the cash as long as no call
that moved cash is under way or ended before its last line (`ValueIsCash`, inductive over `IInv`), and the
books balance. `DailyLimit` needs a counting argument besides: the fills of the day are those the risk
engine has counted plus those of the calls at the await between `Fill` and `Open` or ended there (`unopened`), and
each call in flight was approved while the count was below the limit. `Refinement` maps every
action to a ledger step or a stutter; `IInv` supplies the phase each action starts from.

`OrderInterval` looks at the orders filled since an instant `t` (`GroupInv`). As long as none of them
has reached the risk engine's record, all are in flight; once one has, nothing is approved until the
interval is over, so those filled since and those still to come were in flight together.
`CashMatchesPositions` turns the sums of `BooksBalance`, folds over sets of orders, into recursive functions
on the subsets of a finite set; a step then moves one order's part of a sum, as it moves the cash.

*Agents.* `IInv` ties each call's program counter to its subject and its stop tasks (`SubjectInv`).
For the registry the strengthening is `Handled`: a registered agent that is not active has some
call that will remove it or make it run. For the subscriptions it is a budget: subscriptions made
plus subscriptions still to come (`Pending`) stay within `Allowance`, which failures and the live
start pay for. The number of pending starts is a cardinality, moved by lemmas on finite sets.

*Replay.* `WaitInv` says what has been published in terms of the positions of the iterators: exactly
the candles before them, and, between publishing and advancing, the earliest one besides. That
`Earliest` exists and is before every candle still to come follows from the least element of a set of
timestamps and from each source being in order. `Complete` speaks of a task that is `done`, not one that crashed; it needs, besides, that a task is cancelled
only with the stop event set. `ControlInv` relates the pause and step flags and a pending
cancellation with the count of candles published since the last call.

*Event bus.* `OncePerMessage` rests on every handler list being injective, which `subscribe`'s check
keeps. For the report the strengthening is `StillListed`: as long as no handler was removed, the list
a publish read is a prefix of the live one, so an index names the handler it was read for. The
count is honest because the tasks that ended well and the handlers they ran correspond one to one.
`TypeOK` includes what the history holds, which needs a lemma on cutting a sequence (`TrimKeepsNewest`).

*Scheduler.* `LoopInv`, as long as nothing was misused: a loop that goes on is the handle of its record and
the record is in the dict (`Handled`), which is `OnlyMisuseDuplicates` and more; after a stop none goes on
(`Stopped`); and while stop waits, what it has walked past is not alive, and what it waits for is the
loop of the record it stands at (`Awaited`). Each add that resizes the dict keeps every record that has a
slot, in its order, which needs the numbering of a finite set; that it does so under a waiting stop is
one of the misuses, as it moves records to slots the stop has passed. The loops that `start` makes are told apart by their place
among the records that want one.

*Scanner.* `Accounted`: every task that is alive is the current one or is waited for by a stop, and in
either case cancelled unless it is the current one of a running scanner. Both `OneConnection` and
`StopStops` follow. For `NeverBackwards`, the cache is at least the newest timestamp published. The
powers of two of `TypeOK` are a recursive function of the number of failures.

*Push.* `Tidy`, which is what `RendererFollows` says when connect did not overlap an earlier socket:
all sockets that are not closed are one, and that one is the service's current socket or is closing.
With it each callback acts on the socket it belongs to. For the server, `Walked` counts: beyond its index
a broadcast has sent to nobody, and of the positions up to it all but as many as were taken out hold
sockets it has sent to. `list.remove` is a recursive function (`Without`) that is shown to keep all other
elements in their order.

*Signals.* `Fed` says per indicator how many elements its deques hold after `n` bars, and so when it is
ready; what is announced was ready then and stays so (`WarmKept`), and so is what waits in the queues.
For the store, `Mirrored` is stated for any prefix of the instances, as `Compute` writes one after the
other. The consensus engines add up votes with recursive functions; a majority of the votes, and a weighted mean
between its least and greatest part, follow from bounds on those sums (`SummedUpTo`).

*Indicators.* `Saw` says what an instance holds of the `n` bars it has seen, per kind: its deque is how the list of
closes ends (`EndOf`), a running sum is the sum over the deque (`Averages`, `Weighs`), a smoothed value is
`Level`, the seed and the weighted moves of `Blend`, brought forward by one step of the recurrence (`Smooths`,
`Ranged`, `Shares`), the pairs of `BB` are those of its two parts (`Banded`), `STOCH` keeps the %K of the last
three windows (`Oscillates`), `OBV` the sum of all flows (`Accumulated`). `NewSaw`, `UpdateSaw` and
`SawRight` are the three facts: it holds of a new instance, each update keeps it, and with it a value that is
ready is the definition's. `STDDEV` needs that the sum of pairwise squared differences is `w` times the sum
of squares less the square of the sum. `SawBars` carries `Saw` through the pipeline, for the bars since each
instance was attached.

*Journal.* `Kept`: each table of the file grows into the one the connection sees (`Grown`: every row is
still there under its position and id, at most closed meanwhile), and ids differ. A commit and a
rollback then both keep what was returned. For the queries, the order by time and position is strict
(`StrictOrder`), so the members of a set have the places 1, 2, and so on, and `Ordered` lists the first ones
(`OrderedRight`). `get_recent` is right although it cuts early: a table that was cut has as many rows as
asked for, all at least as new as those left out, so a row that is left out is no newer than what is
shown (`NothingNewerLeft`).

*Induction.* Where a proof needs an induction over data (sums, folds, powers, removal from a list), the
definition is a recursive function, and the proof takes the least number for which the claim fails,
which the well-foundedness of the numbers gives, and refutes it.

What stays with TLC: all liveness (`EverySubmitEnds`, `EveryCallEnds`, `KeepsTrying`,
`EveryReplayEnds`, `LoopsGoOn`, `Reconnects`), as fairness and ENABLED are beyond the provers. Every
invariant and action property of a passing run is a theorem. `TypeOK` of the order service, the agents and
the replay, and `RunningIsAlive`, are proved and not run.

## 6. What the checks found

`exposure` is a run of its own: positions are passed to the risk engine in a dict keyed by symbol, so
only the last position of a symbol counts, and sequential orders exceed the exposure limit
(`B/risk/meta_rules.yaml:12`).

Other places where the code does not do what a sentence of the repository says. The first five are
shown by the statements named below the table in section 4. Of the others, those
that are steps of a model name the property that allows for them.

* An order approved just before the kill switch is turned on is filled after it, as the switch is
  read only in `validate` (`B/risk/engine.py:359`: "Immediately halt all trading").
* Failed handlers are named by index in the live list. After an unsubscribe in between, the wrong
  handler is logged or publish raises (`B/core/event_bus.py:77`).
* `stop_all` during an agent's `setup` skips the agent and forgets it; it then runs
  (`docs/adr/005-agent-framework.md:19`).
* `subscribe` cancels the connection task and nothing starts another
  (`B/market/scanner.py:63`: "Scanner will reconnect if necessary to apply it").
* `play` right after `stop` resumes the clock of a task that is ending; no replay starts
  (`B/replay/controller.py:94`).
* The portfolio value given to `validate` is the cash: it lacks what is held in open positions, so every
  limit in percent of the portfolio is one in percent of the cash (`B/risk/engine.py:139`: "Total portfolio
  value in quote currency"); `ValueLacksHoldings` says what it is.
* A publish of `OrderFilled` that raises leaves an order filled, paid for, without a position and uncounted
  (`B/execution/order_service.py:212`); `FilledIffPosition`, `BooksBalance` and `DailyFillBound` name it.
* A publish of the lost connection that raises ends the scanner's task with `_running` true, and `start`
  then makes no other (`B/market/scanner.py:124`, `docs/adr/008-data-pipeline.md:40`); `KeepsTrying` names it.
* `step` pressed while a candle is with its handlers processes no further candle, only pauses after that
  one (`B/replay/controller.py:118`: "Process exactly one candle then pause.", `docs/API_CONTRACT.md:14`);
  `AtMostOneMore` says at most one.
* The CSV source builds `CandleEvent` with a field the class does not have, and swallows the error,
  so it yields nothing (`B/replay/sources.py:42`).
* Events with *equal* timestamps are accepted again, where the comment and the ADR say strictly
  increasing (`B/market/cache.py:29`, `docs/adr/008-data-pipeline.md:37`).
* EMA_CROSS is enabled and reads EMA 20 and EMA 50, but nothing computes EMA 50: it abstains for ever
  (`B/api/lifespan.py:139`).
* A strategy manager that was stopped still publishes the signals of updates under way
  (`B/strategy/manager.py:66`); `StopDrains` says how many.
* `SignalGenerated` goes to the WebSocket clients and to no risk engine (`B/strategy/manager.py:163`).
* Enabling a task sets its flag and starts no loop (`B/core/scheduler.py:79`).
* `stop` of the scheduler misses loops whose record was replaced or whose handle was overwritten, and
  raises when the number of keys changes under it (`B/core/scheduler.py:105`). When a remove and an add keep
  the number but the add resizes the dict, the iterator skips live loops and `stop` returns without them.
  `OnlyMisuseDuplicates` names the calls that lead there.
* A callback that lets out a `CancelledError` of its own ends its loop (`B/core/scheduler.py:128`, against
  `:132`, "with error handling"); `LoopsGoOn` names it (`quit`).
* The scheduler is created and never started (`B/api/lifespan.py:92`), the journal opened and never
  written to (`B/api/lifespan.py:100`).
* A client that leaves during a broadcast makes it skip another (`B/api/websocket.py:60`: "Send data to
  ALL connected clients"); `CastReachesAll` bounds the miss. One whose publisher is cancelled reaches none of
  those it has not come to.
* After disconnect and connect, the late `onclose` of the first socket acts on the service of the
  second: wrong status, no more pings, a second socket (`electron-app/.../websocket.ts:86`).
* A handler that throws when it is told of a close skips the reconnect (`websocket.ts:89`, against `:4`,
  "Auto-reconnects on disconnect"); `Reconnects` names it (`threw`).
* `close_trade` of a closed trade changes nothing and logs a success (`B/memory/journal.py:86`).

Where a property holds in a weaker form than the document's (`NeverBackwards`, `MergedInOrder`,
`AtMostOneMore`, `StopDrains`, `CastReachesAll`, `OnlyMisuseDuplicates`, `LoopsGoOn`, `KeepsTrying`,
`RendererFollows`, `Reconnects`), it states what does hold.

Also worth knowing, though no document promises otherwise: `cancel_order` accepts a filled order,
which keeps its position and its cash effect (`FilledIffPosition` says so); an order in a symbol
without a price ends its `submit_order` with an error and stays ACCEPTED; a replay whose publish or
source raises ends and logs it, with candles left; a commit that raises leaves its row to the next commit
of any call.

## 7. What is not covered

* *Order core*: leverage (no caller passes one), `calculate_safe_size` (no caller), the state before
  `load_rules`, `reset()` of the exchange and `clear()` of the positions (testing only), fractional
  money. Handlers of order events may do anything the other actions do, but nothing else.
* *Event bus*: handlers of different types share no state; the MC module uses one type.
* *Agents*: bodies of `handle`, health checks and broadcasts, which leave the framework's state
  alone; `start` or `stop` called on an agent past the manager.
* *Scanner*: the normalizer's parsing.
* *Replay*: CSV parsing. With no handlers subscribed a publish does not suspend; the model always
  lets it. Real durations: only the order of events and the number of chunks matter.
* *Signals*: one symbol (symbols share only weights and counters by strategy name); reasons and
  timestamps of signals; rounding of floats; how far past a threshold a price is, which only sets a
  confidence (`Strength`). The registry of feature classes is a constant. Weights are natural numbers, which
  stand for non-negative floats; `set_weight` takes any float, and nothing in the repository passes a
  negative one (`B/api/lifespan.py:155`). Closes are not negative.
* *Scheduler*: `run_once`, `run_count`, `last_error`, which no loop depends on.
* *Push*: payloads, ping and pong and the ping timer, `close_all` (called when the web server has
  ended the endpoints). A send may take for ever. The `catch` of `doConnect` (`websocket.ts:103`) is for a URL
  the constructor refuses; the URL is a constant and is none.
* *Journal*: columns no query filters or orders by; side and severity, filtered as tags are, so that
  `get_risk_events` is the query the others are, and open and closed trades are told apart by their status;
  negative limits, which SQLite takes for none and which no caller passes; `delete_db`. Ids made from a
  UUID are taken to differ.
* Not modelled at all: messages, normalizer, service registry, AI gateway, exchange connector,
  settings, screens, and the REST routes other than the WebSocket endpoint. They hold no state over
  which steps of several actors meet: one HTTP request, one external call or one dictionary access
  per call. The connector's lost answer to `create_order` is listed as a hazard; nothing creates a
  connector yet. The reasons are in `PROJECT.json`.

## 8. Plan

Done: every component with state of its own, with the runs and proofs above; every invariant and action
property of the passing runs is a theorem. What is left is liveness for all values of the constants, which the provers
do not reach, and the components of section 7 should the code give them state of their own: the
exchange connector once something creates one, and whatever is to carry a signal to the order service.
