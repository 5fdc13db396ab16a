---------------------------- MODULE OrderService ----------------------------
(***************************************************************************)
(* execution/order_service.py over the risk engine, the paper exchange and *)
(* the position manager.                                                   *)
(*                                                                         *)
(* submit_order and close_position are coroutines.  Each `await publish`   *)
(* suspends while the subscribed handlers run, and every other call and    *)
(* every other task may run in that gap; between two awaits nothing can.   *)
(* So pc holds the await a submit_order call is suspended at, closing the  *)
(* one of a close_position call, and an action is the code between two     *)
(* awaits.  execute_order and get_current_price are awaited but never      *)
(* suspend.  PositionClosed and PnLUpdated are published one after the     *)
(* other with nothing written in between: one suspension.                  *)
(* No publish is inside a try: one that raises (event_bus.py:103 indexes a *)
(* list that may have shrunk), and the cancellation of the task that made  *)
(* the call, end the call at the await it is at.                           *)
(***************************************************************************)
EXTENDS RiskEngine, PaperExchange, PositionManager

CONSTANTS
  MaxInFlight,   \* bound: how many submit_order calls overlap
  MaxRaises      \* bound: how many calls end because a publish raises

ASSUME ServiceAssumption ==
  /\ MaxInFlight \in Nat \ {0}
  /\ MaxRaises \in Nat
  /\ IsFiniteSet(Orders)

VARIABLES
  pc,              \* where the submit_order call of an order is suspended
  closing,         \* where the close_position call of a position is suspended
  portfolioValue,  \* _portfolio_value
  fillTime,        \* history: when the order was filled; 0 before
  fillsToday       \* history: fills since the last reset_daily

serviceVars == <<pc, closing, portfolioValue>>
historyVars == <<fillTime, fillsToday>>
vars == <<orderVars, riskVars, exchangeVars, positionVars, serviceVars, historyVars>>

PcState == {"idle", "submitted", "validated", "filled", "opened", "rejected", "returned", "raised",
            "unopened"}   \* raised after the fill, before the position

Init ==
  /\ OrderInit /\ RiskInit /\ ExchangeInit /\ PositionInit
  /\ pc = [o \in Orders |-> "idle"]
  /\ closing = [o \in Orders |-> "idle"]
  /\ portfolioValue = InitialBalance
  /\ fillTime = [o \in Orders |-> 0]
  /\ fillsToday = 0

At(label)  == {o \in Orders : pc[o] = label}
InFlight   == {o \in Orders : pc[o] \notin {"idle", "returned", "raised", "unopened"}}
GoTo(o, l) == pc' = [pc EXCEPT ![o] = l]

-----------------------------------------------------------------------------
\* submit_order, from one await to the next.

Submit(o, r) ==                          \* create, publish OrderSubmitted
  /\ pc[o] = "idle"
  /\ Cardinality(InFlight) < MaxInFlight
  /\ state' = [state EXCEPT ![o] = "new"]
  /\ request' = [request EXCEPT ![o] = r]
  /\ GoTo(o, "submitted")
  /\ UNCHANGED <<fillPrice, riskVars, exchangeVars, positionVars, closing,
                 portfolioValue, historyVars>>

\* open_positions is a dict keyed by symbol: of several open positions in one
\* symbol only the one opened last reaches the risk engine.
Shown == {o \in OpenPositions :
            ~\E p \in OpenPositions : /\ request[p].symbol = request[o].symbol
                                      /\ rank[p] > rank[o]}
ShownIn(symbol)  == {o \in Shown : request[o].symbol = symbol}
ExistingValue(o) == MapThenSumSet(Notional, ShownIn(request[o].symbol))
Exposure         == MapThenSumSet(Notional, Shown)

Verdict(o) == Approves(request[o], portfolioValue, ExistingValue(o), Exposure)

ValidateApprove(o) ==                    \* publish OrderValidated
  /\ pc[o] = "submitted"
  /\ Verdict(o)
  /\ Transition(o, "validated")
  /\ GoTo(o, "validated")
  /\ UNCHANGED <<request, fillPrice, riskVars, exchangeVars, positionVars, closing,
                 portfolioValue, historyVars>>

ValidateReject(o) ==                     \* publish OrderRejected
  /\ pc[o] = "submitted"
  /\ ~Verdict(o)
  /\ Transition(o, "rejected")
  /\ GoTo(o, "rejected")
  /\ UNCHANGED <<request, fillPrice, riskVars, exchangeVars, positionVars, closing,
                 portfolioValue, historyVars>>

Fill(o) ==                               \* publish OrderFilled
  /\ pc[o] = "validated"
  /\ ExecuteFill(o)
  /\ GoTo(o, "filled")
  /\ fillTime' = [fillTime EXCEPT ![o] = now]
  /\ fillsToday' = fillsToday + 1
  /\ UNCHANGED <<riskVars, positionVars, closing, portfolioValue>>

ExchangeReject(o) ==                     \* publish OrderRejected
  /\ pc[o] = "validated"
  /\ ExecuteReject(o)
  /\ GoTo(o, "rejected")
  /\ UNCHANGED <<riskVars, positionVars, closing, portfolioValue, historyVars>>

ExchangeRaise(o) ==                      \* the call ends with the ValueError
  /\ pc[o] = "validated"
  /\ ExecuteRaise(o)
  /\ GoTo(o, "raised")
  /\ UNCHANGED <<riskVars, positionVars, closing, portfolioValue, historyVars>>

Open(o) ==                               \* record the trade, publish PositionOpened
  /\ pc[o] = "filled"
  /\ RecordTradeResult(0)
  /\ OpenPosition(o)
  /\ GoTo(o, "opened")
  /\ UNCHANGED <<orderVars, exchangeVars, closing, portfolioValue, historyVars>>

ReturnStale(o) ==   \* seeded fault: the portfolio value is not refreshed
  /\ pc[o] = "opened"
  /\ GoTo(o, "returned")
  /\ UNCHANGED <<orderVars, riskVars, exchangeVars, positionVars, closing, portfolioValue,
                 historyVars>>

Return(o) ==
  /\ pc[o] = "opened"
  /\ portfolioValue' = balance
  /\ GoTo(o, "returned")
  /\ UNCHANGED <<orderVars, riskVars, exchangeVars, positionVars, closing, historyVars>>

ReturnRejected(o) ==
  /\ pc[o] = "rejected"
  /\ GoTo(o, "returned")
  /\ UNCHANGED <<orderVars, riskVars, exchangeVars, positionVars, closing, portfolioValue,
                 historyVars>>

MayRaise == Cardinality({o \in Orders : pc[o] \in {"raised", "unopened"}})
              + Cardinality({o \in Orders : closing[o] = "raised"}) < MaxRaises

\* The publish the call is suspended at raises: what was written stays, and
\* nothing after it happens.
PublishRaises(o) ==
  /\ o \in InFlight /\ MayRaise
  /\ GoTo(o, IF pc[o] = "filled" THEN "unopened" ELSE "raised")
  /\ UNCHANGED <<orderVars, riskVars, exchangeVars, positionVars, closing, portfolioValue,
                 historyVars>>

-----------------------------------------------------------------------------
\* close_position.  The exit price is the caller's or the market's.

CashAfterCloseOfLong(o, exit) == balance + exit * Amount(o)   \* seeded fault

CashAfterClose(o, exit) ==
  IF IsBuy(o) THEN balance + exit * Amount(o) ELSE balance - exit * Amount(o)

Close(o, exit) ==                        \* publish PositionClosed, PnLUpdated
  /\ ClosePosition(o, exit)
  /\ balance' = CashAfterClose(o, exit)
  /\ RecordTradeResult(RealizedPnl(o, exit))
  /\ closing' = [closing EXCEPT ![o] = "publishing"]
  /\ UNCHANGED <<orderVars, prices, stored, pc, portfolioValue, historyVars>>

ReturnClosed(o) ==
  /\ closing[o] = "publishing"
  /\ portfolioValue' = balance
  /\ closing' = [closing EXCEPT ![o] = "returned"]
  /\ UNCHANGED <<orderVars, riskVars, exchangeVars, positionVars, pc, historyVars>>

CloseRaises(o) ==                        \* one of the two publishes raises
  /\ closing[o] = "publishing" /\ MayRaise
  /\ closing' = [closing EXCEPT ![o] = "raised"]
  /\ UNCHANGED <<orderVars, riskVars, exchangeVars, positionVars, pc, portfolioValue,
                 historyVars>>

-----------------------------------------------------------------------------
\* Calls of others, between any two steps of the coroutines.

Cancel(o) ==
  /\ CancelOrder(o)
  /\ UNCHANGED <<riskVars, positionVars, serviceVars, historyVars>>

Market(s, p) ==
  /\ SetPrice(s, p)
  /\ UNCHANGED <<orderVars, riskVars, positionVars, serviceVars, historyVars>>

NewPeriod ==
  /\ ResetDaily \/ ResetWeekly
  /\ fillsToday' = 0
  /\ UNCHANGED <<orderVars, exchangeVars, positionVars, serviceVars, fillTime>>

KillSwitch ==
  /\ \E on \in BOOLEAN : SetKillSwitch(on)
  /\ UNCHANGED <<orderVars, exchangeVars, positionVars, serviceVars, historyVars>>

Clock ==
  /\ Tick
  /\ UNCHANGED <<orderVars, exchangeVars, positionVars, serviceVars, historyVars>>

Step(o) ==
  \/ ValidateApprove(o) \/ ValidateReject(o)
  \/ Fill(o) \/ ExchangeReject(o) \/ ExchangeRaise(o)
  \/ Open(o) \/ Return(o) \/ ReturnRejected(o)
  \/ ReturnClosed(o)
  \/ PublishRaises(o) \/ CloseRaises(o)

Next ==
  \/ \E o \in Orders, r \in Requests : Submit(o, r)
  \/ \E o \in Orders : Step(o)
  \/ \E o \in Orders, exit \in Prices : Close(o, exit)
  \/ \E o \in Orders : Cancel(o)
  \/ \E s \in Symbols, p \in Quotes : Market(s, p)
  \/ NewPeriod
  \/ KillSwitch
  \/ Clock

Spec == Init /\ [][Next]_vars

\* The event loop resumes every suspended call once its handlers are done.
FairSpec == Spec /\ \A o \in Orders : WF_vars(Step(o))

-----------------------------------------------------------------------------
\* What every state and step of the service satisfies.

\* Types of every variable, and how far each history variable reaches.
TypeOK ==
  /\ state \in [Orders -> OrderState \cup {"none"}]
  /\ request \in [Orders -> Requests \cup {NoRequest}]
  /\ fillPrice \in [Orders -> Nat]
  /\ dailyPnl \in Int /\ weeklyPnl \in Int /\ balance \in Int /\ portfolioValue \in Int
  /\ dailyTradeCount \in Nat /\ fillsToday \in Nat
  /\ lastOrderTime \in Nat /\ lastLossTime \in Nat /\ now \in Nat
  /\ killSwitch \in BOOLEAN
  /\ prices \in [Symbols -> Prices \cup {NoPrice}]
  /\ stored \in SUBSET Orders
  /\ position \in [Orders -> {"none", "open", "closed"}]
  /\ rank \in [Orders -> Nat]
  /\ exitPrice \in [Orders -> Nat]
  /\ pc \in [Orders -> PcState]
  /\ closing \in [Orders -> {"idle", "publishing", "returned", "raised"}]
  /\ fillTime \in [Orders -> Nat]

\* An order whose fill has been paid for and not been sold back: its position
\* is open, or submit_order is still publishing OrderFilled, or ended there.
Held(o) == pc[o] \in {"filled", "unopened"} \/ position[o] = "open"

HeldValue(o)  == IF IsBuy(o) THEN Notional(o) ELSE -Notional(o)
Profit(o)     == RealizedPnl(o, exitPrice[o])
RealizedTotal == MapThenSumSet(Profit, {o \in Orders : position[o] = "closed"})

\* The cash of the exchange and the positions of the manager are two books kept
\* by different calls: at every await the cash plus the holdings at cost is the
\* starting balance plus the profit the closed positions report.
BooksBalance ==
  balance + MapThenSumSet(HeldValue, {o \in Orders : Held(o)}) = InitialBalance + RealizedTotal

\* Once OrderFilled has been published a filled order has exactly its position,
\* cancelled or not, and no other order has one; only a publish of OrderFilled
\* that raises leaves an order filled, paid for and without a position.
FilledIffPosition ==
  \A o \in Orders :
    (position[o] # "none" \/ pc[o] \in {"filled", "unopened"})
      <=> state[o] \in {"filled", "cancelled"}

\* The portfolio value that the next validation uses is no portfolio value
\* while positions are open: it lacks the holdings.  When every call that moved
\* cash has returned, it is the starting balance with the profit of the closed
\* positions, less all that is paid for the open ones (and with the proceeds
\* of the open shorts), whatever order the overlapping calls returned in.
Moved(o) == \/ pc[o] \in {"filled", "opened", "unopened"}
            \/ pc[o] = "raised" /\ position[o] # "none"
            \/ closing[o] \in {"publishing", "raised"}

Settled == \A o \in Orders : ~Moved(o)

ValueLacksHoldings ==
  Settled => portfolioValue =
    (InitialBalance + RealizedTotal) - MapThenSumSet(HeldValue, {o \in Orders : Held(o)})

\* The daily limit is read before an await and counted after another, so calls
\* that overlap can exceed it, but by less than their number; a call that ends
\* between the fill and its recording is never counted.
DailyFillBound == fillsToday <= MaxDailyTrades + MaxInFlight - 1 + Cardinality(At("unopened"))

\* The same for the order interval: of the recorded orders filled within one
\* interval all were submitted before the first of them was recorded.
FilledFrom(t) == {p \in Orders : /\ fillTime[p] # 0 /\ pc[p] # "unopened"
                                /\ fillTime[p] \in t .. (t + MinOrderInterval - 1)}

FillPacing ==
  \A o \in Orders : fillTime[o] # 0 => Cardinality(FilledFrom(fillTime[o])) <= MaxInFlight

\* The order states, the positions and the cash, put together, are the ledger
\* of TradeLedger: a filled order holds from the moment it is filled.
Phase(o) ==
  CASE position[o] = "closed" -> "settled"
    [] Held(o) /\ IsBuy(o)    -> "long"
    [] Held(o) /\ ~IsBuy(o)   -> "short"
    [] OTHER -> CASE state[o] = "none"      -> "idle"
                  [] state[o] = "new"       -> "pending"
                  [] state[o] = "validated" -> "approved"
                  [] state[o] = "accepted"  -> "stuck"
                  [] OTHER                  -> "refused"

StakeOf(o) == IF fillPrice[o] = 0 THEN 0 ELSE Notional(o)

Ledger == INSTANCE TradeLedger WITH
  phase <- [o \in Orders |-> Phase(o)],
  stake <- [o \in Orders |-> StakeOf(o)],
  cash  <- balance

ImplementsLedger == Ledger!Spec

\* Every submit_order call ends: with the order returned, with the error of a
\* symbol that has no price, or with the error of a publish.
EverySubmitEnds ==
  \A o \in Orders : (pc[o] = "submitted") ~> (pc[o] \in {"returned", "raised", "unopened"})

-----------------------------------------------------------------------------
\* What the documents say, and the code does not do.

\* risk/engine.py:359: the kill switch immediately halts all trading.
KillSwitchHaltsTrading == [][killSwitch => UNCHANGED fillTime]_vars

\* meta_rules.yaml:12: at most this share of the portfolio in active positions
\* (for long positions: cash and holdings at cost are the whole portfolio).
ExposureWithinLimit ==
  LET invested == MapThenSumSet(HeldValue, {o \in Orders : Held(o)})
  IN  WithinPct(invested, MaxExposurePct, balance + invested)
=============================================================================
