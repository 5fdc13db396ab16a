------------------------- MODULE OrderServiceProofs -------------------------
(***************************************************************************)
(* Theorems about OrderService, for any set of orders, requests and prices *)
(* and any limits.                                                         *)
(***************************************************************************)
EXTENDS OrderService, FiniteSetTheorems, WellFoundedInduction, TLAPS

-----------------------------------------------------------------------------
\* The inductive invariant: where a submit_order call is suspended says what
\* state its order is in, what it was asked for, and whether it has a position.

SubmitInv(o) ==
  /\ pc[o] = "idle" => state[o] = "none"
  /\ pc[o] # "idle" => request[o] \in Requests
  /\ pc[o] = "submitted" => state[o] = "new"
  /\ pc[o] = "validated" => state[o] = "validated"
  /\ pc[o] \in {"filled", "opened", "unopened"} => state[o] \in {"filled", "cancelled"}
  /\ pc[o] = "rejected" => state[o] = "rejected"
  /\ pc[o] = "raised" => state[o] # "none"
  /\ pc[o] = "returned" => state[o] \in {"filled", "cancelled", "rejected"}

HoldingInv(o) ==
  /\ position[o] # "none" => pc[o] \in {"opened", "returned", "raised"}
  /\ state[o] \in {"filled", "cancelled"} =>
       pc[o] \in {"filled", "unopened"} \/ position[o] # "none"
  /\ position[o] # "none" => state[o] \in {"filled", "cancelled"}
  /\ state[o] \in {"filled", "cancelled"} => fillPrice[o] \in Nat \ {0}
  /\ state[o] \notin {"filled", "cancelled"} => fillPrice[o] = 0
  /\ closing[o] # "idle" => position[o] = "closed"
  /\ o \in stored => state[o] \in {"filled", "cancelled"}

IInv ==
  /\ TypeOK
  /\ \A o \in Orders : SubmitInv(o)
  /\ \A o \in Orders : HoldingInv(o)

\* The transition table, as the facts the steps use.
LEMMA TransitionTable ==
  /\ ORDER_TRANSITIONS["new"] = {"validated", "rejected"}
  /\ ORDER_TRANSITIONS["validated"] = {"accepted", "rejected"}
  /\ ORDER_TRANSITIONS["accepted"] = {"filled", "cancelled", "rejected"}
  /\ ORDER_TRANSITIONS["filled"] = {"closed", "cancelled"}
BY DEF ORDER_TRANSITIONS, OrderState

\* What the constants contribute: requests ask for a natural amount.
LEMMA RequestFields ==
  ASSUME NEW r \in Requests
  PROVE  r.amount \in Nat /\ r.symbol \in Symbols
BY OrderAssumption

LEMMA PriceIsPositive == \A p \in Prices : p \in Nat \ {0}
BY OrderAssumption

\* At a known price an order costs a natural number.
LEMMA MarketFacts ==
  ASSUME TypeOK, NEW o \in Orders, request[o] \in Requests, PriceKnown(o)
  PROVE  /\ MarketPrice(o) \in Nat \ {0}
         /\ Amount(o) \in Nat
         /\ MarketCost(o) \in Nat
<1>1. MarketPrice(o) \in Nat \ {0}
  BY RequestFields, PriceIsPositive DEF TypeOK, PriceKnown, MarketPrice
<1>2. Amount(o) \in Nat
  BY RequestFields DEF Amount
<1> QED
  BY <1>1, <1>2 DEF MarketCost

\* Only finitely many positions have ever been opened.
LEMMA OpenedIsFinite == Cardinality(Opened) \in Nat
BY ServiceAssumption, FS_Subset, FS_CardinalityType DEF Opened

LEMMA InitIInv == Init => IInv
<1> SUFFICES ASSUME Init PROVE IInv
  OBVIOUS
<1> USE DEF Init, OrderInit, RiskInit, ExchangeInit, PositionInit
<1>1. TypeOK
  <2> USE ExchangeAssumption DEF OrderState, PcState
  <2>1. state \in [Orders -> OrderState \cup {"none"}]
    OBVIOUS
  <2>2. request \in [Orders -> Requests \cup {NoRequest}] /\ fillPrice \in [Orders -> Nat]
    OBVIOUS
  <2>3. prices \in [Symbols -> Prices \cup {NoPrice}] /\ stored \in SUBSET Orders
    OBVIOUS
  <2>4. /\ position \in [Orders -> {"none", "open", "closed"}]
        /\ rank \in [Orders -> Nat] /\ exitPrice \in [Orders -> Nat]
    OBVIOUS
  <2>5. /\ pc \in [Orders -> PcState] /\ closing \in [Orders -> {"idle", "publishing", "returned", "raised"}]
        /\ fillTime \in [Orders -> Nat]
    OBVIOUS
  <2>6. dailyPnl \in Int /\ weeklyPnl \in Int /\ balance \in Int /\ portfolioValue \in Int
    OBVIOUS
  <2> QED
    BY <2>1, <2>2, <2>3, <2>4, <2>5, <2>6 DEF TypeOK
<1>2. ASSUME NEW o \in Orders PROVE SubmitInv(o) /\ HoldingInv(o)
  BY DEF SubmitInv, HoldingInv
<1> QED
  BY <1>1, <1>2 DEF IInv

-----------------------------------------------------------------------------
\* Every step preserves the invariant: one step per action, and under it the
\* types and the conjuncts of an arbitrary order p.

LEMMA NextIInv == IInv /\ [Next]_vars => IInv'
<1> SUFFICES ASSUME IInv, [Next]_vars PROVE IInv'
  OBVIOUS
<1> USE DEF IInv, vars, orderVars, riskVars, exchangeVars, positionVars, serviceVars,
            historyVars, GoTo
<1>1. ASSUME NEW o \in Orders, NEW r \in Requests, Submit(o, r) PROVE IInv'
  <2>1. TypeOK'
    BY <1>1
       DEF TypeOK, OrderState, PcState, Submit
  <2>2. ASSUME NEW p \in Orders PROVE SubmitInv(p)' /\ HoldingInv(p)'
    BY <1>1, TransitionTable
       DEF TypeOK, SubmitInv, HoldingInv, Submit
  <2> QED
    BY <2>1, <2>2
<1>2. ASSUME NEW o \in Orders, ValidateApprove(o) PROVE IInv'
  <2>1. TypeOK'
    BY <1>2, TransitionTable
       DEF TypeOK, OrderState, PcState, ValidateApprove, Transition
  <2>2. ASSUME NEW p \in Orders PROVE SubmitInv(p)' /\ HoldingInv(p)'
    BY <1>2, TransitionTable
       DEF TypeOK, SubmitInv, HoldingInv, ValidateApprove, Transition
  <2> QED
    BY <2>1, <2>2
<1>3. ASSUME NEW o \in Orders, ValidateReject(o) PROVE IInv'
  <2>1. TypeOK'
    BY <1>3, TransitionTable
       DEF TypeOK, OrderState, PcState, ValidateReject, Transition
  <2>2. ASSUME NEW p \in Orders PROVE SubmitInv(p)' /\ HoldingInv(p)'
    BY <1>3, TransitionTable
       DEF TypeOK, SubmitInv, HoldingInv, ValidateReject, Transition
  <2> QED
    BY <2>1, <2>2
<1>4. ASSUME NEW o \in Orders, Fill(o) PROVE IInv'
  <2>1. TypeOK'
    BY <1>4, MarketFacts, TransitionTable DEF SubmitInv, TypeOK, OrderState, PcState, Fill,
       ExecuteFill, TransitionVia
  <2>2. ASSUME NEW p \in Orders PROVE SubmitInv(p)' /\ HoldingInv(p)'
    BY <1>4, MarketFacts, TransitionTable
       DEF TypeOK, SubmitInv, HoldingInv, Fill,
       ExecuteFill, TransitionVia
  <2> QED
    BY <2>1, <2>2
<1>5. ASSUME NEW o \in Orders, ExchangeReject(o) PROVE IInv'
  <2>1. TypeOK'
    BY <1>5, TransitionTable
       DEF TypeOK, OrderState, PcState, ExchangeReject, ExecuteReject, TransitionVia
  <2>2. ASSUME NEW p \in Orders PROVE SubmitInv(p)' /\ HoldingInv(p)'
    BY <1>5, TransitionTable
       DEF TypeOK, SubmitInv, HoldingInv, ExchangeReject, ExecuteReject, TransitionVia
  <2> QED
    BY <2>1, <2>2
<1>6. ASSUME NEW o \in Orders, ExchangeRaise(o) PROVE IInv'
  <2>1. TypeOK'
    BY <1>6, TransitionTable
       DEF TypeOK, OrderState, PcState, ExchangeRaise, ExecuteRaise, Transition
  <2>2. ASSUME NEW p \in Orders PROVE SubmitInv(p)' /\ HoldingInv(p)'
    BY <1>6, TransitionTable
       DEF TypeOK, SubmitInv, HoldingInv, ExchangeRaise, ExecuteRaise, Transition
  <2> QED
    BY <2>1, <2>2
<1>7. ASSUME NEW o \in Orders, Open(o) PROVE IInv'
  <2>1. TypeOK'
    BY <1>7, OpenedIsFinite
       DEF TypeOK, OrderState, PcState, Open, OpenPosition, RecordTradeResult
  <2>2. ASSUME NEW p \in Orders PROVE SubmitInv(p)' /\ HoldingInv(p)'
    BY <1>7, TransitionTable
       DEF TypeOK, SubmitInv, HoldingInv, Open, OpenPosition, RecordTradeResult
  <2> QED
    BY <2>1, <2>2
<1>8. ASSUME NEW o \in Orders, Return(o) PROVE IInv'
  <2>1. TypeOK'
    BY <1>8
       DEF TypeOK, OrderState, PcState, Return
  <2>2. ASSUME NEW p \in Orders PROVE SubmitInv(p)' /\ HoldingInv(p)'
    BY <1>8, TransitionTable
       DEF TypeOK, SubmitInv, HoldingInv, Return
  <2> QED
    BY <2>1, <2>2
<1>9. ASSUME NEW o \in Orders, ReturnRejected(o) PROVE IInv'
  <2>1. TypeOK'
    BY <1>9
       DEF TypeOK, OrderState, PcState, ReturnRejected
  <2>2. ASSUME NEW p \in Orders PROVE SubmitInv(p)' /\ HoldingInv(p)'
    BY <1>9, TransitionTable
       DEF TypeOK, SubmitInv, HoldingInv, ReturnRejected
  <2> QED
    BY <2>1, <2>2
<1>10. ASSUME NEW o \in Orders, ReturnClosed(o) PROVE IInv'
  <2>1. TypeOK'
    BY <1>10
       DEF TypeOK, OrderState, PcState, ReturnClosed
  <2>2. ASSUME NEW p \in Orders PROVE SubmitInv(p)' /\ HoldingInv(p)'
    BY <1>10, TransitionTable
       DEF TypeOK, SubmitInv, HoldingInv, ReturnClosed
  <2> QED
    BY <2>1, <2>2
<1>11. ASSUME NEW o \in Orders, NEW exit \in Prices, Close(o, exit) PROVE IInv'
  <2>1. TypeOK'
    BY <1>11, RequestFields, PriceIsPositive
       DEF TypeOK, OrderState, PcState, Close, ClosePosition, RecordTradeResult, CashAfterClose,
           RealizedPnl, Amount, IsBuy
  <2>2. ASSUME NEW p \in Orders PROVE SubmitInv(p)' /\ HoldingInv(p)'
    BY <1>11, TransitionTable
       DEF TypeOK, SubmitInv, HoldingInv, Close, ClosePosition, RecordTradeResult, CashAfterClose,
           RealizedPnl, Amount, IsBuy
  <2> QED
    BY <2>1, <2>2
<1>12. ASSUME NEW o \in Orders, Cancel(o) PROVE IInv'
  <2>1. TypeOK'
    BY <1>12, TransitionTable
       DEF TypeOK, OrderState, PcState, Cancel, CancelOrder, Transition, IsTerminal
  <2>2. ASSUME NEW p \in Orders PROVE SubmitInv(p)' /\ HoldingInv(p)'
    BY <1>12, TransitionTable
       DEF TypeOK, SubmitInv, HoldingInv, Cancel, CancelOrder, Transition, IsTerminal
  <2> QED
    BY <2>1, <2>2
<1>13. ASSUME NEW s \in Symbols, NEW q \in Quotes, Market(s, q) PROVE IInv'
  <2>1. TypeOK'
    BY <1>13, OrderAssumption
       DEF TypeOK, OrderState, PcState, Market, SetPrice
  <2>2. ASSUME NEW p \in Orders PROVE SubmitInv(p)' /\ HoldingInv(p)'
    BY <1>13, TransitionTable
       DEF TypeOK, SubmitInv, HoldingInv, Market, SetPrice
  <2> QED
    BY <2>1, <2>2
<1>14. CASE NewPeriod
  <2>1. TypeOK'
    BY <1>14
       DEF TypeOK, OrderState, PcState, NewPeriod, ResetDaily, ResetWeekly, ResetDailyCounters
  <2>2. ASSUME NEW p \in Orders PROVE SubmitInv(p)' /\ HoldingInv(p)'
    BY <1>14, TransitionTable
       DEF TypeOK, SubmitInv, HoldingInv, NewPeriod, ResetDaily, ResetWeekly, ResetDailyCounters
  <2> QED
    BY <2>1, <2>2
<1>15. CASE KillSwitch
  <2>1. TypeOK'
    BY <1>15
       DEF TypeOK, OrderState, PcState, KillSwitch, SetKillSwitch
  <2>2. ASSUME NEW p \in Orders PROVE SubmitInv(p)' /\ HoldingInv(p)'
    BY <1>15, TransitionTable
       DEF TypeOK, SubmitInv, HoldingInv, KillSwitch, SetKillSwitch
  <2> QED
    BY <2>1, <2>2
<1>16. CASE Clock
  <2>1. TypeOK'
    BY <1>16
       DEF TypeOK, OrderState, PcState, Clock, Tick
  <2>2. ASSUME NEW p \in Orders PROVE SubmitInv(p)' /\ HoldingInv(p)'
    BY <1>16, TransitionTable
       DEF TypeOK, SubmitInv, HoldingInv, Clock, Tick
  <2> QED
    BY <2>1, <2>2
<1>18. ASSUME NEW o \in Orders, PublishRaises(o) PROVE IInv'
  <2>1. TypeOK'
    BY <1>18
       DEF TypeOK, OrderState, PcState, PublishRaises
  <2>2. ASSUME NEW p \in Orders PROVE SubmitInv(p)' /\ HoldingInv(p)'
    BY <1>18
       DEF TypeOK, PcState, SubmitInv, HoldingInv, PublishRaises, InFlight
  <2> QED
    BY <2>1, <2>2
<1>19. ASSUME NEW o \in Orders, CloseRaises(o) PROVE IInv'
  <2>1. TypeOK'
    BY <1>19
       DEF TypeOK, OrderState, PcState, CloseRaises
  <2>2. ASSUME NEW p \in Orders PROVE SubmitInv(p)' /\ HoldingInv(p)'
    BY <1>19
       DEF TypeOK, SubmitInv, HoldingInv, CloseRaises
  <2> QED
    BY <2>1, <2>2
<1>17. CASE UNCHANGED vars
  <2>1. TypeOK'
    BY <1>17
       DEF TypeOK, OrderState, PcState, vars
  <2>2. ASSUME NEW p \in Orders PROVE SubmitInv(p)' /\ HoldingInv(p)'
    BY <1>17, TransitionTable
       DEF TypeOK, SubmitInv, HoldingInv, vars
  <2> QED
    BY <2>1, <2>2
<1> QED
  BY <1>1, <1>2, <1>3, <1>4, <1>5, <1>6, <1>7, <1>8, <1>9, <1>10, <1>11, <1>12, <1>13, <1>14,
     <1>15, <1>16, <1>17, <1>18, <1>19
  DEF Next, Step

\* Type correctness of the service.
THEOREM TypeCorrect == Spec => []TypeOK
<1>1. IInv => TypeOK
  BY DEF IInv
<1> QED
  BY InitIInv, NextIInv, <1>1, PTL DEF Spec

\* Outside the gap between a fill and its position, the filled orders are
\* exactly the orders with a position.
THEOREM FilledHavePositions == Spec => []FilledIffPosition
<1>1. IInv => FilledIffPosition
  BY DEF IInv, SubmitInv, HoldingInv, FilledIffPosition, TypeOK, PcState
<1> QED
  BY InitIInv, NextIInv, <1>1, PTL DEF Spec

\* Only a fill and a close move cash, each inside a call that refreshes the
\* portfolio value before it returns.
ValueIsCash == Settled => portfolioValue = balance

LEMMA InitValue == Init => ValueIsCash
BY DEF Init, ExchangeInit, ValueIsCash

LEMMA NextValue == IInv /\ ValueIsCash /\ [Next]_vars => ValueIsCash'
<1> SUFFICES ASSUME IInv, ValueIsCash, [Next]_vars PROVE ValueIsCash'
  OBVIOUS
<1> USE DEF IInv, TypeOK, vars, serviceVars, exchangeVars, positionVars, GoTo
<1>S. ASSUME UNCHANGED <<balance, portfolioValue>>, \A p \in Orders : Moved(p) => Moved(p)'
      PROVE  ValueIsCash'
  BY <1>S DEF ValueIsCash, Settled
<1>C. ASSUME NEW o \in Orders, Moved(o)' PROVE ValueIsCash'
  BY <1>C DEF ValueIsCash, Settled
<1>1. ASSUME NEW o \in Orders, NEW r \in Requests, Submit(o, r) PROVE ValueIsCash'
  BY <1>1, <1>S DEF Submit, Moved
<1>2. ASSUME NEW o \in Orders, ValidateApprove(o) \/ ValidateReject(o) PROVE ValueIsCash'
  BY <1>2, <1>S DEF ValidateApprove, ValidateReject, Moved
<1>3. ASSUME NEW o \in Orders, Fill(o) \/ Open(o) PROVE ValueIsCash'
  BY <1>3, <1>C DEF Fill, Open, Moved
<1>4. ASSUME NEW o \in Orders, ExchangeReject(o) \/ ExchangeRaise(o) PROVE ValueIsCash'
  BY <1>4, <1>S DEF ExchangeReject, ExecuteReject, ExchangeRaise, ExecuteRaise, Moved
<1>5. ASSUME NEW o \in Orders, Return(o) \/ ReturnClosed(o) PROVE ValueIsCash'
  BY <1>5 DEF Return, ReturnClosed, ValueIsCash
<1>6. ASSUME NEW o \in Orders, ReturnRejected(o) PROVE ValueIsCash'
  BY <1>6, <1>S DEF ReturnRejected, Moved
<1>7. ASSUME NEW o \in Orders, PublishRaises(o) PROVE ValueIsCash'
  <2>1. pc[o] = "opened" => position[o] # "none"
    BY DEF SubmitInv, HoldingInv
  <2>2. \A p \in Orders : Moved(p) => Moved(p)'
    BY <1>7, <2>1 DEF PublishRaises, InFlight, Moved
  <2> QED
    BY <1>7, <1>S, <2>2 DEF PublishRaises
<1>8. ASSUME NEW o \in Orders, NEW exit \in Prices, Close(o, exit) PROVE ValueIsCash'
  BY <1>8, <1>C DEF Close, Moved
<1>9. ASSUME NEW o \in Orders, CloseRaises(o) PROVE ValueIsCash'
  BY <1>9, <1>C DEF CloseRaises, Moved
<1>10. ASSUME NEW o \in Orders, Cancel(o) PROVE ValueIsCash'
  BY <1>10, <1>S DEF Cancel, CancelOrder, Moved
<1>11. ASSUME NEW s \in Symbols, NEW q \in Quotes, Market(s, q) PROVE ValueIsCash'
  BY <1>11, <1>S DEF Market, SetPrice, Moved
<1>12. CASE NewPeriod \/ KillSwitch \/ Clock \/ UNCHANGED vars
  BY <1>12, <1>S DEF NewPeriod, KillSwitch, Clock, Moved
<1> QED
  BY <1>1, <1>2, <1>3, <1>4, <1>5, <1>6, <1>7, <1>8, <1>9, <1>10, <1>11, <1>12 DEF Next, Step

-----------------------------------------------------------------------------
\* The daily limit.  Every fill not yet counted is an order at "filled", or one
\* whose call ended there ("unopened"), and an order is approved only while the
\* count is below the limit: approved orders and the others not yet counted
\* are all in flight.

DailyInv ==
  /\ Cardinality(InFlight) <= MaxInFlight
  /\ fillsToday <= dailyTradeCount + Cardinality(At("filled")) + Cardinality(At("unopened"))
  /\ fillsToday + Cardinality(At("validated"))
       <= MaxDailyTrades + MaxInFlight - 1 + Cardinality(At("unopened"))

LEMMA FiniteGroups ==
  /\ \A l : IsFiniteSet(At(l)) /\ Cardinality(At(l)) \in Nat
  /\ IsFiniteSet(InFlight) /\ Cardinality(InFlight) \in Nat
BY ServiceAssumption, FS_Subset, FS_CardinalityType DEF At, InFlight

\* How the three sizes of DailyInv change when one order moves between labels.
Busy(l) == IF l \in {"idle", "returned", "raised", "unopened"} THEN 0 ELSE 1
Is(l, k) == IF l = k THEN 1 ELSE 0

LEMMA CountsMove ==
  ASSUME TypeOK, NEW o \in Orders, NEW l \in PcState, GoTo(o, l)
  PROVE  /\ Cardinality(InFlight') = Cardinality(InFlight) - Busy(pc[o]) + Busy(l)
         /\ \A k \in {"validated", "filled", "unopened"} :
              Cardinality(At(k)') = Cardinality(At(k)) - Is(pc[o], k) + Is(l, k)
<1> USE FiniteGroups DEF TypeOK, GoTo, PcState
<1>1. ASSUME NEW S, NEW T, IsFiniteSet(S), T \ {o} = S \ {o}
      PROVE  Cardinality(T) = Cardinality(S) - (IF o \in S THEN 1 ELSE 0)
                                             + (IF o \in T THEN 1 ELSE 0)
  <2> DEFINE R == S \ {o}
  <2>1. IsFiniteSet(R) /\ Cardinality(R) \in Nat
    BY <1>1, FS_Subset, FS_CardinalityType
  <2>2. Cardinality(R \cup {o}) = Cardinality(R) + 1
    BY <2>1, FS_AddElement
  <2>3. Cardinality(S) = IF o \in S THEN Cardinality(R) + 1 ELSE Cardinality(R)
    <3>1. CASE o \in S
      BY <3>1, <2>2, S = R \cup {o}
    <3>2. CASE o \notin S
      BY <3>2, S = R
    <3> QED
      BY <3>1, <3>2
  <2>4. Cardinality(T) = IF o \in T THEN Cardinality(R) + 1 ELSE Cardinality(R)
    <3>1. CASE o \in T
      <4>1. T = R \cup {o}
        BY <3>1, <1>1
      <4> QED
        BY <3>1, <2>2, <4>1
    <3>2. CASE o \notin T
      <4>1. T = R
        BY <3>2, <1>1
      <4> QED
        BY <3>2, <4>1
    <3> QED
      BY <3>1, <3>2
  <2> HIDE DEF R
  <2> QED
    BY <2>1, <2>3, <2>4
<1>2. Cardinality(InFlight') = Cardinality(InFlight) - Busy(pc[o]) + Busy(l)
  <2>1. InFlight' \ {o} = InFlight \ {o}
    BY DEF InFlight
  <2>2. (o \in InFlight <=> Busy(pc[o]) = 1) /\ (o \in InFlight' <=> Busy(l) = 1)
    BY DEF InFlight, Busy
  <2> QED
    BY <1>1, <2>1, <2>2 DEF Busy
<1>3. ASSUME NEW k \in {"validated", "filled", "unopened"}
      PROVE  Cardinality(At(k)') = Cardinality(At(k)) - Is(pc[o], k) + Is(l, k)
  <2>1. At(k)' \ {o} = At(k) \ {o}
    BY DEF At
  <2>2. (o \in At(k) <=> pc[o] = k) /\ (o \in At(k)' <=> l = k)
    BY DEF At
  <2> QED
    BY <1>1, <2>1, <2>2 DEF Is
<1> QED
  BY <1>2, <1>3

\* Approved and uncounted orders are different orders in flight; with another
\* order in flight that is neither, there is room for one more.
LEMMA RoomInFlight ==
  ASSUME TypeOK, NEW o \in Orders, pc[o] = "submitted"
  PROVE  Cardinality(At("validated")) + Cardinality(At("filled")) + 1 <= Cardinality(InFlight)
<1> DEFINE A == At("validated")
           F == At("filled")
<1>1. IsFiniteSet(A) /\ IsFiniteSet(F) /\ IsFiniteSet(InFlight)
  BY FiniteGroups
<1>2. A \cap F = {} /\ o \notin A \cup F
  BY DEF At
<1>3. A \cup F \cup {o} \subseteq InFlight
  BY DEF At, InFlight, TypeOK
<1>4. IsFiniteSet(A \cup F) /\ Cardinality(A \cup F) = Cardinality(A) + Cardinality(F) - 0
  BY <1>1, <1>2, FS_Union, FS_EmptySet
<1>5. Cardinality(A \cup F \cup {o}) = Cardinality(A \cup F) + 1
  BY <1>2, <1>4, FS_AddElement
<1>6. Cardinality(A \cup F \cup {o}) <= Cardinality(InFlight)
  BY <1>1, <1>3, FS_Subset
<1> QED
  BY <1>4, <1>5, <1>6, FiniteGroups

LEMMA ApprovedInFlight == Cardinality(At("validated")) <= Cardinality(InFlight)
BY FiniteGroups, FS_Subset, At("validated") \subseteq InFlight DEF At, InFlight

LEMMA InitDaily == Init => DailyInv
<1> SUFFICES ASSUME Init PROVE DailyInv
  OBVIOUS
<1>1. InFlight = {} /\ At("filled") = {} /\ At("validated") = {} /\ At("unopened") = {}
  BY DEF Init, InFlight, At
<1> QED
  BY <1>1, FS_EmptySet, ServiceAssumption, RulesAssumption DEF DailyInv, Init, RiskInit

LEMMA NextDaily == IInv /\ DailyInv /\ [Next]_vars => DailyInv'
<1> SUFFICES ASSUME IInv, DailyInv, [Next]_vars PROVE DailyInv'
  OBVIOUS
<1> USE FiniteGroups, ServiceAssumption, RulesAssumption, CountsMove
    DEF IInv, DailyInv, Busy, Is, vars, riskVars, historyVars, serviceVars
<1>T. TypeOK /\ fillsToday \in Nat /\ dailyTradeCount \in Nat
  BY DEF TypeOK
<1>1. ASSUME NEW o \in Orders, NEW r \in Requests, Submit(o, r) PROVE DailyInv'
  BY <1>T, <1>1 DEF Submit, PcState
<1>2. ASSUME NEW o \in Orders, ValidateApprove(o) PROVE DailyInv'
  <2>1. dailyTradeCount + 1 <= MaxDailyTrades
    BY <1>T, <1>2 DEF ValidateApprove, Verdict, Approves, DailyTradesLeft
  <2> QED
    BY <1>T, <1>2, <2>1, RoomInFlight DEF ValidateApprove, PcState
<1>3. ASSUME NEW o \in Orders, ValidateReject(o) PROVE DailyInv'
  BY <1>T, <1>3 DEF ValidateReject, PcState
<1>4. ASSUME NEW o \in Orders, Fill(o) PROVE DailyInv'
  BY <1>T, <1>4 DEF Fill, PcState
<1>5. ASSUME NEW o \in Orders, ExchangeReject(o) \/ ExchangeRaise(o) PROVE DailyInv'
  BY <1>T, <1>5 DEF ExchangeReject, ExchangeRaise, PcState
<1>6. ASSUME NEW o \in Orders, Open(o) PROVE DailyInv'
  BY <1>T, <1>6 DEF Open, RecordTradeResult, PcState
<1>7. ASSUME NEW o \in Orders, Return(o) \/ ReturnRejected(o) PROVE DailyInv'
  BY <1>T, <1>7 DEF Return, ReturnRejected, PcState
<1>S. ASSUME UNCHANGED pc
      PROVE  /\ Cardinality(InFlight') = Cardinality(InFlight)
             /\ Cardinality(At("validated")') = Cardinality(At("validated"))
             /\ Cardinality(At("filled")') = Cardinality(At("filled"))
             /\ Cardinality(At("unopened")') = Cardinality(At("unopened"))
  BY <1>S DEF InFlight, At
<1>8. ASSUME NEW o \in Orders, NEW exit \in Prices, Close(o, exit) PROVE DailyInv'
  BY <1>T, <1>S, <1>8 DEF Close, RecordTradeResult
<1>9. ASSUME NEW o \in Orders, ReturnClosed(o) \/ CloseRaises(o) \/ Cancel(o) PROVE DailyInv'
  BY <1>T, <1>S, <1>9 DEF ReturnClosed, CloseRaises, Cancel
<1>14. ASSUME NEW o \in Orders, PublishRaises(o) PROVE DailyInv'
  <2>1. pc[o] \in {"submitted", "validated", "filled", "opened", "rejected"}
    BY <1>T, <1>14 DEF PublishRaises, InFlight, TypeOK, PcState
  <2> QED
    BY <1>T, <1>14, <2>1 DEF PublishRaises, PcState
<1>10. CASE NewPeriod
  BY <1>T, <1>S, <1>10, ApprovedInFlight DEF NewPeriod, ResetDaily, ResetWeekly, ResetDailyCounters
<1>11. ASSUME NEW s \in Symbols, NEW q \in Quotes, Market(s, q) PROVE DailyInv'
  BY <1>T, <1>S, <1>11 DEF Market
<1>12. CASE KillSwitch \/ Clock
  BY <1>T, <1>S, <1>12 DEF KillSwitch, SetKillSwitch, Clock, Tick
<1>13. CASE UNCHANGED vars
  BY <1>T, <1>S, <1>13
<1> QED
  BY <1>1, <1>2, <1>3, <1>4, <1>5, <1>6, <1>7, <1>8, <1>9, <1>10, <1>11, <1>12, <1>13, <1>14
     DEF Next, Step

\* However submit_order calls overlap, fewer orders than calls in flight are
\* filled beyond the daily limit, but for those whose call ended uncounted.
THEOREM DailyLimit == Spec => []DailyFillBound
<1>1. IInv /\ DailyInv => DailyFillBound
  BY FiniteGroups, ServiceAssumption, RulesAssumption DEF IInv, TypeOK, DailyInv, DailyFillBound
<1> QED
  BY <1>1, InitIInv, NextIInv, InitDaily, NextDaily, PTL DEF Spec

-----------------------------------------------------------------------------
\* The order interval.  Of a group filled within one interval either none has
\* been recorded yet, and all are in flight; or one has, and until the interval
\* is over nothing is approved: the group can grow by the orders approved
\* before, which were in flight with it.

Recorded(t) == \E p \in FilledFrom(t) : pc[p] # "filled"
Coming(t)   == IF now < t + MinOrderInterval THEN At("validated") ELSE {}

StampInv(p) ==
  /\ fillTime[p] <= now
  /\ fillTime[p] # 0 => pc[p] \in {"filled", "opened", "returned", "raised", "unopened"}
  /\ fillTime[p] # 0 /\ pc[p] \notin {"filled", "unopened"} => fillTime[p] <= lastOrderTime

GroupInv(t) == Recorded(t) => Cardinality(FilledFrom(t) \cup Coming(t)) <= MaxInFlight

PacingInv ==
  /\ lastOrderTime <= now /\ now # 0
  /\ \A p \in Orders : StampInv(p)
  /\ \A t \in Nat : GroupInv(t)

LEMMA FiniteFills == \A t : /\ IsFiniteSet(FilledFrom(t) \cup Coming(t))
                            /\ Cardinality(FilledFrom(t) \cup Coming(t)) \in Nat
BY ServiceAssumption, FS_Subset, FS_CardinalityType, FS_EmptySet, FS_Union
   DEF FilledFrom, Coming, At

\* A step after which a group is recorded as before, and no larger.
LEMMA GroupKept ==
  ASSUME NEW t \in Nat, GroupInv(t), Recorded(t)' => Recorded(t),
         (FilledFrom(t) \cup Coming(t))' \subseteq FilledFrom(t) \cup Coming(t)
  PROVE  GroupInv(t)'
<1>1. /\ Cardinality((FilledFrom(t) \cup Coming(t))') <= Cardinality(FilledFrom(t) \cup Coming(t))
      /\ Cardinality((FilledFrom(t) \cup Coming(t))') \in Nat
  BY FiniteFills, FS_Subset, FS_CardinalityType
<1>2. Recorded(t)' => Cardinality(FilledFrom(t) \cup Coming(t)) <= MaxInFlight
  BY DEF GroupInv
<1>3. GroupInv(t)' <=> (Recorded(t)' => Cardinality((FilledFrom(t) \cup Coming(t))') <= MaxInFlight)
  BY DEF GroupInv
<1>4. Cardinality(FilledFrom(t) \cup Coming(t)) \in Nat /\ MaxInFlight \in Nat
  BY FiniteFills, ServiceAssumption
<1> QED
  BY <1>1, <1>2, <1>3, <1>4

\* Once an order of a group is recorded, the interval has to pass before the
\* next approval.
LEMMA RecordedFirst ==
  ASSUME TypeOK, PacingInv, NEW t \in Nat, Recorded(t), IntervalElapsed
  PROVE  now >= t + MinOrderInterval
<1>1. PICK p \in Orders : /\ fillTime[p] # 0 /\ fillTime[p] >= t
                          /\ pc[p] \notin {"filled", "unopened"}
  BY RulesAssumption DEF Recorded, FilledFrom, TypeOK
<1>2. lastOrderTime >= t /\ lastOrderTime > 0
  BY <1>1 DEF PacingInv, StampInv, TypeOK
<1> QED
  BY <1>2, RulesAssumption DEF IntervalElapsed, TypeOK

LEMMA InitPacing == Init => PacingInv
<1> SUFFICES ASSUME Init PROVE PacingInv
  OBVIOUS
<1> USE DEF Init, RiskInit
<1>1. \A p \in Orders : StampInv(p)
  BY DEF StampInv
<1>2. \A t \in Nat : ~Recorded(t)
  BY DEF Recorded, FilledFrom
<1> QED
  BY <1>1, <1>2 DEF PacingInv, GroupInv

\* A step of another kind: fill times and clock stay, no order becomes approved
\* and none goes back.
LEMMA PacingKept ==
  ASSUME TypeOK, PacingInv, UNCHANGED fillTime,
         now' \in Nat, lastOrderTime' \in Nat,
         lastOrderTime <= lastOrderTime', lastOrderTime' <= now', now <= now',
         \A p \in Orders : /\ pc'[p] = "validated" => pc[p] = "validated"
                           /\ pc'[p] = "filled" => pc[p] = "filled"
                           /\ pc[p] = "filled" => pc'[p] \in {"filled", "unopened"}
                           /\ pc[p] = "unopened" => pc'[p] = "unopened"
                           /\ pc[p] \in {"filled", "opened", "returned", "raised", "unopened"} =>
                                pc'[p] \in {"filled", "opened", "returned", "raised", "unopened"}
  PROVE  PacingInv'
<1>1. \A p \in Orders : StampInv(p)'
  BY DEF PacingInv, StampInv, TypeOK
<1>2. ASSUME NEW t \in Nat PROVE GroupInv(t)'
  <2>1. FilledFrom(t)' \subseteq FilledFrom(t)
    BY DEF FilledFrom
  <2>2. Coming(t)' \subseteq Coming(t)
    BY RulesAssumption DEF Coming, At, TypeOK
  <2>3. Recorded(t)' => Recorded(t)
    BY <2>1 DEF Recorded, FilledFrom
  <2>4. GroupInv(t)
    BY DEF PacingInv
  <2> QED
    BY <2>1, <2>2, <2>3, <2>4, GroupKept
<1> QED
  BY <1>1, <1>2 DEF PacingInv, TypeOK

\* A fill moves an approved order into the group, if it is not too late for it.
LEMMA FillPacingStep ==
  ASSUME IInv, DailyInv, PacingInv, NEW o \in Orders, Fill(o)
  PROVE  PacingInv'
<1>T. TypeOK
  BY DEF IInv
<1>1. /\ pc[o] = "validated" /\ pc' = [pc EXCEPT ![o] = "filled"]
      /\ fillTime' = [fillTime EXCEPT ![o] = now]
      /\ UNCHANGED <<now, lastOrderTime>>
  BY DEF Fill, GoTo, riskVars
<1>2. fillTime[o] = 0
  BY <1>1 DEF PacingInv, StampInv
<1>3. \A p \in Orders : StampInv(p)'
  BY <1>1, <1>T DEF PacingInv, StampInv, TypeOK
<1>4. ASSUME NEW t \in Nat PROVE GroupInv(t)'
  <2>1. Recorded(t)' => Recorded(t)
    BY <1>1, <1>T DEF Recorded, FilledFrom, TypeOK
  <2>2. CASE Recorded(t)
    <3>1. now >= t
      <4>1. PICK p \in Orders : fillTime[p] \in t .. (t + MinOrderInterval - 1)
        BY <2>2 DEF Recorded, FilledFrom
      <4> QED
        BY <4>1, <1>T, RulesAssumption DEF PacingInv, StampInv, TypeOK
    <3>2. Coming(t)' = Coming(t) \ {o}
      BY <1>1, <1>T DEF Coming, At, TypeOK
    <3>3. FilledFrom(t)' \subseteq FilledFrom(t) \cup {o}
      BY <1>1, <1>T DEF FilledFrom, TypeOK
    <3>4. o \in FilledFrom(t)' => o \in Coming(t)
      BY <1>1, <1>T, RulesAssumption DEF FilledFrom, Coming, At, TypeOK
    <3> QED
      BY <2>1, <2>2, <3>2, <3>3, <3>4, GroupKept DEF PacingInv
  <2>3. CASE ~Recorded(t)
    BY <2>1, <2>3 DEF GroupInv
  <2> QED
    BY <2>2, <2>3
<1> QED
  BY <1>1, <1>3, <1>4 DEF PacingInv

\* Recording the first order of a group finds the rest of it, and the approved
\* orders, in flight.
LEMMA OpenPacing ==
  ASSUME IInv, DailyInv, PacingInv, NEW o \in Orders, Open(o)
  PROVE  PacingInv'
<1>T. TypeOK
  BY DEF IInv
<1>1. /\ pc[o] = "filled" /\ pc' = [pc EXCEPT ![o] = "opened"]
      /\ lastOrderTime' = now /\ UNCHANGED <<now, fillTime>>
  BY DEF Open, GoTo, RecordTradeResult, historyVars
<1>3. \A p \in Orders : StampInv(p)'
  BY <1>1, <1>T DEF PacingInv, StampInv, TypeOK
<1>4. ASSUME NEW t \in Nat PROVE GroupInv(t)'
  <2>1. FilledFrom(t)' = FilledFrom(t)
    BY <1>1, <1>T DEF FilledFrom, TypeOK
  <2>2. Coming(t)' = Coming(t)
    BY <1>1, <1>T DEF Coming, At, TypeOK
  <2>3. CASE Recorded(t)
    BY <2>1, <2>2, <2>3, GroupKept DEF PacingInv
  <2>4. CASE ~Recorded(t)
    <3>1. FilledFrom(t) \cup Coming(t) \subseteq InFlight
      BY <2>4 DEF Recorded, FilledFrom, Coming, At, InFlight
    <3>2. Cardinality(FilledFrom(t) \cup Coming(t)) <= Cardinality(InFlight)
      BY <3>1, FiniteGroups, FS_Subset
    <3>3. Cardinality(FilledFrom(t) \cup Coming(t)) <= MaxInFlight
      BY <3>2, FiniteGroups, FiniteFills, ServiceAssumption DEF DailyInv
    <3> QED
      BY <2>1, <2>2, <3>3 DEF GroupInv
  <2> QED
    BY <2>3, <2>4
<1> QED
  BY <1>1, <1>3, <1>4, <1>T DEF PacingInv, TypeOK

\* An approval finds the interval over for every recorded group.
LEMMA ApprovePacing ==
  ASSUME IInv, DailyInv, PacingInv, NEW o \in Orders, ValidateApprove(o)
  PROVE  PacingInv'
<1>T. TypeOK
  BY DEF IInv
<1>1. /\ pc[o] = "submitted" /\ pc' = [pc EXCEPT ![o] = "validated"]
      /\ UNCHANGED <<now, lastOrderTime, fillTime>> /\ IntervalElapsed
  BY DEF ValidateApprove, Verdict, Approves, GoTo, riskVars, historyVars
<1>3. \A p \in Orders : StampInv(p)'
  BY <1>1, <1>T DEF PacingInv, StampInv, TypeOK
<1>4. ASSUME NEW t \in Nat PROVE GroupInv(t)'
  <2>1. FilledFrom(t)' = FilledFrom(t)
    BY <1>1, <1>T DEF FilledFrom, TypeOK
  <2>2. Recorded(t)' => Recorded(t)
    BY <1>1, <1>T, <2>1 DEF Recorded, FilledFrom, PacingInv, StampInv, TypeOK
  <2>3. Recorded(t) => Coming(t)' = {}
    BY <1>1, <1>T, RecordedFirst, RulesAssumption DEF Coming, TypeOK
  <2>4. CASE Recorded(t)
    BY <2>1, <2>2, <2>3, <2>4, GroupKept DEF PacingInv
  <2>5. CASE ~Recorded(t)
    BY <2>2, <2>5 DEF GroupInv
  <2> QED
    BY <2>4, <2>5
<1> QED
  BY <1>1, <1>3, <1>4 DEF PacingInv

LEMMA NextPacing == IInv /\ IInv' /\ DailyInv /\ PacingInv /\ [Next]_vars => PacingInv'
<1> SUFFICES ASSUME IInv, IInv', DailyInv, PacingInv, [Next]_vars PROVE PacingInv'
  OBVIOUS
<1>T. TypeOK /\ TypeOK' /\ lastOrderTime <= now
  BY DEF IInv, PacingInv
<1>R. now \in Nat /\ lastOrderTime \in Nat /\ now' \in Nat /\ lastOrderTime' \in Nat
  BY <1>T DEF TypeOK
<1>K. ASSUME UNCHANGED <<riskVars, fillTime>>, NEW o \in Orders,
             NEW l \in {"rejected", "raised", "returned", "submitted", "unopened"}, GoTo(o, l),
             pc[o] = "filled" => l = "unopened",
             pc[o] = "opened" => l \in {"returned", "raised"},
             pc[o] \notin {"returned", "raised", "unopened"}
      PROVE  PacingInv'
  <2>1. UNCHANGED <<now, lastOrderTime>>
    BY <1>K DEF riskVars
  <2>2. \A p \in Orders : /\ pc'[p] = "validated" => pc[p] = "validated"
                          /\ pc'[p] = "filled" => pc[p] = "filled"
                          /\ pc[p] = "filled" => pc'[p] \in {"filled", "unopened"}
                          /\ pc[p] = "unopened" => pc'[p] = "unopened"
                          /\ pc[p] \in {"filled", "opened", "returned", "raised", "unopened"} =>
                               pc'[p] \in {"filled", "opened", "returned", "raised", "unopened"}
    BY <1>K, <1>T DEF GoTo, TypeOK
  <2> QED
    BY <1>K, <1>T, <1>R, <2>1, <2>2, PacingKept
<1>S. ASSUME UNCHANGED <<pc, fillTime>>, lastOrderTime' = lastOrderTime \/ lastOrderTime' = now,
             now' = now \/ (now' = now + 1 /\ lastOrderTime' = lastOrderTime)
      PROVE  PacingInv'
  <2>1. lastOrderTime <= lastOrderTime' /\ lastOrderTime' <= now' /\ now <= now'
    BY <1>S, <1>T, <1>R
  <2> QED
    BY <1>S, <1>T, <1>R, <2>1, PacingKept
<1>1. ASSUME NEW o \in Orders, NEW r \in Requests, Submit(o, r) PROVE PacingInv'
  BY <1>1, <1>K DEF Submit, historyVars
<1>2. ASSUME NEW o \in Orders, ValidateApprove(o) PROVE PacingInv'
  BY <1>2, ApprovePacing
<1>3. ASSUME NEW o \in Orders, ValidateReject(o) PROVE PacingInv'
  BY <1>3, <1>K DEF ValidateReject, historyVars
<1>4. ASSUME NEW o \in Orders, Fill(o) PROVE PacingInv'
  BY <1>4, FillPacingStep
<1>5. ASSUME NEW o \in Orders, ExchangeReject(o) \/ ExchangeRaise(o) PROVE PacingInv'
  BY <1>5, <1>K DEF ExchangeReject, ExchangeRaise, historyVars
<1>6. ASSUME NEW o \in Orders, Open(o) PROVE PacingInv'
  BY <1>6, OpenPacing
<1>7. ASSUME NEW o \in Orders, Return(o) \/ ReturnRejected(o) PROVE PacingInv'
  BY <1>7, <1>K DEF Return, ReturnRejected, historyVars
<1>8. ASSUME NEW o \in Orders, NEW exit \in Prices, Close(o, exit) PROVE PacingInv'
  BY <1>8, <1>S DEF Close, RecordTradeResult, historyVars
<1>9. ASSUME NEW o \in Orders, ReturnClosed(o) \/ CloseRaises(o) \/ Cancel(o) PROVE PacingInv'
  BY <1>9, <1>S DEF ReturnClosed, CloseRaises, Cancel, riskVars, serviceVars, historyVars
<1>15. ASSUME NEW o \in Orders, PublishRaises(o) PROVE PacingInv'
  <2> DEFINE l == IF pc[o] = "filled" THEN "unopened" ELSE "raised"
  <2>1. l \in {"rejected", "raised", "returned", "submitted", "unopened"} /\ GoTo(o, l)
    BY <1>15 DEF PublishRaises
  <2>2. /\ pc[o] = "filled" => l = "unopened"
        /\ pc[o] = "opened" => l \in {"returned", "raised"}
        /\ pc[o] \notin {"returned", "raised", "unopened"}
        /\ UNCHANGED <<riskVars, fillTime>>
    BY <1>15 DEF PublishRaises, InFlight, historyVars
  <2> HIDE DEF l
  <2> QED
    BY <1>K, <2>1, <2>2
<1>10. ASSUME NEW s \in Symbols, NEW q \in Quotes, Market(s, q) PROVE PacingInv'
  BY <1>10, <1>S DEF Market, riskVars, serviceVars, historyVars
<1>11. CASE NewPeriod
  BY <1>11, <1>S DEF NewPeriod, ResetDaily, ResetWeekly, ResetDailyCounters, serviceVars
<1>12. CASE KillSwitch
  BY <1>12, <1>S DEF KillSwitch, SetKillSwitch, serviceVars, historyVars
<1>13. CASE Clock
  BY <1>13, <1>S DEF Clock, Tick, serviceVars, historyVars
<1>14. CASE UNCHANGED vars
  BY <1>14, <1>S DEF vars, riskVars, serviceVars, historyVars
<1> QED
  BY <1>1, <1>2, <1>3, <1>4, <1>5, <1>6, <1>7, <1>8, <1>9, <1>10, <1>11, <1>12, <1>13, <1>14,
     <1>15
     DEF Next, Step

LEMMA PacingBounds == IInv /\ DailyInv /\ PacingInv => FillPacing
<1> SUFFICES ASSUME IInv, DailyInv, PacingInv, NEW o \in Orders
             PROVE  Cardinality(FilledFrom(fillTime[o])) <= MaxInFlight
  BY DEF FillPacing
<1> DEFINE t == fillTime[o]
<1>T. t \in Nat
  BY DEF IInv, TypeOK
<1>1. /\ IsFiniteSet(FilledFrom(t)) /\ Cardinality(FilledFrom(t)) \in Nat
  BY ServiceAssumption, FS_Subset, FS_CardinalityType DEF FilledFrom
<1>2. CASE Recorded(t)
  <2>1. Cardinality(FilledFrom(t)) <= Cardinality(FilledFrom(t) \cup Coming(t))
    BY FiniteFills, FS_Subset
  <2>2. Cardinality(FilledFrom(t) \cup Coming(t)) <= MaxInFlight
    BY <1>T, <1>2 DEF PacingInv, GroupInv
  <2> QED
    BY <1>1, <2>1, <2>2, FiniteFills, ServiceAssumption
<1>3. CASE ~Recorded(t)
  <2>1. FilledFrom(t) \subseteq InFlight
    BY <1>3 DEF Recorded, FilledFrom, InFlight
  <2>2. Cardinality(FilledFrom(t)) <= Cardinality(InFlight)
    BY <2>1, FiniteGroups, FS_Subset
  <2> QED
    BY <1>1, <2>2, FiniteGroups, ServiceAssumption DEF DailyInv
<1> QED
  BY <1>2, <1>3

\* However submit_order calls overlap, of the orders recorded no more than calls
\* in flight are filled within one order interval.
THEOREM OrderInterval == Spec => []FillPacing
<1>1. IInv /\ DailyInv /\ PacingInv /\ [Next]_vars => PacingInv'
  BY NextIInv, NextPacing
<1> QED
  BY <1>1, PacingBounds, InitIInv, NextIInv, InitDaily, NextDaily, InitPacing, PTL DEF Spec

-----------------------------------------------------------------------------
\* Sums over finite sets.  MapThenSumSet is a fold that takes the elements in
\* an order of its own choosing; g adds up w over the subsets of S in that
\* order.  Induction on the size of a set is an argument about the least size
\* for which a statement fails.

SumOver(w, S) == MapThenSumSet(LAMBDA x : w[x], S)

Any(s) == CHOOSE x \in s : TRUE
Iter(w, D, g) == [s \in D |-> IF s = {} THEN 0 ELSE w[Any(s)] + g[s \ {Any(s)}]]

\* A set of natural numbers has a least element.
LEMMA LeastNat ==
  ASSUME NEW T \in SUBSET Nat, T # {}
  PROVE  \E m \in T : \A n \in T : m <= n
<1>1. IsWellFoundedOn(OpToRel(<, Nat), Nat)
  BY NatLessThanWellFounded
<1>2. PICK m \in T : \A n \in T : <<n, m>> \notin OpToRel(<, Nat)
  BY <1>1, WFMin
<1>3. \A n \in T : ~(n < m)
  BY <1>2 DEF OpToRel
<1> QED
  BY <1>3

Adds(w, S, g) == g = Iter(w, SUBSET S, g)

\* The element the fold takes first is one of the set.
LEMMA AnyOf == ASSUME NEW s, s # {} PROVE Any(s) \in s
BY DEF Any

Small(S, n) == {s \in SUBSET S : Cardinality(s) <= n}

\* The fold is defined on the subsets of any size.
LEMMA IterExists ==
  ASSUME NEW w, NEW S, IsFiniteSet(S)
  PROVE  \E g : Adds(w, S, g)
<1> DEFINE Bad == {n \in Nat : ~\E g : g = Iter(w, Small(S, n), g)}
<1>F. \A s \in SUBSET S : IsFiniteSet(s) /\ Cardinality(s) \in Nat /\ Cardinality(s) <= Cardinality(S)
  BY FS_Subset, FS_CardinalityType
<1>1. Bad = {}
  <2> SUFFICES ASSUME Bad # {} PROVE FALSE
    OBVIOUS
  <2>1. PICK n \in Bad : \A m \in Bad : n <= m
    BY LeastNat
  <2>2. CASE n = 0
    <3>1. Small(S, 0) = {{}}
      BY <1>F, FS_EmptySet DEF Small
    <3> DEFINE g == [s \in {{}} |-> 0]
    <3>2. g = Iter(w, Small(S, 0), g)
      BY <3>1 DEF Iter
    <3> QED
      BY <2>2, <3>2
  <2>3. CASE n # 0
    <3>1. n - 1 \in Nat /\ n - 1 \notin Bad
      BY <2>1, <2>3
    <3>2. PICK g : g = Iter(w, Small(S, n - 1), g)
      BY <3>1
    <3> DEFINE h == Iter(w, Small(S, n), g)
    <3>3. ASSUME NEW s \in Small(S, n), s # {}
          PROVE  s \ {Any(s)} \in Small(S, n - 1) /\ s \ {Any(s)} \in Small(S, n)
      <4>1. IsFiniteSet(s) /\ s \in SUBSET S /\ Any(s) \in s /\ Cardinality(s) \in Nat
        BY <1>F, <3>3, AnyOf DEF Small
      <4>2. Cardinality(s \ {Any(s)}) = Cardinality(s) - 1
        BY <4>1, FS_RemoveElement
      <4> QED
        BY <4>1, <4>2 DEF Small
    <3>4. ASSUME NEW s \in Small(S, n - 1) PROVE h[s] = g[s]
      <4>1. s \in Small(S, n)
        BY <1>F, <3>1 DEF Small
      <4> QED
        BY <3>2, <4>1 DEF Iter
    <3>5. h = Iter(w, Small(S, n), h)
      <4> HIDE DEF h
      <4>1. h = Iter(w, Small(S, n), g)
        BY DEF h
      <4> QED
        BY <3>3, <3>4, <4>1 DEF Iter
    <3> QED
      BY <2>1, <3>5
  <2> QED
    BY <2>2, <2>3
<1>2. Cardinality(S) \in Nat
  BY FS_CardinalityType
<1>3. Small(S, Cardinality(S)) = SUBSET S
  BY <1>F DEF Small
<1> QED
  BY <1>1, <1>2, <1>3 DEF Adds

\* The order in which the fold takes the elements does not matter: any element
\* can be split off, and only the elements' own values count.
LEMMA IterSplits ==
  ASSUME NEW S, IsFiniteSet(S), NEW w, \A x \in S : w[x] \in Int,
         NEW g, Adds(w, S, g)
  PROVE  \A s \in SUBSET S : /\ g[s] \in Int
                             /\ \A x \in s : g[s] = w[x] + g[s \ {x}]
<1> DEFINE Splits(s) == g[s] \in Int /\ \A x \in s : g[s] = w[x] + g[s \ {x}]
           Bad == {n \in Nat : \E s \in SUBSET S : Cardinality(s) = n /\ ~Splits(s)}
<1>F. \A s \in SUBSET S : IsFiniteSet(s) /\ Cardinality(s) \in Nat
  BY FS_Subset, FS_CardinalityType
<1>S. \A s \in SUBSET S : \A x \in s : /\ s \ {x} \in SUBSET S
                                       /\ Cardinality(s \ {x}) = Cardinality(s) - 1
  BY <1>F, FS_RemoveElement
<1>G. \A s \in SUBSET S : g[s] = IF s = {} THEN 0 ELSE w[Any(s)] + g[s \ {Any(s)}]
  BY DEF Iter, Adds
<1>1. Bad = {}
  <2> SUFFICES ASSUME Bad # {} PROVE FALSE
    OBVIOUS
  <2>1. PICK n \in Bad : \A m \in Bad : n <= m
    BY LeastNat
  <2>2. PICK s \in SUBSET S : Cardinality(s) = n /\ ~Splits(s)
    BY <2>1
  <2>3. s # {}
    <3>1. g[{}] = 0
      BY <1>G
    <3>2. Splits({})
      BY <3>1
    <3> QED
      BY <2>2, <3>2
  <2>4. \A t \in SUBSET S : Cardinality(t) = n - 1 => Splits(t)
    <3> SUFFICES ASSUME NEW t \in SUBSET S, Cardinality(t) = n - 1 PROVE Splits(t)
      OBVIOUS
    <3>1. n - 1 \in Nat /\ n - 1 \notin Bad
      BY <1>F, <2>1
    <3> QED
      BY <3>1
  <2>5. PICK c \in s : g[s] = w[c] + g[s \ {c}]
    BY <2>3, <1>G, AnyOf
  <2>6. \A x \in s : Splits(s \ {x})
    BY <1>S, <2>2, <2>4
  <2>6a. \A x \in s : g[s \ {x}] \in Int /\ \A y \in s \ {x} : g[s \ {x}] = w[y] + g[(s \ {x}) \ {y}]
    BY <2>6
  <2>W. \A x \in s : w[x] \in Int
    OBVIOUS
  <2>8. g[s] \in Int
    <3>1. w[c] \in Int /\ g[s \ {c}] \in Int
      BY <2>6a, <2>W
    <3>2. w[c] + g[s \ {c}] \in Int
      BY <3>1
    <3> QED
      BY <2>5, <3>2, Zenon
  <2>9. ASSUME NEW x \in s PROVE g[s] = w[x] + g[s \ {x}]
    <3>1. CASE x = c
      BY <2>5, <3>1
    <3>2. CASE x # c
      <4>1. g[s \ {c}] = w[x] + g[(s \ {c}) \ {x}]
        BY <2>5, <2>6a, <3>2
      <4>2. g[s \ {x}] = w[c] + g[(s \ {x}) \ {c}]
        BY <2>5, <2>6a, <3>2
      <4>3. (s \ {c}) \ {x} = (s \ {x}) \ {c}
        OBVIOUS
      <4>4. g[(s \ {c}) \ {x}] \in Int
        <5>1. s \ {c} \in SUBSET S /\ x \in s \ {c}
          BY <3>2
        <5>2. Cardinality(s \ {c}) = n - 1
          BY <1>S, <2>2, <2>5
        <5>3. Cardinality((s \ {c}) \ {x}) = (n - 1) - 1 /\ (s \ {c}) \ {x} \in SUBSET S
          BY <1>S, <5>1, <5>2
        <5>4. n - 2 \in Nat /\ n - 2 \notin Bad /\ Cardinality((s \ {c}) \ {x}) = n - 2
          BY <5>3, <1>F, <2>1
        <5> QED
          BY <5>3, <5>4
      <4>5. w[x] \in Int /\ w[c] \in Int
        BY <2>W
      <4> HIDE DEF Splits, Bad
      <4> DEFINE rest == g[(s \ {c}) \ {x}]
      <4>6. w[x] + (w[c] + rest) = w[c] + (w[x] + rest)
        BY <4>4, <4>5
      <4> HIDE DEF rest
      <4>7. g[s \ {x}] = w[c] + rest /\ g[s \ {c}] = w[x] + rest
        BY <4>1, <4>2, <4>3 DEF rest
      <4> QED
        BY <2>5, <4>6, <4>7, Zenon
    <3> QED
      BY <3>1, <3>2
  <2> QED
    BY <2>2, <2>8, <2>9
<1> QED
  <2> SUFFICES ASSUME NEW s \in SUBSET S PROVE Splits(s)
    OBVIOUS
  <2>1. Cardinality(s) \in Nat /\ Cardinality(s) \notin Bad
    BY <1>1, <1>F
  <2> QED
    BY <2>1

\* Two folds agree wherever the values they add up agree.
LEMMA IterUnique ==
  ASSUME NEW S, IsFiniteSet(S), NEW v, NEW w, NEW R, NEW T, S \subseteq R, S \subseteq T,
         \A x \in S : v[x] = w[x],
         NEW f, Adds(v, R, f), NEW g, Adds(w, T, g)
  PROVE  f[S] = g[S]
<1> DEFINE Bad == {n \in Nat : \E s \in SUBSET S : Cardinality(s) = n /\ f[s] # g[s]}
<1>F. \A s \in SUBSET S : IsFiniteSet(s) /\ Cardinality(s) \in Nat
  BY FS_Subset, FS_CardinalityType
<1>G. \A s \in SUBSET S : /\ g[s] = IF s = {} THEN 0 ELSE w[Any(s)] + g[s \ {Any(s)}]
                          /\ f[s] = IF s = {} THEN 0 ELSE v[Any(s)] + f[s \ {Any(s)}]
  BY DEF Iter, Adds
<1>1. Bad = {}
  <2> SUFFICES ASSUME Bad # {} PROVE FALSE
    OBVIOUS
  <2>1. PICK n \in Bad : \A m \in Bad : n <= m
    BY LeastNat
  <2>2. PICK s \in SUBSET S : Cardinality(s) = n /\ f[s] # g[s]
    BY <2>1
  <2>3. s # {} /\ Any(s) \in s
    BY <2>2, <1>G, AnyOf
  <2>4. Cardinality(s \ {Any(s)}) = n - 1 /\ s \ {Any(s)} \in SUBSET S
    BY <2>2, <2>3, <1>F, FS_RemoveElement
  <2>5. n - 1 \in Nat /\ n - 1 \notin Bad
    BY <1>F, <2>1, <2>4
  <2>6. f[s \ {Any(s)}] = g[s \ {Any(s)}]
    BY <2>4, <2>5
  <2>7. v[Any(s)] = w[Any(s)]
    BY <2>3
  <2> QED
    BY <1>G, <2>2, <2>3, <2>6, <2>7
<1> QED
  BY <1>1, <1>F

\* The community module's sum is such a g.
LEMMA SumUnfolds ==
  ASSUME NEW w, NEW S, IsFiniteSet(S)
  PROVE  \E g : Adds(w, S, g) /\ SumOver(w, S) = g[S]
<1> DEFINE h == CHOOSE g : Adds(w, S, g)
<1>1. SumOver(w, S) = h[S]
  BY DEF SumOver, MapThenSumSet, MapThenFoldSet, Iter, Any, Adds
<1>2. Adds(w, S, h)
  BY IterExists, Zenon
<1> QED
  BY <1>1, <1>2, Zenon

\* A sum over a finite set is an integer, splits off any of its elements, and
\* is nothing for the empty set.
LEMMA SumSplits ==
  ASSUME NEW S, IsFiniteSet(S), NEW w, \A x \in S : w[x] \in Int
  PROVE  /\ SumOver(w, S) \in Int
         /\ \A x \in S : SumOver(w, S) = w[x] + SumOver(w, S \ {x})
<1>1. PICK g : Adds(w, S, g) /\ SumOver(w, S) = g[S]
  BY SumUnfolds
<1>2. g[S] \in Int /\ \A x \in S : g[S] = w[x] + g[S \ {x}]
  <2>1. S \in SUBSET S
    OBVIOUS
  <2> QED
    BY <1>1, <2>1, IterSplits
<1>3. ASSUME NEW x \in S PROVE SumOver(w, S \ {x}) = g[S \ {x}]
  <2>1. IsFiniteSet(S \ {x})
    BY FS_Subset
  <2>2. PICK f : Adds(w, (S \ {x}), f) /\ SumOver(w, S \ {x}) = f[S \ {x}]
    BY <2>1, SumUnfolds
  <2>3. S \ {x} \subseteq S /\ \A y \in S \ {x} : w[y] = w[y]
    OBVIOUS
  <2> QED
    BY <1>1, <2>1, <2>2, <2>3, IterUnique
<1> QED
  BY <1>1, <1>2, <1>3, Zenon

\* The empty sum.
LEMMA SumOfNone ==
  ASSUME NEW w
  PROVE  SumOver(w, {}) = 0
<1>1. PICK g : Adds(w, {}, g) /\ SumOver(w, {}) = g[{}]
  BY SumUnfolds, FS_EmptySet, Zenon
<1> QED
  BY <1>1 DEF Iter, Adds

\* Only the values on the set count.
LEMMA SumSame ==
  ASSUME NEW S, IsFiniteSet(S), NEW v, NEW w, \A x \in S : v[x] = w[x]
  PROVE  SumOver(v, S) = SumOver(w, S)
<1>1. PICK f : Adds(v, S, f) /\ SumOver(v, S) = f[S]
  BY SumUnfolds, Zenon
<1>2. PICK g : Adds(w, S, g) /\ SumOver(w, S) = g[S]
  BY SumUnfolds, Zenon
<1>3. S \subseteq S
  OBVIOUS
<1> QED
  BY <1>1, <1>2, <1>3, IterUnique

-----------------------------------------------------------------------------
\* The two books: the cash of the exchange with the holdings at cost, and the
\* starting balance with the profit reported.

HeldSet   == {o \in Orders : Held(o)}
ClosedSet == {o \in Orders : position[o] = "closed"}
HeldMap   == [o \in Orders |-> HeldValue(o)]
ProfitMap == [o \in Orders |-> Profit(o)]

\* The sums of BooksBalance are sums of functions.
LEMMA HeldSum ==
  ASSUME NEW S \in SUBSET Orders
  PROVE  MapThenSumSet(HeldValue, S) = SumOver(HeldMap, S)
<1> DEFINE Of(g) == g = [s \in SUBSET S |-> IF s = {} THEN 0 ELSE HeldValue(Any(s)) + g[s \ {Any(s)}]]
<1>F. IsFiniteSet(S)
  BY ServiceAssumption, FS_Subset
<1>1. ASSUME NEW g PROVE Of(g) <=> Adds(HeldMap, S, g)
  <2>1. \A s \in SUBSET S : s # {} => HeldMap[Any(s)] = HeldValue(Any(s))
    BY AnyOf DEF HeldMap
  <2> HIDE DEF HeldMap
  <2> QED
    BY <2>1 DEF Adds, Iter
<1> DEFINE h == CHOOSE g : Of(g)
<1>2. MapThenSumSet(HeldValue, S) = h[S]
  BY DEF MapThenSumSet, MapThenFoldSet, Any
<1> HIDE DEF Of
<1>3. Of(h)
  BY <1>F, <1>1, IterExists
<1> QED
  BY <1>F, <1>1, <1>2, <1>3, SumUnfolds, IterUnique

LEMMA ProfitSum ==
  ASSUME NEW S \in SUBSET Orders
  PROVE  MapThenSumSet(Profit, S) = SumOver(ProfitMap, S)
<1> DEFINE Of(g) == g = [s \in SUBSET S |-> IF s = {} THEN 0 ELSE Profit(Any(s)) + g[s \ {Any(s)}]]
<1>F. IsFiniteSet(S)
  BY ServiceAssumption, FS_Subset
<1>1. ASSUME NEW g PROVE Of(g) <=> Adds(ProfitMap, S, g)
  <2>1. \A s \in SUBSET S : s # {} => ProfitMap[Any(s)] = Profit(Any(s))
    BY AnyOf DEF ProfitMap
  <2> HIDE DEF ProfitMap
  <2> QED
    BY <2>1 DEF Adds, Iter
<1> DEFINE h == CHOOSE g : Of(g)
<1>2. MapThenSumSet(Profit, S) = h[S]
  BY DEF MapThenSumSet, MapThenFoldSet, Any
<1> HIDE DEF Of
<1>3. Of(h)
  BY <1>F, <1>1, IterExists
<1> QED
  BY <1>F, <1>1, <1>2, <1>3, SumUnfolds, IterUnique

Books == balance + SumOver(HeldMap, HeldSet) = InitialBalance + SumOver(ProfitMap, ClosedSet)

LEMMA BooksAreSums == BooksBalance <=> Books
<1>1. HeldSet \in SUBSET Orders /\ ClosedSet \in SUBSET Orders
  BY DEF HeldSet, ClosedSet
<1> QED
  BY <1>1, HeldSum, ProfitSum DEF BooksBalance, Books, RealizedTotal, HeldSet, ClosedSet

\* A sum gains the value of the element the set gains.
LEMMA SumGains ==
  ASSUME NEW S, IsFiniteSet(S), NEW x, x \notin S, NEW T, T = S \cup {x}, NEW v, NEW w,
         \A y \in S : w[y] = v[y], \A y \in T : w[y] \in Int
  PROVE  SumOver(w, T) = w[x] + SumOver(v, S) /\ SumOver(v, S) \in Int
<1>1. IsFiniteSet(T) /\ T \ {x} = S
  BY FS_AddElement
<1>2. SumOver(w, T) = w[x] + SumOver(w, S)
  BY <1>1, SumSplits
<1>3. SumOver(w, S) = SumOver(v, S)
  BY SumSame
<1>4. SumOver(w, S) \in Int
  BY SumSplits
<1> QED
  BY <1>2, <1>3, <1>4

\* What an order that is held or was closed is worth, in integers.
MoneyTyped ==
  \A o \in Orders :
    /\ Held(o) \/ position[o] = "closed" =>
         Amount(o) \in Nat /\ fillPrice[o] \in Nat /\ exitPrice[o] \in Nat
    /\ Held(o) => HeldMap[o] \in Int
    /\ position[o] = "closed" => ProfitMap[o] \in Int

LEMMA MoneyFacts == IInv => MoneyTyped
<1> SUFFICES ASSUME IInv, NEW o \in Orders PROVE MoneyTyped!(o)
  BY DEF MoneyTyped
<1>1. Held(o) \/ position[o] = "closed" =>
        Amount(o) \in Nat /\ fillPrice[o] \in Nat /\ exitPrice[o] \in Nat
  BY RequestFields DEF IInv, SubmitInv, HoldingInv, Held, Amount, TypeOK
<1>2. Held(o) => HeldValue(o) \in Int
  BY <1>1 DEF HeldValue, Notional
<1>3. position[o] = "closed" => Profit(o) \in Int
  BY <1>1 DEF Profit, RealizedPnl
<1> QED
  BY <1>1, <1>2, <1>3 DEF HeldMap, ProfitMap

LEMMA MoneyFactsNext == IInv' => MoneyTyped'
BY MoneyFacts, PTL

\* An order that keeps its own fields keeps its place in the books.
LEMMA Unbooked ==
  ASSUME NEW p \in Orders, request'[p] = request[p], fillPrice'[p] = fillPrice[p],
         exitPrice'[p] = exitPrice[p]
  PROVE  HeldMap'[p] = HeldMap[p] /\ ProfitMap'[p] = ProfitMap[p]
BY DEF HeldMap, ProfitMap, HeldValue, Profit, RealizedPnl, Notional, Amount, IsBuy

\* A step that moves no money and keeps both sets keeps the books.
LEMMA BooksKept ==
  ASSUME Books, UNCHANGED balance, HeldSet' = HeldSet, ClosedSet' = ClosedSet,
         \A p \in HeldSet : HeldMap'[p] = HeldMap[p],
         \A p \in ClosedSet : ProfitMap'[p] = ProfitMap[p]
  PROVE  Books'
<1>1. IsFiniteSet(HeldSet) /\ IsFiniteSet(ClosedSet)
  BY ServiceAssumption, FS_Subset DEF HeldSet, ClosedSet
<1>2. SumOver(HeldMap', HeldSet) = SumOver(HeldMap, HeldSet)
  BY <1>1, SumSame
<1>3. SumOver(ProfitMap', ClosedSet) = SumOver(ProfitMap, ClosedSet)
  BY <1>1, SumSame
<1>4. Books' <=> balance' + SumOver(HeldMap', HeldSet') = InitialBalance + SumOver(ProfitMap', ClosedSet')
  BY DEF Books
<1> QED
  BY <1>2, <1>3, <1>4 DEF Books

LEMMA InitBooks == Init => Books
<1> SUFFICES ASSUME Init PROVE Books
  OBVIOUS
<1>1. HeldSet = {} /\ ClosedSet = {}
  BY DEF Init, PositionInit, HeldSet, ClosedSet, Held
<1> QED
  BY <1>1, SumOfNone, ExchangeAssumption DEF Books, Init, ExchangeInit

\* A fill moves the cost from the cash to the holdings.
LEMMA FillBooks ==
  ASSUME IInv, IInv', Books, NEW o \in Orders, Fill(o)
  PROVE  Books'
<1>T. TypeOK /\ SubmitInv(o) /\ HoldingInv(o) /\ MoneyTyped /\ MoneyTyped'
  BY MoneyFacts, MoneyFactsNext DEF IInv
<1>1. /\ request' = request /\ position' = position /\ exitPrice' = exitPrice
      /\ fillPrice' = [fillPrice EXCEPT ![o] = MarketPrice(o)]
      /\ pc[o] = "validated" /\ pc' = [pc EXCEPT ![o] = "filled"]
      /\ balance' = IF IsBuy(o) THEN balance - MarketCost(o) ELSE balance + MarketCost(o)
      /\ PriceKnown(o)
  BY DEF Fill, ExecuteFill, GoTo, positionVars
<1>2. position[o] = "none"
  BY <1>1, <1>T DEF HoldingInv, TypeOK
<1>3. o \notin HeldSet /\ HeldSet' = HeldSet \cup {o} /\ ClosedSet' = ClosedSet /\ o \notin ClosedSet
  BY <1>1, <1>2, <1>T DEF HeldSet, ClosedSet, Held, TypeOK
<1>4. \A p \in Orders \ {o} : HeldMap'[p] = HeldMap[p] /\ ProfitMap'[p] = ProfitMap[p]
  BY <1>1, <1>T, Unbooked DEF TypeOK
<1>5. IsFiniteSet(HeldSet) /\ IsFiniteSet(ClosedSet)
  BY ServiceAssumption, FS_Subset DEF HeldSet, ClosedSet
<1>6. \A p \in HeldSet' : HeldMap'[p] \in Int
  BY <1>T DEF MoneyTyped, HeldSet
<1>7. /\ SumOver(HeldMap', HeldSet') = HeldMap'[o] + SumOver(HeldMap, HeldSet)
      /\ SumOver(HeldMap, HeldSet) \in Int
  <2>1. \A p \in HeldSet : HeldMap'[p] = HeldMap[p]
    BY <1>3, <1>4 DEF HeldSet
  <2>2. o \notin HeldSet /\ HeldSet' = HeldSet \cup {o}
    BY <1>3
  <2>3. IsFiniteSet(HeldSet)
    BY <1>5
  <2> DEFINE S == HeldSet
             T == HeldSet'
             v == HeldMap
             w == HeldMap'
  <2>4. /\ IsFiniteSet(S) /\ o \notin S /\ T = S \cup {o}
        /\ \A y \in S : w[y] = v[y]
    BY <2>1, <2>2, <2>3
  <2>5. \A y \in T : w[y] \in Int
    BY <1>6
  <2> HIDE DEF S, T, v, w
  <2>6. SumOver(w, T) = w[o] + SumOver(v, S) /\ SumOver(v, S) \in Int
    BY <2>4, <2>5, SumGains
  <2> QED
    BY <2>6 DEF S, T, v, w
<1>8. SumOver(ProfitMap', ClosedSet') = SumOver(ProfitMap, ClosedSet)
  <2>1. ClosedSet \subseteq Orders \ {o}
    BY <1>3 DEF ClosedSet
  <2>2. \A p \in ClosedSet : ProfitMap'[p] = ProfitMap[p]
    BY <1>4, <2>1
  <2> QED
    BY <1>3, <1>5, <2>2, SumSame
<1>9. MarketCost(o) \in Nat /\ HeldMap'[o] = IF IsBuy(o) THEN MarketCost(o) ELSE -MarketCost(o)
  <2>1. MarketCost(o) \in Nat
    BY <1>1, <1>T, MarketFacts DEF SubmitInv
  <2>2. fillPrice'[o] = MarketPrice(o)
    BY <1>1, <1>T DEF TypeOK
  <2> QED
    BY <1>1, <2>1, <2>2 DEF HeldMap, HeldValue, Notional, Amount, MarketCost, IsBuy
<1>10. Books' <=> balance' + SumOver(HeldMap', HeldSet') = InitialBalance + SumOver(ProfitMap', ClosedSet')
  BY DEF Books
<1>11. balance \in Int
  BY <1>T DEF TypeOK
<1> DEFINE heldSum == SumOver(HeldMap, HeldSet)
           cost == MarketCost(o)
<1>12. balance' + (HeldMap'[o] + heldSum) = balance + heldSum
  <2>1. balance' = (IF IsBuy(o) THEN balance - cost ELSE balance + cost) /\ cost \in Nat /\ heldSum \in Int
        /\ HeldMap'[o] = IF IsBuy(o) THEN cost ELSE -cost
    BY <1>1, <1>7, <1>9
  <2> HIDE DEF heldSum, cost
  <2> QED
    BY <1>11, <2>1
<1> QED
  BY <1>7, <1>8, <1>10, <1>12 DEF Books

\* Closing a position moves its cost back, and its profit into the other book.
LEMMA CloseBooks ==
  ASSUME IInv, IInv', Books, NEW o \in Orders, NEW exit \in Prices, Close(o, exit)
  PROVE  Books'
<1>T. TypeOK /\ SubmitInv(o) /\ HoldingInv(o) /\ MoneyTyped /\ MoneyTyped'
  BY MoneyFacts, MoneyFactsNext DEF IInv
<1>1. /\ request' = request /\ fillPrice' = fillPrice /\ pc' = pc
      /\ position[o] = "open" /\ position' = [position EXCEPT ![o] = "closed"]
      /\ exitPrice' = [exitPrice EXCEPT ![o] = exit]
      /\ balance' = IF IsBuy(o) THEN balance + exit * Amount(o) ELSE balance - exit * Amount(o)
  BY DEF Close, ClosePosition, CashAfterClose, orderVars
<1>2. pc[o] \notin {"filled", "unopened"}
  BY <1>1, <1>T DEF HoldingInv
<1>3. /\ o \in HeldSet /\ HeldSet' = HeldSet \ {o}
      /\ o \notin ClosedSet /\ ClosedSet' = ClosedSet \cup {o}
  BY <1>1, <1>2, <1>T DEF HeldSet, ClosedSet, Held, TypeOK
<1>4. \A p \in Orders \ {o} : HeldMap'[p] = HeldMap[p] /\ ProfitMap'[p] = ProfitMap[p]
  BY <1>1, <1>T, Unbooked DEF TypeOK
<1>5. IsFiniteSet(HeldSet) /\ IsFiniteSet(ClosedSet) /\ IsFiniteSet(HeldSet')
  BY <1>3, ServiceAssumption, FS_Subset DEF HeldSet, ClosedSet
<1>6. /\ \A p \in HeldSet : HeldMap[p] \in Int
      /\ \A p \in ClosedSet' : ProfitMap'[p] \in Int
  BY <1>T DEF MoneyTyped, HeldSet, ClosedSet
<1>7. /\ SumOver(HeldMap, HeldSet) = HeldMap[o] + SumOver(HeldMap', HeldSet')
      /\ SumOver(HeldMap', HeldSet') \in Int
  <2>1. \A p \in HeldSet' : HeldMap[p] = HeldMap'[p]
    BY <1>3, <1>4 DEF HeldSet
  <2>2. HeldSet = HeldSet' \cup {o} /\ o \notin HeldSet'
    BY <1>3
  <2> QED
    BY <1>5, <1>6, <2>1, <2>2, SumGains
<1>8. /\ SumOver(ProfitMap', ClosedSet') = ProfitMap'[o] + SumOver(ProfitMap, ClosedSet)
      /\ SumOver(ProfitMap, ClosedSet) \in Int
  <2>1. \A p \in ClosedSet : ProfitMap'[p] = ProfitMap[p]
    BY <1>3, <1>4 DEF ClosedSet
  <2> QED
    BY <1>3, <1>5, <1>6, <2>1, SumGains
<1>9. Amount(o) \in Nat /\ fillPrice[o] \in Nat /\ exit \in Nat /\ balance \in Int /\ InitialBalance \in Int
  BY <1>3, <1>T, PriceIsPositive, ExchangeAssumption DEF MoneyTyped, HeldSet, TypeOK
<1>10. HeldMap[o] = IF IsBuy(o) THEN fillPrice[o] * Amount(o) ELSE -(fillPrice[o] * Amount(o))
  BY DEF HeldMap, HeldValue, Notional
<1>11. ProfitMap'[o] = IF IsBuy(o) THEN exit * Amount(o) - fillPrice[o] * Amount(o)
                                   ELSE fillPrice[o] * Amount(o) - exit * Amount(o)
  <2>1. ProfitMap'[o] = RealizedPnl(o, exit)
    BY <1>1, <1>T DEF ProfitMap, Profit, RealizedPnl, Amount, IsBuy, TypeOK
  <2>2. \A a, b, c \in Nat : (a - b) * c = a * c - b * c
    OBVIOUS
  <2> QED
    BY <1>9, <2>1, <2>2 DEF RealizedPnl
<1>12. Books' <=> balance' + SumOver(HeldMap', HeldSet') = InitialBalance + SumOver(ProfitMap', ClosedSet')
  BY DEF Books
<1> DEFINE held == SumOver(HeldMap', HeldSet')
           profit == SumOver(ProfitMap, ClosedSet)
           cost == fillPrice[o] * Amount(o)
           proceeds == exit * Amount(o)
<1>13. cost \in Nat /\ proceeds \in Nat /\ held \in Int /\ profit \in Int
  BY <1>7, <1>8, <1>9
<1>14. balance + (HeldMap[o] + held) = InitialBalance + profit
  BY <1>7 DEF Books
<1>15. balance' = IF IsBuy(o) THEN balance + proceeds ELSE balance - proceeds
  BY <1>1
<1>16. HeldMap[o] = (IF IsBuy(o) THEN cost ELSE -cost)
       /\ ProfitMap'[o] = IF IsBuy(o) THEN proceeds - cost ELSE cost - proceeds
  BY <1>10, <1>11
<1> HIDE DEF held, profit, cost, proceeds
<1>17. balance' + held = InitialBalance + (ProfitMap'[o] + profit)
  BY <1>9, <1>13, <1>14, <1>15, <1>16
<1> QED
  BY <1>8, <1>12, <1>17 DEF held, profit

LEMMA NextBooks == IInv /\ IInv' /\ Books /\ [Next]_vars => Books'
<1> SUFFICES ASSUME IInv, IInv', Books, [Next]_vars PROVE Books'
  OBVIOUS
<1> USE DEF vars, orderVars, exchangeVars, positionVars, serviceVars, GoTo
<1>T. TypeOK /\ \A o \in Orders : SubmitInv(o) /\ HoldingInv(o)
  BY DEF IInv
<1>K. ASSUME UNCHANGED <<balance, fillPrice, exitPrice>>, HeldSet' = HeldSet, ClosedSet' = ClosedSet,
             \A p \in HeldSet \cup ClosedSet : request'[p] = request[p]
      PROVE  Books'
  <2>1. HeldSet \subseteq Orders /\ ClosedSet \subseteq Orders
    BY DEF HeldSet, ClosedSet
  <2>2. \A p \in HeldSet \cup ClosedSet : HeldMap'[p] = HeldMap[p] /\ ProfitMap'[p] = ProfitMap[p]
    BY <1>K, <2>1, Unbooked
  <2> QED
    BY <1>K, <2>2, BooksKept
<1>S. ASSUME UNCHANGED <<balance, fillPrice, exitPrice, request, position>>,
             \A p \in Orders : pc'[p] \in {"filled", "unopened"} <=> pc[p] \in {"filled", "unopened"}
      PROVE  Books'
  <2>1. HeldSet' = HeldSet /\ ClosedSet' = ClosedSet
    BY <1>S DEF HeldSet, ClosedSet, Held
  <2> QED
    BY <1>S, <1>K, <2>1
<1>1. ASSUME NEW o \in Orders, NEW r \in Requests, Submit(o, r) PROVE Books'
  <2>1. o \notin HeldSet \cup ClosedSet
    BY <1>1, <1>T DEF Submit, HeldSet, ClosedSet, Held, HoldingInv
  <2>2. HeldSet' = HeldSet /\ ClosedSet' = ClosedSet
    BY <1>1, <1>T DEF Submit, HeldSet, ClosedSet, Held, TypeOK
  <2>3. \A p \in HeldSet \cup ClosedSet : request'[p] = request[p]
    BY <1>1, <1>T, <2>1 DEF Submit, TypeOK, HeldSet, ClosedSet
  <2> QED
    BY <1>1, <1>K, <2>2, <2>3 DEF Submit
<1>2. ASSUME NEW o \in Orders, ValidateApprove(o) \/ ValidateReject(o) PROVE Books'
  BY <1>2, <1>S, <1>T DEF ValidateApprove, ValidateReject, TypeOK
<1>3. ASSUME NEW o \in Orders, Fill(o) PROVE Books'
  BY <1>3, FillBooks
<1>4. ASSUME NEW o \in Orders, ExchangeReject(o) \/ ExchangeRaise(o) PROVE Books'
  BY <1>4, <1>S, <1>T DEF ExchangeReject, ExecuteReject, ExchangeRaise, ExecuteRaise, TypeOK
<1>5. ASSUME NEW o \in Orders, Open(o) PROVE Books'
  <2>1. HeldSet' = HeldSet
    BY <1>5, <1>T DEF Open, OpenPosition, HeldSet, Held, TypeOK
  <2>2. position[o] = "none"
    BY <1>5, <1>T DEF Open, HoldingInv, TypeOK
  <2>3. ClosedSet' = ClosedSet
    BY <1>5, <1>T, <2>2 DEF Open, OpenPosition, ClosedSet, TypeOK
  <2> QED
    BY <1>5, <1>K, <2>1, <2>3 DEF Open, OpenPosition
<1>6. ASSUME NEW o \in Orders, Return(o) \/ ReturnRejected(o) \/ ReturnClosed(o) PROVE Books'
  BY <1>6, <1>S, <1>T DEF Return, ReturnRejected, ReturnClosed, TypeOK
<1>11. ASSUME NEW o \in Orders, PublishRaises(o) \/ CloseRaises(o) PROVE Books'
  BY <1>11, <1>S, <1>T DEF PublishRaises, CloseRaises, InFlight, TypeOK
<1>7. ASSUME NEW o \in Orders, NEW exit \in Prices, Close(o, exit) PROVE Books'
  BY <1>7, CloseBooks
<1>8. ASSUME NEW o \in Orders, Cancel(o) PROVE Books'
  BY <1>8, <1>S DEF Cancel, CancelOrder
<1>9. ASSUME NEW s \in Symbols, NEW q \in Quotes, Market(s, q) PROVE Books'
  BY <1>9, <1>S DEF Market, SetPrice
<1>10. CASE NewPeriod \/ KillSwitch \/ Clock \/ UNCHANGED vars
  BY <1>10, <1>S DEF NewPeriod, KillSwitch, Clock
<1> QED
  BY <1>1, <1>2, <1>3, <1>4, <1>5, <1>6, <1>7, <1>8, <1>9, <1>10, <1>11 DEF Next, Step

\* At every await of every call the cash and the holdings at cost are the
\* starting balance and the profit of the closed positions.
THEOREM CashMatchesPositions == Spec => []BooksBalance
<1>1. IInv /\ [Next]_vars /\ Books => Books'
  BY NextIInv, NextBooks
<1>2. Books => BooksBalance
  BY BooksAreSums
<1> QED
  BY <1>1, <1>2, InitIInv, NextIInv, InitBooks, PTL DEF Spec

\* The value handed to the next validation is the starting balance and the
\* realized profit less what is paid for the holdings, as soon as every call
\* that moved cash has returned: only a fill and a close move cash, each inside
\* a call that copies the cash before it returns, and the books agree.
THEOREM ValueFollowsCash == Spec => []ValueLacksHoldings
<1>1. IInv /\ Books /\ ValueIsCash => ValueLacksHoldings
  <2> SUFFICES ASSUME IInv, Books, ValueIsCash, Settled
               PROVE  portfolioValue = (InitialBalance + RealizedTotal) - MapThenSumSet(HeldValue, HeldSet)
    BY DEF ValueLacksHoldings, HeldSet
  <2>1. BooksBalance
    BY BooksAreSums
  <2>2. MapThenSumSet(HeldValue, HeldSet) \in Int
    <3>1. HeldSet \in SUBSET Orders /\ IsFiniteSet(HeldSet)
      BY ServiceAssumption, FS_Subset DEF HeldSet
    <3>2. \A p \in HeldSet : HeldMap[p] \in Int
      BY MoneyFacts DEF MoneyTyped, HeldSet
    <3> QED
      BY <3>1, <3>2, HeldSum, SumSplits
  <2>3. portfolioValue = balance /\ balance \in Int
    BY DEF ValueIsCash, IInv, TypeOK
  <2> DEFINE held == MapThenSumSet(HeldValue, HeldSet)
             rest == InitialBalance + RealizedTotal
  <2>4. balance + held = rest
    BY <2>1 DEF BooksBalance, HeldSet
  <2>5. held \in Int
    BY <2>2
  <2> HIDE DEF held, rest
  <2>6. balance = rest - held
    BY <2>3, <2>4, <2>5
  <2> QED
    BY <2>3, <2>6 DEF held, rest
<1>2. IInv /\ [Next]_vars /\ Books => Books'
  BY NextIInv, NextBooks
<1> QED
  BY <1>1, <1>2, InitIInv, NextIInv, InitBooks, InitValue, NextValue, PTL DEF Spec

-----------------------------------------------------------------------------
\* The refinement: every step of the service is a step of the ledger, or leaves
\* phases, stakes and cash alone.

PhaseMap == [o \in Orders |-> Phase(o)]
StakeMap == [o \in Orders |-> StakeOf(o)]

\* An order that keeps its own fields keeps its phase and its stake.
LEMMA Unmoved ==
  ASSUME NEW p \in Orders, state'[p] = state[p], request'[p] = request[p],
         fillPrice'[p] = fillPrice[p], position'[p] = position[p],
         pc'[p] \in {"filled", "unopened"} <=> pc[p] \in {"filled", "unopened"}
  PROVE  Phase(p)' = Phase(p) /\ StakeOf(p)' = StakeOf(p)
BY DEF Phase, StakeOf, Held, IsBuy, Notional, Amount

LEMMA OneMoves ==
  ASSUME NEW o \in Orders, \A p \in Orders \ {o} : Phase(p)' = Phase(p)
  PROVE  PhaseMap' = [PhaseMap EXCEPT ![o] = Phase(o)'] /\ PhaseMap[o] = Phase(o)
BY DEF PhaseMap

LEMMA StakesKept ==
  ASSUME \A p \in Orders : StakeOf(p)' = StakeOf(p)
  PROVE  StakeMap' = StakeMap
BY DEF StakeMap

LEMMA OneStakes ==
  ASSUME NEW o \in Orders, \A p \in Orders \ {o} : StakeOf(p)' = StakeOf(p)
  PROVE  StakeMap' = [StakeMap EXCEPT ![o] = StakeMap'[o]] /\ StakeMap'[o] = StakeOf(o)'
BY DEF StakeMap

\* The phases the invariant gives to each place submit_order can be at.
PhaseOfPlace ==
  \A o \in Orders :
    /\ pc[o] = "idle" => Phase(o) = "idle"
    /\ pc[o] = "submitted" => Phase(o) = "pending"
    /\ pc[o] = "validated" => Phase(o) = "approved"
    /\ pc[o] = "rejected" => Phase(o) = "refused"
    /\ state[o] = "accepted" => Phase(o) = "stuck"
    /\ Held(o) =>
         Phase(o) = IF IsBuy(o) THEN "long" ELSE "short"
    /\ position[o] = "closed" => Phase(o) = "settled"

LEMMA PhaseAt == IInv => PhaseOfPlace
<1> SUFFICES ASSUME IInv, NEW o \in Orders
             PROVE  PhaseOfPlace!(o)
  BY DEF PhaseOfPlace
<1> USE DEF IInv, SubmitInv, HoldingInv, Phase, Held
<1>1. TypeOK /\ pc[o] \in PcState /\ position[o] \in {"none", "open", "closed"}
  BY DEF TypeOK
<1>2. CASE position[o] = "closed"
  BY <1>1, <1>2 DEF PcState
<1>3. CASE position[o] = "open"
  BY <1>1, <1>3 DEF PcState
<1>4. CASE position[o] = "none"
  BY <1>1, <1>4 DEF PcState
<1> QED
  BY <1>1, <1>2, <1>3, <1>4

LEMMA PhaseAtNext == IInv' => PhaseOfPlace'
BY PhaseAt, PTL

LEMMA LedgerMove ==
  ASSUME NEW o \in Orders, \A p \in Orders \ {o} : Phase(p)' = Phase(p)
  PROVE  Ledger!Move(o, Phase(o), Phase(o)')
BY OneMoves DEF Ledger!Move, PhaseMap

LEMMA LedgerStakesKept ==
  ASSUME \A p \in Orders : StakeOf(p)' = StakeOf(p)
  PROVE  [o \in Orders |-> StakeOf(o)]' = [o \in Orders |-> StakeOf(o)]
OBVIOUS

LEMMA LedgerStake ==
  ASSUME NEW o \in Orders, \A p \in Orders \ {o} : StakeOf(p)' = StakeOf(p), StakeOf(o)' \in Nat
  PROVE  Ledger!Stake(o)
BY DEF Ledger!Stake

LEMMA StepRefines ==
  ASSUME IInv, IInv', [Next]_vars
  PROVE  [Ledger!Next]_(Ledger!ledgerVars)
<1> USE DEF vars, orderVars, exchangeVars, positionVars, serviceVars
<1>P. PhaseOfPlace /\ PhaseOfPlace'
  BY PhaseAt, PhaseAtNext
<1>T. TypeOK /\ TypeOK' /\ \A o \in Orders : SubmitInv(o) /\ HoldingInv(o)
  BY DEF IInv
<1>1. ASSUME NEW o \in Orders, NEW r \in Requests, Submit(o, r) PROVE Ledger!Place(o)
  <2>1. \A p \in Orders \ {o} : Phase(p)' = Phase(p) /\ StakeOf(p)' = StakeOf(p)
    BY <1>1, <1>T, Unmoved DEF Submit, TypeOK, GoTo
  <2>2. StakeOf(o)' = StakeOf(o)
    BY <1>1, <1>T DEF Submit, StakeOf, HoldingInv, SubmitInv
  <2>3. Phase(o) = "idle" /\ Phase(o)' = "pending"
    BY <1>1, <1>P, <1>T DEF Submit, PhaseOfPlace, GoTo, TypeOK
  <2>4. UNCHANGED balance
    BY <1>1 DEF Submit
  <2> QED
    BY <2>1, <2>2, <2>3, <2>4, LedgerMove, LedgerStakesKept DEF Ledger!Place
<1>2. ASSUME NEW o \in Orders, ValidateApprove(o) PROVE Ledger!Approve(o)
  <2>1. \A p \in Orders \ {o} : Phase(p)' = Phase(p) /\ StakeOf(p)' = StakeOf(p)
    BY <1>2, <1>T, Unmoved DEF ValidateApprove, Transition, TypeOK, GoTo
  <2>2. StakeOf(o)' = StakeOf(o) /\ UNCHANGED balance
    BY <1>2, <1>T DEF ValidateApprove, Transition, StakeOf, Notional, Amount
  <2>3. Phase(o) = "pending" /\ Phase(o)' = "approved"
    BY <1>2, <1>P, <1>T DEF ValidateApprove, Transition, PhaseOfPlace, GoTo, TypeOK
  <2> QED
    BY <2>1, <2>2, <2>3, LedgerMove, LedgerStakesKept DEF Ledger!Approve
<1>3. ASSUME NEW o \in Orders, ValidateReject(o) PROVE Ledger!Refuse(o)
  <2>1. \A p \in Orders \ {o} : Phase(p)' = Phase(p) /\ StakeOf(p)' = StakeOf(p)
    BY <1>3, <1>T, Unmoved DEF ValidateReject, Transition, TypeOK, GoTo
  <2>2. StakeOf(o)' = StakeOf(o) /\ UNCHANGED balance
    BY <1>3, <1>T DEF ValidateReject, Transition, StakeOf, Notional, Amount
  <2>3. Phase(o) = "pending" /\ Phase(o)' = "refused"
    BY <1>3, <1>P, <1>T DEF ValidateReject, Transition, PhaseOfPlace, GoTo, TypeOK
  <2> QED
    BY <2>1, <2>2, <2>3, LedgerMove, LedgerStakesKept DEF Ledger!Refuse
<1>4. ASSUME NEW o \in Orders, ExchangeReject(o) PROVE Ledger!Refuse(o)
  <2>1. \A p \in Orders \ {o} : Phase(p)' = Phase(p) /\ StakeOf(p)' = StakeOf(p)
    BY <1>4, <1>T, Unmoved DEF ExchangeReject, ExecuteReject, TransitionVia, TypeOK, GoTo
  <2>2. StakeOf(o)' = StakeOf(o) /\ UNCHANGED balance
    BY <1>4, <1>T DEF ExchangeReject, ExecuteReject, TransitionVia, StakeOf, Notional, Amount
  <2>3. Phase(o) = "approved" /\ Phase(o)' = "refused"
    BY <1>4, <1>P, <1>T DEF ExchangeReject, ExecuteReject, TransitionVia, PhaseOfPlace, GoTo, TypeOK
  <2> QED
    BY <2>1, <2>2, <2>3, LedgerMove, LedgerStakesKept DEF Ledger!Refuse
<1>5. ASSUME NEW o \in Orders, ExchangeRaise(o) PROVE Ledger!Strand(o)
  <2>1. \A p \in Orders \ {o} : Phase(p)' = Phase(p) /\ StakeOf(p)' = StakeOf(p)
    BY <1>5, <1>T, Unmoved DEF ExchangeRaise, ExecuteRaise, Transition, TypeOK, GoTo
  <2>2. StakeOf(o)' = StakeOf(o) /\ UNCHANGED balance
    BY <1>5, <1>T DEF ExchangeRaise, ExecuteRaise, Transition, StakeOf, Notional, Amount
  <2>3. Phase(o) = "approved" /\ Phase(o)' = "stuck"
    BY <1>5, <1>P, <1>T DEF ExchangeRaise, ExecuteRaise, Transition, PhaseOfPlace, GoTo, TypeOK
  <2> QED
    BY <2>1, <2>2, <2>3, LedgerMove, LedgerStakesKept DEF Ledger!Strand
<1>6. ASSUME NEW o \in Orders, Fill(o) PROVE Ledger!Buy(o) \/ Ledger!Short(o)
  <2>1. \A p \in Orders \ {o} : Phase(p)' = Phase(p) /\ StakeOf(p)' = StakeOf(p)
    BY <1>6, <1>T, Unmoved DEF Fill, ExecuteFill, TransitionVia, TypeOK, GoTo
  <2>2. request[o] \in Requests /\ PriceKnown(o)
    BY <1>6, <1>T DEF Fill, ExecuteFill, SubmitInv
  <2>3. MarketPrice(o) \in Nat \ {0} /\ MarketCost(o) \in Nat
    BY <1>T, <2>2, MarketFacts
  <2>4. fillPrice'[o] = MarketPrice(o) /\ request' = request
    BY <1>6, <1>T DEF Fill, ExecuteFill, TypeOK
  <2>5. StakeOf(o)' = MarketCost(o)
    BY <2>3, <2>4 DEF StakeOf, Notional, Amount, MarketCost
  <2>6. Ledger!Stake(o)
    BY <2>1, <2>3, <2>5, LedgerStake
  <2>7. Phase(o) = "approved" /\ Phase(o)' = IF IsBuy(o) THEN "long" ELSE "short"
    BY <1>6, <1>P, <1>T, <2>4 DEF Fill, PhaseOfPlace, GoTo, TypeOK, IsBuy, Held
  <2>8. Ledger!Move(o, "approved", IF IsBuy(o) THEN "long" ELSE "short")
    BY <2>1, <2>7, LedgerMove
  <2>9. CASE IsBuy(o)
    <3>1. MarketCost(o) <= balance /\ balance' = balance - MarketCost(o)
      BY <1>6, <2>9 DEF Fill, ExecuteFill, Affordable
    <3> QED
      BY <2>5, <2>6, <2>8, <2>9, <3>1 DEF Ledger!Buy
  <2>10. CASE ~IsBuy(o)
    <3>1. balance' = balance + MarketCost(o)
      BY <1>6, <2>10 DEF Fill, ExecuteFill
    <3> QED
      BY <2>5, <2>6, <2>8, <2>10, <3>1 DEF Ledger!Short
  <2> QED
    BY <2>9, <2>10
<1>7. ASSUME NEW o \in Orders, NEW exit \in Prices, Close(o, exit)
      PROVE  Ledger!SettleLong(o) \/ Ledger!SettleShort(o)
  <2>1. \A p \in Orders \ {o} : Phase(p)' = Phase(p) /\ StakeOf(p)' = StakeOf(p)
    BY <1>7, <1>T, Unmoved DEF Close, ClosePosition, TypeOK
  <2>2. StakeOf(o)' = StakeOf(o) /\ request' = request
    BY <1>7 DEF Close, StakeOf, Notional, Amount
  <2>3. Phase(o) = (IF IsBuy(o) THEN "long" ELSE "short") /\ Phase(o)' = "settled"
    BY <1>7, <1>P, <1>T DEF Close, ClosePosition, PhaseOfPlace, TypeOK, Held
  <2>4. Ledger!Move(o, IF IsBuy(o) THEN "long" ELSE "short", "settled")
    BY <2>1, <2>3, LedgerMove
  <2>5. exit * Amount(o) \in Nat
    <3>1. pc[o] # "idle"
      BY <1>7, <1>T DEF Close, ClosePosition, HoldingInv
    <3>2. exit \in Nat /\ Amount(o) \in Nat
      BY <1>T, <3>1, PriceIsPositive, RequestFields DEF SubmitInv, Amount
    <3> QED
      BY <3>2
  <2>6. balance' = (IF IsBuy(o) THEN balance + exit * Amount(o) ELSE balance - exit * Amount(o))
    BY <1>7 DEF Close, CashAfterClose
  <2>7. balance \in Int
    BY <1>T DEF TypeOK
  <2>8. [q \in Orders |-> StakeOf(q)]' = [q \in Orders |-> StakeOf(q)]
    BY <2>1, <2>2, LedgerStakesKept
  <2>9. CASE IsBuy(o)
    BY <2>4, <2>5, <2>6, <2>7, <2>8, <2>9 DEF Ledger!SettleLong
  <2>10. CASE ~IsBuy(o)
    BY <2>4, <2>5, <2>6, <2>7, <2>8, <2>10 DEF Ledger!SettleShort
  <2> QED
    BY <2>9, <2>10
<1>K. ASSUME UNCHANGED balance, \A p \in Orders : Phase(p)' = Phase(p) /\ StakeOf(p)' = StakeOf(p)
      PROVE  UNCHANGED Ledger!ledgerVars
  BY <1>K DEF Ledger!ledgerVars
<1>8. ASSUME NEW o \in Orders, Open(o) PROVE UNCHANGED Ledger!ledgerVars
  <2>1. \A p \in Orders \ {o} : Phase(p)' = Phase(p) /\ StakeOf(p)' = StakeOf(p)
    BY <1>8, <1>T, Unmoved DEF Open, OpenPosition, TypeOK, GoTo
  <2>2. StakeOf(o)' = StakeOf(o) /\ UNCHANGED <<balance, request>>
    BY <1>8 DEF Open, StakeOf, Notional, Amount
  <2>3. Phase(o)' = Phase(o)
    BY <1>8, <1>P, <1>T, <2>2 DEF Open, OpenPosition, PhaseOfPlace, GoTo, TypeOK, IsBuy, Held
  <2> QED
    BY <2>1, <2>2, <2>3, <1>K
<1>9. ASSUME NEW o \in Orders, Return(o) \/ ReturnRejected(o) PROVE UNCHANGED Ledger!ledgerVars
  <2>1. \A p \in Orders : Phase(p)' = Phase(p) /\ StakeOf(p)' = StakeOf(p)
    BY <1>9, <1>T, Unmoved DEF Return, ReturnRejected, TypeOK, GoTo
  <2> QED
    BY <1>9, <2>1, <1>K DEF Return, ReturnRejected
<1>15. ASSUME NEW o \in Orders, PublishRaises(o) PROVE UNCHANGED Ledger!ledgerVars
  <2>1. \A p \in Orders : Phase(p)' = Phase(p) /\ StakeOf(p)' = StakeOf(p)
    BY <1>15, <1>T, Unmoved DEF PublishRaises, InFlight, TypeOK, GoTo
  <2> QED
    BY <1>15, <2>1, <1>K DEF PublishRaises
<1>10. ASSUME NEW o \in Orders, Cancel(o) PROVE UNCHANGED Ledger!ledgerVars
  <2>1. \A p \in Orders \ {o} : Phase(p)' = Phase(p) /\ StakeOf(p)' = StakeOf(p)
    BY <1>10, <1>T, Unmoved DEF Cancel, CancelOrder, Transition, TypeOK
  <2>2. StakeOf(o)' = StakeOf(o) /\ UNCHANGED <<balance, request, pc, position>>
    BY <1>10 DEF Cancel, CancelOrder, StakeOf, Notional, Amount
  <2>3. pc[o] \in {"filled", "unopened"} \/ position[o] # "none"
    BY <1>10, <1>T DEF Cancel, CancelOrder, HoldingInv
  <2>4. Phase(o)' = Phase(o)
    BY <1>P, <1>T, <2>2, <2>3 DEF PhaseOfPlace, TypeOK, IsBuy, Held
  <2> QED
    BY <2>1, <2>2, <2>4, <1>K
<1>11. ASSUME UNCHANGED <<orderVars, positionVars, pc, balance>> PROVE UNCHANGED Ledger!ledgerVars
  <2>1. \A p \in Orders : Phase(p)' = Phase(p) /\ StakeOf(p)' = StakeOf(p)
    BY <1>11, Unmoved
  <2> QED
    BY <1>11, <2>1, <1>K
<1>12. ASSUME NEW o \in Orders, ReturnClosed(o) \/ CloseRaises(o) PROVE UNCHANGED Ledger!ledgerVars
  BY <1>11, <1>12 DEF ReturnClosed, CloseRaises
<1>13. ASSUME NEW s \in Symbols, NEW q \in Quotes, Market(s, q) PROVE UNCHANGED Ledger!ledgerVars
  BY <1>11, <1>13 DEF Market, SetPrice
<1>14. CASE NewPeriod \/ KillSwitch \/ Clock \/ UNCHANGED vars
  BY <1>11, <1>14 DEF NewPeriod, KillSwitch, Clock
<1> QED
  BY <1>1, <1>2, <1>3, <1>4, <1>5, <1>6, <1>7, <1>8, <1>9, <1>10, <1>12, <1>13, <1>14, <1>15
     DEF Next, Step, Ledger!Next

LEMMA InitRefines == Init => Ledger!Init
<1> SUFFICES ASSUME Init PROVE Ledger!Init
  OBVIOUS
<1>1. \A o \in Orders : Phase(o) = "idle" /\ StakeOf(o) = 0
  BY InitIInv, PhaseAt DEF Init, OrderInit, PhaseOfPlace, StakeOf
<1> QED
  BY <1>1 DEF Init, ExchangeInit, Ledger!Init

\* The service implements the ledger: no order trades without an approval,
\* cash and holdings change together, a purchase is covered by cash, and a
\* holding is settled at most once.
THEOREM Refinement == Spec => ImplementsLedger
<1>1. IInv /\ IInv' /\ [Next]_vars => [Ledger!Next]_(Ledger!ledgerVars)
  BY StepRefines
<1> QED
  BY <1>1, InitIInv, NextIInv, InitRefines, PTL DEF Spec, ImplementsLedger, Ledger!Spec
=============================================================================
