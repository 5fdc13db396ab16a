--------------------------- MODULE PaperExchange ----------------------------
(***************************************************************************)
(* execution/paper_exchange.py: virtual cash, the price board and the book *)
(* of filled orders.  execute_order never suspends, so each of its three   *)
(* outcomes is one step.  reset() is left out: only tests call it.         *)
(***************************************************************************)
EXTENDS OrderModel

CONSTANTS InitialBalance, NoPrice

ASSUME ExchangeAssumption ==
  /\ InitialBalance \in Nat
  /\ NoPrice \notin Prices

VARIABLES
  balance,   \* _balance
  prices,    \* _prices; NoPrice where set_price was never called
  stored     \* _orders: the orders the exchange filled

exchangeVars == <<balance, prices, stored>>

ExchangeInit ==
  /\ balance = InitialBalance
  /\ prices = [s \in Symbols |-> NoPrice]
  /\ stored = {}

SetPrice(s, p) ==
  /\ prices' = [prices EXCEPT ![s] = p]
  /\ UNCHANGED <<balance, stored>>

MarketPrice(o) == prices[request[o].symbol]
MarketCost(o)  == MarketPrice(o) * Amount(o)

\* execute_order up to the point where it decides.
PriceKnown(o)   == MarketPrice(o) # NoPrice
AffordableUnchecked(o) == IsBuy(o) => balance > 0   \* seeded fault: any cash will do
Affordable(o)   == IsBuy(o) => MarketCost(o) <= balance

ExecuteFill(o) ==
  /\ PriceKnown(o) /\ Affordable(o)
  /\ balance' = IF IsBuy(o) THEN balance - MarketCost(o) ELSE balance + MarketCost(o)
  /\ TransitionVia(o, "accepted", "filled")
  /\ fillPrice' = [fillPrice EXCEPT ![o] = MarketPrice(o)]
  /\ stored' = stored \cup {o}
  /\ UNCHANGED <<prices, request>>

ExecuteReject(o) ==          \* "Insufficient balance"
  /\ PriceKnown(o) /\ ~Affordable(o)
  /\ TransitionVia(o, "accepted", "rejected")
  /\ UNCHANGED <<exchangeVars, request, fillPrice>>

ExecuteWait(o) == ~PriceKnown(o) /\ FALSE   \* seeded fault: waits for a price

ExecuteRaise(o) ==           \* ValueError: No price set
  /\ ~PriceKnown(o)
  /\ Transition(o, "accepted")
  /\ UNCHANGED <<exchangeVars, request, fillPrice>>

CancelOrder(o) ==            \* cancel_order; neither cash nor position moves
  /\ o \in stored /\ ~IsTerminal(o)
  /\ Transition(o, "cancelled")
  /\ UNCHANGED <<exchangeVars, request, fillPrice>>
=============================================================================
