----------------------------- MODULE OrderModel -----------------------------
(***************************************************************************)
(* The Order record of execution/models.py and its state machine.  Prices  *)
(* and amounts are integers: the properties compare sums of money, and     *)
(* rounding is not among them.                                             *)
(***************************************************************************)
EXTENDS Integers

CONSTANTS
  Orders,     \* order ids
  Symbols,    \* trading pairs
  Prices,     \* prices positions are closed at
  Quotes,     \* prices set_price is called with
  Requests,   \* what callers may ask for
  NoRequest   \* an order id nobody has used yet

Sides == {"buy", "sell", "hold"}   \* "hold" stands for every invalid side

ASSUME OrderAssumption ==
  /\ Prices \subseteq Nat \ {0}
  /\ Quotes \subseteq Prices
  /\ Requests \subseteq [symbol : Symbols, side : Sides, amount : Nat,
                         price : Nat, reason : BOOLEAN]
  /\ NoRequest \notin Requests

VARIABLES
  state,      \* Order.state; "none" before the order exists
  request,    \* the fields submit_order was called with
  fillPrice   \* Order.fill_price

orderVars == <<state, request, fillPrice>>

OrderInit ==
  /\ state = [o \in Orders |-> "none"]
  /\ request = [o \in Orders |-> NoRequest]
  /\ fillPrice = [o \in Orders |-> 0]

OrderState == {"new", "validated", "accepted", "filled", "closed", "rejected", "cancelled"}

ORDER_TRANSITIONS ==
  [s \in OrderState |->
    CASE s = "new"       -> {"validated", "rejected"}
      [] s = "validated" -> {"accepted", "rejected"}
      [] s = "accepted"  -> {"filled", "cancelled", "rejected"}
      [] s = "filled"    -> {"closed", "cancelled"}
      [] OTHER           -> {}]

IsTerminal(o) == state[o] \in {"closed", "rejected", "cancelled"}

\* Order.transition; a move the table forbids raises, and is no step here.
Transition(o, s) ==
  /\ s \in ORDER_TRANSITIONS[state[o]]
  /\ state' = [state EXCEPT ![o] = s]

\* Two transitions the code makes without suspending in between.
TransitionVia(o, mid, s) ==
  /\ mid \in ORDER_TRANSITIONS[state[o]]
  /\ s \in ORDER_TRANSITIONS[mid]
  /\ state' = [state EXCEPT ![o] = s]

Amount(o) == request[o].amount
IsBuy(o)  == request[o].side = "buy"
=============================================================================
