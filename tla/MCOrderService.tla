--------------------------- MODULE MCOrderService ---------------------------
(***************************************************************************)
(* Instances of OrderService for TLC: the requests callers make.           *)
(***************************************************************************)
EXTENDS OrderService, TLC

Order(symbol, side, amount, price) ==
  [symbol |-> symbol, side |-> side, amount |-> amount, price |-> price, reason |-> TRUE]

\* A long, a short and a purchase that the cash may no longer cover.
MixedRequests ==
  {Order(s, "buy", 2, 1) : s \in Symbols} \cup {Order(s, "sell", 1, 2) : s \in Symbols}

\* One kind of request and one price: only the limits on frequency matter.
TwoLongs == {Order(s, "buy", 1, 1) : s \in Symbols}

OrderSymmetry == Permutations(Orders)

LongRequests == {Order(s, "buy", a, 1) : s \in Symbols, a \in {10, 16, 20}}
=============================================================================
