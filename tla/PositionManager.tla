-------------------------- MODULE PositionManager ---------------------------
(***************************************************************************)
(* execution/position_manager.py.  submit_order opens at most one position *)
(* per order, at the order's fill price and amount, so a position is named *)
(* by its order.  _positions is a dict in order of opening: rank keeps     *)
(* that order.  clear() is left out: it says it is for testing.            *)
(***************************************************************************)
EXTENDS OrderModel, FiniteSets, FiniteSetsExt

VARIABLES
  position,   \* Position.state; "none" before the position opens
  rank,       \* place in the order of opening; 0 before the position opens
  exitPrice   \* Position.exit_price

positionVars == <<position, rank, exitPrice>>

PositionInit ==
  /\ position = [o \in Orders |-> "none"]
  /\ rank = [o \in Orders |-> 0]
  /\ exitPrice = [o \in Orders |-> 0]

OpenPositions == {o \in Orders : position[o] = "open"}

Opened == {o \in Orders : position[o] # "none"}

OpenPositionLost(o) == UNCHANGED positionVars   \* seeded fault

OpenPosition(o) ==
  /\ position' = [position EXCEPT ![o] = "open"]
  /\ rank' = [rank EXCEPT ![o] = Cardinality(Opened) + 1]
  /\ UNCHANGED exitPrice

ClosePosition(o, exit) ==
  /\ position[o] = "open"
  /\ position' = [position EXCEPT ![o] = "closed"]
  /\ exitPrice' = [exitPrice EXCEPT ![o] = exit]
  /\ UNCHANGED rank

\* Position.notional, and the profit Position.close computes.
Notional(o) == fillPrice[o] * Amount(o)

RealizedPnl(o, exit) ==
  IF IsBuy(o) THEN (exit - fillPrice[o]) * Amount(o)
              ELSE (fillPrice[o] - exit) * Amount(o)
=============================================================================
