----------------------------- MODULE TradeLedger ----------------------------
(***************************************************************************)
(* What the trading core promises about money, without events, tasks or    *)
(* risk rules: an order is approved before it trades, a trade moves cash   *)
(* and holding in one step, a purchase never spends cash that is not       *)
(* there, and every holding is settled at most once.                       *)
(***************************************************************************)
EXTENDS Integers

CONSTANTS Orders, InitialBalance

VARIABLES
  phase,   \* per order: idle, pending, approved, refused, stuck, long, short, settled
  stake,   \* the money an order bought or sold for; 0 until it trades
  cash

ledgerVars == <<phase, stake, cash>>

Init ==
  /\ phase = [o \in Orders |-> "idle"]
  /\ stake = [o \in Orders |-> 0]
  /\ cash = InitialBalance

Move(o, from, to) ==
  /\ phase[o] = from
  /\ phase' = [phase EXCEPT ![o] = to]

Place(o)   == Move(o, "idle", "pending") /\ UNCHANGED <<stake, cash>>
Approve(o) == Move(o, "pending", "approved") /\ UNCHANGED <<stake, cash>>
Refuse(o)  == (Move(o, "pending", "refused") \/ Move(o, "approved", "refused"))
              /\ UNCHANGED <<stake, cash>>
Strand(o)  == Move(o, "approved", "stuck") /\ UNCHANGED <<stake, cash>>  \* no market price

Stake(o) == stake'[o] \in Nat /\ stake' = [stake EXCEPT ![o] = stake'[o]]

Buy(o)   == Move(o, "approved", "long") /\ Stake(o) /\ stake'[o] <= cash
            /\ cash' = cash - stake'[o]
Short(o) == Move(o, "approved", "short") /\ Stake(o) /\ cash' = cash + stake'[o]

\* Settling pays or costs the exit price, which may be anything.
SettleLong(o)  == Move(o, "long", "settled") /\ cash' >= cash /\ UNCHANGED stake
SettleShort(o) == Move(o, "short", "settled") /\ cash' <= cash /\ UNCHANGED stake

Next == \E o \in Orders :
  \/ Place(o) \/ Approve(o) \/ Refuse(o) \/ Strand(o)
  \/ Buy(o) \/ Short(o) \/ SettleLong(o) \/ SettleShort(o)

Spec == Init /\ [][Next]_ledgerVars
=============================================================================
