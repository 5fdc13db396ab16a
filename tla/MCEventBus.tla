----------------------------- MODULE MCEventBus -----------------------------
(***************************************************************************)
(* Instances of EventBus for TLC.  The lists of different types never      *)
(* meet, so all messages are of one type and their publish calls do.       *)
(***************************************************************************)
EXTENDS EventBus

CONSTANT tick

AllTicks == [m \in Messages |-> tick]
=============================================================================
