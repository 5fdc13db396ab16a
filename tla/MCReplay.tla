------------------------------ MODULE MCReplay ------------------------------
(***************************************************************************)
(* Three sources: equal timestamps within one and between two, and one     *)
(* source that goes on after the others have ended.                        *)
(***************************************************************************)
EXTENDS Replay

MCCandles == <<<<1, 2, 2>>, <<1, 3>>, <<2, 4, 5>>>>
=============================================================================
