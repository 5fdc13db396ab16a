--------------------------- MODULE MCAgentManager ---------------------------
(***************************************************************************)
(* Instances of AgentManager for TLC: an agent, a later one with the same  *)
(* id, and another.                                                        *)
(***************************************************************************)
EXTENDS AgentManager

CONSTANTS echo, logger, log2

SharedId == [a \in Agents |-> IF a = log2 THEN logger ELSE a]
=============================================================================
