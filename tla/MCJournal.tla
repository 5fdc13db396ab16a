------------------------------ MODULE MCJournal -----------------------------
(* The journal for TLC. *)
EXTENDS Journal

\* Ids, tags and profits are only compared for equality.
Symmetry == Permutations(Trades) \cup Permutations(Tags) \cup Permutations(Profits)
=============================================================================
