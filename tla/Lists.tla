-------------------------------- MODULE Lists --------------------------------
(***************************************************************************)
(* Python's lists, as far as the standard modules leave something out.     *)
(* Recursion is by a recursive function, so that proofs can reason on it.  *)
(***************************************************************************)
EXTENDS Integers, Sequences

\* A list without some of its members, the others in their order.
Without(list, out) ==
  LET kept[i \in 0..Len(list)] ==
        IF i = 0 THEN <<>>
        ELSE IF list[i] \in out THEN kept[i - 1] ELSE Append(kept[i - 1], list[i])
  IN  kept[Len(list)]

\* The numbers in a list, added up from the left.
Total(list) ==
  LET sum[i \in 0..Len(list)] == IF i = 0 THEN 0 ELSE sum[i - 1] + list[i]
  IN  sum[Len(list)]
=============================================================================
