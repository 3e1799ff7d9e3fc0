------------------------------- MODULE ArrayOps -------------------------------
(***************************************************************************)
(* Filtering as Array.prototype.filter and the filter of a query do it:    *)
(* what is left of a sequence when only some of its positions are kept.    *)
(* (SelectSeq says the same, but its test is an operator, which no proof   *)
(* can expand.)                                                            *)
(***************************************************************************)
EXTENDS Integers, FiniteSets

\* A finite set of numbers, listed from the smallest to the largest.
InOrder(P) ==
  CHOOSE f \in [1..Cardinality(P) -> P] : \A i, j \in DOMAIN f : i < j => f[i] < f[j]

\* The elements of s at the positions P, in their order.
Filtered(s, P) == [k \in 1..Cardinality(P) |-> s[InOrder(P)[k]]]
=============================================================================
