------------------------------ MODULE Sorting ------------------------------
(***************************************************************************)
(* What sorting leaves (Go's package sort), as a function of what is       *)
(* sorted: SetToSortSeq of the community modules, in a form without        *)
(* recursion that facts can be proved about.                               *)
(***************************************************************************)
EXTENDS Naturals, FiniteSets

\* The n-th has n - 1 before it, where of any two one is before the other.
InOrder(S, Before(_, _)) ==
  [n \in 1..Cardinality(S) |-> CHOOSE x \in S : Cardinality({y \in S : Before(y, x)}) = n - 1]
=============================================================================
