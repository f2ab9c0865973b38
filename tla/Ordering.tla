------------------------------ MODULE Ordering ------------------------------
(***************************************************************************)
(* Rows in order: what ORDER BY and sort.Slice make of a set whose members *)
(* the order tells apart.  The member at place n is the one that n - 1     *)
(* others come before.                                                     *)
(***************************************************************************)
EXTENDS Integers, FiniteSets

Ordered(S, Before(_, _)) ==
  [n \in 1 .. Cardinality(S) |->
     CHOOSE x \in S : Cardinality({y \in S : Before(y, x)}) = n - 1]
=============================================================================
