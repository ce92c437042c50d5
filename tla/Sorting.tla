------------------------------- MODULE Sorting -------------------------------
(***************************************************************************)
(* What sort.Slice, sort_by and Array.sort leave, wherever a registry or a *)
(* core sorts: the members of S by a first number, and where those are     *)
(* equal by a second one that no two members share.  A descending sort is  *)
(* by the negative of its number.                                          *)
(***************************************************************************)
EXTENDS Integers, FiniteSets

Ahead(first, second, x, y) ==
    first[x] < first[y] \/ (first[x] = first[y] /\ second[x] < second[y])

\* How many members of S go before x.
Place(S, first, second, x) == Cardinality({y \in S : Ahead(first, second, y, x)})

Arranged(S, first, second) ==
    [n \in 1..Cardinality(S) |-> CHOOSE x \in S : Place(S, first, second, x) = n - 1]
=============================================================================
