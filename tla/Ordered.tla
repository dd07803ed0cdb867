------------------------------ MODULE Ordered ------------------------------
(***************************************************************************)
(* What the readers of OrderReads and MenuData do with the elements of a   *)
(* set or a sequence: put them in an order, keep some of them.             *)
(***************************************************************************)
EXTENDS Integers, Sequences, FiniteSets

\* The elements of a finite set in the order R, a set of pairs <<earlier, later>>.
InOrder(S, R) ==
    [k \in 1..Cardinality(S) |-> CHOOSE x \in S : Cardinality({y \in S : <<y, x>> \in R}) = k - 1]

\* Some places of a sequence, the first ones first.
Ascending(places) == InOrder(places, {p \in places \X places : p[1] < p[2]})

\* The elements at some places of a sequence, in their order: Array.filter.
Kept(seq, places) == [k \in 1..Cardinality(places) |-> seq[Ascending(places)[k]]]
=============================================================================
