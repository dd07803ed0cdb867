--------------------------- MODULE MCMenuTracking ---------------------------
(***************************************************************************)
(* An instance of MenuTracking for TLC.                                     *)
(***************************************************************************)
EXTENDS MenuTracking, TLC

CONSTANTS b1, v1, v2, v3, f1

\* A business with two venues that are reached and one behind Foodora that is not.
ProvidersOf == [b \in Businesses |-> <<v1, v2, f1, v3>>]

\* The two are reached alike, whatever their order.
Symmetry == Permutations({v1, v2})
=============================================================================
