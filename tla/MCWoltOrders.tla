---------------------------- MODULE MCWoltOrders ----------------------------
(***************************************************************************)
(* Instances of WoltOrders for TLC.                                        *)
(***************************************************************************)
EXTENDS WoltOrders, TLC

CONSTANTS o1, o2, p1, p2

OneInstant == [o \in {o1} |-> "instant"]

AllFaults == FaultKinds

Symmetry == Permutations(Procs)
=============================================================================
