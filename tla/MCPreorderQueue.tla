-------------------------- MODULE MCPreorderQueue ---------------------------
(***************************************************************************)
(* Instances of PreorderQueue for TLC.                                     *)
(***************************************************************************)
EXTENDS PreorderQueue, TLC

CONSTANTS o1, o2, r1, r2

AllFaults == FaultKinds

Symmetry == Permutations(Runs)
=============================================================================
