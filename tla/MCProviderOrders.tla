-------------------------- MODULE MCProviderOrders --------------------------
(***************************************************************************)
(* An instance of ProviderOrders for TLC.                                  *)
(***************************************************************************)
EXTENDS ProviderOrders, TLC

CONSTANTS m1, m2, f1, f2, p1, p2

Unasked == {"Pending", "other", "order_picked_up"}
Asked == {"in_progress", "preorder"}
AllFaults == FaultKinds

Symmetry == Permutations(Procs)
=============================================================================
