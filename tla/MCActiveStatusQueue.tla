------------------------ MODULE MCActiveStatusQueue -------------------------
(***************************************************************************)
(* Instances of ActiveStatusQueue for TLC.                                 *)
(***************************************************************************)
EXTENDS ActiveStatusQueue, TLC

CONSTANTS b1, b2, u1, u2, d1, d2, r1, r2

\* Each business has a user of its own.
OwnUser == {<<u1, b1>>, <<u2, b2>>}

\* One user works for both businesses.
OneUser == {<<u1, b1>>, <<u1, b2>>}

AllFaults == FaultKinds

\* The runs are alike, and so are the businesses with their users.
Swapped == (b1 :> b2) @@ (b2 :> b1) @@ (u1 :> u2) @@ (u2 :> u1)
Symmetry == Permutations({r1, r2}) \union {Swapped}
=============================================================================
