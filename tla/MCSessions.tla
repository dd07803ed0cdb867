----------------------------- MODULE MCSessions -----------------------------
(***************************************************************************)
(* An instance of Sessions for TLC: two sessions of one user.              *)
(***************************************************************************)
EXTENDS Sessions, TLC

CONSTANTS s1, s2, user, b1, d1, q1, q2

OneUser == [s \in SessionIds |-> user]

Symmetry == Permutations(SessionIds) \union Permutations(Requests)
=============================================================================
