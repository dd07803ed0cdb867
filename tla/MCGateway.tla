----------------------------- MODULE MCGateway ------------------------------
(***************************************************************************)
(* An instance of Gateway for TLC: one call, two devices, an id that no    *)
(* business has.                                                           *)
(***************************************************************************)
EXTENDS Gateway

CONSTANTS s1, s2, room, nobody
=============================================================================
