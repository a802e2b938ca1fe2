----------------------------- MODULE MCRoomSync -----------------------------
(* RoomSync on a small instance. *)
EXTENDS RoomSync, TLC

CONSTANTS s1, s2, k1

AtFirst == k1 :> s1
SameConns == Permutations(Conns)
=============================================================================
