--------------------------- MODULE MCConnections ---------------------------
(* Connections on small instances. *)
EXTENDS Connections, TLC

SameConns == Permutations(Conns)
SameServers == Permutations(Servers)
=============================================================================
