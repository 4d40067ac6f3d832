---------------------------- MODULE MCTcpLatency ----------------------------
(* Two socket addresses that are reused, and a map with room for one of them. *)
EXTENDS TcpLatency, TLC

Symmetry == Permutations(Socks)
=============================================================================
