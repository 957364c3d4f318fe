------------------------------ MODULE MCWsSwi ------------------------------
(***************************************************************************)
(* WsSwi for TLC: handles, addresses and connections are interchangeable.  *)
(***************************************************************************)
EXTENDS WsSwi, TLC

Symmetry == Permutations(WsHandles) \cup Permutations(WsAddrs) \cup Permutations(WsConns)

=============================================================================
