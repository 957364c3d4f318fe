------------------------------ MODULE MCPgSwi ------------------------------
(***************************************************************************)
(* PgSwi for TLC: threads, handles, connections, addresses and results are *)
(* interchangeable.                                                        *)
(***************************************************************************)
EXTENDS PgSwi, TLC

Symmetry ==
  Permutations(Threads) \cup Permutations(Handles) \cup Permutations(Conns)
    \cup Permutations(Addrs) \cup Permutations(Results)

=============================================================================
