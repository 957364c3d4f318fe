------------------------------ MODULE Bridges ------------------------------
(***************************************************************************)
(* A program and the bridge it uses: the WebSocket predicates of SWI-Prolog, *)
(* the PostgreSQL predicates of SWI-Prolog or those of GNU Prolog.  The    *)
(* bridges share no state, and each is checked in all its behaviours while *)
(* the others have not been called.                                        *)
(***************************************************************************)
EXTENDS WsSwi, PgSwi, PgGp, TLC

VARIABLE bridge    \* the bridge the program uses

bridgeVars == <<bridge, wsVars, vars, pgVars>>

BridgeInit == bridge \in {"ws", "pg", "gp"} /\ WsInit /\ Init /\ PgInit

BridgeNext ==
  /\ UNCHANGED bridge
  /\ \/ bridge = "ws" /\ WsNext /\ UNCHANGED <<vars, pgVars>>
     \/ bridge = "pg" /\ Next /\ UNCHANGED <<wsVars, pgVars>>
     \/ bridge = "gp" /\ PgNext /\ UNCHANGED <<wsVars, vars>>

BridgeSpec == BridgeInit /\ [][BridgeNext]_bridgeVars

\* Threads, handles, connections, addresses and results are interchangeable; the
\* two SWI-Prolog bridges are given the same model values.
Symmetry ==
  Permutations(Threads) \cup Permutations(Handles) \cup Permutations(Conns)
    \cup Permutations(Addrs) \cup Permutations(Results)

=============================================================================
