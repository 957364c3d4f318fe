------------------------------- MODULE PgSwi -------------------------------
(***************************************************************************)
(* The SWI-Prolog bridge of pl_postgresql (swi-pgsql.c over pgsql_core.c): *)
(* Prolog threads that connect, query, backtrack into queries, disconnect  *)
(* and forget, the garbage collector that releases handles in a thread of  *)
(* its own, and the server.                                                *)
(*                                                                         *)
(* A handle is a blob (an atom) holding the address of a                   *)
(* pq_connection_encoded, whose only member dbx points to libpq's          *)
(* connection.  malloc may return an address that was freed before; a blob *)
(* and a PGconn are new ones each time.  A result is its number of rows.   *)
(***************************************************************************)
EXTENDS Naturals, Sequences

CONSTANTS
  Threads, Handles, Conns, Addrs,
  Results,    \* the results of pl_pgsql_query/3 (PGresult)
  MaxRows,    \* bound on the rows of a result
  MaxOpen,    \* bound on the queries a thread can backtrack into
  Shared,     \* two threads may hold the same handle
  Failures    \* what can go wrong: "memory", "server"

ASSUME PgAssumption ==
  /\ MaxRows \in Nat /\ MaxOpen \in Nat
  /\ Shared \in BOOLEAN
  /\ Failures \subseteq {"memory", "server"}
  /\ "none" \notin Handles /\ {"none", "null"} \cap Conns = {}
  /\ "unused" \notin Addrs /\ "released" \notin Addrs

VARIABLES
  conn,     \* PGconn: "unused", "open", "bad" (PQstatus), "finished",
            \* "collected" (finished by the collector), "twice" (finished again)
  mem,      \* the dbx member of the structure at an address: "null" or a connection
  alloc,    \* the addresses malloc has given out and free has not got back
  blob,     \* of a handle: "unused", its address or "released"
  held,     \* the handles in a thread's terms
  call,     \* the call a thread is in: where, on which handle and connection
  res,      \* a PGresult: "unused", "live", "cleared" or "twice"
  cursors,  \* the choice points of pl_pgsql_query/3 in a thread (pq_result_encoded)
  given,    \* history: the connection a handle was made for
  reply     \* what the last call of a thread answered

heap == <<mem, alloc>>
vars == <<conn, heap, blob, held, call, res, cursors, given, reply>>

Idle == [pc |-> "idle", handle |-> "none", conn |-> "none"]

Init ==
  /\ conn = [c \in Conns |-> "unused"]
  /\ mem = [a \in Addrs |-> "null"] /\ alloc = {}
  /\ blob = [h \in Handles |-> "unused"]
  /\ held = [t \in Threads |-> {}]
  /\ call = [t \in Threads |-> Idle]
  /\ res = [r \in Results |-> "unused"]
  /\ cursors = [t \in Threads |-> <<>>]
  /\ given = [h \in Handles |-> "none"]
  /\ reply = [t \in Threads |-> <<"none">>]

Tell(t, what) == reply' = [reply EXCEPT ![t] = what]
Return(t, what) == call' = [call EXCEPT ![t] = Idle] /\ Tell(t, what)
IsIdle(t) == call[t].pc = "idle"

\* PQfinish, and PQclear
Finished(c) == IF conn[c] \in {"open", "bad"} THEN "finished" ELSE "twice"
Cleared(r) == IF res[r] = "live" THEN "cleared" ELSE "twice"

\* The structure behind a handle in use.
Dbx(h) == mem[blob[h]]

-----------------------------------------------------------------------------
(***************************************************************************)
(* pl_pgsql_connect/1,6                                                    *)
(***************************************************************************)
Connect(t) ==
  /\ IsIdle(t)
  /\ \E c \in Conns, a \in Addrs, h \in Handles :
       /\ conn[c] = "unused" /\ a \notin alloc /\ blob[h] = "unused"
       /\ conn' = [conn EXCEPT ![c] = "open"]
       /\ mem' = [mem EXCEPT ![a] = c] /\ alloc' = alloc \cup {a}
       /\ blob' = [blob EXCEPT ![h] = a]
       /\ held' = [held EXCEPT ![t] = @ \cup {h}]
       /\ given' = [given EXCEPT ![h] = c]
       /\ Tell(t, <<"connected", h>>)
  /\ UNCHANGED <<call, res, cursors>>

\* The arguments are wrong or the server cannot be reached: pgsql_core_connect
\* has finished what it had of the connection.
ConnectFails(t) ==
  /\ IsIdle(t)
  /\ Tell(t, <<"error">>)
  /\ UNCHANGED <<conn, heap, blob, held, call, res, cursors, given>>

\* Mutation: the connection is left open.
ConnectNoMemoryLeaking(t) ==
  /\ IsIdle(t) /\ "memory" \in Failures
  /\ \E c \in Conns : conn[c] = "unused" /\ conn' = [conn EXCEPT ![c] = "open"]
  /\ Tell(t, <<"error">>)
  /\ UNCHANGED <<heap, blob, held, call, res, cursors, given>>

\* No memory for the structure: the connection is finished at once.
ConnectNoMemory(t) ==
  /\ IsIdle(t) /\ "memory" \in Failures
  /\ \E c \in Conns : conn[c] = "unused" /\ conn' = [conn EXCEPT ![c] = "finished"]
  /\ Tell(t, <<"error">>)
  /\ UNCHANGED <<heap, blob, held, call, res, cursors, given>>

\* PL_unify_blob fails for want of stack: the blob exists, but no term holds it.
ConnectLost(t) ==
  /\ IsIdle(t) /\ "memory" \in Failures
  /\ \E c \in Conns, a \in Addrs, h \in Handles :
       /\ conn[c] = "unused" /\ a \notin alloc /\ blob[h] = "unused"
       /\ conn' = [conn EXCEPT ![c] = "open"]
       /\ mem' = [mem EXCEPT ![a] = c] /\ alloc' = alloc \cup {a}
       /\ blob' = [blob EXCEPT ![h] = a]
  /\ Tell(t, <<"error">>)
  /\ UNCHANGED <<held, call, res, cursors, given>>

-----------------------------------------------------------------------------
(***************************************************************************)
(* Calls on a handle: get_connection, get_open_connection                  *)
(***************************************************************************)
Enter(t, h, pc) == call' = [call EXCEPT ![t] = [pc |-> pc, handle |-> h, conn |-> "none"]]

Query(t, h) ==
  /\ IsIdle(t) /\ h \in held[t]
  /\ Dbx(h) # "null"
  /\ Enter(t, h, "query")
  /\ UNCHANGED <<conn, heap, blob, held, res, cursors, given, reply>>

QueryRefused(t, h) ==
  /\ IsIdle(t) /\ h \in held[t]
  /\ Dbx(h) = "null"
  /\ Tell(t, <<"existence", h>>)
  /\ UNCHANGED <<conn, heap, blob, held, call, res, cursors, given>>

Disconnect(t, h) ==
  /\ IsIdle(t) /\ h \in held[t]
  /\ Dbx(h) # "null"
  /\ Enter(t, h, "disconnect")
  /\ UNCHANGED <<conn, heap, blob, held, res, cursors, given, reply>>

DisconnectAgain(t, h) ==
  /\ IsIdle(t) /\ h \in held[t]
  /\ Dbx(h) = "null"
  /\ Tell(t, <<"false">>)
  /\ UNCHANGED <<conn, heap, blob, held, call, res, cursors, given>>

-----------------------------------------------------------------------------
(***************************************************************************)
(* swi_pgsql_disconnect: pgsql_core_disconnect, then dbx = NULL.  libpq    *)
(* takes a null connection for a bad one.                                  *)
(***************************************************************************)
Finish(t) ==
  /\ call[t].pc = "disconnect"
  /\ LET c == Dbx(call[t].handle) IN
       /\ conn' = IF c = "null" THEN conn ELSE [conn EXCEPT ![c] = Finished(c)]
       /\ call' = [call EXCEPT ![t].conn = c,
                               ![t].pc = IF c # "null" /\ conn[c] = "open" THEN "ok" ELSE "failed"]
  /\ UNCHANGED <<heap, blob, held, res, cursors, given, reply>>

\* Mutations: dbx stays when the connection had gone bad; the structure is
\* freed with the connection.
DisconnectedKeepingBad(t) ==
  /\ call[t].pc \in {"ok", "failed"}
  /\ mem' = IF call[t].pc = "ok" THEN [mem EXCEPT ![blob[call[t].handle]] = "null"] ELSE mem
  /\ UNCHANGED alloc
  /\ Return(t, IF call[t].pc = "ok" THEN <<"disconnected", call[t].handle>> ELSE <<"error">>)
  /\ UNCHANGED <<conn, blob, held, res, cursors, given>>

DisconnectedFreeing(t) ==
  /\ call[t].pc \in {"ok", "failed"}
  /\ alloc' = alloc \ {blob[call[t].handle]}
  /\ UNCHANGED mem
  /\ Return(t, IF call[t].pc = "ok" THEN <<"disconnected", call[t].handle>> ELSE <<"error">>)
  /\ UNCHANGED <<conn, blob, held, res, cursors, given>>

Disconnected(t) ==
  /\ call[t].pc \in {"ok", "failed"}
  /\ mem' = [mem EXCEPT ![blob[call[t].handle]] = "null"]
  /\ UNCHANGED alloc
  /\ Return(t, IF call[t].pc = "ok" THEN <<"disconnected", call[t].handle>> ELSE <<"error">>)
  /\ UNCHANGED <<conn, blob, held, res, cursors, given>>

-----------------------------------------------------------------------------
(***************************************************************************)
(* exec_query and pgsql_core_exec                                          *)
(***************************************************************************)
\* The parameters or the query are not text, or memory runs out.
QueryInvalid(t) ==
  /\ call[t].pc = "query"
  /\ Return(t, <<"error">>)
  /\ UNCHANGED <<conn, heap, blob, held, res, cursors, given>>

\* The connection is read from the structure and is connected: PQexec blocks.
Exec(t) ==
  /\ call[t].pc = "query"
  /\ LET c == Dbx(call[t].handle) IN
       /\ c # "null" /\ conn[c] # "bad"
       /\ call' = [call EXCEPT ![t].pc = "exec", ![t].conn = c]
  /\ UNCHANGED <<conn, heap, blob, held, res, cursors, given, reply>>

NotConnected(t) ==
  /\ call[t].pc = "query"
  /\ LET c == Dbx(call[t].handle) IN c = "null" \/ conn[c] = "bad"
  /\ Return(t, <<"error">>)
  /\ UNCHANGED <<conn, heap, blob, held, res, cursors, given>>

\* The server rejects the query, the connection breaks, or a row cannot be built:
\* what there is of a result is cleared before the exception is raised.
ExecFails(t) ==
  /\ call[t].pc = "exec"
  /\ Return(t, <<"error">>)
  /\ UNCHANGED <<conn, heap, blob, held, res, cursors, given>>

\* pl_pgsql_query/2 and pl_pgsql_exec/3, and pl_pgsql_query_all/3,4 once the
\* rows are unified: the result is cleared before the call returns.
ExecDone(t) ==
  /\ call[t].pc = "exec"
  /\ Return(t, <<"done", call[t].conn>>)
  /\ UNCHANGED <<conn, heap, blob, held, res, cursors, given>>

\* pl_pgsql_query_all and pl_pgsql_query/3 fail if there are no rows.
NoRows(t) ==
  /\ call[t].pc = "exec"
  /\ Return(t, <<"false">>)
  /\ UNCHANGED <<conn, heap, blob, held, res, cursors, given>>

-----------------------------------------------------------------------------
(***************************************************************************)
(* swi_pgsql_query2: PL_FIRST_CALL, PL_REDO and PL_PRUNED.                 *)
(***************************************************************************)
Top(t) == cursors[t][Len(cursors[t])]
Below(t) == SubSeq(cursors[t], 1, Len(cursors[t]) - 1)

\* Mutation: the row before the last one is taken for the last.
IsLastOffByOne(at, rows) == at + 1 >= rows
IsLast(at, rows) == at >= rows

FirstRow(t) ==
  /\ call[t].pc = "exec" /\ Len(cursors[t]) < MaxOpen
  /\ \E r \in Results, n \in 1..MaxRows :
       /\ res[r] = "unused"
       /\ Return(t, <<"row", 1, n>>)
       /\ IF IsLast(1, n)
          THEN res' = [res EXCEPT ![r] = "cleared"] /\ UNCHANGED cursors
          ELSE /\ res' = [res EXCEPT ![r] = "live"]
               /\ cursors' = [cursors EXCEPT ![t] = Append(@, [result |-> r, rows |-> n, at |-> 1])]
  /\ UNCHANGED <<conn, heap, blob, held, given>>

NextRow(t) ==
  /\ IsIdle(t) /\ cursors[t] # <<>>
  /\ LET top == Top(t) IN
       /\ Tell(t, <<"row", top.at + 1, top.rows>>)
       /\ IF IsLast(top.at + 1, top.rows)
          THEN /\ res' = [res EXCEPT ![top.result] = Cleared(top.result)]
               /\ cursors' = [cursors EXCEPT ![t] = Below(t)]
          ELSE /\ cursors' = [cursors EXCEPT ![t] = Append(Below(t), [top EXCEPT !.at = @ + 1])]
               /\ UNCHANGED res
  /\ UNCHANGED <<conn, heap, blob, held, call, given>>

\* Mutation: the result is cleared only when the rows are used up.
PruneLeaking(t) ==
  /\ IsIdle(t) /\ cursors[t] # <<>>
  /\ cursors' = [cursors EXCEPT ![t] = Below(t)]
  /\ Tell(t, <<"cut">>)
  /\ UNCHANGED <<conn, heap, blob, held, call, res, given>>

\* A cut, or an exception that leaves the choice point.
Prune(t) ==
  /\ IsIdle(t) /\ cursors[t] # <<>>
  /\ res' = [res EXCEPT ![Top(t).result] = Cleared(Top(t).result)]
  /\ cursors' = [cursors EXCEPT ![t] = Below(t)]
  /\ Tell(t, <<"cut">>)
  /\ UNCHANGED <<conn, heap, blob, held, call, given>>

\* The row cannot be built for want of stack.
NextRowFails(t) ==
  /\ IsIdle(t) /\ cursors[t] # <<>> /\ "memory" \in Failures
  /\ res' = [res EXCEPT ![Top(t).result] = Cleared(Top(t).result)]
  /\ cursors' = [cursors EXCEPT ![t] = Below(t)]
  /\ Tell(t, <<"error">>)
  /\ UNCHANGED <<conn, heap, blob, held, call, given>>

-----------------------------------------------------------------------------
(***************************************************************************)
(* The rest of the program, the collector and the server.                  *)
(***************************************************************************)
\* A thread passes a handle on (a message, a global variable), and keeps it
\* only if threads may share handles.
Pass(t, u, h) ==
  /\ t # u /\ IsIdle(t) /\ h \in held[t] \ held[u]
  /\ held' = [held EXCEPT ![u] = @ \cup {h}, ![t] = IF Shared THEN @ ELSE @ \ {h}]
  /\ UNCHANGED <<conn, heap, blob, call, res, cursors, given, reply>>

Forget(t, h) ==
  /\ IsIdle(t) /\ h \in held[t]
  /\ held' = [held EXCEPT ![t] = @ \ {h}]
  /\ UNCHANGED <<conn, heap, blob, call, res, cursors, given, reply>>

\* No term holds the handle: neither a variable nor an argument of a call.
Unreachable(h) ==
  \A t \in Threads : h \notin held[t] /\ call[t].handle # h

\* release_pgsql_connection.  Mutation: the connection stays open.
ReleaseStructOnly(h) ==
  /\ blob[h] \in Addrs /\ Unreachable(h)
  /\ alloc' = alloc \ {blob[h]}
  /\ blob' = [blob EXCEPT ![h] = "released"]
  /\ UNCHANGED <<mem, conn, held, call, res, cursors, given, reply>>

Release(h) ==
  /\ blob[h] \in Addrs /\ Unreachable(h)
  /\ LET c == Dbx(h) IN
       conn' = IF c = "null" THEN conn
               ELSE [conn EXCEPT ![c] = IF Finished(c) = "finished" THEN "collected" ELSE "twice"]
  /\ alloc' = alloc \ {blob[h]}
  /\ blob' = [blob EXCEPT ![h] = "released"]
  /\ UNCHANGED <<mem, held, call, res, cursors, given, reply>>

\* The server goes away; libpq notices.
GoesBad(c) ==
  /\ "server" \in Failures /\ conn[c] = "open"
  /\ conn' = [conn EXCEPT ![c] = "bad"]
  /\ UNCHANGED <<heap, blob, held, call, res, cursors, given, reply>>

Thread(t) ==
  \/ Connect(t) \/ ConnectFails(t) \/ ConnectNoMemory(t) \/ ConnectLost(t)
  \/ \E h \in Handles :
       \/ Query(t, h) \/ QueryRefused(t, h) \/ Disconnect(t, h) \/ DisconnectAgain(t, h)
       \/ Forget(t, h) \/ \E u \in Threads : Pass(t, u, h)
  \/ Finish(t) \/ Disconnected(t)
  \/ QueryInvalid(t) \/ Exec(t) \/ NotConnected(t) \/ ExecFails(t) \/ ExecDone(t) \/ NoRows(t)
  \/ FirstRow(t) \/ NextRow(t) \/ NextRowFails(t) \/ Prune(t)

Next ==
  \/ \E t \in Threads : Thread(t)
  \/ \E h \in Handles : Release(h)
  \/ \E c \in Conns : GoesBad(c)

Spec == Init /\ [][Next]_vars

-----------------------------------------------------------------------------
Calls ==
  [pc : {"idle", "query", "disconnect", "exec", "ok", "failed"},
   handle : Handles \cup {"none"}, conn : Conns \cup {"none", "null"}]

\* Types of the variables.  A choice point is left only where rows remain.
TypeOK ==
  /\ conn \in [Conns -> {"unused", "open", "bad", "finished", "collected", "twice"}]
  /\ mem \in [Addrs -> Conns \cup {"null"}] /\ alloc \subseteq Addrs
  /\ blob \in [Handles -> Addrs \cup {"unused", "released"}]
  /\ held \in [Threads -> SUBSET Handles]
  /\ call \in [Threads -> Calls]
  /\ res \in [Results -> {"unused", "live", "cleared", "twice"}]
  /\ given \in [Handles -> Conns \cup {"none"}]
  /\ \A t \in Threads : \A i \in 1..Len(cursors[t]) :
       LET k == cursors[t][i] IN k.result \in Results /\ k.at \in 1..(k.rows - 1) /\ k.rows <= MaxRows

\* A handle that was disconnected is detected (swi-pgsql.c, "Connections"): libpq
\* runs no query on a finished connection.
UseDetected ==
  \A t \in Threads : call[t].pc = "exec" => conn[call[t].conn] \in {"open", "bad"}

\* Nothing is used after it is freed: the structure of a handle in use is
\* allocated, libpq runs no query on a finished connection, and no connection
\* is finished and no result cleared twice (swi-pgsql.c, "Connections").
NoFreedUse ==
  /\ \A t \in Threads : call[t].handle # "none" => blob[call[t].handle] \in alloc
  /\ UseDetected
  /\ \A c \in Conns : conn[c] # "twice"
  /\ \A r \in Results : res[r] # "twice"

\* Nothing is lost: an open connection can be reached by exactly one handle the
\* collector has not released, an allocated structure belongs to one, and a
\* result that is not cleared can be backtracked into by exactly one choice point.
NothingLost ==
  /\ \A c \in Conns : conn[c] \in {"open", "bad"} =>
       \E h \in Handles : blob[h] \in alloc /\ Dbx(h) = c
  /\ \A a \in alloc : \E h \in Handles : blob[h] = a
  /\ \A g, h \in Handles : g # h /\ {blob[g], blob[h]} \subseteq alloc => blob[g] # blob[h]
  /\ \A r \in Results : res[r] = "live" =>
       \E t \in Threads : \E i \in 1..Len(cursors[t]) : cursors[t][i].result = r

\* Between two calls no handle refers to a connection that is finished, also if
\* the connection had gone bad before it was disconnected.
NoDangling ==
  \A h \in Handles : blob[h] \in alloc /\ Dbx(h) # "null" =>
    \/ conn[Dbx(h)] \in {"open", "bad"}
    \/ \E t \in Threads : call[t].handle = h /\ call[t].pc \in {"ok", "failed"}

\* The bridge implements the contract both bridges share.  A connection is open until
\* the call that disconnects it returns; one no handle was given for is seen by nobody.
Known(c) == \E h \in Handles : given[h] = c
BeingClosed(c) == \E t \in Threads : call[t].conn = c /\ call[t].pc \in {"ok", "failed"}

StateOf ==
  [c \in Conns |-> IF conn[c] = "unused" THEN "unused"
                   ELSE IF ~Known(c) THEN "closed"
                   ELSE IF conn[c] \in {"open", "bad"} \/ BeingClosed(c) THEN "open"
                   ELSE IF conn[c] = "collected" THEN "collected"
                   ELSE "closed"]

CursorsOf ==
  [t \in Threads |-> [i \in 1..Len(cursors[t]) |->
                         [rows |-> cursors[t][i].rows, at |-> cursors[t][i].at]]]

Contract == INSTANCE PgContract WITH Clients <- Threads, state <- StateOf, cursors <- CursorsOf

ContractSpec == Contract!Spec

=============================================================================
