-------------------------------- MODULE PgGp --------------------------------
(***************************************************************************)
(* The GNU Prolog bridge of pl_postgresql (gp-pgsql-c.c, gp-pgsql.pl over  *)
(* pgsql_core.c).  GNU Prolog has one thread and no collector hook, and a  *)
(* handle is an integer any program can write down: the 1-based index into *)
(* a table that only grows.  Each predicate runs to its end before the     *)
(* program goes on.                                                        *)
(***************************************************************************)
EXTENDS Naturals, Sequences

CONSTANTS
  PgConns,     \* connections libpq can make
  MaxHandles,  \* bound on the handles given out
  FirstCap,    \* the capacity of the first table (16 in the code)
  PgMaxRows,   \* bound on the rows of a result
  PgMaxOpen,   \* bound on the queries the program can backtrack into
  PgFailures   \* what can go wrong: "memory", "server"

ASSUME GpAssumption ==
  /\ FirstCap \in Nat \ {0}
  /\ MaxHandles \in Nat /\ PgMaxRows \in Nat /\ PgMaxOpen \in Nat
  /\ "null" \notin PgConns
  /\ PgFailures \subseteq {"memory", "server"}

VARIABLES
  pgConn,     \* PGconn: "unused", "open", "bad" (PQstatus), "finished" or "twice"
  table,      \* gp_pgsql_table: connections and NULL
  cap,        \* gp_pgsql_table_cap
  room,       \* the slots realloc has given the table
  pgCursors,  \* the rows member/2 has left, for each query/3 of the program
  pgGiven,    \* history: the connection a handle was made for
  pgReply     \* what the last call answered

pgVars == <<pgConn, table, cap, room, pgCursors, pgGiven, pgReply>>

PgInit ==
  /\ pgConn = [c \in PgConns |-> "unused"]
  /\ table = <<>> /\ cap = 0 /\ room = 0
  /\ pgCursors = <<>> /\ pgGiven = <<>>
  /\ pgReply = <<"none">>

Handle == 1..Len(table)    \* the integers gp_pgsql_get_conn takes for a handle
PgFinished(c) == IF pgConn[c] \in {"open", "bad"} THEN "finished" ELSE "twice"   \* PQfinish

\* A call that answers and changes nothing.
PgAnswer(what) == pgReply' = what /\ UNCHANGED <<pgConn, table, cap, room, pgCursors, pgGiven>>

-----------------------------------------------------------------------------
(***************************************************************************)
(* pl_pgsql_connect/1,6 and gp_pgsql_table_alloc                           *)
(***************************************************************************)
Full == Len(table) = cap

Grown == IF cap = 0 THEN FirstCap ELSE 2 * cap

\* Mutation: a closed slot is given out again.
AllocReusing(c) ==
  /\ UNCHANGED <<cap, room>>
  /\ IF \E i \in Handle : table[i] = "null"
     THEN LET i == CHOOSE i \in Handle : table[i] = "null" IN
            table' = [table EXCEPT ![i] = c] /\ pgGiven' = [pgGiven EXCEPT ![i] = c]
              /\ pgReply' = <<"connected", i>>
     ELSE /\ table' = Append(table, c) /\ pgGiven' = Append(pgGiven, c)
          /\ pgReply' = <<"connected", Len(table) + 1>>

Alloc(c) ==
  /\ IF Full THEN cap' = Grown /\ room' = Grown ELSE UNCHANGED <<cap, room>>
  /\ table' = Append(table, c) /\ pgGiven' = Append(pgGiven, c)
  /\ pgReply' = <<"connected", Len(table) + 1>>

PgConnect ==
  /\ Len(table) < MaxHandles
  /\ \E c \in PgConns :
       /\ pgConn[c] = "unused"
       /\ pgConn' = [pgConn EXCEPT ![c] = "open"]
       /\ Alloc(c)
  /\ UNCHANGED pgCursors

\* Mutations: the connection without a slot is left open; the capacity grows
\* although the table did not.
PgConnectNoMemoryGrown ==
  /\ "memory" \in PgFailures /\ Full
  /\ \E c \in PgConns : pgConn[c] = "unused" /\ pgConn' = [pgConn EXCEPT ![c] = "finished"]
  /\ cap' = Grown /\ pgReply' = <<"error">>
  /\ UNCHANGED <<table, room, pgCursors, pgGiven>>

PgConnectNoMemoryLeaking ==
  /\ "memory" \in PgFailures /\ Full
  /\ \E c \in PgConns : pgConn[c] = "unused" /\ pgConn' = [pgConn EXCEPT ![c] = "open"]
  /\ pgReply' = <<"error">>
  /\ UNCHANGED <<table, cap, room, pgCursors, pgGiven>>

\* realloc fails: the connection that was just made is finished.
PgConnectNoMemory ==
  /\ "memory" \in PgFailures /\ Full
  /\ \E c \in PgConns : pgConn[c] = "unused" /\ pgConn' = [pgConn EXCEPT ![c] = "finished"]
  /\ pgReply' = <<"error">>
  /\ UNCHANGED <<table, cap, room, pgCursors, pgGiven>>

\* The handle is not a variable, an argument is no text, or no server answers.
PgConnectFails == PgAnswer(<<"false">>) \/ PgAnswer(<<"error">>)

-----------------------------------------------------------------------------
(***************************************************************************)
(* pl_pgsql_disconnect/1                                                   *)
(***************************************************************************)
\* Mutation: the slot is cleared only if the connection was still good.
PgDisconnectGoodOnly(i) ==
  /\ table[i] # "null"
  /\ pgConn' = [pgConn EXCEPT ![table[i]] = PgFinished(table[i])]
  /\ table' = IF pgConn[table[i]] = "open" THEN [table EXCEPT ![i] = "null"] ELSE table
  /\ pgReply' = IF pgConn[table[i]] = "open" THEN <<"disconnected", i>> ELSE <<"error">>
  /\ UNCHANGED <<cap, room, pgCursors, pgGiven>>

\* A connection that has gone bad raises an error, and is closed all the same.
PgDisconnect(i) ==
  /\ table[i] # "null"
  /\ pgConn' = [pgConn EXCEPT ![table[i]] = PgFinished(table[i])]
  /\ table' = [table EXCEPT ![i] = "null"]
  /\ pgReply' = IF pgConn[table[i]] = "open" THEN <<"disconnected", i>> ELSE <<"error">>
  /\ UNCHANGED <<cap, room, pgCursors, pgGiven>>

PgDisconnectAgain(i) == table[i] = "null" /\ PgAnswer(<<"false">>)

-----------------------------------------------------------------------------
(***************************************************************************)
(* gp_pgsql_get_open_conn and the queries                                  *)
(***************************************************************************)
\* Not a handle: type_error.
NotIssued == PgAnswer(<<"error">>)

Refused(i) == table[i] = "null" /\ PgAnswer(<<"existence", i>>)

\* The arguments are wrong, the connection is bad or the server says no.
QueryFails(i) == table[i] # "null" /\ PgAnswer(<<"error">>)

\* pgsql_core_exec with a connection that is still good.
Runs(i) == table[i] # "null" /\ pgConn[table[i]] = "open"

\* pl_pgsql_query/2, pl_pgsql_exec/3, and pl_pgsql_query_all/3,4 with rows
Served(i) == Runs(i) /\ PgAnswer(<<"done", table[i]>>)

PgNoRows(i) == Runs(i) /\ PgAnswer(<<"false">>)

\* pl_pgsql_query/3: all rows are collected and the result is cleared; then
\* member/2 gives the first one.
PgFirstRow(i) ==
  /\ Runs(i) /\ Len(pgCursors) < PgMaxOpen
  /\ \E n \in 1..PgMaxRows :
       /\ pgReply' = <<"row", 1, n>>
       /\ pgCursors' = IF n = 1 THEN pgCursors ELSE Append(pgCursors, [rows |-> n, at |-> 1])
  /\ UNCHANGED <<pgConn, table, cap, room, pgGiven>>

\* Backtracking into member/2, which leaves no choice point at the last row.
PgTop == pgCursors[Len(pgCursors)]
PgBelow == SubSeq(pgCursors, 1, Len(pgCursors) - 1)

\* Mutation: the last row leaves a choice point behind.
PgNextRowNotLast ==
  /\ pgCursors # <<>>
  /\ pgReply' = <<"row", PgTop.at + 1, PgTop.rows>>
  /\ pgCursors' = Append(PgBelow, [PgTop EXCEPT !.at = @ + 1])
  /\ UNCHANGED <<pgConn, table, cap, room, pgGiven>>

PgNextRow ==
  /\ pgCursors # <<>>
  /\ pgReply' = <<"row", PgTop.at + 1, PgTop.rows>>
  /\ pgCursors' = IF PgTop.at + 1 = PgTop.rows THEN PgBelow ELSE Append(PgBelow, [PgTop EXCEPT !.at = @ + 1])
  /\ UNCHANGED <<pgConn, table, cap, room, pgGiven>>

\* The program cuts the choice point away, or leaves it with an exception.
Cut ==
  /\ pgCursors # <<>>
  /\ pgCursors' = PgBelow /\ pgReply' = <<"cut">>
  /\ UNCHANGED <<pgConn, table, cap, room, pgGiven>>

\* The server goes away, before a call or during PQexec; libpq notices.
PgGoesBad(c) ==
  /\ "server" \in PgFailures /\ pgConn[c] = "open"
  /\ pgConn' = [pgConn EXCEPT ![c] = "bad"]
  /\ UNCHANGED <<table, cap, room, pgCursors, pgGiven, pgReply>>

OnHandle(i) ==
  \/ PgDisconnect(i) \/ PgDisconnectAgain(i)
  \/ Refused(i) \/ QueryFails(i) \/ Served(i) \/ PgNoRows(i) \/ PgFirstRow(i)

PgNext ==
  \/ PgConnect \/ PgConnectNoMemory \/ PgConnectFails
  \/ \E i \in Handle : OnHandle(i)
  \/ NotIssued \/ PgNextRow \/ Cut
  \/ \E c \in PgConns : PgGoesBad(c)

PgSpec == PgInit /\ [][PgNext]_pgVars

-----------------------------------------------------------------------------
\* Types of the variables.  A choice point is left only where rows remain.
PgTypeOK ==
  /\ pgConn \in [PgConns -> {"unused", "open", "bad", "finished", "twice"}]
  /\ table \in Seq(PgConns \cup {"null"})
  /\ cap \in Nat /\ room \in Nat
  /\ pgGiven \in Seq(PgConns)
  /\ pgCursors \in Seq([rows : 1..PgMaxRows, at : 1..PgMaxRows])
  /\ \A i \in 1..Len(pgCursors) : pgCursors[i].at < pgCursors[i].rows

\* The table is written within what realloc has given it, at any number of
\* connections (gp-pgsql-c.c, "allocates a new handle for conn").
WithinTable == Len(table) <= room

\* A handle is a stale one or reaches the connection it was made for, and no
\* other handle reaches that one; a connection without a handle, or disconnected
\* (also after it had gone bad), is finished, and once.
HandlesExact ==
  /\ \A i \in Handle : table[i] # "null" => table[i] = pgGiven[i]
  /\ \A i, j \in Handle : i # j => pgGiven[i] # pgGiven[j]
  /\ \A c \in PgConns :
       /\ pgConn[c] \in {"open", "bad"} <=> \E i \in Handle : table[i] = c
       /\ pgConn[c] # "twice"

\* What a program may see of the state.
GivenOf == [h \in 1..MaxHandles |-> IF h <= Len(pgGiven) THEN pgGiven[h] ELSE "none"]
PgStateOf == [c \in PgConns |-> CASE pgConn[c] = "unused"          -> "unused"
                              [] pgConn[c] \in {"open", "bad"} -> "open"
                              [] OTHER                       -> "closed"]
ReplyOf == [k \in {"gp"} |-> pgReply]
PgCursorsOf == [k \in {"gp"} |-> pgCursors]

\* The bridge implements the contract both bridges share: a stale handle is
\* refused, a query runs on the connection of its handle, each row comes once.
PgPromise == INSTANCE PgContract WITH
  Clients <- {"gp"}, Handles <- 1..MaxHandles, Conns <- PgConns, MaxRows <- PgMaxRows,
  given <- GivenOf, state <- PgStateOf, reply <- ReplyOf, cursors <- PgCursorsOf

PgContractSpec == PgPromise!Spec

=============================================================================
