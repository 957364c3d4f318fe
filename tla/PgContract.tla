----------------------------- MODULE PgContract -----------------------------
(***************************************************************************)
(* The contract both bridges of pl_postgresql implement (its README,       *)
(* "Both the SWI-Prolog and the GNU Prolog bridge implement this           *)
(* contract"): what a program may see of connections, their handles and    *)
(* the rows of its queries.                                                *)
(***************************************************************************)
EXTENDS Naturals, Sequences

CONSTANTS
  Clients,   \* the Prolog threads
  Handles,   \* the handles of connections
  Conns,     \* the connections to the server
  MaxRows    \* bound on the rows of a result

VARIABLES
  given,     \* the connection a handle was given for, or "none"
  state,     \* of a connection: "unused", "open", "closed" or "collected"
  reply,     \* what a client was told last
  cursors    \* of a client: the queries it can backtrack into, and where they are

vars == <<given, state, reply, cursors>>

Init ==
  /\ given = [h \in Handles |-> "none"]
  /\ state = [c \in Conns |-> "unused"]
  /\ reply = [k \in Clients |-> <<"none">>]
  /\ cursors = [k \in Clients |-> <<>>]

Tell(k, what) == reply' = [reply EXCEPT ![k] = what]

\* A new handle for a new connection.
Connect(k, h, c) ==
  /\ given[h] = "none" /\ state[c] = "unused"
  /\ given' = [given EXCEPT ![h] = c]
  /\ state' = [state EXCEPT ![c] = "open"]
  /\ Tell(k, <<"connected", h>>)
  /\ UNCHANGED cursors

\* Nothing remains of a connection that could not be handed over.
ConnectFails(k) ==
  /\ \/ UNCHANGED state
     \/ \E c \in Conns : state[c] = "unused" /\ state' = [state EXCEPT ![c] = "closed"]
  /\ Tell(k, <<"error">>)
  /\ UNCHANGED <<given, cursors>>

\* A query runs on the connection its handle was given for, or is refused.
Served(k, h) ==
  /\ given[h] \in Conns /\ state[given[h]] = "open"
  /\ Tell(k, <<"done", given[h]>>)
  /\ UNCHANGED <<given, state, cursors>>

\* The arguments are wrong, the server refuses, or a query has no rows.
Failed(k) ==
  /\ Tell(k, <<"error">>) \/ Tell(k, <<"false">>)
  /\ UNCHANGED <<given, state, cursors>>

Refused(k, h) ==
  /\ given[h] \in Conns /\ state[given[h]] = "closed"
  /\ Tell(k, <<"existence", h>>)
  /\ UNCHANGED <<given, state, cursors>>

\* Disconnecting closes the connection, also one that had gone bad; doing it
\* again fails.
Disconnect(k, h) ==
  /\ given[h] \in Conns
  /\ \/ /\ state[given[h]] = "open"
        /\ state' = [state EXCEPT ![given[h]] = "closed"]
        /\ Tell(k, <<"disconnected", h>>) \/ Tell(k, <<"error">>)
     \/ /\ state[given[h]] = "closed"
        /\ Tell(k, <<"false">>)
        /\ UNCHANGED state
  /\ UNCHANGED <<given, cursors>>

\* The first row of a query; a query without rows fails.
FirstRow(k, h) ==
  /\ given[h] \in Conns /\ state[given[h]] = "open"
  /\ \E n \in 1..MaxRows :
       /\ Tell(k, <<"row", 1, n>>)
       /\ cursors' = [cursors EXCEPT ![k] = IF n = 1 THEN @ ELSE Append(@, [rows |-> n, at |-> 1])]
  /\ UNCHANGED <<given, state>>

\* Backtracking into the latest query gives its next row, even if the
\* connection has been closed since.
NextRow(k) ==
  /\ cursors[k] # <<>>
  /\ LET top  == cursors[k][Len(cursors[k])]
         rest == SubSeq(cursors[k], 1, Len(cursors[k]) - 1)
     IN  /\ Tell(k, <<"row", top.at + 1, top.rows>>)
         /\ cursors' = [cursors EXCEPT ![k] =
              IF top.at + 1 = top.rows THEN rest ELSE Append(rest, [top EXCEPT !.at = @ + 1])]
  /\ UNCHANGED <<given, state>>

\* A cut or an error ends the latest query.
Cut(k) ==
  /\ cursors[k] # <<>>
  /\ cursors' = [cursors EXCEPT ![k] = SubSeq(@, 1, Len(@) - 1)]
  /\ Tell(k, <<"cut">>) \/ Tell(k, <<"error">>)
  /\ UNCHANGED <<given, state>>

\* The connection of a handle nobody can name any more is closed.
Collect(c) ==
  /\ state[c] = "open"
  /\ state' = [state EXCEPT ![c] = "collected"]
  /\ UNCHANGED <<given, reply, cursors>>

Next ==
  \/ \E k \in Clients, h \in Handles :
       \/ \E c \in Conns : Connect(k, h, c)
       \/ Served(k, h) \/ Refused(k, h) \/ Disconnect(k, h) \/ FirstRow(k, h)
  \/ \E k \in Clients : ConnectFails(k) \/ Failed(k) \/ NextRow(k) \/ Cut(k)
  \/ \E c \in Conns : Collect(c)

\* A step that the program sees something of.
Step == vars' # vars /\ Next

Spec == Init /\ [][Step]_vars

=============================================================================
