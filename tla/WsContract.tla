----------------------------- MODULE WsContract -----------------------------
(***************************************************************************)
(* What both bridges of pl_curl promise a program that uses WebSockets     *)
(* (pl_curl/README.md, "WEBSOCKETS"): which connection a handle stands     *)
(* for, what may still be done with it, and which messages are received.   *)
(***************************************************************************)
EXTENDS Naturals

CONSTANTS
  Handles,   \* the handles of connections
  Conns      \* the connections to servers

VARIABLES
  given,     \* the connection a handle was made for, or "none"
  state,     \* of a connection: "unused", "open", "ended" or "closed"
  next,      \* the messages of a connection that have been taken from it
  reply      \* what the program was told last

vars == <<given, state, next, reply>>

Init ==
  /\ given = [h \in Handles |-> "none"]
  /\ state = [c \in Conns |-> "unused"]
  /\ next = [c \in Conns |-> 0]
  /\ reply = <<"none">>

NoAnswer == reply' = <<"error">> \/ reply' = <<"false">>
Is(h, states) == given[h] \in Conns /\ state[given[h]] \in states

\* A new handle for a new connection; the program does not get it if WS is bound
\* to something else.
Open(h, c) ==
  /\ given[h] = "none" /\ state[c] = "unused"
  /\ given' = [given EXCEPT ![h] = c]
  /\ state' = [state EXCEPT ![c] = "open"]
  /\ (reply' = <<"opened", h>> \/ NoAnswer)
  /\ UNCHANGED next

\* Nothing remains of a connection there is no handle for.
OpenFails ==
  /\ \/ UNCHANGED state
     \/ \E c \in Conns : state[c] = "unused" /\ state' = [state EXCEPT ![c] = "closed"]
  /\ reply' = <<"error">>
  /\ UNCHANGED <<given, next>>

Sent(h) ==
  /\ Is(h, {"open"}) /\ reply' = <<"sent", given[h]>>
  /\ UNCHANGED <<given, state, next>>

\* The next message; it is gone if Msg is something else or no term can be made.
Message(h) ==
  /\ Is(h, {"open"})
  /\ next' = [next EXCEPT ![given[h]] = @ + 1]
  /\ (reply' = <<"message", given[h], next[given[h]] + 1>> \/ NoAnswer)
  /\ UNCHANGED <<given, state>>

Timeout(h) ==
  /\ Is(h, {"open"})
  /\ (reply' = <<"timeout", given[h]>> \/ NoAnswer)
  /\ UNCHANGED <<given, state, next>>

\* The server closes, or the connection breaks; after that there are only errors.
Ends(h) ==
  /\ Is(h, {"open"})
  /\ state' = [state EXCEPT ![given[h]] = "ended"]
  /\ (reply' = <<"end", given[h]>> \/ NoAnswer)
  /\ UNCHANGED <<given, next>>

Failed ==
  /\ NoAnswer
  /\ UNCHANGED <<given, state, next>>

Refused(h) ==
  /\ Is(h, {"closed"}) /\ reply' = <<"existence", h>>
  /\ UNCHANGED <<given, state, next>>

Close(h) ==
  /\ Is(h, {"open", "ended"})
  /\ state' = [state EXCEPT ![given[h]] = "closed"]
  /\ reply' = <<"closed", h>>
  /\ UNCHANGED <<given, next>>

\* The collector closes what the program cannot name any more.
Collect(c) ==
  /\ state[c] \in {"open", "ended"}
  /\ state' = [state EXCEPT ![c] = "closed"]
  /\ UNCHANGED <<given, next, reply>>

Next ==
  \/ \E h \in Handles :
       \/ \E c \in Conns : Open(h, c)
       \/ Sent(h) \/ Message(h) \/ Timeout(h) \/ Ends(h) \/ Refused(h) \/ Close(h)
  \/ OpenFails \/ Failed
  \/ \E c \in Conns : Collect(c)

\* A step that the program sees something of.
Step == vars' # vars /\ Next

Spec == Init /\ [][Step]_vars

=============================================================================
