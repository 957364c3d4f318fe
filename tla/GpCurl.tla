------------------------------- MODULE GpCurl -------------------------------
(***************************************************************************)
(* The WebSocket predicates of the GNU Prolog bridge (gp-curl-c.c over     *)
(* curl_core.c).  A handle is an integer: the 1-based index into a table   *)
(* that only grows.  GNU Prolog has one thread, no collector hook and      *)
(* handles no signals in foreign code: a receive is one call of the core   *)
(* with the whole timeout, which the core's poll takes as an int.          *)
(*                                                                         *)
(* As in WsSwi the core's connection is the messages the server has sent   *)
(* and how many of them have been taken.                                   *)
(***************************************************************************)
EXTENDS Integers, Sequences

CONSTANTS
  Conns,        \* connections libcurl can make
  MaxHandles,   \* bound on the handles given out
  FirstCap,     \* the capacity of the first table (16 in the code)
  MaxMsgs,      \* bound on the messages of a connection
  Timeouts,     \* timeouts the program passes
  IntMax,       \* the greatest int (2^31 - 1); a long is at least twice as wide
  MaxWait,      \* bound on the time a receive is watched
  GpFailures    \* what can go wrong: "memory", "link", "pings" (or parts that keep coming)

ASSUME GpAssumption ==
  /\ FirstCap \in Nat \ {0} /\ MaxHandles \in Nat /\ MaxMsgs \in Nat
  /\ IntMax \in Nat /\ Timeouts \subseteq 0..(2 * IntMax + 1) /\ MaxWait \in Nat
  /\ "null" \notin Conns /\ "none" \notin Conns
  /\ GpFailures \subseteq {"memory", "link", "pings"}

VARIABLES
  conn,     \* pl_curl_ws: "unused", "usable", "unusable", "freed" or "twice"
  inbox,    \* the messages the server has sent on a connection
  taken,    \* the messages the core has handed over
  table,    \* gp_ws_table: connections and NULL
  cap,      \* gp_ws_table_cap
  room,     \* the slots realloc has given the table
  call,     \* the receive the program is in
  given,    \* history: the connection a handle was made for
  reply     \* what the last call answered

core == <<conn, inbox, taken>>
slots == <<table, cap, room, given>>
gpVars == <<core, slots, call, reply>>

\* quiet is history: nothing but whole messages has come during the receive.
Idle == [pc |-> "idle", slot |-> 0, asked |-> 0, limit |-> 0, waited |-> 0, quiet |-> TRUE]

GpInit ==
  /\ conn = [c \in Conns |-> "unused"]
  /\ inbox = [c \in Conns |-> 0] /\ taken = [c \in Conns |-> 0]
  /\ table = <<>> /\ cap = 0 /\ room = 0 /\ given = <<>>
  /\ call = Idle
  /\ reply = <<"none">>

IsIdle == call.pc = "idle"
Issued == 1..Len(table)

\* gp_ws_get_open
OpenSlot(i) == IsIdle /\ i \in Issued /\ table[i] # "null"

Answer(what) == IsIdle /\ reply' = what /\ UNCHANGED <<core, slots, call>>

Freed(c) == IF c \in Conns /\ conn[c] \in {"usable", "unusable"} THEN "freed" ELSE "twice"

-----------------------------------------------------------------------------
(***************************************************************************)
(* gp_curl_ws_open and gp_ws_table_alloc                                   *)
(***************************************************************************)
Full == Len(table) = cap

Grown == IF cap = 0 THEN FirstCap ELSE 2 * cap

\* WS is a variable and gets the handle, or it is bound to something else: the
\* connection then stays in its slot.
Open ==
  /\ IsIdle /\ Len(table) < MaxHandles
  /\ \E c \in Conns :
       /\ conn[c] = "unused"
       /\ conn' = [conn EXCEPT ![c] = "usable"]
       /\ table' = Append(table, c) /\ given' = Append(given, c)
  /\ IF Full THEN cap' = Grown /\ room' = Grown ELSE UNCHANGED <<cap, room>>
  /\ reply' \in {<<"opened", Len(table) + 1>>, <<"false">>, <<"error">>}
  /\ UNCHANGED <<inbox, taken, call>>

\* realloc fails.  Mutation: the connection is not freed.
OpenNoMemoryLeaking ==
  /\ IsIdle /\ "memory" \in GpFailures /\ Full
  /\ \E c \in Conns : conn[c] = "unused" /\ conn' = [conn EXCEPT ![c] = "usable"]
  /\ reply' = <<"error">>
  /\ UNCHANGED <<inbox, taken, slots, call>>

OpenNoMemory ==
  /\ IsIdle /\ "memory" \in GpFailures /\ Full
  /\ \E c \in Conns : conn[c] = "unused" /\ conn' = [conn EXCEPT ![c] = "freed"]
  /\ reply' = <<"error">>
  /\ UNCHANGED <<inbox, taken, slots, call>>

\* The options are wrong, or no server answers.
OpenFails == Answer(<<"error">>)

-----------------------------------------------------------------------------
(***************************************************************************)
(* gp_curl_ws_send, gp_curl_ws_close                                       *)
(***************************************************************************)
NotIssued == Answer(<<"error">>)    \* type_error

Refused(i) == i \in Issued /\ table[i] = "null" /\ Answer(<<"existence", i>>)

\* Data is no text, there is no memory for a copy, or the connection has ended.
SendFails(i) == OpenSlot(i) /\ Answer(<<"error">>)

Send(i) == OpenSlot(i) /\ conn[table[i]] = "usable" /\ Answer(<<"sent", table[i]>>)

\* The link breaks during the send.
SendBreaks(i) ==
  /\ OpenSlot(i) /\ conn[table[i]] = "usable" /\ "link" \in GpFailures
  /\ conn' = [conn EXCEPT ![table[i]] = "unusable"]
  /\ reply' = <<"error">>
  /\ UNCHANGED <<inbox, taken, slots, call>>

\* Mutation: the slot keeps the freed connection.
CloseKeeping(i) ==
  /\ OpenSlot(i)
  /\ conn' = [conn EXCEPT ![table[i]] = Freed(table[i])]
  /\ reply' = <<"closed", i>>
  /\ UNCHANGED <<inbox, taken, slots, call>>

Close(i) ==
  /\ OpenSlot(i)
  /\ conn' = [conn EXCEPT ![table[i]] = Freed(table[i])]
  /\ table' = [table EXCEPT ![i] = "null"]
  /\ reply' = <<"closed", i>>
  /\ UNCHANGED <<inbox, taken, cap, room, given, call>>

-----------------------------------------------------------------------------
(***************************************************************************)
(* gp_curl_ws_recv, and ws_wait for the time it takes                      *)
(***************************************************************************)
Recv(i) ==
  /\ OpenSlot(i)
  /\ \E ms \in Timeouts :
       call' = [pc |-> "recv", slot |-> i, asked |-> ms, limit |-> 0, waited |-> 0, quiet |-> TRUE]
  /\ UNCHANGED <<core, slots, reply>>

At == table[call.slot]
Left == call.asked - call.waited
Arrived == taken[At] < inbox[At]
InRecv == call.pc = "recv" /\ conn[At] = "usable"

\* A message is converted, freed and unified with Msg: it is gone when Msg is
\* something else, or when there is no memory for its codes.
RecvMessage ==
  /\ InRecv /\ Arrived
  /\ taken' = [taken EXCEPT ![At] = @ + 1]
  /\ \/ reply' \in {<<"message", At, taken[At] + 1>>, <<"false">>}
     \/ "memory" \in GpFailures /\ reply' = <<"error">>
  /\ call' = Idle
  /\ UNCHANGED <<conn, inbox, slots>>

\* The server closed or the link broke.
RecvEnds ==
  /\ InRecv /\ "link" \in GpFailures
  /\ conn' = [conn EXCEPT ![At] = "unusable"]
  /\ reply' \in {<<"end", At>>, <<"false">>, <<"error">>}
  /\ call' = Idle
  /\ UNCHANGED <<inbox, taken, slots>>

RecvUnusable ==
  /\ call.pc = "recv" /\ conn[At] = "unusable"
  /\ reply' = <<"error">> /\ call' = Idle
  /\ UNCHANGED <<core, slots>>

\* A ping or a part is read, and by then the next one is there: time passes and
\* the deadline is not looked at.
ReadsOn ==
  /\ InRecv /\ "pings" \in GpFailures /\ call.waited < MaxWait
  /\ call' = [call EXCEPT !.waited = @ + 1, !.quiet = FALSE]
  /\ UNCHANGED <<core, slots, reply>>

\* CURLE_AGAIN at or after the deadline.  Mutation: the last unit of time is not waited for.
ExpiredEarly == Left <= 1

Expired == Left <= 0

RecvTimeout ==
  /\ InRecv /\ ~Arrived /\ Expired
  /\ call' = [call EXCEPT !.pc = "timeout"]
  /\ UNCHANGED <<core, slots, reply>>

TimeoutReturned ==
  /\ call.pc = "timeout"
  /\ reply' \in {<<"timeout", At>>, <<"false">>}
  /\ call' = Idle
  /\ UNCHANGED <<core, slots>>

\* The conversion of a long to the int poll takes; a negative one is no limit.
AsInt(n) == IF n > IntMax THEN n - 2 * (IntMax + 1) ELSE n

Poll ==
  /\ InRecv /\ ~Arrived /\ ~Expired
  /\ call' = [call EXCEPT !.pc = "poll", !.limit = AsInt(Left)]
  /\ UNCHANGED <<core, slots, reply>>

\* Time passes in poll; it also does while frames are read (ReadsOn).
Tick ==
  /\ call.pc = "poll" /\ call.limit # 0 /\ call.waited < MaxWait
  /\ call' = [call EXCEPT !.waited = @ + 1, !.limit = IF @ > 0 THEN @ - 1 ELSE @]
  /\ UNCHANGED <<core, slots, reply>>

\* The time is up, or something has come: a message, a part of one or a ping.  What
\* has come is read; the deadline is looked at again when there is nothing to read.
PollReturns ==
  /\ call.pc = "poll"
  /\ call' = [call EXCEPT !.pc = "recv"]
  /\ UNCHANGED <<core, slots, reply>>

ServerSends(c) ==
  /\ conn[c] = "usable" /\ inbox[c] < MaxMsgs
  /\ inbox' = [inbox EXCEPT ![c] = @ + 1]
  /\ UNCHANGED <<conn, taken, slots, call, reply>>

OnHandle(i) ==
  Refused(i) \/ SendFails(i) \/ Send(i) \/ SendBreaks(i) \/ Close(i) \/ Recv(i)

Receiving ==
  \/ RecvMessage \/ RecvEnds \/ RecvUnusable \/ ReadsOn \/ RecvTimeout \/ TimeoutReturned
  \/ Poll \/ Tick \/ PollReturns

GpNext ==
  \/ Open \/ OpenNoMemory \/ OpenFails \/ NotIssued
  \/ \E i \in Issued : OnHandle(i)
  \/ Receiving
  \/ \E c \in Conns : ServerSends(c)

GpSpec == GpInit /\ [][GpNext]_gpVars

-----------------------------------------------------------------------------
\* Types of the variables.
GpTypeOK ==
  /\ conn \in [Conns -> {"unused", "usable", "unusable", "freed", "twice"}]
  /\ inbox \in [Conns -> Nat] /\ taken \in [Conns -> Nat]
  /\ table \in Seq(Conns \cup {"null"}) /\ given \in Seq(Conns)
  /\ Len(given) = Len(table)
  /\ cap \in Nat /\ room \in Nat
  /\ call \in [pc : {"idle", "recv", "poll", "timeout"}, slot : Nat, asked : Nat,
               limit : Int, waited : Nat, quiet : BOOLEAN]
  /\ call.pc # "idle" => call.slot \in Issued /\ table[call.slot] # "null"

\* A handle is a stale one or reaches the connection it was made for, which no
\* other handle reaches; a connection there is no handle for is freed, and once;
\* the table is written within what realloc has given it (gp-curl-c.c: "a handle
\* is never reused for another connection").
WsHandlesExact ==
  /\ Len(table) <= room
  /\ \A i \in Issued : table[i] \in {given[i], "null"}
  /\ \A i, j \in Issued : i # j => given[i] # given[j]
  /\ \A c \in Conns :
       /\ conn[c] \in {"usable", "unusable"} <=> \E i \in Issued : table[i] = c
       /\ conn[c] # "twice"

\* A receive answers timeout after the time that was asked for and not before,
\* whatever poll is woken by.  If that time is an int, poll never sleeps past it, and
\* the receive is over by then unless pings or parts have come: what they do is
\* RecvReturns of WsCore, what a greater time does is RecvInTime.
RecvWaits ==
  /\ call.pc = "timeout" => call.waited >= call.asked
  /\ call.asked <= IntMax /\ (call.quiet \/ call.pc = "poll") => call.waited <= call.asked

\* A receive "waits up to TimeoutMs milliseconds" (pl_curl/README.md), whatever
\* TimeoutMs is.
RecvInTime == call.waited <= call.asked

\* What a program may see of the state.
GivenOf == [h \in 1..MaxHandles |-> IF h <= Len(given) THEN given[h] ELSE "none"]
StateOf == [c \in Conns |-> CASE conn[c] = "unused"   -> "unused"
                              [] conn[c] = "usable"   -> "open"
                              [] conn[c] = "unusable" -> "ended"
                              [] OTHER                -> "closed"]

\* The bridge implements the contract it shares with the SWI-Prolog bridge: a
\* closed handle is refused, nothing comes from a connection that has ended, and
\* messages are taken in order, each once.
Contract == INSTANCE WsContract WITH
  Handles <- 1..MaxHandles, given <- GivenOf, state <- StateOf, next <- taken

WsContractSpec == Contract!Spec

=============================================================================
