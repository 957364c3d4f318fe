------------------------------- MODULE WsSwi -------------------------------
(***************************************************************************)
(* The SWI-Prolog bridge of the WebSocket predicates (swi-curl.c over      *)
(* curl_core.c): a Prolog thread that opens, sends, receives, closes and   *)
(* forgets, receiving in slices between which signals are handled, and the *)
(* garbage collector, which releases handles in a thread of its own.       *)
(*                                                                         *)
(* The core's connection (WsCore in detail) is the messages the server has *)
(* sent it, numbered, the next one it hands over, and whether it is usable.*)
(* A handle is a blob with the address of a swi_curl_ws, whose member ws   *)
(* is the connection or NULL.  Time is counted in parts of a slice.        *)
(***************************************************************************)
EXTENDS Naturals, Sequences

CONSTANTS
  WsHandles, WsAddrs, WsConns,
  Timeouts,   \* timeouts the program passes
  Slice,      \* the length of a slice (200 ms)
  MaxMsgs,    \* bound on the messages of a connection
  Handlers,   \* what a signal handler may do: "return", "throw", "close", "recv"
  WsFailures  \* what can go wrong: "memory", "link"

ASSUME SwiAssumption ==
  /\ Timeouts \subseteq Nat /\ Slice \in Nat \ {0} /\ MaxMsgs \in Nat
  /\ Handlers \subseteq {"return", "throw", "close", "recv"}
  /\ WsFailures \subseteq {"memory", "link"}
  /\ "null" \notin WsConns /\ "none" \notin WsConns
  /\ "unused" \notin WsAddrs /\ "released" \notin WsAddrs

VARIABLES
  wsConn,   \* pl_curl_ws: "unused", "usable", "unusable", "freed" or "twice"
  inbox,    \* the messages the server has sent on a connection
  taken,    \* the messages the core has handed over
  wsMem,    \* the member ws of the structure at an address: "null" or a connection
  wsAlloc,  \* the addresses malloc has given out and free has not got back
  wsBlob,   \* of a handle: "unused", its address or "released"
  wsHeld,   \* the handles in the program's terms
  wsCall,   \* the receive the program is in, or idle
  signal,   \* a signal is pending, and for how long
  wsReply,  \* what the program was told last
  told,     \* history: what it saw of each message taken: its number, or 0 for none
  owner     \* history: the connection a handle was made for

wsVars == <<wsConn, inbox, taken, wsMem, wsAlloc, wsBlob, wsHeld, wsCall, signal, wsReply, told, owner>>
server == <<wsConn, inbox, taken>>
wsHeap == <<wsMem, wsAlloc, wsBlob, owner>>

WsIdle == [pc |-> "idle", handle |-> "none", asked |-> 0, left |-> 0, waited |-> 0]
NoSignal == [pending |-> FALSE, since |-> 0]

WsInit ==
  /\ wsConn = [c \in WsConns |-> "unused"]
  /\ inbox = [c \in WsConns |-> 0] /\ taken = [c \in WsConns |-> 0]
  /\ wsMem = [a \in WsAddrs |-> "null"] /\ wsAlloc = {}
  /\ wsBlob = [h \in WsHandles |-> "unused"]
  /\ wsHeld = {}
  /\ wsCall = WsIdle /\ signal = NoSignal
  /\ wsReply = <<"none">>
  /\ told = [h \in WsHandles |-> <<>>] /\ owner = [h \in WsHandles |-> "none"]

Ws(h) == wsMem[wsBlob[h]]
WsIsIdle == wsCall.pc = "idle"
Usable(h) == WsIsIdle /\ h \in wsHeld /\ Ws(h) # "null"    \* get_open_websocket

\* pl_curl_ws_free, which takes NULL
Freed(c) == IF wsConn[c] \in {"usable", "unusable"} THEN "freed" ELSE "twice"
FreeConn(c) == wsConn' = IF c = "null" THEN wsConn ELSE [wsConn EXCEPT ![c] = Freed(c)]

-----------------------------------------------------------------------------
(***************************************************************************)
(* swi_curl_ws_open                                                        *)
(***************************************************************************)
\* unified: PL_unify_blob; if it fails the blob exists and no term holds it.
Open ==
  /\ WsIsIdle
  /\ \E c \in WsConns, a \in WsAddrs, h \in WsHandles, unified \in BOOLEAN :
       /\ wsConn[c] = "unused" /\ a \notin wsAlloc /\ wsBlob[h] = "unused"
       /\ wsConn' = [wsConn EXCEPT ![c] = "usable"]
       /\ wsMem' = [wsMem EXCEPT ![a] = c] /\ wsAlloc' = wsAlloc \cup {a}
       /\ wsBlob' = [wsBlob EXCEPT ![h] = a] /\ owner' = [owner EXCEPT ![h] = c]
       /\ wsHeld' = IF unified THEN wsHeld \cup {h} ELSE wsHeld
       /\ wsReply' = IF unified THEN <<"opened", h>> ELSE <<"false">>
  /\ UNCHANGED <<inbox, taken, wsCall, signal, told>>

\* No memory for the structure.  Mutation: the connection stays.
OpenNoMemoryLeaking ==
  /\ WsIsIdle /\ "memory" \in WsFailures
  /\ \E c \in WsConns : wsConn[c] = "unused" /\ wsConn' = [wsConn EXCEPT ![c] = "usable"]
  /\ wsReply' = <<"error">>
  /\ UNCHANGED <<inbox, taken, wsHeap, wsHeld, wsCall, signal, told>>

OpenNoMemory ==
  /\ WsIsIdle /\ "memory" \in WsFailures
  /\ \E c \in WsConns : wsConn[c] = "unused" /\ wsConn' = [wsConn EXCEPT ![c] = "freed"]
  /\ wsReply' = <<"error">>
  /\ UNCHANGED <<inbox, taken, wsHeap, wsHeld, wsCall, signal, told>>

-----------------------------------------------------------------------------
(***************************************************************************)
(* swi_curl_ws_send, swi_curl_ws_close                                     *)
(***************************************************************************)
Answer(what) == wsReply' = what /\ UNCHANGED <<server, wsHeap, wsHeld, wsCall, signal, told>>

\* The options, the data or the timeout are wrong, or no server answers.
Errs == WsIsIdle /\ Answer(<<"error">>)

\* get_open_websocket finds no connection.
Stale(h) == WsIsIdle /\ h \in wsHeld /\ Ws(h) = "null" /\ Answer(<<"existence", h>>)

Send(h) == Usable(h) /\ wsConn[Ws(h)] = "usable" /\ Answer(<<"sent", Ws(h)>>)

\* A send that breaks off makes the connection unusable.
SendFails(h) ==
  /\ Usable(h) /\ "link" \in WsFailures
  /\ wsConn' = [wsConn EXCEPT ![Ws(h)] = IF @ = "usable" THEN "unusable" ELSE @]
  /\ wsReply' = <<"error">>
  /\ UNCHANGED <<inbox, taken, wsHeap, wsHeld, wsCall, signal, told>>

\* Mutations: the structure is freed with its connection; ws keeps its value.
CloseFreeing(h) ==
  /\ Usable(h)
  /\ FreeConn(Ws(h)) /\ wsAlloc' = wsAlloc \ {wsBlob[h]}
  /\ wsReply' = <<"closed", h>>
  /\ UNCHANGED <<inbox, taken, wsMem, wsBlob, owner, wsHeld, wsCall, signal, told>>

CloseKeeping(h) ==
  /\ Usable(h)
  /\ FreeConn(Ws(h))
  /\ wsReply' = <<"closed", h>>
  /\ UNCHANGED <<inbox, taken, wsHeap, wsHeld, wsCall, signal, told>>

Close(h) ==
  /\ Usable(h)
  /\ FreeConn(Ws(h)) /\ wsMem' = [wsMem EXCEPT ![wsBlob[h]] = "null"]
  /\ wsReply' = <<"closed", h>>
  /\ UNCHANGED <<inbox, taken, wsAlloc, wsBlob, owner, wsHeld, wsCall, signal, told>>

-----------------------------------------------------------------------------
(***************************************************************************)
(* swi_curl_ws_recv                                                        *)
(***************************************************************************)
Recv(h) ==
  /\ Usable(h)
  /\ \E ms \in Timeouts :
       wsCall' = [pc |-> "core", handle |-> h, asked |-> ms, left |-> ms, waited |-> 0]
  /\ UNCHANGED <<server, wsHeap, wsHeld, signal, wsReply, told>>

\* pl_curl_ws_recv is waiting on this connection, for this long at most.
InCore == wsCall.pc = "core"
At == Ws(wsCall.handle)
Wait == IF wsCall.left > Slice THEN Slice ELSE wsCall.left

\* The core is called with NULL.
CoreCrashes ==
  /\ InCore /\ At = "null"
  /\ wsCall' = [wsCall EXCEPT !.pc = "crashed"]
  /\ UNCHANGED <<server, wsHeap, wsHeld, signal, wsReply, told>>

\* A message is there, or comes during the slice.  It is freed whether or not it
\* can be unified with Msg; text that is not UTF-8 or does not fit is an error.
Given ==
  /\ taken' = [taken EXCEPT ![At] = @ + 1]
  /\ \/ /\ wsReply' = <<"message", At, taken[At] + 1>>
        /\ told' = [told EXCEPT ![wsCall.handle] = Append(@, taken[At] + 1)]
     \/ /\ wsReply' \in {<<"false">>, <<"error">>}
        /\ told' = [told EXCEPT ![wsCall.handle] = Append(@, 0)]

\* Mutation: only the last slice ends the loop.
RecvMessageInLastSlice ==
  /\ InCore /\ At # "null" /\ wsConn[At] = "usable" /\ taken[At] < inbox[At]
  /\ IF wsCall.left <= Slice
     THEN Given /\ wsCall' = WsIdle
     ELSE /\ taken' = [taken EXCEPT ![At] = @ + 1]
          /\ wsCall' = [wsCall EXCEPT !.pc = "signals", !.left = @ - Slice]
          /\ UNCHANGED <<wsReply, told>>
  /\ UNCHANGED <<wsConn, inbox, wsHeap, wsHeld, signal>>

RecvMessage ==
  /\ InCore /\ At # "null" /\ wsConn[At] = "usable" /\ taken[At] < inbox[At]
  /\ Given
  /\ wsCall' = WsIdle
  /\ UNCHANGED <<wsConn, inbox, wsHeap, wsHeld, signal>>

\* The server closes or the connection breaks.
RecvEnds ==
  /\ InCore /\ At # "null" /\ wsConn[At] = "usable" /\ "link" \in WsFailures
  /\ wsConn' = [wsConn EXCEPT ![At] = "unusable"]
  /\ wsReply' \in {<<"end", At>>, <<"false">>, <<"error">>}
  /\ wsCall' = WsIdle
  /\ UNCHANGED <<inbox, taken, wsHeap, wsHeld, signal, told>>

\* It had ended before.
RecvEnded ==
  /\ InCore /\ At # "null" /\ wsConn[At] = "unusable"
  /\ wsReply' = <<"error">>
  /\ wsCall' = WsIdle
  /\ UNCHANGED <<server, wsHeap, wsHeld, signal, told>>

\* Nothing came during the last slice: the program is told timeout.  Mutation:
\* what is left of the last but one is not waited for.
Aged(n) == IF signal.pending THEN [signal EXCEPT !.since = @ + n] ELSE signal

LastSliceEarly == wsCall.left <= 2 * Slice
LastSlice == wsCall.left <= Slice

RecvTimeout ==
  /\ InCore /\ At # "null" /\ wsConn[At] = "usable" /\ taken[At] = inbox[At]
  /\ LastSlice
  /\ wsCall' = [wsCall EXCEPT !.pc = "timeout", !.waited = @ + Wait]
  /\ signal' = Aged(Wait)
  /\ UNCHANGED <<server, wsHeap, wsHeld, wsReply, told>>

Returned ==
  /\ wsCall.pc = "timeout"
  /\ wsReply' \in {<<"timeout", At>>, <<"false">>}
  /\ wsCall' = WsIdle
  /\ UNCHANGED <<server, wsHeap, wsHeld, signal, told>>

\* Nothing came during a slice that is not the last.
SliceEnds ==
  /\ InCore /\ At # "null" /\ wsConn[At] = "usable" /\ taken[At] = inbox[At]
  /\ ~LastSlice
  /\ wsCall' = [wsCall EXCEPT !.pc = "signals", !.left = @ - Slice, !.waited = @ + Wait]
  /\ signal' = Aged(Wait)
  /\ UNCHANGED <<server, wsHeap, wsHeld, wsReply, told>>

\* PL_handle_signals.  Mutation: signals are not handled between slices.
GoOn == wsCall' = [wsCall EXCEPT !.pc = "core"]

HandleSignalsNot ==
  /\ wsCall.pc = "signals"
  /\ GoOn
  /\ UNCHANGED <<server, wsHeap, wsHeld, signal, wsReply, told>>

\* The handler runs Prolog in this thread: it may return, throw, close the handle
\* the receive is on, or receive from it what is there.
HandleSignals ==
  /\ wsCall.pc = "signals"
  /\ IF ~signal.pending
     THEN GoOn /\ UNCHANGED <<server, wsHeap, signal, wsReply, told>>
     ELSE /\ signal' = NoSignal
          /\ \/ "return" \in Handlers /\ GoOn /\ UNCHANGED <<server, wsHeap, wsReply, told>>
             \/ /\ "throw" \in Handlers
                /\ wsCall' = WsIdle /\ wsReply' = <<"error">>
                /\ UNCHANGED <<server, wsHeap, told>>
             \/ /\ "close" \in Handlers
                /\ FreeConn(At) /\ wsMem' = [wsMem EXCEPT ![wsBlob[wsCall.handle]] = "null"]
                /\ GoOn /\ wsReply' = <<"closed", wsCall.handle>>
                /\ UNCHANGED <<inbox, taken, wsAlloc, wsBlob, owner, told>>
             \/ /\ "recv" \in Handlers /\ taken[At] < inbox[At]
                /\ Given /\ GoOn
                /\ UNCHANGED <<wsConn, inbox, wsHeap>>
  /\ UNCHANGED wsHeld

-----------------------------------------------------------------------------
(***************************************************************************)
(* The rest of the program, the collector, the server                      *)
(***************************************************************************)
WsForget(h) ==
  /\ WsIsIdle /\ h \in wsHeld
  /\ wsHeld' = wsHeld \ {h}
  /\ UNCHANGED <<server, wsHeap, wsCall, signal, wsReply, told>>

\* release_curl_websocket: no term of the program holds the handle.  Mutation:
\* the connection is not freed.
WsReleaseStructOnly(h) ==
  /\ wsBlob[h] \in WsAddrs /\ h \notin wsHeld
  /\ wsAlloc' = wsAlloc \ {wsBlob[h]} /\ wsBlob' = [wsBlob EXCEPT ![h] = "released"]
  /\ UNCHANGED <<server, wsMem, owner, wsHeld, wsCall, signal, wsReply, told>>

WsRelease(h) ==
  /\ wsBlob[h] \in WsAddrs /\ h \notin wsHeld
  /\ FreeConn(Ws(h))
  /\ wsAlloc' = wsAlloc \ {wsBlob[h]} /\ wsBlob' = [wsBlob EXCEPT ![h] = "released"]
  /\ UNCHANGED <<inbox, taken, wsMem, owner, wsHeld, wsCall, signal, wsReply, told>>

\* A signal arrives (thread_signal/2, Ctrl-C) while a receive is on.
Signal ==
  /\ wsCall.pc \in {"core", "signals"} /\ ~signal.pending
  /\ signal' = [pending |-> TRUE, since |-> 0]
  /\ UNCHANGED <<server, wsHeap, wsHeld, wsCall, wsReply, told>>

\* Outside a receive Prolog handles it before the next call.
HandledByProlog ==
  /\ WsIsIdle /\ signal.pending
  /\ signal' = NoSignal
  /\ UNCHANGED <<server, wsHeap, wsHeld, wsCall, wsReply, told>>

ServerSends(c) ==
  /\ wsConn[c] = "usable" /\ inbox[c] < MaxMsgs
  /\ inbox' = [inbox EXCEPT ![c] = @ + 1]
  /\ UNCHANGED <<wsConn, taken, wsHeap, wsHeld, wsCall, signal, wsReply, told>>

Program ==
  \/ Open \/ OpenNoMemory \/ Errs
  \/ \E h \in WsHandles :
       Stale(h) \/ Send(h) \/ SendFails(h) \/ Close(h) \/ Recv(h) \/ WsForget(h)

Receive ==
  \/ CoreCrashes \/ RecvMessage \/ RecvEnds \/ RecvEnded \/ RecvTimeout \/ Returned
  \/ SliceEnds \/ HandleSignals

WsNext ==
  \/ ~(WsIsIdle /\ signal.pending) /\ Program
  \/ Receive \/ Signal \/ HandledByProlog
  \/ \E h \in WsHandles : WsRelease(h)
  \/ \E c \in WsConns : ServerSends(c)

WsSpec == WsInit /\ [][WsNext]_wsVars

-----------------------------------------------------------------------------
\* Types of the variables; what a receive has still to wait and has waited for is
\* what it was asked to.
WsTypeOK ==
  /\ wsConn \in [WsConns -> {"unused", "usable", "unusable", "freed", "twice"}]
  /\ inbox \in [WsConns -> 0..MaxMsgs] /\ taken \in [WsConns -> 0..MaxMsgs]
  /\ wsMem \in [WsAddrs -> WsConns \cup {"null"}] /\ wsAlloc \subseteq WsAddrs
  /\ wsBlob \in [WsHandles -> WsAddrs \cup {"unused", "released"}]
  /\ wsHeld \subseteq WsHandles
  /\ wsCall.pc \in {"idle", "core", "signals", "timeout", "crashed"}
  /\ wsCall.pc \in {"core", "signals"} => wsCall.left + wsCall.waited = wsCall.asked

\* timeout is answered after the whole time that was asked for and no more,
\* whatever it is as a number of slices (pl_curl/README.md: "waits up to TimeoutMs
\* milliseconds").
WaitsExactly == wsCall.pc = "timeout" => wsCall.waited = wsCall.asked

\* A signal is handled after one slice at most, however long the receive
\* ("handles signals in between").
SignalsHandled == signal.since <= Slice

\* Each message the core hands over is answered to the program once and in order,
\* be it in which slice it comes and whoever receives it, also a signal handler;
\* what it does not see is what its Msg refused.
NoMessageLost ==
  \A h \in WsHandles : owner[h] # "none" =>
    /\ Len(told[h]) = taken[owner[h]]
    /\ \A i \in 1..Len(told[h]) : told[h][i] \in {i, 0}

\* What the program can name is not freed: its structure is there, with no
\* connection or one that is not freed; none is freed twice, by close and by the
\* collector; and one that is not freed can still be closed.
HandlesSafe ==
  /\ \A h \in wsHeld : wsBlob[h] \in wsAlloc
  /\ \A h \in WsHandles : wsBlob[h] \in wsAlloc /\ Ws(h) # "null" => wsConn[Ws(h)] \in {"usable", "unusable"}
  /\ \A c \in WsConns : wsConn[c] # "twice"
  /\ \A c \in WsConns : wsConn[c] \in {"usable", "unusable"} =>
       \E h \in WsHandles : wsBlob[h] \in wsAlloc /\ Ws(h) = c

\* A closed handle is detected: the core is never called without a connection
\* (swi-curl.c: "A handle used after closing is detected").
CloseDetected == wsCall.pc # "crashed"

\* What a program may see of a connection.
WsStateOf == [c \in WsConns |-> CASE wsConn[c] = "unused"   -> "unused"
                              [] wsConn[c] = "usable"   -> "open"
                              [] wsConn[c] = "unusable" -> "ended"
                              [] OTHER                -> "closed"]

\* The bridge implements the contract it shares with the GNU Prolog bridge: a
\* closed handle is refused, nothing comes from a connection that has ended, the
\* messages are answered in order, each once, and only the collector closes a
\* connection behind the program's back.
WsPromise == INSTANCE WsContract WITH
  Handles <- WsHandles, Conns <- WsConns, given <- owner, state <- WsStateOf, next <- taken, reply <- wsReply

ContractKept == WsPromise!Spec

=============================================================================
