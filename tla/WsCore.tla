------------------------------- MODULE WsCore -------------------------------
(***************************************************************************)
(* One WebSocket connection of pl_curl (struct pl_curl_ws and the          *)
(* pl_curl_ws_* functions of curl_core.c), the caller that uses it, the    *)
(* server at the other end, and libcurl between them.                      *)
(*                                                                         *)
(* Payload is abstracted to identity: byte i of the server's k-th message  *)
(* is <<k, i>>, byte i of its close frame is <<0, i>> and byte i of a ping *)
(* is <<-1, i>>.  The status code of a close frame is its first two bytes, *)
(* 1005 is the empty sequence.  Time is counted in units; left is the time *)
(* until the deadline of the call in progress.                             *)
(*                                                                         *)
(* A frame is in wire from the moment the server sends it until libcurl    *)
(* has handed over its last byte.  libcurl may cut a frame into parts of   *)
(* any size, and may answer CURLE_AGAIN whenever it is called: bytes in    *)
(* flight have not arrived yet.                                            *)
(***************************************************************************)
EXTENDS Integers, Sequences

CONSTANTS
  MaxMsg,        \* limit on a received message (growbuf.max), in bytes
  DataLens,      \* payload lengths of the server's text and binary frames
  CloseLens,     \* payload lengths of the server's close frame
  PingLens,      \* payload lengths of the server's pings
  SendLens,      \* lengths of the messages the caller sends
  RecvTimeouts,  \* timeouts the caller passes to pl_curl_ws_recv
  SendPatience,  \* the 30 s of ws_send_frame, in time units
  Faults,        \* what can go wrong: "drop", "eintr", "oom"
  CloseInside,   \* the server may close in the middle of a fragmented message
  MaxFrames,     \* bound on the data and close frames the server sends
  MaxInFlight,   \* bound on the frames in wire
  MaxSends       \* bound on the messages the caller sends

ASSUME LimitAssumption == MaxMsg \in Nat \ {0}

ASSUME SizesAssumption ==
  /\ DataLens \subseteq Nat /\ CloseLens \subseteq Nat
  /\ PingLens \subseteq Nat /\ SendLens \subseteq Nat

ASSUME TimeAssumption == RecvTimeouts \subseteq Nat /\ SendPatience \in Nat

ASSUME SwitchAssumption ==
  /\ Faults \subseteq {"drop", "eintr", "oom"}
  /\ CloseInside \in BOOLEAN

ASSUME BoundAssumption ==
  MaxFrames \in Nat /\ MaxInFlight \in Nat /\ MaxSends \in Nat

VARIABLES
  handle,     \* the pl_curl_ws: "none" before open, "open", "freed"
  usable,     \* ws->usable
  buf,        \* ws->msg, the message being assembled
  started,    \* ws->msg_started
  kind,       \* ws->msg_kind
  pc,         \* where the call in progress is; "idle" between calls
  purpose,    \* who called ws_send_frame: "send", "answer" or "free"
  left,       \* time until the deadline of the call in progress
  outcome,    \* how the last call returned
  out,        \* frames given to curl_ws_send, and how much of each it took
  wire,       \* frames on their way to the client
  used,       \* bytes of Head(wire) already handed over
  server,     \* the message the server is sending; the length of its close frame, -1 before
  frames,     \* data and close frames the server may still send
  up,         \* the TCP connection is up
  sent,       \* history: kind and length of every message the server completed
  delivered,  \* history: messages pl_curl_ws_recv returned
  closing     \* history: the close message pl_curl_ws_recv filled in

assembly   == <<buf, started, kind>>
call       == <<pc, purpose, left, outcome>>
network    == <<wire, used, up>>
serverVars == <<server, frames, sent>>
history    == <<delivered, closing>>
vars == <<handle, usable, assembly, call, out, network, serverVars, history>>

DataOps == {"text", "binary"}
NotClosed == [code |-> <<<<-2, 1>>>>, reason |-> <<>>]

\* A frame of the server.  msg and off say where in the stream of messages it
\* was sent: for a data frame, the message it belongs to and the message's bytes
\* before it; for a ping or a close, the message it was slipped into.
Frame(op, len, fin) ==
  [op |-> op, len |-> len, fin |-> fin, msg |-> server.msg, off |-> server.off]

Byte(f, i) == CASE f.op \in DataOps -> <<f.msg, f.off + i>>
                [] f.op = "close"   -> <<0, i>>
                [] OTHER            -> <<-1, i>>

\* The bytes libcurl hands over when it returns the next n bytes of Head(wire).
Part(n) == [i \in 1..n |-> Byte(Head(wire), used + i)]

Init ==
  /\ handle = "none" /\ usable = FALSE
  /\ buf = <<>> /\ started = FALSE /\ kind = "text"
  /\ pc = "idle" /\ purpose = "send" /\ left = 0 /\ outcome = "none"
  /\ out = <<>>
  /\ wire = <<>> /\ used = 0 /\ up = FALSE
  /\ server = [msg |-> 1, off |-> 0, op |-> "none", close |-> -1]
  /\ frames = MaxFrames /\ sent = <<>>
  /\ delivered = <<>> /\ closing = NotClosed

-----------------------------------------------------------------------------
(***************************************************************************)
(* The server (external).  It follows RFC 6455: the fragments of a message *)
(* are not interleaved with another message, control frames are whole, and *)
(* nothing follows its close frame.                                        *)
(***************************************************************************)
CanSend == up /\ server.close = -1 /\ Len(wire) < MaxInFlight

ServerData(op, len, fin) ==
  /\ CanSend /\ frames > 0
  /\ server.op \in {"none", op}
  /\ wire' = Append(wire, Frame(op, len, fin))
  /\ frames' = frames - 1
  /\ IF fin
     THEN /\ sent' = Append(sent, [kind |-> op, len |-> server.off + len])
          /\ server' = [server EXCEPT !.msg = @ + 1, !.off = 0, !.op = "none"]
     ELSE /\ server' = [server EXCEPT !.off = @ + len, !.op = op]
          /\ UNCHANGED sent
  /\ UNCHANGED <<handle, usable, assembly, call, out, used, up, history>>

\* Nothing bounds the pings of a server.
ServerPing(len) ==
  /\ CanSend
  /\ wire' = Append(wire, Frame("ping", len, TRUE))
  /\ UNCHANGED <<handle, usable, assembly, call, out, used, up, serverVars, history>>

ServerClose(len) ==
  /\ CanSend /\ frames > 0
  /\ server.op = "none" \/ CloseInside
  /\ wire' = Append(wire, Frame("close", len, TRUE))
  /\ frames' = frames - 1
  /\ server' = [server EXCEPT !.close = len]
  /\ UNCHANGED <<handle, usable, assembly, call, out, used, up, sent, history>>

\* The connection breaks; what is in flight may still be read.
Drop ==
  /\ "drop" \in Faults /\ up
  /\ up' = FALSE
  /\ UNCHANGED <<handle, usable, assembly, call, out, wire, used, serverVars, history>>

\* Time passes while a call is in progress.
Tick ==
  /\ pc # "idle" /\ left >= 0
  /\ left' = left - 1
  /\ UNCHANGED <<handle, usable, assembly, pc, purpose, outcome, out, network, serverVars, history>>

-----------------------------------------------------------------------------
(***************************************************************************)
(* pl_curl_ws_open: the handshake succeeds or nothing remains of it.       *)
(***************************************************************************)
Open ==
  /\ handle = "none"
  /\ handle' = "open" /\ usable' = TRUE /\ up' = TRUE
  /\ UNCHANGED <<assembly, call, out, wire, used, serverVars, history>>

\* The errors of pl_curl_ws_open: ws->usable is still 0, so that
\* pl_curl_ws_free sends no close frame.
OpenFails ==
  /\ handle = "none"
  /\ handle' = "freed" /\ outcome' = "error"
  /\ UNCHANGED <<usable, assembly, pc, purpose, left, out, network, serverVars, history>>

Returns(o) == pc' = "idle" /\ outcome' = o /\ UNCHANGED <<purpose, left>>

\* A call on a connection that is no longer usable.
Refused ==
  /\ ~usable
  /\ Returns("refused")
  /\ UNCHANGED <<handle, usable, assembly, out, network, serverVars, history>>

-----------------------------------------------------------------------------
(***************************************************************************)
(* ws_send_frame, called by pl_curl_ws_send, by the answer to a close      *)
(* frame and by pl_curl_ws_free.                                           *)
(***************************************************************************)
OutFrame(op, size, code) == [op |-> op, size |-> size, taken |-> 0, code |-> code]

BeginFrame(f, why) ==
  /\ out' = Append(out, f)
  /\ pc' = "send" /\ purpose' = why /\ left' = SendPatience

Current == out[Len(out)]

\* The callers' continuations once ws_send_frame has returned ok.
FrameReturns(ok) ==
  /\ usable' = (ok /\ purpose = "send")
  /\ handle' = IF purpose = "free" THEN "freed" ELSE handle
  /\ pc' = "idle"
  /\ outcome' = CASE purpose = "answer" -> "close"
                  [] purpose = "free"   -> "freed"
                  [] OTHER              -> IF ok THEN "sent" ELSE "error"
  /\ UNCHANGED <<purpose, left>>

\* CURLE_OK: libcurl takes the next n bytes.
TakeBytes(n) == out' = [out EXCEPT ![Len(out)].taken = @ + n]

\* Mutation: the last call passes the whole frame again, not the rest.
SendCompleteWhole ==
  /\ pc = "send"
  /\ TakeBytes(Current.size)
  /\ FrameReturns(TRUE)
  /\ UNCHANGED <<assembly, network, serverVars, history>>

SendComplete ==
  /\ pc = "send"
  /\ TakeBytes(Current.size - Current.taken)
  /\ FrameReturns(TRUE)
  /\ UNCHANGED <<assembly, network, serverVars, history>>

\* Mutation: no look at the deadline.
SendBlockedForEver(n) ==
  /\ pc = "send"
  /\ n = 0 \/ n < Current.size - Current.taken
  /\ TakeBytes(n)
  /\ pc' = "pollout"
  /\ UNCHANGED <<handle, usable, assembly, purpose, left, outcome, network, serverVars, history>>

\* CURLE_AGAIN, or less than the rest was taken: wait for POLLOUT.
SendBlocked(n) ==
  /\ pc = "send" /\ left >= 0
  /\ n = 0 \/ n < Current.size - Current.taken
  /\ TakeBytes(n)
  /\ pc' = "pollout"
  /\ UNCHANGED <<handle, usable, assembly, purpose, left, outcome, network, serverVars, history>>

SendTimesOut(n) ==
  /\ pc = "send" /\ left < 0
  /\ n = 0 \/ n < Current.size - Current.taken
  /\ TakeBytes(n)
  /\ FrameReturns(FALSE)
  /\ UNCHANGED <<assembly, network, serverVars, history>>

SendError ==
  /\ pc = "send" /\ ~up
  /\ FrameReturns(FALSE)
  /\ UNCHANGED <<assembly, out, network, serverVars, history>>

\* ws_wait(ws, POLLOUT, 1000): writable, or the second is over.
WaitedToSend ==
  /\ pc = "pollout"
  /\ pc' = "send"
  /\ UNCHANGED <<handle, usable, assembly, purpose, left, outcome, out, network, serverVars, history>>

\* poll returns -1 (a signal handler ran), or libcurl has no socket any more.
PollFails == "eintr" \in Faults \/ ~up

\* Mutation: the error of the wait is reported, the connection stays usable.
WaitToSendFailsUsable ==
  /\ pc = "pollout" /\ PollFails
  /\ Returns("error")
  /\ UNCHANGED <<handle, usable, assembly, out, network, serverVars, history>>

WaitToSendFails ==
  /\ pc = "pollout" /\ PollFails
  /\ FrameReturns(FALSE)
  /\ UNCHANGED <<assembly, out, network, serverVars, history>>

SendStep ==
  \/ SendComplete
  \/ /\ pc = "send"
     /\ \E n \in 0..(Current.size - Current.taken) : SendBlocked(n) \/ SendTimesOut(n)
  \/ SendError
  \/ WaitedToSend
  \/ WaitToSendFails

-----------------------------------------------------------------------------
(***************************************************************************)
(* pl_curl_ws_send                                                         *)
(***************************************************************************)
SendRefused == pc = "idle" /\ handle = "open" /\ Refused

Send(op, len) ==
  /\ pc = "idle" /\ handle = "open" /\ usable
  /\ Len(out) < MaxSends
  /\ BeginFrame(OutFrame(op, len, <<>>), "send")
  /\ UNCHANGED <<handle, usable, assembly, outcome, network, serverVars, history>>

-----------------------------------------------------------------------------
(***************************************************************************)
(* pl_curl_ws_recv                                                         *)
(***************************************************************************)
Recv(timeout) ==
  /\ pc = "idle" /\ handle = "open" /\ usable
  /\ pc' = "recv" /\ left' = timeout
  /\ UNCHANGED <<handle, usable, assembly, purpose, outcome, out, network, serverVars, history>>

\* CURLE_AGAIN with time left
RecvAgain ==
  /\ pc = "recv" /\ left > 0
  /\ pc' = "pollin"
  /\ UNCHANGED <<handle, usable, assembly, purpose, left, outcome, out, network, serverVars, history>>

\* Mutation: a timeout forgets the parts received so far.
RecvTimesOutForgetting ==
  /\ pc = "recv" /\ left <= 0
  /\ Returns("timeout")
  /\ buf' = <<>> /\ started' = FALSE
  /\ UNCHANGED <<handle, usable, kind, out, network, serverVars, history>>

\* Mutation: a timeout is treated as an error.
RecvTimesOutFailing ==
  /\ pc = "recv" /\ left <= 0
  /\ usable' = FALSE
  /\ Returns("timeout")
  /\ UNCHANGED <<handle, assembly, out, network, serverVars, history>>

\* CURLE_AGAIN at or after the deadline
RecvTimesOut ==
  /\ pc = "recv" /\ left <= 0
  /\ Returns("timeout")
  /\ UNCHANGED <<handle, usable, assembly, out, network, serverVars, history>>

\* ws_wait(ws, POLLIN, left): readable, or the time is over
WaitedToRecv ==
  /\ pc = "pollin"
  /\ wire # <<>> \/ left <= 0
  /\ pc' = "recv"
  /\ UNCHANGED <<handle, usable, assembly, purpose, left, outcome, out, network, serverVars, history>>

\* A broken connection: the wait ends in an error, or curl_ws_recv reports one.
RecvFails ==
  /\ \/ pc = "pollin" /\ PollFails
     \/ pc = "recv" /\ ~up
  /\ usable' = FALSE
  /\ Returns("error")
  /\ UNCHANGED <<handle, assembly, out, network, serverVars, history>>

\* The sizes of the part libcurl can return next, and what is left of the frame.
PartSizes == IF Head(wire).len = 0 THEN {0} ELSE 1..(Head(wire).len - used)
BytesLeft(n) == Head(wire).len - used - n

HandsOver(n) ==
  /\ pc = "recv" /\ wire # <<>>
  /\ n \in PartSizes
  /\ IF BytesLeft(n) = 0
     THEN wire' = Tail(wire) /\ used' = 0
     ELSE used' = used + n /\ UNCHANGED wire
  /\ UNCHANGED up

\* Mutation: the terminating NUL counts against the limit.
FitsCountingNul(n) == n = 0 \/ Len(buf) + n + 1 <= MaxMsg

\* growbuf_append: over the limit, out of memory, or done.  Nothing is
\* appended for an empty part.
Fits(n) == n = 0 \/ Len(buf) + n <= MaxMsg
CanFailToAppend(n) == ~Fits(n) \/ (n > 0 /\ "oom" \in Faults)

\* The first part of a message fixes its kind.
StartedKind == IF started THEN kind ELSE Head(wire).op

RecvPing(n) ==
  /\ HandsOver(n) /\ Head(wire).op = "ping"
  /\ UNCHANGED <<handle, usable, assembly, call, out, serverVars, history>>

RecvTooBig(n) ==
  /\ HandsOver(n) /\ Head(wire).op \in DataOps
  /\ CanFailToAppend(n)
  /\ usable' = FALSE
  /\ started' = TRUE /\ kind' = StartedKind
  /\ Returns(IF Fits(n) THEN "nomemory" ELSE "toobig")
  /\ UNCHANGED <<handle, buf, out, serverVars, history>>

\* Mutations: every frame ends a message; only a frame read in one part does.
EndsAtEveryFrame(n) == BytesLeft(n) = 0
EndsInOnePart(n) == n = Head(wire).len /\ Head(wire).fin
EndsMessage(n) == BytesLeft(n) = 0 /\ Head(wire).fin

RecvPart(n) ==
  /\ HandsOver(n) /\ Head(wire).op \in DataOps
  /\ Fits(n) /\ ~EndsMessage(n)
  /\ buf' = buf \o Part(n)
  /\ started' = TRUE /\ kind' = StartedKind
  /\ UNCHANGED <<handle, usable, call, out, serverVars, history>>

\* ws_take_message hands the assembled message to the caller.
RecvLast(n) ==
  /\ HandsOver(n) /\ Head(wire).op \in DataOps
  /\ Fits(n) /\ EndsMessage(n)
  /\ delivered' = Append(delivered, [kind |-> StartedKind, data |-> buf \o Part(n)])
  /\ buf' = <<>> /\ started' = FALSE /\ kind' = StartedKind
  /\ Returns("message")
  /\ UNCHANGED <<handle, usable, out, serverVars, closing>>

\* Mutation: only the last part of a close frame is looked at.
CloseBuffersLastPart(n) == {Part(n)}

\* The buffer after a part of a close frame: a part that cannot be appended
\* drops everything received so far.
CloseBuffers(n) ==
  (IF Fits(n) THEN {buf \o Part(n)} ELSE {}) \cup (IF CanFailToAppend(n) THEN {<<>>} ELSE {})

RecvClosePart(n) ==
  /\ HandsOver(n) /\ Head(wire).op = "close"
  /\ BytesLeft(n) > 0
  /\ buf' \in CloseBuffers(n)
  /\ started' = TRUE /\ kind' = StartedKind
  /\ UNCHANGED <<handle, usable, call, out, serverVars, history>>

\* The status is the first two bytes, 1005 (<<>>) if there are fewer.
StatusOf(b) == IF Len(b) >= 2 THEN SubSeq(b, 1, 2) ELSE <<>>
ReasonsOf(b) == IF Len(b) < 2 THEN {<<>>}
                ELSE {SubSeq(b, 3, Len(b))} \cup (IF "oom" \in Faults THEN {<<>>} ELSE {})

\* The end of a close frame: fill in the message, clear the buffer, answer.
RecvCloseEnd(n) ==
  /\ HandsOver(n) /\ Head(wire).op = "close"
  /\ BytesLeft(n) = 0
  /\ \E b \in CloseBuffers(n) : \E r \in ReasonsOf(b) :
       /\ closing' = [code |-> StatusOf(b), reason |-> r]
       /\ BeginFrame(OutFrame("close", Len(StatusOf(b)), StatusOf(b)), "answer")
  /\ buf' = <<>> /\ started' = FALSE /\ kind' = StartedKind
  /\ UNCHANGED <<handle, usable, outcome, serverVars, delivered>>

HandOver(n) ==
  RecvPing(n) \/ RecvTooBig(n) \/ RecvPart(n) \/ RecvLast(n) \/ RecvClosePart(n) \/ RecvCloseEnd(n)

Receive == wire # <<>> /\ \E n \in PartSizes : HandOver(n)

RecvStep == RecvAgain \/ RecvTimesOut \/ WaitedToRecv \/ RecvFails \/ Receive

-----------------------------------------------------------------------------
(***************************************************************************)
(* pl_curl_ws_free: a usable connection is closed with status 1000.        *)
(***************************************************************************)
NormalClosure == <<<<-3, 1>>, <<-3, 2>>>>

\* Mutation: a close frame whatever became of the connection.
FreeClosing ==
  /\ pc = "idle" /\ handle = "open"
  /\ BeginFrame(OutFrame("close", 2, NormalClosure), "free")
  /\ UNCHANGED <<handle, usable, assembly, outcome, network, serverVars, history>>

FreeUsable ==
  /\ pc = "idle" /\ handle = "open" /\ usable
  /\ BeginFrame(OutFrame("close", 2, NormalClosure), "free")
  /\ UNCHANGED <<handle, usable, assembly, outcome, network, serverVars, history>>

FreeUnusable ==
  /\ pc = "idle" /\ handle = "open" /\ ~usable
  /\ handle' = "freed"
  /\ Returns("freed")
  /\ UNCHANGED <<usable, assembly, out, network, serverVars, history>>

\* The caller is done with the connection.
Done == handle = "freed" /\ UNCHANGED vars

-----------------------------------------------------------------------------
Server ==
  \/ \E op \in DataOps, len \in DataLens, fin \in BOOLEAN : ServerData(op, len, fin)
  \/ \E len \in PingLens : ServerPing(len)
  \/ \E len \in CloseLens : ServerClose(len)
  \/ Drop

\* The calls the caller can start
Call ==
  \/ Open \/ OpenFails
  \/ \E op \in DataOps, len \in SendLens : Send(op, len)
  \/ \E t \in RecvTimeouts : Recv(t)
  \/ SendRefused
  \/ FreeUsable \/ FreeUnusable

Next == Server \/ Tick \/ Call \/ SendStep \/ RecvStep \/ Done

Spec == Init /\ [][Next]_vars


(***************************************************************************)
(* Fairness.  The thread that called keeps running and its clock advances; *)
(* bytes in flight arrive, so that libcurl does not answer CURLE_AGAIN for *)
(* ever; and the program keeps receiving as long as it may.                *)
(***************************************************************************)
Fairness ==
  /\ WF_vars(Tick)
  /\ WF_vars(SendStep \/ RecvStep)
  /\ SF_vars(Receive)
  /\ WF_vars(\E t \in RecvTimeouts : Recv(t))

FairSpec == Spec /\ Fairness

-----------------------------------------------------------------------------
ByteIds == {-3, -2, -1} \cup Nat
ByteIdentity == ByteIds \X (Nat \ {0})
Kinds == DataOps \cup {"close"}
Outcomes == {"none", "sent", "error", "refused", "timeout", "message", "toobig",
             "nomemory", "close", "freed"}
Frames == [op : Kinds \cup {"ping"}, len : Nat, fin : BOOLEAN, msg : Nat, off : Nat]
ServerStates == [msg : Nat, off : Nat, op : DataOps \cup {"none"}, close : Nat \cup {-1}]
SentMessages == [kind : DataOps, len : Nat]
Messages == [kind : Kinds, data : Seq(ByteIdentity)]
CloseMessages == [code : Seq(ByteIdentity), reason : Seq(ByteIdentity)]
OutFrames == [op : Kinds, size : Nat, taken : Nat, code : Seq(ByteIdentity)]

ClientType ==
  /\ handle \in {"none", "open", "freed"} /\ usable \in BOOLEAN
  /\ buf \in Seq(ByteIdentity) /\ started \in BOOLEAN /\ kind \in Kinds
  /\ pc \in {"idle", "recv", "pollin", "send", "pollout"}
  /\ purpose \in {"send", "answer", "free"}
  /\ left \in Int /\ outcome \in Outcomes

OutType ==
  /\ out \in Seq(OutFrames)
  /\ \A i \in 1..Len(out) : out[i].taken <= out[i].size
  /\ pc \in {"send", "pollout"} => out # <<>>

WireType == wire \in Seq(Frames) /\ used \in Nat /\ up \in BOOLEAN

ServerType ==
  /\ server \in ServerStates
  /\ frames \in Nat
  /\ sent \in Seq(SentMessages)

HistoryType ==
  /\ delivered \in Seq(Messages)
  /\ closing \in CloseMessages

\* Types of the variables.  libcurl is never given more than a frame holds, and
\* a send loop has a frame to send.
TypeOK == ClientType /\ OutType /\ WireType /\ ServerType /\ HistoryType

\* The i-th message of the server, every byte of it in order.
Whole(i) ==
  [kind |-> sent[i].kind, data |-> [j \in 1..sent[i].len |-> <<i, j>>]]

\* Whatever the cuts, fragments, pings and timeouts between the calls, the
\* messages pl_curl_ws_recv returns are the server's messages from the first
\* on: none lost, repeated, cut, mixed with another one or of the wrong kind.
MessagesFaithful ==
  /\ Len(delivered) <= Len(sent)
  /\ \A i \in 1..Len(delivered) : delivered[i] = Whole(i)

\* What is reported for the server's close frame is what it sent: its status, or
\* 1005 (<<>>) exactly when it sent none (curl_core.h, pl_curl_ws_msg.close_code).
\* The answer carries the same status.
CloseCodeFaithful ==
  closing # NotClosed =>
    /\ closing.code = (IF server.close >= 2 THEN <<<<0, 1>>, <<0, 2>>>> ELSE <<>>)
    /\ Current.op = "close" /\ Current.code = closing.code

\* A frame is never written behind one that was cut short, and a close frame,
\* the answer or our own, is the last one: the server can parse all we send.
OutputWellFormed ==
  \A i \in 1..(Len(out) - 1) : out[i].op # "close" /\ out[i].taken = out[i].size

\* The bytes of the server's k-th message sent so far.
SentSoFar(k) == IF k <= Len(sent) THEN sent[k].len ELSE server.off

\* A message is refused as too big only if it is over the limit, and no message
\* over the limit is delivered; pings and earlier messages do not count.
LimitExact ==
  /\ outcome = "toobig" => SentSoFar(Len(delivered) + 1) > MaxMsg
  /\ \A i \in 1..Len(delivered) : Len(delivered[i].data) <= MaxMsg

\* A connection that was opened stays usable until it breaks, the server closes
\* it, a message cannot be stored or a send runs out of its 30 s: timeouts and
\* signals leave it usable (pl_curl/README.md, "Waiting").
StaysUsable ==
  handle = "open" /\ ~usable =>
    \/ ~up
    \/ closing # NotClosed
    \/ outcome \in {"toobig", "nomemory", "refused"}
    \/ purpose = "send" /\ left < 0

\* Once a connection is unusable it remains so and nothing more is delivered or
\* sent over it, not even a close frame when it is freed.
EndIsFinal ==
  [][handle = "open" /\ ~usable => ~usable' /\ UNCHANGED <<delivered, out, closing>>]_vars

\* What the caller can tell of the server's messages and of its close, and what it
\* was told of the close.
StreamSent == [i \in 1..Len(sent) |-> Whole(i)]
StreamCode == IF server.close = -1 THEN "open" ELSE IF server.close < 2 THEN "none" ELSE "given"
StreamTold == IF closing = NotClosed THEN "open" ELSE IF closing.code = <<>> THEN "none" ELSE "given"
StreamStatus == CASE handle = "none"                                    -> "new"
                  [] handle = "open" /\ usable /\ closing = NotClosed -> "up"
                  [] OTHER                                               -> "over"

\* The promise to the caller: a stream of whole messages and then its end.
Stream == INSTANCE WsStream WITH
  sent <- StreamSent, got <- delivered, code <- StreamCode, told <- StreamTold, status <- StreamStatus

StreamSpec == Stream!Spec

\* Every call returns, a receive whatever the network does and a send or a close
\* however little libcurl takes, unless the server's pings never stop.
CallsReturn == []<>(pc = "idle") \/ []<><<wire # <<>> /\ \E n \in PartSizes : RecvPing(n)>>_vars

\* A receive "waits up to TimeoutMs milliseconds" (pl_curl/README.md, pl_curl_ws_recv;
\* curl_core.h says the same of timeout_ms).
RecvReturns == (pc = "recv") ~> (pc = "idle")

\* All the messages the server completed reach a caller that keeps receiving,
\* unless the connection ends first.
EventuallyDelivered ==
  (Len(delivered) < Len(sent)) ~> (Len(delivered) = Len(sent) \/ handle # "open" \/ ~usable)

-----------------------------------------------------------------------------
(***************************************************************************)
(* Why MessagesFaithful holds: the inductive invariant of its proof.       *)
(***************************************************************************)
IsData(f) == f.op \in DataOps

\* The server's place in its stream of messages after it sent f.
MsgAfter(f) == IF IsData(f) /\ f.fin THEN f.msg + 1 ELSE f.msg
OffAfter(f) == IF ~IsData(f) THEN f.off ELSE IF f.fin THEN 0 ELSE f.off + f.len

\* The frames in flight follow one another without a gap and lead to the
\* server's place; a final fragment tells the length of its message.
WireInv ==
  /\ server.msg = Len(sent) + 1
  /\ \A i \in 1..Len(wire) : wire[i].msg <= server.msg
  /\ \A i \in 1..(Len(wire) - 1) :
       wire[i + 1].msg = MsgAfter(wire[i]) /\ wire[i + 1].off = OffAfter(wire[i])
  /\ wire # <<>> =>
       server.msg = MsgAfter(wire[Len(wire)]) /\ server.off = OffAfter(wire[Len(wire)])
  /\ \A i \in 1..Len(wire) : IsData(wire[i]) /\ wire[i].fin =>
       /\ wire[i].msg \in 1..Len(sent)
       /\ sent[wire[i].msg] = [kind |-> wire[i].op, len |-> wire[i].off + wire[i].len]

\* The fragments of a message are of one kind.
KindInv ==
  /\ \A i, j \in 1..Len(wire) :
       IsData(wire[i]) /\ IsData(wire[j]) /\ wire[i].msg = wire[j].msg => wire[i].op = wire[j].op
  /\ \A i \in 1..Len(wire) : IsData(wire[i]) /\ wire[i].msg = server.msg => server.op = wire[i].op

\* A receive is in progress only on a usable connection nobody has closed, and
\* after a close only its answer is.
StageInv ==
  /\ usable => handle = "open"
  /\ pc \in {"recv", "pollin"} => closing = NotClosed
  /\ usable /\ closing # NotClosed => pc \in {"send", "pollout"} /\ purpose = "answer"
  /\ pc # "idle" => usable
  /\ handle = "none" => ~up /\ closing = NotClosed

\* More messages can be received.
Live ==
  /\ handle = "none" \/ usable
  /\ closing = NotClosed
  /\ ~(wire # <<>> /\ Head(wire).op = "close" /\ used > 0)

\* The buffer holds the bytes of the next message up to the client's place in
\* the first frame, or up to the server's place if no frame is in flight.
ReadInv ==
  Live =>
    /\ wire # <<>> =>
         /\ Head(wire).msg = Len(delivered) + 1
         /\ Len(buf) = Head(wire).off + IF IsData(Head(wire)) THEN used ELSE 0
    /\ wire = <<>> => used = 0 /\ server.msg = Len(delivered) + 1 /\ Len(buf) = server.off
    /\ \A j \in 1..Len(buf) : buf[j] = <<Len(delivered) + 1, j>>
    /\ started =>
         /\ \A i \in 1..Len(wire) :
              IsData(wire[i]) /\ wire[i].msg = Len(delivered) + 1 => wire[i].op = kind
         /\ server.msg = Len(delivered) + 1 => server.op = kind

Inv == TypeOK /\ WireInv /\ KindInv /\ StageInv /\ ReadInv /\ MessagesFaithful

(***************************************************************************)
(* Why OutputWellFormed holds.                                             *)
(***************************************************************************)
\* Before a frame is begun, all that was sent is whole and no close frame is in it;
\* a program's own frame in progress is no close frame.
OutInv ==
  /\ OutputWellFormed
  /\ usable /\ out # <<>> =>
       /\ pc \in {"send", "pollout"} \/ (Current.op # "close" /\ Current.taken = Current.size)
       /\ purpose = "send" => Current.op # "close"
  /\ handle = "none" => out = <<>>

(***************************************************************************)
(* Why LimitExact holds.                                                   *)
(***************************************************************************)
\* No fragment in flight reaches beyond what the server has sent of its message,
\* what is buffered is within the limit, and a refusal is the end.
LimitInv ==
  /\ LimitExact
  /\ Len(buf) <= MaxMsg
  /\ outcome = "toobig" => ~usable
  /\ handle = "none" => outcome = "none"
  /\ \A i \in 1..Len(wire) : IsData(wire[i]) =>
       wire[i].msg \in 1..server.msg /\ wire[i].off + wire[i].len <= SentSoFar(wire[i].msg)

(***************************************************************************)
(* Why StaysUsable holds.                                                  *)
(***************************************************************************)
\* A close frame is answered only after it was reported.
StaysInv ==
  /\ StaysUsable
  /\ pc \in {"send", "pollout"} /\ purpose = "answer" => closing # NotClosed

(***************************************************************************)
(* Why CloseCodeFaithful holds and the stream is the one of WsStream, where *)
(* the server closes between its messages and its close frame is kept.     *)
(***************************************************************************)
CloseKept == ~CloseInside /\ "oom" \notin Faults /\ \A len \in CloseLens : len <= MaxMsg

\* A close frame is the last in flight, behind whole messages, and as long as it
\* is read the buffer holds nothing but its first bytes.
CloseInv ==
  /\ CloseCodeFaithful
  /\ closing # NotClosed => server.close # -1 /\ out # <<>>
  /\ server.close # -1 => server.close \in CloseLens
  /\ server.op = "none" => server.off = 0
  /\ \A i \in 1..Len(wire) : wire[i].op = "close" =>
       i = Len(wire) /\ wire[i].len = server.close /\ wire[i].off = 0
  /\ wire # <<>> /\ Head(wire).op = "close" /\ (handle = "none" \/ usable) /\ closing = NotClosed =>
       /\ Len(delivered) = Len(sent) /\ Len(buf) = used
       /\ \A j \in 1..used : buf[j] = <<0, j>>

=============================================================================
