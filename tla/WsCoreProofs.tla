---------------------------- MODULE WsCoreProofs ----------------------------
(***************************************************************************)
(* Proofs about WsCore for every value of its constants.                   *)
(***************************************************************************)
EXTENDS WsCore, TLAPS

USE LimitAssumption, SizesAssumption, TimeAssumption, SwitchAssumption, BoundAssumption

-----------------------------------------------------------------------------
\* What libcurl hands over is a sequence of byte identities.
LEMMA PartType ==
  ASSUME TypeOK, wire # <<>>, NEW n \in Nat
  PROVE  /\ Part(n) \in Seq(ByteIdentity)
         /\ Len(Part(n)) = n
         /\ \A i \in 1..n : Part(n)[i] = Byte(Head(wire), used + i)
<1> DEFINE f == Head(wire)
<1>1. f \in Frames /\ used \in Nat
  BY DEF TypeOK, WireType
<1>2. \A i \in 1..n : Byte(f, used + i) \in ByteIdentity
  <2> TAKE i \in 1..n
  <2>1. used + i \in Nat \ {0} /\ f.off + (used + i) \in Nat \ {0} /\ f.msg \in Nat
    BY <1>1 DEF Frames
  <2> QED BY <2>1 DEF Byte, ByteIdentity, ByteIds
<1>3. Part(n) = [i \in 1..n |-> Byte(f, used + i)]
  BY DEF Part
<1> HIDE DEF f
<1>4. Part(n) \in Seq(ByteIdentity) /\ Len(Part(n)) = n
  BY <1>2, <1>3
<1> QED BY <1>3, <1>4 DEF f

\* curl_ws_send takes more of the current frame.
LEMMA TakeType ==
  ASSUME out \in Seq(OutFrames), out # <<>>, NEW n \in Nat, TakeBytes(n)
  PROVE  /\ out' \in Seq(OutFrames) /\ Len(out') = Len(out)
         /\ \A i \in 1..Len(out) :
              /\ out'[i].op = out[i].op /\ out'[i].size = out[i].size /\ out'[i].code = out[i].code
              /\ out'[i].taken = IF i = Len(out) THEN out[i].taken + n ELSE out[i].taken
<1> DEFINE k == Len(out)
<1>1. k \in 1..Len(out) /\ out[k] \in OutFrames
  OBVIOUS
<1>2. out' = [out EXCEPT ![k] = [out[k] EXCEPT !.taken = out[k].taken + n]]
  BY DEF TakeBytes
<1>3. [out[k] EXCEPT !.taken = out[k].taken + n] \in OutFrames
  <2> DEFINE r == out[k]
  <2>1. r \in [op : Kinds, size : Nat, taken : Nat, code : Seq(ByteIdentity)]
    BY <1>1 DEF OutFrames
  <2> HIDE DEF r
  <2>2. r.taken + n \in Nat
    BY <2>1
  <2>3. [r EXCEPT !.taken = r.taken + n] \in [op : Kinds, size : Nat, taken : Nat, code : Seq(ByteIdentity)]
    BY <2>1, <2>2
  <2> QED BY <2>3 DEF r, OutFrames
<1>4. /\ out' \in Seq(OutFrames) /\ Len(out') = Len(out)
      /\ \A i \in 1..Len(out) : out'[i] = IF i = k THEN [out[k] EXCEPT !.taken = out[k].taken + n]
                                          ELSE out[i]
  BY <1>1, <1>2, <1>3, SMTT(30)
<1>5. \A i \in 1..Len(out) : out[i] \in OutFrames
  OBVIOUS
<1>6. ASSUME NEW i \in 1..Len(out)
      PROVE  /\ out'[i].op = out[i].op /\ out'[i].size = out[i].size /\ out'[i].code = out[i].code
             /\ out'[i].taken = IF i = k THEN out[i].taken + n ELSE out[i].taken
  <2> DEFINE r == out[i]
  <2>1. r \in [op : Kinds, size : Nat, taken : Nat, code : Seq(ByteIdentity)]
    BY <1>5, <1>6 DEF OutFrames
  <2>2. out'[i] = IF i = k THEN [r EXCEPT !.taken = r.taken + n] ELSE r
    BY <1>4, <1>6
  <2> HIDE DEF r, k
  <2>3. /\ out'[i].op = r.op /\ out'[i].size = r.size /\ out'[i].code = r.code
        /\ out'[i].taken = IF i = k THEN r.taken + n ELSE r.taken
    BY <2>1, <2>2
  <2> QED BY <2>3 DEF r
<1> QED BY <1>4, <1>6 DEF k

\* A new frame begins.
LEMMA BeginType ==
  ASSUME out \in Seq(OutFrames), \A i \in 1..Len(out) : out[i].taken <= out[i].size,
         NEW op \in Kinds, NEW size \in Nat, NEW code \in Seq(ByteIdentity),
         out' = Append(out, OutFrame(op, size, code))
  PROVE  /\ out' \in Seq(OutFrames) /\ out' # <<>>
         /\ \A i \in 1..Len(out') : out'[i].taken <= out'[i].size
<1> DEFINE f == OutFrame(op, size, code)
<1>1. f \in OutFrames /\ f.taken = 0 /\ f.size = size
  BY DEF OutFrame, OutFrames
<1> HIDE DEF f
<1>2. out' = Append(out, f)
  BY DEF f
<1> QED BY <1>1, <1>2

-----------------------------------------------------------------------------
\* A frame is put on the wire.
LEMMA WireGrows ==
  ASSUME WireType, NEW f \in Frames, wire' = Append(wire, f), UNCHANGED <<used, up>>
  PROVE  WireType'
BY DEF WireType

\* What is left alone keeps its type.
LEMMA Unchanged ==
  ASSUME TypeOK
  PROVE  /\ UNCHANGED <<handle, usable, assembly, call>> => ClientType'
         /\ UNCHANGED <<out, pc>> => OutType'
         /\ UNCHANGED network => WireType'
         /\ UNCHANGED serverVars => ServerType'
         /\ UNCHANGED history => HistoryType'
BY DEF TypeOK, ClientType, OutType, WireType, ServerType, HistoryType,
       assembly, call, network, serverVars, history

\* The server and the network.
LEMMA ServerStepType ==
  ASSUME TypeOK, Server
  PROVE  TypeOK'
<1>1. ASSUME NEW op \in DataOps, NEW len \in DataLens, NEW fin \in BOOLEAN, ServerData(op, len, fin)
      PROVE TypeOK'
  <2>1. Frame(op, len, fin) \in Frames
    BY DEF Frame, Frames, Kinds, DataOps, TypeOK, ServerType, ServerStates
  <2>2. WireType'
    <3>1. wire' = Append(wire, Frame(op, len, fin)) /\ UNCHANGED <<used, up>>
      BY <1>1 DEF ServerData
    <3> QED BY <2>1, <3>1, WireGrows DEF TypeOK
  <2>3. ServerType'
    <3>1. [kind |-> op, len |-> server.off + len] \in SentMessages
      BY DEF TypeOK, ServerType, SentMessages, ServerStates
    <3>2. sent' \in Seq(SentMessages)
      <4>1. sent' = Append(sent, [kind |-> op, len |-> server.off + len]) \/ sent' = sent
        BY <1>1, Zenon DEF ServerData
      <4> QED BY <3>1, <4>1 DEF TypeOK, ServerType
    <3>3. server' \in ServerStates
      <4>1. server \in ServerStates /\ len \in Nat
        BY DEF TypeOK, ServerType
      <4>2. \/ server' = [server EXCEPT !.msg = @ + 1, !.off = 0, !.op = "none"]
            \/ server' = [server EXCEPT !.off = @ + len, !.op = op]
        BY <1>1 DEF ServerData
      <4>3. server.msg + 1 \in Nat /\ server.off + len \in Nat
        BY <4>1 DEF ServerStates
      <4>4. ASSUME NEW m \in Nat, NEW o \in Nat, NEW p \in DataOps \cup {"none"}
            PROVE [server EXCEPT !.msg = m, !.off = o, !.op = p] \in ServerStates
        BY <4>1 DEF ServerStates
      <4>5. server' = [server EXCEPT !.off = @ + len, !.op = op] =>
              server' = [server EXCEPT !.msg = server.msg, !.off = @ + len, !.op = op]
        BY <4>1 DEF ServerStates
      <4>6. server.msg \in Nat /\ 0 \in Nat
        BY <4>1 DEF ServerStates
      <4>7. [server EXCEPT !.msg = server.msg + 1, !.off = 0, !.op = "none"] \in ServerStates
        BY <4>3, <4>4, <4>6
      <4>8. [server EXCEPT !.msg = server.msg, !.off = server.off + len, !.op = op] \in ServerStates
        BY <4>3, <4>4, <4>6
      <4> QED BY <4>2, <4>5, <4>7, <4>8, Zenon
    <3>4. frames' \in Nat
      BY <1>1 DEF ServerData, TypeOK, ServerType
    <3> QED BY <3>2, <3>3, <3>4 DEF ServerType
  <2>4. ClientType' /\ OutType' /\ HistoryType'
    BY <1>1, Unchanged DEF ServerData, call
  <2> QED BY <2>2, <2>3, <2>4 DEF TypeOK
<1>2. ASSUME NEW len \in PingLens, ServerPing(len)
      PROVE TypeOK'
  <2>1. Frame("ping", len, TRUE) \in Frames
    BY DEF Frame, Frames, Kinds, DataOps, TypeOK, ServerType, ServerStates
  <2>2. WireType'
    <3>1. wire' = Append(wire, Frame("ping", len, TRUE)) /\ UNCHANGED <<used, up>>
      BY <1>2 DEF ServerPing
    <3> QED BY <2>1, <3>1, WireGrows DEF TypeOK
  <2>4. ServerType'
    BY <1>2 DEF ServerPing, serverVars, TypeOK, ServerType
  <2>3. ClientType' /\ OutType' /\ HistoryType'
    BY <1>2, Unchanged DEF ServerPing, call
  <2> QED BY <2>2, <2>3, <2>4 DEF TypeOK
<1>3. ASSUME NEW len \in CloseLens, ServerClose(len)
      PROVE TypeOK'
  <2>1. Frame("close", len, TRUE) \in Frames
    BY DEF Frame, Frames, Kinds, DataOps, TypeOK, ServerType, ServerStates
  <2>2. WireType'
    <3>1. wire' = Append(wire, Frame("close", len, TRUE)) /\ UNCHANGED <<used, up>>
      BY <1>3 DEF ServerClose
    <3> QED BY <2>1, <3>1, WireGrows DEF TypeOK
  <2>4. ServerType'
    <3>1. len \in Nat \cup {-1}
      OBVIOUS
    <3>2. frames' = frames - 1 /\ frames > 0 /\ server' = [server EXCEPT !.close = len] /\ sent' = sent
      BY <1>3 DEF ServerClose
    <3>3. server' \in ServerStates
      BY <3>1, <3>2 DEF TypeOK, ServerType, ServerStates
    <3> QED BY <3>2, <3>3 DEF TypeOK, ServerType
  <2>3. ClientType' /\ OutType' /\ HistoryType'
    BY <1>3, Unchanged DEF ServerClose, call
  <2> QED BY <2>2, <2>3, <2>4 DEF TypeOK
<1>4. CASE Drop
  <2>1. ClientType' /\ OutType' /\ ServerType' /\ HistoryType'
    BY <1>4, Unchanged DEF Drop, call
  <2>2. WireType'
    BY <1>4 DEF Drop, TypeOK, WireType
  <2> QED BY <2>1, <2>2 DEF TypeOK
<1> QED BY <1>1, <1>2, <1>3, <1>4 DEF Server

\* The calls the caller starts, and time.
LEMMA CallType ==
  ASSUME TypeOK, Call \/ Tick
  PROVE  TypeOK'
<1>1. CASE Tick
  <2>1. OutType' /\ WireType' /\ ServerType' /\ HistoryType'
    BY <1>1, Unchanged DEF Tick
  <2>2. ClientType'
    BY <1>1 DEF Tick, TypeOK, ClientType, assembly
  <2> QED BY <2>1, <2>2 DEF TypeOK
<1>2. CASE Open \/ OpenFails
  <2>1. OutType' /\ ServerType' /\ HistoryType'
    BY <1>2, Unchanged DEF Open, OpenFails, call
  <2>2. ClientType' /\ WireType'
    BY <1>2 DEF Open, OpenFails, TypeOK, ClientType, WireType, assembly, call, network, Outcomes
  <2> QED BY <2>1, <2>2 DEF TypeOK
<1>3. CASE \E t \in RecvTimeouts : Recv(t)
  <2>1. WireType' /\ ServerType' /\ HistoryType'
    BY <1>3, Unchanged DEF Recv
  <2>2. ClientType' /\ OutType'
    BY <1>3 DEF Recv, TypeOK, ClientType, OutType, assembly
  <2> QED BY <2>1, <2>2 DEF TypeOK
<1>4. CASE SendRefused \/ FreeUnusable
  <2>1. WireType' /\ ServerType' /\ HistoryType'
    BY <1>4, Unchanged DEF SendRefused, Refused, FreeUnusable
  <2>2. ClientType' /\ OutType'
    BY <1>4 DEF SendRefused, Refused, FreeUnusable, Returns, TypeOK, ClientType, OutType, assembly,
                Outcomes
  <2> QED BY <2>1, <2>2 DEF TypeOK
<1>5. ASSUME NEW op \in DataOps, NEW len \in SendLens, Send(op, len)
      PROVE TypeOK'
  <2>1. WireType' /\ ServerType' /\ HistoryType'
    BY <1>5, Unchanged DEF Send
  <2>2. ClientType'
    BY <1>5 DEF Send, BeginFrame, TypeOK, ClientType, assembly
  <2>3. OutType'
    <3>1. op \in Kinds /\ len \in Nat /\ <<>> \in Seq(ByteIdentity)
      BY DEF Kinds
    <3>2. out' = Append(out, OutFrame(op, len, <<>>))
      BY <1>5 DEF Send, BeginFrame
    <3> QED BY <3>1, <3>2, BeginType DEF OutType, TypeOK
  <2> QED BY <2>1, <2>2, <2>3 DEF TypeOK
<1>6. CASE FreeUsable
  <2>1. WireType' /\ ServerType' /\ HistoryType'
    BY <1>6, Unchanged DEF FreeUsable
  <2>2. ClientType'
    BY <1>6 DEF FreeUsable, BeginFrame, TypeOK, ClientType, assembly
  <2>3. OutType'
    <3>1. "close" \in Kinds /\ 2 \in Nat /\ NormalClosure \in Seq(ByteIdentity)
      BY DEF Kinds, NormalClosure, ByteIdentity, ByteIds
    <3>2. out' = Append(out, OutFrame("close", 2, NormalClosure))
      BY <1>6 DEF FreeUsable, BeginFrame
    <3> QED BY <3>1, <3>2, BeginType DEF OutType, TypeOK
  <2> QED BY <2>1, <2>2, <2>3 DEF TypeOK
<1> QED BY <1>1, <1>2, <1>3, <1>4, <1>5, <1>6 DEF Call

\* ws_send_frame.
LEMMA FrameReturnsType ==
  ASSUME TypeOK, NEW ok \in BOOLEAN, FrameReturns(ok), UNCHANGED assembly
  PROVE  ClientType' /\ pc' = "idle"
<1>1. usable' \in BOOLEAN /\ handle' \in {"none", "open", "freed"}
  BY DEF FrameReturns, TypeOK, ClientType
<1>2. outcome' \in Outcomes
  BY DEF FrameReturns, Outcomes
<1> QED BY <1>1, <1>2 DEF FrameReturns, TypeOK, ClientType, assembly

LEMMA SendType ==
  ASSUME TypeOK, SendStep
  PROVE  TypeOK'
<1>0. WireType' /\ ServerType' /\ HistoryType'
  <2>1. UNCHANGED <<network, serverVars, history>>
    BY DEF SendStep, SendComplete, SendBlocked, SendTimesOut, SendError, WaitedToSend, WaitToSendFails
  <2> QED BY <2>1, Unchanged
<1>1. ASSUME NEW n \in 0..(Current.size - Current.taken), pc = "send", TakeBytes(n)
      PROVE  /\ out' \in Seq(OutFrames) /\ out' # <<>>
             /\ \A i \in 1..Len(out') : out'[i].taken <= out'[i].size
  <2>1. out \in Seq(OutFrames) /\ out # <<>> /\ \A i \in 1..Len(out) : out[i].taken <= out[i].size
    BY <1>1 DEF TypeOK, OutType
  <2>2. Len(out) \in 1..Len(out) /\ n \in Nat /\ \A i \in 1..Len(out) : out[i] \in OutFrames
    BY <2>1
  <2>3. Current.size \in Nat /\ Current.taken \in Nat /\ Current.taken + n <= Current.size
    BY <2>1, <2>2, <1>1, SMTT(30) DEF Current, OutFrames
  <2>4. /\ out' \in Seq(OutFrames) /\ Len(out') = Len(out)
        /\ \A i \in 1..Len(out) :
             /\ out'[i].size = out[i].size
             /\ out'[i].taken = IF i = Len(out) THEN out[i].taken + n ELSE out[i].taken
    BY <2>1, <2>2, <1>1, TakeType
  <2> QED BY <2>1, <2>2, <2>3, <2>4 DEF Current
<1>2. CASE SendComplete
  <2>1. Current.size - Current.taken \in 0..(Current.size - Current.taken)
    <3>1. pc = "send" /\ out # <<>> /\ out \in Seq(OutFrames)
          /\ \A i \in 1..Len(out) : out[i].taken <= out[i].size
      BY <1>2 DEF SendComplete, TypeOK, OutType
    <3>2. Len(out) \in 1..Len(out) /\ Current \in OutFrames
      BY <3>1 DEF Current
    <3> QED BY <3>1, <3>2 DEF Current, OutFrames
  <2>2. ClientType' /\ pc' = "idle"
    BY <1>2, FrameReturnsType DEF SendComplete
  <2>3. OutType'
    BY <1>1, <1>2, <2>1, <2>2 DEF SendComplete, OutType
  <2> QED BY <1>0, <2>2, <2>3 DEF TypeOK
<1>3. ASSUME NEW n \in 0..(Current.size - Current.taken), SendBlocked(n) \/ SendTimesOut(n)
      PROVE TypeOK'
  <2>1. OutType'
    BY <1>1, <1>3 DEF SendBlocked, SendTimesOut, OutType
  <2>2. ClientType'
    BY <1>3, FrameReturnsType DEF SendBlocked, SendTimesOut, TypeOK, ClientType, assembly
  <2> QED BY <1>0, <2>1, <2>2 DEF TypeOK
<1>4. CASE SendError \/ WaitToSendFails
  <2>1. ClientType' /\ pc' = "idle"
    BY <1>4, FrameReturnsType DEF SendError, WaitToSendFails
  <2>2. OutType'
    BY <1>4, <2>1 DEF SendError, WaitToSendFails, TypeOK, OutType
  <2> QED BY <1>0, <2>1, <2>2 DEF TypeOK
<1>5. CASE WaitedToSend
  BY <1>0, <1>5 DEF WaitedToSend, TypeOK, ClientType, OutType, assembly
<1> QED BY <1>2, <1>3, <1>4, <1>5 DEF SendStep

-----------------------------------------------------------------------------
\* libcurl hands over a part of the first frame.
LEMMA HandsOverType ==
  ASSUME TypeOK, NEW n \in PartSizes, HandsOver(n)
  PROVE  /\ n \in Nat /\ Head(wire) \in Frames
         /\ Part(n) \in Seq(ByteIdentity)
         /\ WireType'
<1>1. wire \in Seq(Frames) /\ wire # <<>> /\ used \in Nat /\ up \in BOOLEAN
  BY DEF HandsOver, TypeOK, WireType
<1>2. Head(wire) \in Frames /\ Head(wire).len \in Nat
  <2>1. Head(wire) \in Frames
    BY <1>1
  <2> QED BY <2>1 DEF Frames
<1>3. n \in Nat
  BY <1>1, <1>2 DEF PartSizes
<1>4. WireType'
  <2>1. CASE BytesLeft(n) = 0
    <3>1. wire' = Tail(wire) /\ used' = 0 /\ up' = up
      BY <2>1 DEF HandsOver
    <3> QED BY <1>1, <3>1 DEF WireType
  <2>2. CASE BytesLeft(n) # 0
    <3>1. wire' = wire /\ used' = used + n /\ up' = up
      BY <2>2 DEF HandsOver
    <3> QED BY <1>1, <1>3, <3>1 DEF WireType
  <2> QED BY <2>1, <2>2
<1> QED BY <1>1, <1>2, <1>3, <1>4, PartType

LEMMA RecvType ==
  ASSUME TypeOK, RecvStep
  PROVE  TypeOK'
<1>1. CASE RecvAgain \/ RecvTimesOut \/ WaitedToRecv \/ RecvFails
  <2>1. WireType' /\ ServerType' /\ HistoryType'
    BY <1>1, Unchanged DEF RecvAgain, RecvTimesOut, WaitedToRecv, RecvFails
  <2>2. ClientType' /\ OutType'
    BY <1>1, ZenonT(60) DEF RecvAgain, RecvTimesOut, WaitedToRecv, RecvFails, Returns, TypeOK, ClientType,
                OutType, assembly, Outcomes
  <2> QED BY <2>1, <2>2 DEF TypeOK
<1>2. ASSUME NEW n \in PartSizes, HandsOver(n)
      PROVE  /\ n \in Nat /\ Part(n) \in Seq(ByteIdentity) /\ WireType'
             /\ StartedKind \in Kinds \/ Head(wire).op = "ping"
             /\ buf \o Part(n) \in Seq(ByteIdentity)
  <2>1. n \in Nat /\ Head(wire) \in Frames /\ Part(n) \in Seq(ByteIdentity) /\ WireType'
    BY <1>2, HandsOverType
  <2>2. StartedKind \in Kinds \/ Head(wire).op = "ping"
    BY <2>1 DEF StartedKind, TypeOK, ClientType, Frames
  <2>3. buf \o Part(n) \in Seq(ByteIdentity)
    BY <2>1 DEF TypeOK, ClientType
  <2> QED BY <2>1, <2>2, <2>3
<1>3. ASSUME NEW n \in PartSizes, RecvPing(n)
      PROVE TypeOK'
  BY <1>2, <1>3, Unchanged DEF RecvPing, TypeOK, call
<1>4. ASSUME NEW n \in PartSizes, RecvTooBig(n) \/ RecvPart(n)
      PROVE TypeOK'
  <2>1. WireType' /\ buf \o Part(n) \in Seq(ByteIdentity)
    BY <1>2, <1>4 DEF RecvTooBig, RecvPart
  <2>2. Head(wire).op # "ping" /\ HandsOver(n)
    BY <1>4 DEF RecvTooBig, RecvPart, DataOps
  <2>3. StartedKind \in Kinds
    BY <1>2, <2>2
  <2>4. ServerType' /\ HistoryType'
    BY <1>4, Unchanged DEF RecvTooBig, RecvPart
  <2>5. ClientType' /\ OutType'
    BY <1>4, <2>1, <2>3, ZenonT(60) DEF RecvTooBig, RecvPart, Returns, TypeOK, ClientType, OutType, call, Outcomes
  <2> QED BY <2>1, <2>4, <2>5 DEF TypeOK
<1>5. ASSUME NEW n \in PartSizes, RecvLast(n)
      PROVE TypeOK'
  <2>1. WireType' /\ buf \o Part(n) \in Seq(ByteIdentity)
    BY <1>2, <1>5 DEF RecvLast
  <2>2. StartedKind \in Kinds
    BY <1>2, <1>5 DEF RecvLast, DataOps
  <2>3. ServerType'
    BY <1>5, Unchanged DEF RecvLast
  <2>4. HistoryType'
    <3>1. [kind |-> StartedKind, data |-> buf \o Part(n)] \in Messages
      BY <2>1, <2>2 DEF Messages
    <3> QED BY <1>5, <3>1 DEF RecvLast, TypeOK, HistoryType
  <2>5. ClientType' /\ OutType'
    <3>1. buf' \in Seq(ByteIdentity)
      BY <1>5 DEF RecvLast
    <3>2. UNCHANGED <<handle, usable, out, purpose, left>> /\ started' = FALSE /\ kind' = StartedKind
          /\ pc' = "idle" /\ outcome' = "message"
      BY <1>5 DEF RecvLast, Returns
    <3> QED BY <2>2, <3>1, <3>2 DEF TypeOK, ClientType, OutType, Outcomes
  <2> QED BY <2>1, <2>3, <2>4, <2>5 DEF TypeOK
<1>6. ASSUME NEW n \in PartSizes, HandsOver(n)
      PROVE CloseBuffers(n) \subseteq Seq(ByteIdentity)
  <2>1. buf \o Part(n) \in Seq(ByteIdentity) /\ <<>> \in Seq(ByteIdentity)
    BY <1>2, <1>6
  <2> QED BY <2>1, Zenon DEF CloseBuffers
<1>7. ASSUME NEW n \in PartSizes, RecvClosePart(n)
      PROVE TypeOK'
  <2>1. WireType' /\ buf' \in Seq(ByteIdentity) /\ StartedKind \in Kinds
    BY <1>2, <1>6, <1>7 DEF RecvClosePart
  <2>2. ServerType' /\ HistoryType'
    BY <1>7, Unchanged DEF RecvClosePart
  <2>3. ClientType' /\ OutType'
    BY <1>7, <2>1 DEF RecvClosePart, TypeOK, ClientType, OutType, call
  <2> QED BY <2>1, <2>2, <2>3 DEF TypeOK
<1>8. ASSUME NEW n \in PartSizes, RecvCloseEnd(n)
      PROVE TypeOK'
  <2>1. WireType' /\ StartedKind \in Kinds
    BY <1>2, <1>8 DEF RecvCloseEnd
  <2>2. ServerType'
    BY <1>8, Unchanged DEF RecvCloseEnd
  <2>3. PICK b \in CloseBuffers(n) : \E r \in ReasonsOf(b) :
          /\ closing' = [code |-> StatusOf(b), reason |-> r]
          /\ BeginFrame(OutFrame("close", Len(StatusOf(b)), StatusOf(b)), "answer")
    BY <1>8 DEF RecvCloseEnd
  <2>4. b \in Seq(ByteIdentity)
    BY <1>6, <1>8, <2>3 DEF RecvCloseEnd
  <2>5. StatusOf(b) \in Seq(ByteIdentity) /\ Len(StatusOf(b)) \in Nat
    BY <2>4 DEF StatusOf
  <2>6. ReasonsOf(b) \subseteq Seq(ByteIdentity)
    <3>1. Len(b) >= 2 => SubSeq(b, 3, Len(b)) \in Seq(ByteIdentity)
      BY <2>4
    <3>2. <<>> \in Seq(ByteIdentity)
      OBVIOUS
    <3>3. \A r \in ReasonsOf(b) : (Len(b) >= 2 /\ r = SubSeq(b, 3, Len(b))) \/ r = <<>>
      BY <2>4 DEF ReasonsOf
    <3> QED BY <3>1, <3>2, <3>3
  <2>7. HistoryType'
    BY <1>8, <2>3, <2>5, <2>6 DEF RecvCloseEnd, TypeOK, HistoryType, CloseMessages
  <2>8. OutType'
    <3>1. "close" \in Kinds
      BY DEF Kinds
    <3>2. out' = Append(out, OutFrame("close", Len(StatusOf(b)), StatusOf(b)))
      BY <2>3 DEF BeginFrame
    <3>3. out \in Seq(OutFrames) /\ \A i \in 1..Len(out) : out[i].taken <= out[i].size
      BY DEF TypeOK, OutType
    <3> QED BY <2>5, <3>1, <3>2, <3>3, BeginType DEF OutType
  <2>9. ClientType'
    <3>1. buf' \in Seq(ByteIdentity)
      BY <1>8 DEF RecvCloseEnd
    <3>2. UNCHANGED <<handle, usable, outcome>> /\ started' = FALSE /\ kind' = StartedKind
      BY <1>8 DEF RecvCloseEnd
    <3>3. pc' = "send" /\ purpose' = "answer" /\ left' = SendPatience
      BY <2>3 DEF BeginFrame
    <3>4. left' \in Int
      BY <3>3
    <3> QED BY <2>1, <3>1, <3>2, <3>3, <3>4 DEF TypeOK, ClientType
  <2> QED BY <2>1, <2>2, <2>7, <2>8, <2>9 DEF TypeOK
<1> QED BY <1>1, <1>3, <1>4, <1>5, <1>7, <1>8 DEF RecvStep, Receive, HandOver

-----------------------------------------------------------------------------
LEMMA TypeCorrectInit == Init => TypeOK
<1> SUFFICES ASSUME Init PROVE TypeOK
  OBVIOUS
<1>1. ClientType /\ OutType /\ WireType
  <2>1. buf \in Seq(ByteIdentity) /\ out \in Seq(OutFrames) /\ Len(out) = 0 /\ wire \in Seq(Frames)
    BY DEF Init
  <2>2. kind \in Kinds /\ outcome \in Outcomes
    BY DEF Init, Kinds, DataOps, Outcomes
  <2>3. /\ handle = "none" /\ usable = FALSE /\ started = FALSE /\ up = FALSE /\ used = 0
        /\ pc = "idle" /\ purpose = "send" /\ left = 0
    BY DEF Init
  <2>4. usable \in BOOLEAN /\ started \in BOOLEAN /\ up \in BOOLEAN
    BY <2>3, Zenon
  <2>6. left \in Int /\ used \in Nat
    BY <2>3
  <2>5. \A i \in 1..Len(out) : out[i].taken <= out[i].size
    BY <2>1
  <2> QED BY <2>1, <2>2, <2>3, <2>4, <2>5, <2>6 DEF ClientType, OutType, WireType
<1>2. ServerType
  BY DEF Init, ServerType, ServerStates
<1>3. HistoryType
  <2>1. NotClosed \in CloseMessages
    BY DEF NotClosed, CloseMessages, ByteIdentity, ByteIds
  <2> QED BY <2>1 DEF Init, HistoryType
<1> QED BY <1>1, <1>2, <1>3 DEF TypeOK

\* The variables keep their types in every behaviour, libcurl is never given
\* more than a frame holds, and ws_send_frame has a frame while it runs.
THEOREM TypeCorrect == Spec => []TypeOK
<1>2. TypeOK /\ [Next]_vars => TypeOK'
  <2> SUFFICES ASSUME TypeOK, [Next]_vars PROVE TypeOK'
    OBVIOUS
  <2>1. CASE UNCHANGED vars
    BY <2>1, Unchanged DEF vars, call, TypeOK
  <2>2. CASE Done
    BY <2>2, Unchanged DEF Done, vars, call, TypeOK
  <2> QED BY <2>1, <2>2, ServerStepType, CallType, SendType, RecvType DEF Next
<1> QED BY TypeCorrectInit, <1>2, PTL DEF Spec

-----------------------------------------------------------------------------
(***************************************************************************)
(* MessagesFaithful.  Inv is inductive: the steps of the server extend     *)
(* wire, the steps that hand over a part shorten it, and all others leave  *)
(* wire, the buffer and the histories alone.                               *)
(***************************************************************************)
\* A step that touches neither the stream nor the buffer keeps the invariant
\* if it keeps its stages and revives no connection.
LEMMA ControlStep ==
  ASSUME Inv, TypeOK', StageInv', Live' => Live,
         UNCHANGED <<wire, used, server, sent, buf, started, kind, delivered>>
  PROVE  Inv'
<1>1. WireInv' /\ KindInv'
  BY DEF Inv, WireInv, KindInv
<1>2. MessagesFaithful'
  BY DEF Inv, MessagesFaithful, Whole
<1>3. ReadInv'
  BY DEF Inv, ReadInv
<1> QED BY <1>1, <1>2, <1>3 DEF Inv

LEMMA ControlSteps ==
  ASSUME Inv, TypeOK',
         \/ Tick \/ Call \/ SendStep \/ Drop
         \/ RecvAgain \/ RecvTimesOut \/ WaitedToRecv \/ RecvFails
  PROVE  Inv'
<1>1. UNCHANGED <<wire, used, server, sent, buf, started, kind, delivered, closing>>
  BY DEF Tick, Call, Open, OpenFails, Send, Recv, SendRefused, Refused, FreeUsable, FreeUnusable,
         SendStep, SendComplete, SendBlocked, SendTimesOut, SendError, WaitedToSend, WaitToSendFails,
         Drop, RecvAgain, RecvTimesOut, WaitedToRecv, RecvFails,
         assembly, network, serverVars, history
<1>2. StageInv /\ TypeOK
  BY DEF Inv
<1>3. StageInv' /\ (handle' = "none" \/ usable' => handle = "none" \/ usable)
  <2>1. CASE Tick \/ Drop
    BY <1>1, <1>2, <2>1 DEF Tick, Drop, StageInv, call
  <2>2. CASE Open \/ OpenFails
    BY <1>1, <1>2, <2>2 DEF Open, OpenFails, StageInv, call, network, TypeOK, ClientType
  <2>3. CASE Call /\ ~(Open \/ OpenFails)
    <3>1. pc = "idle" /\ handle = "open" /\ up' = up /\ usable' = usable
      BY <2>3 DEF Call, Send, Recv, SendRefused, Refused, FreeUsable, FreeUnusable, network
    <3>2. closing = NotClosed \/ ~usable
      BY <1>2, <3>1 DEF StageInv
    <3>3. handle' = "open" \/ (handle' = "freed" /\ ~usable /\ pc' = "idle")
      BY <2>3, <3>1 DEF Call, Send, Recv, SendRefused, Refused, FreeUsable, FreeUnusable, Returns
    <3>4. pc' = "idle" \/ (pc' \in {"recv", "send"} /\ usable /\ handle' = "open")
      BY <2>3, <3>1 DEF Call, Send, Recv, SendRefused, Refused, FreeUsable, FreeUnusable, Returns,
         BeginFrame
    <3> QED BY <1>1, <1>2, <3>1, <3>2, <3>3, <3>4 DEF StageInv
  <2>4. CASE SendStep
    <3>1. CASE \E ok \in BOOLEAN : pc \in {"send", "pollout"} /\ FrameReturns(ok) /\ up' = up
      <4>1. PICK ok \in BOOLEAN : FrameReturns(ok) /\ up' = up /\ pc \in {"send", "pollout"}
        BY <3>1
      <4>2. pc' = "idle" /\ (usable' => ok /\ purpose = "send")
            /\ handle' = IF purpose = "free" THEN "freed" ELSE handle
        BY <4>1 DEF FrameReturns
      <4>3. handle = "open" /\ up' = up
        BY <1>2, <4>1 DEF StageInv
      <4>4. usable /\ (closing # NotClosed => purpose = "answer")
        BY <1>2, <4>1 DEF StageInv
      <4> QED BY <4>4, <1>1, <1>2, <4>2, <4>3 DEF StageInv
    <3>2. CASE pc \in {"send", "pollout"} /\ pc' \in {"send", "pollout"}
               /\ UNCHANGED <<handle, usable, purpose, up>>
      BY <1>1, <1>2, <3>2 DEF StageInv
    <3> QED BY <2>4, <3>1, <3>2 DEF SendStep, SendComplete, SendBlocked, SendTimesOut, SendError,
               WaitedToSend, WaitToSendFails, network
  <2>5. CASE RecvAgain \/ RecvTimesOut \/ WaitedToRecv \/ RecvFails
    BY <1>1, <1>2, <2>5 DEF RecvAgain, RecvTimesOut, WaitedToRecv, RecvFails, Returns, StageInv, network
  <2> QED BY <2>1, <2>2, <2>3, <2>4, <2>5
<1>4. Live' => Live
  BY <1>1, <1>3 DEF Live
<1> QED BY <1>1, <1>3, <1>4, ControlStep

-----------------------------------------------------------------------------
\* wire as a sequence of frames.
LEMMA WireFacts ==
  ASSUME TypeOK
  PROVE  /\ wire \in Seq(Frames) /\ Len(wire) \in Nat
         /\ \A i \in 1..Len(wire) :
              /\ wire[i] \in Frames /\ wire[i].len \in Nat /\ wire[i].msg \in Nat /\ wire[i].off \in Nat
              /\ wire[i].fin \in BOOLEAN
         /\ wire # <<>> => 1 \in 1..Len(wire) /\ Len(wire) \in 1..Len(wire) /\ Head(wire) = wire[1]
<1>1. wire \in Seq(Frames)
  BY DEF TypeOK, WireType
<1>2. \A i \in 1..Len(wire) : wire[i] \in Frames
  BY <1>1
<1>3. ASSUME NEW f \in Frames
      PROVE f.len \in Nat /\ f.msg \in Nat /\ f.off \in Nat /\ f.fin \in BOOLEAN
  BY <1>3 DEF Frames
<1>4. wire # <<>> => 1 \in 1..Len(wire) /\ Len(wire) \in 1..Len(wire) /\ Head(wire) = wire[1]
  BY <1>1
<1> QED BY <1>1, <1>2, <1>3, <1>4

\* The server's place in its stream.
LEMMA ServerFacts ==
  ASSUME TypeOK
  PROVE  /\ server.msg \in Nat /\ server.off \in Nat
         /\ sent \in Seq(SentMessages) /\ Len(sent) \in Nat
         /\ delivered \in Seq(Messages) /\ Len(delivered) \in Nat
         /\ buf \in Seq(ByteIdentity) /\ Len(buf) \in Nat
         /\ used \in Nat
<1>1. server \in ServerStates
  BY DEF TypeOK, ServerType
<1>2. server.msg \in Nat /\ server.off \in Nat
  BY <1>1 DEF ServerStates
<1>3. sent \in Seq(SentMessages) /\ delivered \in Seq(Messages) /\ buf \in Seq(ByteIdentity) /\ used \in Nat
  BY DEF TypeOK, ServerType, HistoryType, ClientType, WireType
<1> QED BY <1>2, <1>3

\* The server sends frame f, which has the server's place, and moves on.
LEMMA GrowStep ==
  ASSUME Inv, TypeOK', StageInv', NEW f \in Frames, wire' = Append(wire, f),
         f.msg = server.msg, f.off = server.off,
         server'.msg = MsgAfter(f), server'.off = OffAfter(f),
         IsData(f) => server.op \in {"none", f.op} /\ server'.op = IF f.fin THEN "none" ELSE f.op,
         ~IsData(f) => server'.op = server.op,
         IF IsData(f) /\ f.fin
         THEN sent' = Append(sent, [kind |-> f.op, len |-> f.off + f.len])
         ELSE sent' = sent,
         UNCHANGED <<handle, usable, used, buf, started, kind, delivered, closing>>
  PROVE  Inv'
<1>1. /\ wire \in Seq(Frames) /\ Len(wire) \in Nat
      /\ Len(wire') = Len(wire) + 1 /\ wire' # <<>>
      /\ \A i \in 1..Len(wire) : wire'[i] = wire[i]
      /\ wire'[Len(wire) + 1] = f
  BY WireFacts DEF Inv
<1>2. /\ server.msg = Len(sent) + 1 /\ Len(sent) \in Nat /\ server.msg \in Nat
      /\ server'.msg = IF IsData(f) /\ f.fin THEN server.msg + 1 ELSE server.msg
  BY ServerFacts DEF Inv, WireInv, MsgAfter
<1>3. /\ Len(sent') = IF IsData(f) /\ f.fin THEN Len(sent) + 1 ELSE Len(sent)
      /\ \A k \in 1..Len(sent) : sent'[k] = sent[k]
      /\ IsData(f) /\ f.fin => sent'[Len(sent) + 1] = [kind |-> f.op, len |-> f.off + f.len]
  <2>1. sent \in Seq(SentMessages)
    BY ServerFacts DEF Inv
  <2>2. CASE IsData(f) /\ f.fin
    <3> DEFINE m == [kind |-> f.op, len |-> f.off + f.len]
    <3>1. sent' = Append(sent, m)
      BY <2>2
    <3> HIDE DEF m
    <3>2. /\ Len(sent') = Len(sent) + 1
          /\ \A k \in 1..Len(sent) : sent'[k] = sent[k]
          /\ sent'[Len(sent) + 1] = m
      BY <2>1, <3>1
    <3> QED BY <2>2, <3>2 DEF m
  <2>3. CASE ~(IsData(f) /\ f.fin)
    BY <2>3
  <2> QED BY <2>2, <2>3
<1>4. WireInv'
  <2>1. (server.msg = Len(sent) + 1)'
    BY <1>2, <1>3
  <2>2. \A i \in 1..Len(wire') : wire'[i].msg <= server'.msg
    <3> TAKE i \in 1..Len(wire')
    <3>1. server.msg <= server'.msg
      BY <1>2
    <3>2. CASE i = Len(wire) + 1
      BY <1>1, <3>1, <3>2
    <3>3. CASE i # Len(wire) + 1
      <4>1. i \in 1..Len(wire) /\ wire'[i] = wire[i]
        BY <1>1, <3>3
      <4>2. wire[i].msg <= server.msg /\ wire[i].msg \in Nat
        BY <4>1, WireFacts DEF Inv, WireInv
      <4> QED BY <1>2, <3>1, <4>1, <4>2
    <3> QED BY <3>2, <3>3
  <2>3. \A i \in 1..(Len(wire') - 1) :
          wire'[i + 1].msg = MsgAfter(wire'[i]) /\ wire'[i + 1].off = OffAfter(wire'[i])
    <3> TAKE i \in 1..(Len(wire') - 1)
    <3>1. i \in 1..Len(wire) /\ wire'[i] = wire[i]
      BY <1>1
    <3>2. CASE i = Len(wire)
      <4>1. wire # <<>> /\ wire'[i + 1] = f
        BY <1>1, <3>2, <3>1
      <4> QED BY <3>1, <3>2, <4>1 DEF Inv, WireInv
    <3>3. CASE i # Len(wire)
      <4>1. i \in 1..(Len(wire) - 1) /\ wire'[i + 1] = wire[i + 1]
        BY <1>1, <3>1, <3>3
      <4> QED BY <3>1, <4>1 DEF Inv, WireInv
    <3> QED BY <3>2, <3>3
  <2>4. server'.msg = MsgAfter(wire'[Len(wire')]) /\ server'.off = OffAfter(wire'[Len(wire')])
    BY <1>1
  <2>5. \A i \in 1..Len(wire') : IsData(wire'[i]) /\ wire'[i].fin =>
          /\ wire'[i].msg \in 1..Len(sent')
          /\ sent'[wire'[i].msg] = [kind |-> wire'[i].op, len |-> wire'[i].off + wire'[i].len]
    <3> SUFFICES ASSUME NEW i \in 1..Len(wire'), IsData(wire'[i]), wire'[i].fin
                 PROVE  /\ wire'[i].msg \in 1..Len(sent')
                        /\ sent'[wire'[i].msg] = [kind |-> wire'[i].op, len |-> wire'[i].off + wire'[i].len]
      OBVIOUS
    <3>1. CASE i = Len(wire) + 1
      BY <1>1, <1>2, <1>3, <3>1
    <3>2. CASE i # Len(wire) + 1
      <4>1. i \in 1..Len(wire) /\ wire'[i] = wire[i]
        BY <1>1, <3>2
      <4>2. wire[i].msg \in 1..Len(sent)
            /\ sent[wire[i].msg] = [kind |-> wire[i].op, len |-> wire[i].off + wire[i].len]
        BY <4>1 DEF Inv, WireInv
      <4> QED BY <1>2, <1>3, <4>1, <4>2
    <3> QED BY <3>1, <3>2
  <2> QED BY <2>1, <2>2, <2>3, <2>4, <2>5 DEF WireInv
<1>5. KindInv'
  <2>1. ASSUME NEW i \in 1..Len(wire), IsData(wire[i]), IsData(f), wire[i].msg = f.msg
        PROVE wire[i].op = f.op
    BY <2>1 DEF Inv, KindInv, IsData, DataOps
  <2>2. \A i, j \in 1..Len(wire') :
          IsData(wire'[i]) /\ IsData(wire'[j]) /\ wire'[i].msg = wire'[j].msg => wire'[i].op = wire'[j].op
    <3> TAKE i, j \in 1..Len(wire')
    <3>1. i \in 1..Len(wire) \/ i = Len(wire) + 1
      BY <1>1
    <3>2. j \in 1..Len(wire) \/ j = Len(wire) + 1
      BY <1>1
    <3> QED BY <1>1, <2>1, <3>1, <3>2 DEF Inv, KindInv
  <2>3. \A i \in 1..Len(wire') : IsData(wire'[i]) /\ wire'[i].msg = server'.msg => server'.op = wire'[i].op
    <3> SUFFICES ASSUME NEW i \in 1..Len(wire'), IsData(wire'[i]), wire'[i].msg = server'.msg
                 PROVE server'.op = wire'[i].op
      OBVIOUS
    <3>1. ~(IsData(f) /\ f.fin)
      <4>1. wire'[i].msg <= server.msg
        BY <1>1, <1>2 DEF Inv, WireInv
      <4> QED BY <1>2, <4>1
    <3>2. CASE i = Len(wire) + 1
      BY <1>1, <3>1, <3>2
    <3>3. CASE i # Len(wire) + 1
      <4>1. i \in 1..Len(wire) /\ wire'[i] = wire[i]
        BY <1>1, <3>3
      <4>2. server.op = wire[i].op
        BY <1>2, <3>1, <4>1 DEF Inv, KindInv
      <4> QED BY <1>2, <2>1, <3>1, <4>1, <4>2
    <3> QED BY <3>2, <3>3
  <2> QED BY <2>2, <2>3 DEF KindInv
<1>6. MessagesFaithful'
  <2>1. /\ Len(delivered) <= Len(sent)
        /\ \A i \in 1..Len(delivered) : i \in 1..Len(sent) /\ delivered[i] = Whole(i)
    BY ServerFacts DEF Inv, MessagesFaithful
  <2>2. \A i \in 1..Len(delivered) : Whole(i)' = Whole(i)
    BY <1>3, <2>1 DEF Whole
  <2>3. Len(sent) <= Len(sent')
    BY <1>2, <1>3
  <2> QED BY <2>1, <2>2, <2>3, ServerFacts, <1>2, <1>3 DEF MessagesFaithful, Inv
<1>7. ReadInv'
  <2> SUFFICES ASSUME Live' PROVE ReadInv'
    BY DEF ReadInv
  <2>1. Head(wire') = IF wire = <<>> THEN f ELSE Head(wire)
    BY <1>1
  <2>2. Live
    BY <2>1, <1>1 DEF Live
  <2>3. /\ wire # <<>> =>
             /\ Head(wire).msg = Len(delivered) + 1
             /\ Len(buf) = Head(wire).off + IF IsData(Head(wire)) THEN used ELSE 0
        /\ wire = <<>> => used = 0 /\ server.msg = Len(delivered) + 1 /\ Len(buf) = server.off
        /\ \A j \in 1..Len(buf) : buf[j] = <<Len(delivered) + 1, j>>
    BY <2>2 DEF Inv, ReadInv
  <2>4. /\ Head(wire').msg = Len(delivered) + 1
        /\ Len(buf) = Head(wire').off + IF IsData(Head(wire')) THEN used ELSE 0
    BY <2>1, <2>3, ServerFacts DEF Inv
  <2>5. started =>
          /\ \A i \in 1..Len(wire') :
               IsData(wire'[i]) /\ wire'[i].msg = Len(delivered) + 1 => wire'[i].op = kind
          /\ server'.msg = Len(delivered) + 1 => server'.op = kind
    <3> SUFFICES ASSUME started
                 PROVE  /\ \A i \in 1..Len(wire') :
                             IsData(wire'[i]) /\ wire'[i].msg = Len(delivered) + 1 => wire'[i].op = kind
                        /\ server'.msg = Len(delivered) + 1 => server'.op = kind
      OBVIOUS
    <3>1. /\ \A i \in 1..Len(wire) :
               IsData(wire[i]) /\ wire[i].msg = Len(delivered) + 1 => wire[i].op = kind
          /\ server.msg = Len(delivered) + 1 => server.op = kind
      BY <2>2 DEF Inv, ReadInv
    <3>2. Len(delivered) + 1 <= server.msg
      <4>1. CASE wire = <<>>
        BY <4>1, <2>3, <1>2
      <4>2. CASE wire # <<>>
        BY <4>2, <2>3, <1>2, WireFacts DEF Inv, WireInv
      <4> QED BY <4>1, <4>2
    <3>3. server.msg = Len(delivered) + 1 /\ IsData(f) => f.op = kind
      <4>1. kind # "none"
        BY DEF Inv, TypeOK, ClientType, Kinds, DataOps
      <4> QED BY <3>1, <4>1
    <3> QED BY <1>1, <1>2, <3>1, <3>2, <3>3, ServerFacts DEF Inv
  <2> QED BY <1>1, <2>3, <2>4, <2>5 DEF ReadInv
<1> QED BY <1>4, <1>5, <1>6, <1>7 DEF Inv

LEMMA ServerSteps ==
  ASSUME Inv, TypeOK', Server
  PROVE  Inv'
<1>1. server \in ServerStates /\ DataOps \subseteq Kinds /\ "close" \in Kinds
  BY DEF Inv, TypeOK, ServerType, Kinds
<1>2. server.msg \in Nat /\ server.off \in Nat /\ server.op \in DataOps \cup {"none"}
  BY <1>1 DEF ServerStates
<1>3. CASE \E op \in DataOps, len \in DataLens, fin \in BOOLEAN : ServerData(op, len, fin)
  <2>1. PICK op \in DataOps, len \in DataLens, fin \in BOOLEAN : ServerData(op, len, fin)
    BY <1>3
  <2> DEFINE f == Frame(op, len, fin)
  <2>2. len \in Nat
    BY SizesAssumption
  <2>3. /\ f.op = op /\ f.len = len /\ f.fin = fin /\ f.msg = server.msg /\ f.off = server.off
        /\ f \in Frames
    BY <1>1, <1>2, <2>2 DEF Frame, Frames, Kinds
  <2>4. IsData(f) /\ MsgAfter(f) = (IF fin THEN server.msg + 1 ELSE server.msg)
        /\ OffAfter(f) = IF fin THEN 0 ELSE server.off + len
    BY <2>3 DEF IsData, MsgAfter, OffAfter
  <2>5. /\ server.op \in {"none", op} /\ wire' = Append(wire, f)
        /\ UNCHANGED <<handle, usable, used, buf, started, kind, delivered, closing, pc, purpose, up>>
        /\ IF fin
           THEN /\ sent' = Append(sent, [kind |-> op, len |-> server.off + len])
                /\ server' = [server EXCEPT !.msg = @ + 1, !.off = 0, !.op = "none"]
           ELSE /\ server' = [server EXCEPT !.off = @ + len, !.op = op]
                /\ sent' = sent
    BY <2>1 DEF ServerData, assembly, call, history
  <2>6. server'.msg = MsgAfter(f) /\ server'.off = OffAfter(f)
        /\ server'.op = IF fin THEN "none" ELSE op
    BY <1>1, <2>4, <2>5 DEF ServerStates
  <2>7. StageInv'
    BY <2>5 DEF Inv, StageInv
  <2> HIDE DEF f
  <2> QED BY <2>3, <2>4, <2>5, <2>6, <2>7, GrowStep
<1>4. CASE \E len \in PingLens : ServerPing(len)
  <2>1. PICK len \in PingLens : ServerPing(len)
    BY <1>4
  <2> DEFINE f == Frame("ping", len, TRUE)
  <2>2. len \in Nat
    BY SizesAssumption
  <2>3. f.op = "ping" /\ f.msg = server.msg /\ f.off = server.off /\ f \in Frames
    BY <1>1, <1>2, <2>2 DEF Frame, Frames
  <2>4. ~IsData(f) /\ MsgAfter(f) = server.msg /\ OffAfter(f) = server.off
    BY <2>3 DEF IsData, MsgAfter, OffAfter, DataOps
  <2>5. /\ wire' = Append(wire, f)
        /\ UNCHANGED <<handle, usable, used, buf, started, kind, delivered, closing, pc, purpose, up,
                       server, sent>>
    BY <2>1 DEF ServerPing, assembly, call, serverVars, history
  <2>6. StageInv'
    BY <2>5 DEF Inv, StageInv
  <2> HIDE DEF f
  <2> QED BY <2>3, <2>4, <2>5, <2>6, GrowStep
<1>5. CASE \E len \in CloseLens : ServerClose(len)
  <2>1. PICK len \in CloseLens : ServerClose(len)
    BY <1>5
  <2> DEFINE f == Frame("close", len, TRUE)
  <2>2. len \in Nat
    BY SizesAssumption
  <2>3. f.op = "close" /\ f.msg = server.msg /\ f.off = server.off /\ f \in Frames
    BY <1>1, <1>2, <2>2 DEF Frame, Frames
  <2>4. ~IsData(f) /\ MsgAfter(f) = server.msg /\ OffAfter(f) = server.off
    BY <2>3 DEF IsData, MsgAfter, OffAfter, DataOps
  <2>5. /\ wire' = Append(wire, f)
        /\ server' = [server EXCEPT !.close = len]
        /\ UNCHANGED <<handle, usable, used, buf, started, kind, delivered, closing, pc, purpose, up, sent>>
    BY <2>1 DEF ServerClose, assembly, call, history
  <2>6. server'.msg = server.msg /\ server'.off = server.off /\ server'.op = server.op
    BY <1>1, <2>5 DEF ServerStates
  <2>7. StageInv'
    BY <2>5 DEF Inv, StageInv
  <2> HIDE DEF f
  <2> QED BY <2>3, <2>4, <2>5, <2>6, <2>7, GrowStep
<1>6. CASE Drop
  BY <1>6, ControlSteps
<1> QED BY <1>3, <1>4, <1>5, <1>6 DEF Server

-----------------------------------------------------------------------------
\* Handing over a part keeps what is in flight in order, and moves the client
\* to the place behind the part.
LEMMA ShrinkStep ==
  ASSUME Inv, NEW n, HandsOver(n), UNCHANGED <<server, sent>>
  PROVE  /\ WireInv' /\ KindInv'
         /\ Head(wire) = wire[1] /\ 1 \in 1..Len(wire) /\ wire[1] \in Frames
         /\ n \in Nat /\ usable /\ handle = "open" /\ closing = NotClosed
         /\ \A i \in 1..Len(wire') : \E j \in 1..Len(wire) : wire'[i] = wire[j]
         /\ BytesLeft(n) # 0 => wire' = wire /\ used' = used + n
         /\ BytesLeft(n) = 0 =>
              /\ used + n = Head(wire).len /\ used' = 0
              /\ wire' # <<>> =>
                   Head(wire').msg = MsgAfter(Head(wire)) /\ Head(wire').off = OffAfter(Head(wire))
              /\ wire' = <<>> =>
                   server.msg = MsgAfter(Head(wire)) /\ server.off = OffAfter(Head(wire))
<1>1. /\ wire \in Seq(Frames) /\ Len(wire) \in Nat /\ wire # <<>> /\ used \in Nat
      /\ Head(wire) = wire[1] /\ 1 \in 1..Len(wire) /\ Head(wire).len \in Nat /\ wire[1] \in Frames
  BY WireFacts, ServerFacts DEF Inv, HandsOver
<1>2. usable /\ handle = "open" /\ closing = NotClosed
  BY DEF Inv, StageInv, HandsOver
<1>3. n \in Nat
  BY <1>1 DEF HandsOver, PartSizes
<1>4. BytesLeft(n) # 0 => wire' = wire /\ used' = used + n
  BY DEF HandsOver
<1>5. BytesLeft(n) = 0 => used + n = Head(wire).len /\ used' = 0 /\ wire' = Tail(wire)
  <2> SUFFICES ASSUME BytesLeft(n) = 0
               PROVE  used + n = Head(wire).len /\ used' = 0 /\ wire' = Tail(wire)
    OBVIOUS
  <2>1. used' = 0 /\ wire' = Tail(wire)
    BY DEF HandsOver
  <2>2. Head(wire).len - used - n = 0 /\ Head(wire).len \in Nat /\ used \in Nat
    BY <1>1 DEF BytesLeft
  <2> HIDE DEF BytesLeft
  <2> QED BY <1>3, <2>1, <2>2
<1>6. CASE BytesLeft(n) # 0
  <2>1. WireInv' /\ KindInv'
    BY <1>4, <1>6 DEF Inv, WireInv, KindInv
  <2> QED BY <1>1, <1>2, <1>3, <1>4, <1>6, <2>1
<1>7. CASE BytesLeft(n) = 0
  <2>1. /\ Len(wire') = Len(wire) - 1 /\ Len(wire') \in Nat
        /\ \A i \in 1..Len(wire') : i + 1 \in 1..Len(wire) /\ wire'[i] = wire[i + 1]
        /\ wire' # <<>> => Head(wire') = wire[2] /\ 1 \in 1..(Len(wire) - 1)
                           /\ wire'[Len(wire')] = wire[Len(wire)]
        /\ wire' = <<>> => Len(wire) = 1
    <3>0. wire' = Tail(wire) /\ wire' \in Seq(Frames)
      BY <1>1, <1>5, <1>7
    <3>1. Len(wire') = Len(wire) - 1 /\ Len(wire') \in Nat
      BY <1>1, <3>0
    <3>2. \A i \in 1..Len(wire') : i + 1 \in 1..Len(wire) /\ wire'[i] = wire[i + 1]
      BY <1>1, <3>0
    <3>3. wire' = <<>> => Len(wire) = 1
      BY <1>1, <3>1
    <3>4. wire' # <<>> => Head(wire') = wire'[1] /\ 1 \in 1..Len(wire') /\ Len(wire') \in 1..Len(wire')
      BY <3>0, <3>1
    <3> QED BY <1>1, <3>1, <3>2, <3>3, <3>4
  <2>2. WireInv'
    <3>1. \A i \in 1..Len(wire') : wire'[i].msg <= server'.msg
      BY <2>1 DEF Inv, WireInv
    <3>2. \A i \in 1..(Len(wire') - 1) :
            wire'[i + 1].msg = MsgAfter(wire'[i]) /\ wire'[i + 1].off = OffAfter(wire'[i])
      <4> TAKE i \in 1..(Len(wire') - 1)
      <4>1. i + 1 \in 1..(Len(wire) - 1) /\ wire'[i] = wire[i + 1] /\ wire'[i + 1] = wire[(i + 1) + 1]
        BY <2>1
      <4> QED BY <4>1 DEF Inv, WireInv
    <3>3. wire' # <<>> =>
            server.msg = MsgAfter(wire'[Len(wire')]) /\ server.off = OffAfter(wire'[Len(wire')])
      BY <1>1, <2>1 DEF Inv, WireInv
    <3>4. \A i \in 1..Len(wire') : IsData(wire'[i]) /\ wire'[i].fin =>
            /\ wire'[i].msg \in 1..Len(sent)
            /\ sent[wire'[i].msg] = [kind |-> wire'[i].op, len |-> wire'[i].off + wire'[i].len]
      BY <2>1 DEF Inv, WireInv
    <3> QED BY <3>1, <3>2, <3>3, <3>4 DEF Inv, WireInv
  <2>3. KindInv'
    <3>1. \A i, j \in 1..Len(wire') :
            IsData(wire'[i]) /\ IsData(wire'[j]) /\ wire'[i].msg = wire'[j].msg => wire'[i].op = wire'[j].op
      <4> TAKE i, j \in 1..Len(wire')
      <4>1. /\ i + 1 \in 1..Len(wire) /\ wire'[i] = wire[i + 1]
            /\ j + 1 \in 1..Len(wire) /\ wire'[j] = wire[j + 1]
        BY <2>1
      <4> QED BY <4>1 DEF Inv, KindInv
    <3>2. \A i \in 1..Len(wire') : IsData(wire'[i]) /\ wire'[i].msg = server'.msg => server'.op = wire'[i].op
      BY <2>1 DEF Inv, KindInv
    <3> QED BY <3>1, <3>2 DEF KindInv
  <2>4. wire' # <<>> =>
          Head(wire').msg = MsgAfter(Head(wire)) /\ Head(wire').off = OffAfter(Head(wire))
    BY <1>1, <2>1 DEF Inv, WireInv
  <2>5. wire' = <<>> => server.msg = MsgAfter(Head(wire)) /\ server.off = OffAfter(Head(wire))
    BY <1>1, <2>1 DEF Inv, WireInv
  <2> QED BY <1>1, <1>2, <1>3, <1>5, <1>7, <2>1, <2>2, <2>3, <2>4, <2>5
<1> QED BY <1>6, <1>7

\* A part of a data frame continues the message in the buffer.
LEMMA PartContinues ==
  ASSUME Inv, NEW n, HandsOver(n), UNCHANGED <<server, sent>>, IsData(Head(wire))
  PROVE  /\ Live /\ Head(wire).msg = Len(delivered) + 1 /\ Len(buf) = Head(wire).off + used
         /\ Len(buf \o Part(n)) = Len(buf) + n
         /\ \A j \in 1..(Len(buf) + n) : (buf \o Part(n))[j] = <<Len(delivered) + 1, j>>
         /\ started => Head(wire).op = kind
<1> DEFINE h == Head(wire)
<1>1. n \in Nat /\ usable /\ handle = "open" /\ closing = NotClosed /\ h = wire[1] /\ 1 \in 1..Len(wire)
  BY ShrinkStep
<1>2. wire # <<>>
  BY DEF HandsOver
<1>3. Live
  BY <1>1 DEF Live, IsData, DataOps
<1>4. /\ h.msg = Len(delivered) + 1 /\ Len(buf) = h.off + used
      /\ \A j \in 1..Len(buf) : buf[j] = <<Len(delivered) + 1, j>>
      /\ started => h.op = kind
  BY <1>1, <1>2, <1>3 DEF Inv, ReadInv
<1>5. buf \in Seq(ByteIdentity) /\ Len(buf) \in Nat /\ used \in Nat /\ h.off \in Nat
  BY <1>1, ServerFacts, WireFacts DEF Inv
<1>6. \A i \in 1..n : Part(n)[i] = <<h.msg, h.off + (used + i)>>
  <2>1. \A i \in 1..n : Part(n)[i] = Byte(h, used + i)
    BY <1>1, <1>2, PartType DEF Inv
  <2>2. ASSUME NEW i \in 1..n PROVE Byte(h, used + i) = <<h.msg, h.off + (used + i)>>
    BY DEF Byte, IsData, DataOps
  <2> QED BY <2>1, <2>2
<1>7. Part(n) \in Seq(ByteIdentity) /\ Len(Part(n)) = n
  <2>1. Part(n) \in Seq(ByteIdentity)
    BY <1>1, <1>2, PartType DEF Inv
  <2>2. Len(Part(n)) = n
    BY <1>1 DEF Part
  <2> QED BY <2>1, <2>2
<1> DEFINE p == Part(n)
<1>8. \A i \in 1..n : p[i] = <<h.msg, h.off + (used + i)>>
  BY <1>6
<1>9. p \in Seq(ByteIdentity) /\ Len(p) = n
  BY <1>7
<1> HIDE DEF p
<1>10. /\ Len(buf \o p) = Len(buf) + n
       /\ \A j \in 1..(Len(buf) + n) :
            (buf \o p)[j] = IF j <= Len(buf) THEN buf[j] ELSE p[j - Len(buf)]
  <2>1. buf \in Seq(ByteIdentity) /\ p \in Seq(ByteIdentity) /\ Len(p) = n
    BY <1>1, <1>5, <1>9
  <2>2. Len(buf \o p) = Len(buf) + n
    BY <2>1
  <2>3. \A j \in 1..(Len(buf) + n) :
          (buf \o p)[j] = IF j <= Len(buf) THEN buf[j] ELSE p[j - Len(buf)]
    BY <2>1
  <2> QED BY <2>2, <2>3
<1>11. ASSUME NEW j \in 1..(Len(buf) + n) PROVE (buf \o p)[j] = <<Len(delivered) + 1, j>>
  <2>0. Len(buf) \in Nat /\ n \in Nat /\ j \in Int /\ 1 <= j /\ j <= Len(buf) + n
    BY <1>1, <1>5
  <2>1. CASE j <= Len(buf)
    <3>1. j \in 1..Len(buf)
      BY <2>0, <2>1
    <3> QED BY <1>4, <1>10, <2>1, <3>1
  <2>2. CASE ~(j <= Len(buf))
    <3> DEFINE i == j - Len(buf)
    <3>1. i \in 1..n
      BY <2>0, <2>2
    <3>2. h.off + (used + i) = j
      BY <1>4, <1>5, <2>0, SMTT(30)
    <3>3. (buf \o p)[j] = p[i]
      BY <1>10, <2>2
    <3>4. p[i] = <<h.msg, h.off + (used + i)>>
      BY <1>8, <3>1
    <3> QED BY <1>4, <3>2, <3>3, <3>4
  <2> QED BY <2>1, <2>2
<1> QED BY <1>3, <1>4, <1>10, <1>11 DEF p

-----------------------------------------------------------------------------
\* A ping changes nothing but the client's place in flight.
LEMMA PingStep ==
  ASSUME Inv, TypeOK', NEW n, RecvPing(n)
  PROVE  Inv'
<1> DEFINE h == Head(wire)
<1>1. /\ HandsOver(n) /\ h.op = "ping" /\ wire # <<>>
      /\ UNCHANGED <<handle, usable, pc, purpose, server, sent, buf, started, kind, delivered, closing, up>>
  BY DEF RecvPing, HandsOver, assembly, call, serverVars, history
<1>2. WireInv' /\ KindInv'
  BY <1>1, ShrinkStep
<1>3. StageInv' /\ MessagesFaithful'
  BY <1>1 DEF Inv, StageInv, MessagesFaithful, Whole
<1>4. ~IsData(h) /\ MsgAfter(h) = h.msg /\ OffAfter(h) = h.off
  BY <1>1 DEF IsData, DataOps, MsgAfter, OffAfter
<1>5. ReadInv'
  <2> SUFFICES ASSUME Live' PROVE ReadInv'
    BY DEF ReadInv
  <2>1. Live
    BY <1>1 DEF Live
  <2>2. /\ h.msg = Len(delivered) + 1 /\ Len(buf) = h.off
        /\ \A j \in 1..Len(buf) : buf[j] = <<Len(delivered) + 1, j>>
        /\ started =>
             /\ \A i \in 1..Len(wire) : IsData(wire[i]) /\ wire[i].msg = Len(delivered) + 1 => wire[i].op = kind
             /\ server.msg = Len(delivered) + 1 => server.op = kind
    <3>1. h.off \in Nat
      BY <1>1, WireFacts DEF Inv
    <3>2. /\ h.msg = Len(delivered) + 1 /\ Len(buf) = h.off + IF IsData(h) THEN used ELSE 0
          /\ \A j \in 1..Len(buf) : buf[j] = <<Len(delivered) + 1, j>>
          /\ started =>
               /\ \A i \in 1..Len(wire) : IsData(wire[i]) /\ wire[i].msg = Len(delivered) + 1 => wire[i].op = kind
               /\ server.msg = Len(delivered) + 1 => server.op = kind
      BY <1>1, <2>1 DEF Inv, ReadInv
    <3> QED BY <1>4, <3>1, <3>2
  <2>3. /\ wire' # <<>> => Head(wire').msg = h.msg /\ Head(wire').off = h.off
                           /\ (IsData(Head(wire')) => used' = 0)
        /\ wire' = <<>> => used' = 0 /\ server.msg = h.msg /\ server.off = h.off
    BY <1>1, <1>4, ShrinkStep
  <2>4. wire' # <<>> =>
          /\ Head(wire').msg = Len(delivered) + 1
          /\ Len(buf) = Head(wire').off + IF IsData(Head(wire')) THEN used' ELSE 0
    <3>1. Len(buf) \in Nat
      BY ServerFacts DEF Inv
    <3> QED BY <2>2, <2>3, <3>1
  <2>5. started => \A i \in 1..Len(wire') :
          IsData(wire'[i]) /\ wire'[i].msg = Len(delivered) + 1 => wire'[i].op = kind
    BY <1>1, <2>2, ShrinkStep
  <2> QED BY <1>1, <2>2, <2>3, <2>4, <2>5 DEF ReadInv
<1> QED BY <1>2, <1>3, <1>5 DEF Inv

\* What pl_curl_ws_recv takes for the payload of a close frame, and the length of
\* the status it finds there.
LEMMA CloseBuffer ==
  ASSUME Inv, NEW n, HandsOver(n), NEW b \in CloseBuffers(n)
  PROVE  b \in Seq(ByteIdentity) /\ Len(StatusOf(b)) # 1
<1>1. wire # <<>> /\ n \in Nat
  <2>1. wire # <<>> /\ n \in PartSizes
    BY DEF HandsOver
  <2>2. Head(wire).len \in Nat /\ used \in Nat
    BY <2>1, WireFacts, ServerFacts DEF Inv
  <2> QED BY <2>1, <2>2 DEF PartSizes
<1>2. b = buf \o Part(n) \/ b = <<>>
  BY DEF CloseBuffers
<1>3. Part(n) \in Seq(ByteIdentity) /\ buf \in Seq(ByteIdentity)
  BY <1>1, PartType, ServerFacts DEF Inv
<1>4. ASSUME NEW p \in Seq(ByteIdentity)
      PROVE  buf \o p \in Seq(ByteIdentity)
  BY <1>3
<1>5. buf \o Part(n) \in Seq(ByteIdentity) /\ <<>> \in Seq(ByteIdentity)
  BY <1>3, <1>4
<1>6. b \in Seq(ByteIdentity)
  BY <1>2, <1>5, Zenon
<1> QED BY <1>6 DEF StatusOf

\* After these steps nothing more is received, so that only the order of what
\* is in flight is left to show.
LEMMA EndSteps ==
  ASSUME Inv, TypeOK', NEW n, RecvTooBig(n) \/ RecvClosePart(n) \/ RecvCloseEnd(n)
  PROVE  Inv'
<1>1. HandsOver(n) /\ UNCHANGED <<server, sent, delivered, handle, up>> /\ pc = "recv"
  BY DEF RecvTooBig, RecvClosePart, RecvCloseEnd, HandsOver, serverVars, history
<1>2. /\ WireInv' /\ KindInv' /\ n \in Nat /\ usable /\ handle = "open" /\ closing = NotClosed
      /\ BytesLeft(n) # 0 => wire' = wire /\ used' = used + n
  BY <1>1, ShrinkStep
<1>3. MessagesFaithful'
  BY <1>1 DEF Inv, MessagesFaithful, Whole
<1>4. StageInv' /\ ~Live'
  <2>1. CASE RecvTooBig(n)
    <3>1. usable' = FALSE /\ pc' = "idle" /\ closing' = closing
      BY <2>1 DEF RecvTooBig, Returns, history
    <3> QED BY <1>1, <1>2, <3>1 DEF StageInv, Live
  <2>2. CASE RecvClosePart(n)
    <3>1. BytesLeft(n) > 0 /\ Head(wire).op = "close" /\ wire # <<>>
          /\ n \in PartSizes /\ UNCHANGED <<usable, pc, purpose, closing>>
      BY <2>2 DEF RecvClosePart, HandsOver, call, history
    <3>2. used \in Nat /\ Head(wire).len \in Nat
      BY <3>1, WireFacts, ServerFacts DEF Inv
    <3>3. n > 0
      BY <1>2, <3>1, <3>2 DEF PartSizes, BytesLeft
    <3>4. wire' = wire /\ used' > 0
      <4>1. BytesLeft(n) # 0
        BY <3>1
      <4> QED BY <1>2, <3>2, <3>3, <4>1
    <3>5. ~Live'
      BY <3>1, <3>4 DEF Live
    <3> QED BY <1>1, <1>2, <3>1, <3>5 DEF Inv, StageInv
  <2>3. CASE RecvCloseEnd(n)
    <3>1. PICK b \in CloseBuffers(n) : \E r \in ReasonsOf(b) :
            /\ closing' = [code |-> StatusOf(b), reason |-> r]
            /\ BeginFrame(OutFrame("close", Len(StatusOf(b)), StatusOf(b)), "answer")
      BY <2>3 DEF RecvCloseEnd
    <3>2. pc' = "send" /\ purpose' = "answer" /\ usable' = usable /\ closing'.code = StatusOf(b)
      BY <2>3, <3>1 DEF RecvCloseEnd, BeginFrame
    <3>3. Len(StatusOf(b)) # 1
      BY <1>1, <3>1, CloseBuffer
    <3>4. Len(NotClosed.code) = 1
      BY DEF NotClosed
    <3>5. closing' # NotClosed
      BY <3>2, <3>3, <3>4
    <3> QED BY <1>1, <1>2, <3>2, <3>5 DEF StageInv, Live
  <2> QED BY <2>1, <2>2, <2>3
<1> QED BY <1>2, <1>3, <1>4 DEF Inv, ReadInv

\* A part of a message that does not end it.
LEMMA PartStep ==
  ASSUME Inv, TypeOK', NEW n, RecvPart(n)
  PROVE  Inv'
<1> DEFINE h == Head(wire)
<1>1. /\ HandsOver(n) /\ IsData(h) /\ ~EndsMessage(n) /\ wire # <<>>
      /\ buf' = buf \o Part(n) /\ started' = TRUE /\ kind' = StartedKind
      /\ UNCHANGED <<handle, usable, pc, purpose, server, sent, delivered, closing>>
  BY DEF RecvPart, HandsOver, call, serverVars, history, IsData
<1>2. up' = up
  BY <1>1 DEF HandsOver
<1>3. StageInv' /\ MessagesFaithful'
  BY <1>1, <1>2 DEF Inv, StageInv, MessagesFaithful, Whole
<1>4. /\ h = wire[1] /\ 1 \in 1..Len(wire) /\ n \in Nat
      /\ \A i \in 1..Len(wire') : \E j \in 1..Len(wire) : wire'[i] = wire[j]
      /\ WireInv' /\ KindInv'
  BY <1>1, ShrinkStep
<1>5. /\ h.msg = Len(delivered) + 1 /\ Len(buf) = h.off + used
      /\ Len(buf') = Len(buf) + n
      /\ \A j \in 1..(Len(buf) + n) : buf'[j] = <<Len(delivered) + 1, j>>
      /\ started => h.op = kind
  BY <1>1, PartContinues
<1>6. h.off \in Nat /\ h.len \in Nat /\ used \in Nat
  BY <1>4, WireFacts, ServerFacts DEF Inv
<1>7. kind' = h.op
  BY <1>1, <1>5 DEF StartedKind
<1>8. \A i \in 1..Len(wire') : IsData(wire'[i]) /\ wire'[i].msg = Len(delivered) + 1 => wire'[i].op = h.op
  <2>1. \A j \in 1..Len(wire) : IsData(wire[j]) /\ wire[j].msg = Len(delivered) + 1 => wire[j].op = h.op
    <3> SUFFICES ASSUME NEW j \in 1..Len(wire), IsData(wire[j]), wire[j].msg = Len(delivered) + 1
                 PROVE  wire[j].op = h.op
      OBVIOUS
    <3>1. IsData(wire[1]) /\ wire[1].msg = wire[j].msg
      BY <1>1, <1>4, <1>5, Zenon
    <3>2. wire[j].op = wire[1].op
      BY <1>4, <3>1, Zenon DEF Inv, KindInv
    <3> QED BY <1>4, <3>2, Zenon
  <2> SUFFICES ASSUME NEW i \in 1..Len(wire'), IsData(wire'[i]), wire'[i].msg = Len(delivered) + 1
               PROVE  wire'[i].op = h.op
    BY Zenon
  <2>2. PICK j \in 1..Len(wire) : wire'[i] = wire[j]
    BY <1>4, Zenon
  <2> QED BY <2>1, <2>2, Zenon DEF IsData
<1>9. server.msg = Len(delivered) + 1 => server.op = h.op
  BY <1>1, <1>4, <1>5 DEF Inv, KindInv
<1>10. /\ wire' # <<>> =>
            /\ Head(wire').msg = Len(delivered) + 1
            /\ Len(buf') = Head(wire').off + IF IsData(Head(wire')) THEN used' ELSE 0
       /\ wire' = <<>> => used' = 0 /\ server.msg = Len(delivered) + 1 /\ Len(buf') = server.off
  <2>1. CASE BytesLeft(n) # 0
    <3>1. wire' = wire /\ used' = used + n
      BY <1>1, <2>1, ShrinkStep
    <3>2. wire' # <<>> /\ Head(wire') = h
      BY <1>1, <3>1
    <3>3. Len(buf') = h.off + used'
      <4>1. (h.off + used) + n = h.off + (used + n)
        BY <1>4, <1>6
      <4>2. Len(buf') = (h.off + used) + n
        BY <1>5
      <4> QED BY <3>1, <4>1, <4>2
    <3> QED BY <1>1, <1>5, <3>2, <3>3
  <2>2. CASE BytesLeft(n) = 0
    <3>1. /\ used + n = h.len /\ used' = 0
          /\ wire' # <<>> => Head(wire').msg = MsgAfter(h) /\ Head(wire').off = OffAfter(h)
          /\ wire' = <<>> => server.msg = MsgAfter(h) /\ server.off = OffAfter(h)
      BY <1>1, <2>2, ShrinkStep
    <3>2. MsgAfter(h) = h.msg /\ OffAfter(h) = h.off + h.len
      BY <1>1, <2>2 DEF EndsMessage, MsgAfter, OffAfter
    <3>3. Len(buf') = h.off + h.len /\ Len(buf') \in Nat
      BY <1>4, <1>5, <1>6, <3>1
    <3>4. h.off + h.len + 0 = h.off + h.len
      BY <1>6
    <3>5. /\ wire' # <<>> => Head(wire').msg = Len(delivered) + 1 /\ Head(wire').off = h.off + h.len
          /\ wire' = <<>> => server.msg = Len(delivered) + 1 /\ server.off = h.off + h.len
      BY <1>5, <3>1, <3>2
    <3> QED BY <3>1, <3>3, <3>4, <3>5
  <2> QED BY <2>1, <2>2
<1>11. ReadInv'
  BY <1>1, <1>5, <1>7, <1>8, <1>9, <1>10 DEF ReadInv
<1> QED BY <1>3, <1>4, <1>11 DEF Inv

\* The last part of a message: what is handed to the caller is the server's
\* next message, and the client's place is the start of the one behind it.
LEMMA LastStep ==
  ASSUME Inv, TypeOK', NEW n, RecvLast(n)
  PROVE  Inv'
<1> DEFINE h == Head(wire)
           k == Len(delivered) + 1
           data == buf \o Part(n)
<1>1. /\ HandsOver(n) /\ IsData(h) /\ BytesLeft(n) = 0 /\ h.fin /\ wire # <<>>
      /\ delivered' = Append(delivered, [kind |-> StartedKind, data |-> data])
      /\ buf' = <<>> /\ started' = FALSE
      /\ pc' = "idle" /\ UNCHANGED <<handle, usable, purpose, server, sent, closing, up>>
  BY DEF RecvLast, EndsMessage, HandsOver, serverVars, Returns, IsData
<1>2. StageInv'
  BY <1>1, ShrinkStep DEF Inv, StageInv
<1>3. /\ h = wire[1] /\ 1 \in 1..Len(wire) /\ n \in Nat
      /\ WireInv' /\ KindInv'
      /\ used + n = h.len /\ used' = 0
      /\ wire' # <<>> => Head(wire').msg = MsgAfter(h) /\ Head(wire').off = OffAfter(h)
      /\ wire' = <<>> => server.msg = MsgAfter(h) /\ server.off = OffAfter(h)
  BY <1>1, ShrinkStep
<1>4. /\ h.msg = k /\ Len(buf) = h.off + used
      /\ Len(data) = Len(buf) + n
      /\ \A j \in 1..(Len(buf) + n) : data[j] = <<k, j>>
      /\ started => h.op = kind
  BY <1>1, PartContinues
<1>5. h.off \in Nat /\ h.len \in Nat /\ used \in Nat /\ delivered \in Seq(Messages) /\ Len(delivered) \in Nat
  BY <1>3, WireFacts, ServerFacts DEF Inv
<1>6. k \in 1..Len(sent) /\ sent[k].kind = h.op /\ sent[k].len = h.off + h.len
  <2>1. h.msg \in 1..Len(sent) /\ sent[h.msg] = [kind |-> h.op, len |-> h.off + h.len]
    BY <1>1, <1>3 DEF Inv, WireInv
  <2> QED BY <1>4, <2>1
<1>7. data = [j \in 1..sent[k].len |-> <<k, j>>]
  <2>1. Len(buf) + n = sent[k].len /\ Len(data) = sent[k].len
    BY <1>3, <1>4, <1>5, <1>6
  <2>2. data \in Seq(ByteIdentity)
    <3>1. buf \in Seq(ByteIdentity)
      BY ServerFacts DEF Inv
    <3>2. Part(n) \in Seq(ByteIdentity)
      BY <1>1, <1>3, PartType DEF Inv
    <3>3. ASSUME NEW p \in Seq(ByteIdentity) PROVE buf \o p \in Seq(ByteIdentity)
      BY <3>1
    <3> QED BY <3>2, <3>3
  <2> HIDE DEF data
  <2>3. data = [j \in 1..Len(data) |-> data[j]]
    BY <2>2
  <2> QED BY <1>4, <2>1, <2>3
<1>8. [kind |-> StartedKind, data |-> data] = Whole(k)
  BY <1>4, <1>6, <1>7 DEF Whole, StartedKind
<1>9. Len(delivered') = k /\ delivered'[k] = Whole(k) /\ \A i \in 1..Len(delivered) : delivered'[i] = delivered[i]
  <2>1. delivered' = Append(delivered, Whole(k))
    BY <1>1, <1>8
  <2> QED BY <1>5, <2>1
<1>10. MessagesFaithful'
  <2>1. \A i \in 1..Len(delivered') : delivered'[i] = Whole(i)
    <3> TAKE i \in 1..Len(delivered')
    <3>1. i \in 1..Len(delivered) \/ i = k
      BY <1>5, <1>9
    <3> QED BY <1>9, <3>1 DEF Inv, MessagesFaithful
  <2>2. \A i : Whole(i)' = Whole(i)
    BY <1>1 DEF Whole
  <2> QED BY <1>1, <1>6, <1>9, <2>1, <2>2 DEF MessagesFaithful
<1>11. ReadInv'
  <2>1. MsgAfter(h) = k + 1 /\ OffAfter(h) = 0
    BY <1>1, <1>4 DEF MsgAfter, OffAfter
  <2>2. Len(buf') = 0
    BY <1>1
  <2> QED BY <1>1, <1>3, <1>9, <2>1, <2>2 DEF ReadInv
<1> QED BY <1>2, <1>3, <1>10, <1>11 DEF Inv

-----------------------------------------------------------------------------
\* Inv is inductive.
LEMMA InvCorrect == Spec => []Inv
<1>1. Init => Inv
  <2> SUFFICES ASSUME Init PROVE Inv
    OBVIOUS
  <2>1. /\ handle = "none" /\ usable = FALSE /\ buf = <<>> /\ started = FALSE /\ pc = "idle"
        /\ wire = <<>> /\ used = 0 /\ up = FALSE /\ sent = <<>> /\ delivered = <<>> /\ closing = NotClosed
        /\ server.msg = 1 /\ server.off = 0
    BY DEF Init
  <2>2. WireInv /\ KindInv
    BY <2>1 DEF WireInv, KindInv
  <2>3. StageInv
    BY <2>1 DEF StageInv
  <2>4. ReadInv /\ MessagesFaithful
    BY <2>1 DEF ReadInv, MessagesFaithful
  <2> QED BY <2>2, <2>3, <2>4, TypeCorrectInit DEF Inv
<1>2. TypeOK' /\ Inv /\ [Next]_vars => Inv'
  <2> SUFFICES ASSUME Inv, TypeOK', [Next]_vars PROVE Inv'
    OBVIOUS
  <2>1. CASE UNCHANGED vars
    <3>1. UNCHANGED <<wire, used, server, sent, buf, started, kind, delivered, closing,
                      handle, usable, pc, purpose, up>>
      BY <2>1 DEF vars, assembly, call, network, serverVars, history
    <3>2. StageInv' /\ (Live' => Live)
      BY <3>1 DEF Inv, StageInv, Live
    <3> QED BY <3>1, <3>2, ControlStep
  <2>2. CASE Done
    <3>1. UNCHANGED <<wire, used, server, sent, buf, started, kind, delivered, closing,
                      handle, usable, pc, purpose, up>>
      BY <2>2 DEF Done, vars, assembly, call, network, serverVars, history
    <3>2. StageInv' /\ (Live' => Live)
      BY <3>1 DEF Inv, StageInv, Live
    <3> QED BY <3>1, <3>2, ControlStep
  <2>3. CASE Receive
    BY <2>3, PingStep, EndSteps, PartStep, LastStep DEF Receive, HandOver
  <2> QED BY <2>1, <2>2, <2>3, ServerSteps, ControlSteps DEF Next, RecvStep
<1> QED BY <1>1, <1>2, TypeCorrect, PTL DEF Spec

\* Whatever the cuts, fragments, pings, timeouts, errors and closes, and for
\* every limit, length and timeout: the messages pl_curl_ws_recv returns are the
\* server's messages from the first on, whole, in order and of the right kind.
THEOREM MessagesCorrect == Spec => []MessagesFaithful
<1>1. Inv => MessagesFaithful
  BY DEF Inv
<1> QED BY <1>1, InvCorrect, PTL

-----------------------------------------------------------------------------
(***************************************************************************)
(* What is sent, and how a connection ends.                                *)
(***************************************************************************)
\* A frame is begun behind frames that are whole and no close frame.
LEMMA BeginFrameKeeps ==
  ASSUME OutInv, out \in Seq(OutFrames), usable, pc \notin {"send", "pollout"},
         NEW f, NEW why, BeginFrame(f, why), handle' # "none", why = "send" => f.op # "close"
  PROVE  OutInv'
<1>1. out' = Append(out, f) /\ pc' = "send" /\ purpose' = why
  BY DEF BeginFrame
<1>2. /\ Len(out') = Len(out) + 1 /\ Len(out) \in Nat
      /\ out'[Len(out) + 1] = f
      /\ \A i \in 1..Len(out) : out'[i] = out[i]
  BY <1>1
<1>3. \A i \in 1..Len(out) : out[i].op # "close" /\ out[i].taken = out[i].size
  <2> TAKE i \in 1..Len(out)
  <2>1. CASE i = Len(out)
    <3>1. out # <<>> /\ Current = out[i]
      BY <2>1 DEF Current
    <3> QED BY <3>1 DEF OutInv
  <2>2. CASE i # Len(out)
    <3>1. i \in 1..(Len(out) - 1)
      BY <2>2, <1>2
    <3> QED BY <3>1 DEF OutInv, OutputWellFormed
  <2> QED BY <2>1, <2>2
<1>4. OutputWellFormed'
  BY <1>2, <1>3 DEF OutputWellFormed
<1>5. Current' = f
  BY <1>2 DEF Current
<1> QED BY <1>1, <1>4, <1>5 DEF OutInv

\* libcurl takes bytes of the frame in progress.
LEMMA TakeBytesKeeps ==
  ASSUME OutInv, out \in Seq(OutFrames), out # <<>>, NEW n \in Nat, TakeBytes(n)
  PROVE  /\ OutputWellFormed'
         /\ out' # <<>> /\ Current'.op = Current.op /\ Current'.size = Current.size
         /\ Current'.taken = Current.taken + n
<1>1. /\ out' \in Seq(OutFrames) /\ Len(out') = Len(out) /\ Len(out) \in Nat \ {0}
      /\ \A i \in 1..Len(out) :
           /\ out'[i].op = out[i].op /\ out'[i].size = out[i].size
           /\ out'[i].taken = IF i = Len(out) THEN out[i].taken + n ELSE out[i].taken
  BY TakeType
<1>2. OutputWellFormed'
  <2>1. \A i \in 1..(Len(out) - 1) : i \in 1..Len(out) /\ i # Len(out)
    BY <1>1
  <2> QED BY <1>1, <2>1 DEF OutInv, OutputWellFormed
<1>3. out' # <<>>
  BY <1>1
<1>4. Len(out) \in 1..Len(out)
  BY <1>1
<1> QED BY <1>1, <1>2, <1>3, <1>4 DEF Current

\* A step that sends nothing, and begins or ends no call of ws_send_frame, keeps
\* the invariant.
LEMMA SilentKeeps ==
  ASSUME OutInv, UNCHANGED out, usable' => usable,
         pc' \in {"send", "pollout"} \/ pc \notin {"send", "pollout"},
         purpose' = purpose, handle' = "none" => handle = "none"
  PROVE  OutInv'
BY DEF OutInv, OutputWellFormed, Current

\* A connection that is not usable any more.
LEMMA EndKeeps ==
  ASSUME OutputWellFormed', ~usable', handle' # "none"
  PROVE  OutInv'
BY DEF OutInv

-----------------------------------------------------------------------------
LEMMA SendStepKeeps ==
  ASSUME Inv, OutInv, SendStep
  PROVE  OutInv'
<1>1. /\ out \in Seq(OutFrames) /\ out # <<>> /\ usable
      /\ pc \in {"send", "pollout"} /\ purpose \in {"send", "answer", "free"}
  BY DEF Inv, TypeOK, OutType, ClientType, StageInv, SendStep, SendComplete, SendBlocked, SendTimesOut,
         SendError, WaitedToSend, WaitToSendFails
<1>2. Current.taken \in Nat /\ Current.size \in Nat /\ Current.size - Current.taken \in Nat
  <2>1. Len(out) \in 1..Len(out) /\ Current = out[Len(out)]
    BY <1>1 DEF Current
  <2>2. Current \in OutFrames /\ Current.taken <= Current.size
    BY <1>1, <2>1 DEF Inv, TypeOK, OutType
  <2>3. Current.taken \in Nat /\ Current.size \in Nat
    BY <2>2 DEF OutFrames
  <2> QED BY <2>2, <2>3
<1>0. handle' # "none"
  <2>1. handle = "open"
    BY <1>1 DEF Inv, StageInv
  <2>2. handle' \in {handle, "freed"}
    BY DEF SendStep, SendComplete, SendBlocked, SendTimesOut, SendError, WaitedToSend, WaitToSendFails,
           FrameReturns
  <2> QED BY <2>1, <2>2
<1>3. CASE SendComplete
  <2>1. TakeBytes(Current.size - Current.taken) /\ FrameReturns(TRUE)
    BY <1>3 DEF SendComplete
  <2>2. OutputWellFormed' /\ Current'.op = Current.op /\ Current'.taken = Current'.size
    BY <1>1, <1>2, <2>1, TakeBytesKeeps
  <2>3. usable' => purpose = "send"
    BY <2>1 DEF FrameReturns
  <2>4. purpose = "send" => Current.op # "close"
    BY <1>1 DEF OutInv
  <2> QED BY <1>0, <2>2, <2>3, <2>4 DEF OutInv
<1>4. CASE \E n \in 0..(Current.size - Current.taken) : SendBlocked(n)
  <2>1. PICK n \in Nat : TakeBytes(n) /\ pc' = "pollout" /\ purpose' = purpose /\ usable' = usable
    BY <1>2, <1>4 DEF SendBlocked
  <2>2. OutputWellFormed' /\ Current'.op = Current.op
    BY <1>1, <2>1, TakeBytesKeeps
  <2> QED BY <1>0, <1>1, <2>1, <2>2 DEF OutInv
<1>5. CASE \E n \in 0..(Current.size - Current.taken) : SendTimesOut(n)
  <2>1. PICK n \in 0..(Current.size - Current.taken) : SendTimesOut(n)
    BY <1>5
  <2>2. n \in Nat /\ TakeBytes(n)
    BY <1>2, <2>1 DEF SendTimesOut
  <2>3. ~usable'
    BY <2>1 DEF SendTimesOut, FrameReturns
  <2> QED BY <1>1, <2>1, <2>2, <2>3, <1>0, TakeBytesKeeps, EndKeeps
<1>6. CASE SendError \/ WaitToSendFails
  <2>1. out' = out /\ ~usable'
    BY <1>6 DEF SendError, WaitToSendFails, FrameReturns
  <2>2. OutputWellFormed'
    BY <2>1 DEF OutInv, OutputWellFormed
  <2> QED BY <1>0, <2>1, <2>2, EndKeeps
<1>7. CASE WaitedToSend
  <2>1. out' = out /\ usable' = usable /\ purpose' = purpose /\ pc' = "send"
    BY <1>7 DEF WaitedToSend
  <2> QED BY <1>0, <1>1, <2>1, SilentKeeps
<1> QED BY <1>3, <1>4, <1>5, <1>6, <1>7 DEF SendStep

LEMMA CallKeeps ==
  ASSUME Inv, OutInv, Call
  PROVE  OutInv'
<1>1. out \in Seq(OutFrames) /\ (usable => handle = "open") /\ (pc # "idle" => usable)
      /\ usable \in BOOLEAN
  BY DEF Inv, TypeOK, OutType, ClientType, StageInv
<1>2. CASE Open
  <2>1. handle = "none" /\ handle' = "open" /\ out' = out
    BY <1>2 DEF Open
  <2> QED BY <2>1 DEF OutInv, OutputWellFormed
<1>3. CASE OpenFails
  BY <1>3, SilentKeeps DEF OpenFails
<1>4. CASE \E op \in DataOps, len \in SendLens : Send(op, len)
  <2>1. PICK op \in DataOps, len \in SendLens : Send(op, len)
    BY <1>4
  <2>2. /\ usable /\ pc \notin {"send", "pollout"}
        /\ BeginFrame(OutFrame(op, len, <<>>), "send") /\ OutFrame(op, len, <<>>).op # "close"
        /\ handle' # "none"
    BY <2>1 DEF Send, OutFrame, DataOps
  <2> QED BY <1>1, <2>2, BeginFrameKeeps
<1>5. CASE \E t \in RecvTimeouts : Recv(t)
  BY <1>5, SilentKeeps DEF Recv
<1>6. CASE SendRefused \/ FreeUnusable
  BY <1>6, SilentKeeps DEF SendRefused, Refused, FreeUnusable, Returns
<1>7. CASE FreeUsable
  <2>1. /\ usable /\ pc \notin {"send", "pollout"}
        /\ BeginFrame(OutFrame("close", 2, NormalClosure), "free")
        /\ handle' # "none"
    BY <1>7 DEF FreeUsable
  <2> QED BY <1>1, <2>1, BeginFrameKeeps
<1> QED BY <1>2, <1>3, <1>4, <1>5, <1>6, <1>7 DEF Call

LEMMA RecvStepKeeps ==
  ASSUME Inv, OutInv, RecvStep
  PROVE  OutInv'
<1>1. /\ out \in Seq(OutFrames) /\ usable /\ handle = "open"
      /\ pc \in {"recv", "pollin"}
  <2>1. pc \in {"recv", "pollin"}
    BY DEF RecvStep, RecvAgain, RecvTimesOut, WaitedToRecv, RecvFails, Receive, HandOver, HandsOver,
           RecvPing, RecvTooBig, RecvPart, RecvLast, RecvClosePart, RecvCloseEnd
  <2> QED BY <2>1 DEF Inv, TypeOK, OutType, StageInv
<1>2. handle' = handle
  BY DEF RecvStep, RecvAgain, RecvTimesOut, WaitedToRecv, RecvFails, Receive, HandOver,
         RecvPing, RecvTooBig, RecvPart, RecvLast, RecvClosePart, RecvCloseEnd
<1>3. CASE \E n \in PartSizes : RecvCloseEnd(n)
  <2>1. PICK b : BeginFrame(OutFrame("close", Len(StatusOf(b)), StatusOf(b)), "answer")
    BY <1>3 DEF RecvCloseEnd
  <2> QED BY <1>1, <1>2, <2>1, BeginFrameKeeps
<1>4. CASE ~ \E n \in PartSizes : RecvCloseEnd(n)
  <2>1. out' = out /\ purpose' = purpose
    BY <1>4 DEF RecvStep, RecvAgain, RecvTimesOut, WaitedToRecv, RecvFails, Receive, HandOver,
       RecvPing, RecvTooBig, RecvPart, RecvLast, RecvClosePart, Returns, call
  <2> QED BY <1>1, <1>2, <2>1, SilentKeeps
<1> QED BY <1>3, <1>4

\* The server and the clock do not touch what the client has sent.
LEMMA OthersKeep ==
  ASSUME OutInv, Server \/ Tick \/ Done \/ UNCHANGED vars
  PROVE  OutInv'
<1>1. UNCHANGED <<handle, usable, out, pc, purpose>>
  BY DEF Server, ServerData, ServerPing, ServerClose, Drop, Tick, Done, vars, call
<1> QED BY <1>1, SilentKeeps

\* Everything the client has sent can be parsed by the server, however its sends
\* were cut short and whenever the server closed: no frame follows one that was
\* not written to its end (ws_send_frame), and none follows a close frame.
THEOREM OutputCorrect == Spec => []OutputWellFormed
<1>1. Init => OutInv
  BY DEF Init, OutInv, OutputWellFormed
<1>2. Inv /\ OutInv /\ [Next]_vars => OutInv'
  BY CallKeeps, SendStepKeeps, RecvStepKeeps, OthersKeep DEF Next
<1>3. OutInv => OutputWellFormed
  BY DEF OutInv
<1> QED BY <1>1, <1>2, <1>3, InvCorrect, PTL DEF Spec

-----------------------------------------------------------------------------
\* An error, a close of the server or the end of a send is final (ws->usable is
\* never set again): nothing is delivered or sent after it, and a connection that
\* has ended is freed without a close frame.
THEOREM EndCorrect == Spec => EndIsFinal
<1>1. ASSUME Inv, Next, handle = "open", ~usable
      PROVE  ~usable' /\ UNCHANGED <<delivered, out, closing>>
  <2>1. pc = "idle"
    BY <1>1 DEF Inv, StageInv
  <2>2. CASE Server \/ Tick
    <3>1. UNCHANGED <<usable, out, history>>
      BY <2>2 DEF Server, ServerData, ServerPing, ServerClose, Drop, Tick
    <3> QED BY <1>1, <3>1 DEF history
  <2>3. CASE Done
    BY <1>1, <2>3 DEF Done
  <2>4. CASE Call
    BY <1>1, <2>4 DEF Call, Open, OpenFails, Send, Recv, SendRefused, Refused, FreeUsable, FreeUnusable,
       history
  <2>5. ~SendStep
    BY <2>1 DEF SendStep, SendComplete, SendBlocked, SendTimesOut, SendError, WaitedToSend,
       WaitToSendFails
  <2>6. ~RecvStep
    BY <2>1 DEF RecvStep, RecvAgain, RecvTimesOut, WaitedToRecv, RecvFails, Receive, HandOver, HandsOver,
       RecvPing, RecvTooBig, RecvPart, RecvLast, RecvClosePart, RecvCloseEnd
  <2> QED BY <1>1, <2>2, <2>3, <2>4, <2>5, <2>6 DEF Next
<1>2. Inv /\ [Next]_vars =>
        [handle = "open" /\ ~usable => ~usable' /\ UNCHANGED <<delivered, out, closing>>]_vars
  BY <1>1
<1> QED BY <1>2, InvCorrect, PTL DEF Spec, EndIsFinal

-----------------------------------------------------------------------------
(***************************************************************************)
(* The limit on a message.                                                 *)
(***************************************************************************)
\* The server (at its message m) never takes back what it has sent, and a frame
\* it sends is part of that.
LEMMA SentGrows ==
  ASSUME Inv, Inv', Server, NEW m, m = server.msg
  PROVE  /\ m \in Nat \ {0} /\ server'.msg \in Nat /\ m <= server'.msg
         /\ \A k \in 1..m : SentSoFar(k) \in Nat /\ SentSoFar(k)' \in Nat /\ SentSoFar(k) <= SentSoFar(k)'
         /\ \A i \in 1..Len(wire') :
              \/ i \in 1..Len(wire) /\ wire'[i] = wire[i]
              \/ IsData(wire'[i]) =>
                   wire'[i].msg = m /\ wire'[i].off + wire'[i].len <= SentSoFar(m)'
<1>1. /\ sent \in Seq(SentMessages) /\ Len(sent) \in Nat /\ m = Len(sent) + 1
      /\ server \in ServerStates /\ server.off \in Nat
      /\ wire \in Seq(Frames) /\ Len(wire) \in Nat
  BY ServerFacts, WireFacts DEF Inv, WireInv, TypeOK, ServerType
<1>0. /\ server'.msg = Len(sent') + 1 /\ sent' \in Seq(SentMessages) /\ Len(sent') \in Nat
      /\ server' \in ServerStates /\ server'.off \in Nat
  <2>1. server'.msg = Len(sent') + 1 /\ sent' \in Seq(SentMessages) /\ server' \in ServerStates
    BY DEF Inv, WireInv, TypeOK, ServerType
  <2> QED BY <2>1 DEF ServerStates
<1>2. /\ \A k \in 1..m : SentSoFar(k) \in Nat
      /\ \A k \in 1..server'.msg : SentSoFar(k)' \in Nat
  <2>1. /\ \A k \in 1..Len(sent) : sent[k].len \in Nat
        /\ \A k \in 1..Len(sent') : sent'[k].len \in Nat
    <3>1. \A r \in SentMessages : r.len \in Nat
      BY DEF SentMessages
    <3> QED BY <1>0, <1>1, <3>1
  <2>2. \A k \in 1..m : SentSoFar(k) \in Nat
    BY <1>1, <2>1 DEF SentSoFar
  <2>3. \A k \in 1..server'.msg : SentSoFar(k)' \in Nat
    BY <1>0, <2>1 DEF SentSoFar
  <2> QED BY <2>2, <2>3
<1>3. SentSoFar(m) = server.off
  BY <1>1 DEF SentSoFar
<1>4. ASSUME NEW op \in DataOps, NEW len \in DataLens, NEW fin \in BOOLEAN, ServerData(op, len, fin)
      PROVE  /\ Len(sent) <= Len(sent') /\ \A k \in 1..Len(sent) : sent'[k] = sent[k]
             /\ SentSoFar(m)' = server.off + len /\ len \in Nat
             /\ \A i \in 1..Len(wire') :
                  \/ i \in 1..Len(wire) /\ wire'[i] = wire[i]
                  \/ wire'[i].msg = m /\ wire'[i].off = server.off /\ wire'[i].len = len
  <2>1. len \in Nat
    BY SizesAssumption
  <2>2. PICK f : f = Frame(op, len, fin)
    OBVIOUS
  <2>3. f.len = len /\ f.msg = m /\ f.off = server.off
    BY <2>2 DEF Frame
  <2>4. wire' = Append(wire, f)
    BY <1>4, <2>2 DEF ServerData
  <2>5. \A i \in 1..Len(wire') : (i \in 1..Len(wire) /\ wire'[i] = wire[i]) \/ wire'[i] = f
    BY <1>1, <2>4
  <2>6. CASE fin
    <3>1. PICK r : r = [kind |-> op, len |-> server.off + len] /\ sent' = Append(sent, r)
      BY <1>4, <2>6 DEF ServerData
    <3>2. r.len = server.off + len
      BY <3>1
    <3>3. /\ Len(sent') = Len(sent) + 1 /\ sent'[Len(sent) + 1] = r
          /\ \A k \in 1..Len(sent) : sent'[k] = sent[k]
      BY <1>1, <3>1
    <3>4. SentSoFar(m)' = server.off + len
      BY <1>1, <3>2, <3>3 DEF SentSoFar
    <3> QED BY <1>0, <1>1, <2>1, <2>3, <2>5, <3>3, <3>4
  <2>7. CASE ~fin
    <3>1. sent' = sent /\ server'.off = server.off + len
      BY <1>1, <1>4, <2>7 DEF ServerData, ServerStates
    <3>2. SentSoFar(m)' = server.off + len
      BY <1>1, <3>1 DEF SentSoFar
    <3> QED BY <1>0, <1>1, <2>1, <2>3, <2>5, <3>1, <3>2
  <2> QED BY <2>6, <2>7
<1>5. CASE \E op \in DataOps, len \in DataLens, fin \in BOOLEAN : ServerData(op, len, fin)
  <2>1. PICK op \in DataOps, len \in DataLens, fin \in BOOLEAN : ServerData(op, len, fin)
    BY <1>5
  <2>2. /\ Len(sent) <= Len(sent') /\ \A k \in 1..Len(sent) : sent'[k] = sent[k]
        /\ SentSoFar(m)' = server.off + len /\ len \in Nat
        /\ \A i \in 1..Len(wire') :
             \/ i \in 1..Len(wire) /\ wire'[i] = wire[i]
             \/ wire'[i].msg = m /\ wire'[i].off = server.off /\ wire'[i].len = len
    BY <1>4, <2>1
  <2>3. \A k \in 1..Len(sent) : SentSoFar(k)' = SentSoFar(k)
    BY <1>1, <2>2 DEF SentSoFar
  <2>4. m <= server'.msg
    BY <1>0, <1>1, <2>2
  <2>5. \A k \in 1..m : SentSoFar(k) <= SentSoFar(k)' /\ SentSoFar(k)' \in Nat
    <3> TAKE k \in 1..m
    <3>0. SentSoFar(k) \in Nat /\ SentSoFar(k)' \in Nat
      BY <1>0, <1>1, <1>2, <2>4
    <3>1. CASE k = m
      BY <1>1, <1>3, <2>2, <3>0, <3>1
    <3>2. CASE k # m
      <4>1. k \in 1..Len(sent)
        BY <1>1, <3>2
      <4> QED BY <2>3, <3>0, <4>1
    <3> QED BY <3>1, <3>2
  <2>6. SentSoFar(m)' \in Nat /\ m \in Nat \ {0} /\ server'.msg \in Nat
    BY <1>0, <1>1, <2>5
  <2> QED BY <1>1, <1>2, <2>2, <2>4, <2>5, <2>6, SMTT(30)
<1>6. CASE ~ \E op \in DataOps, len \in DataLens, fin \in BOOLEAN : ServerData(op, len, fin)
  <2>1. sent' = sent /\ server'.off = server.off
    BY <1>1, <1>6 DEF Server, ServerPing, ServerClose, Drop, serverVars, ServerStates
  <2>2. \A k \in 1..m : SentSoFar(k)' = SentSoFar(k)
    BY <2>1 DEF SentSoFar
  <2>3. \A i \in 1..Len(wire') : (i \in 1..Len(wire) /\ wire'[i] = wire[i]) \/ ~IsData(wire'[i])
    <3>1. CASE Drop
      BY <3>1 DEF Drop
    <3>2. CASE ~Drop
      <4>1. PICK f : wire' = Append(wire, f) /\ f.op \in {"ping", "close"}
        <5>1. CASE \E len \in PingLens : ServerPing(len)
          <6>1. PICK len \in PingLens : ServerPing(len)
            BY <5>1
          <6>2. Frame("ping", len, TRUE).op = "ping"
            BY DEF Frame
          <6> QED BY <6>1, <6>2 DEF ServerPing
        <5>2. CASE \E len \in CloseLens : ServerClose(len)
          <6>1. PICK len \in CloseLens : ServerClose(len)
            BY <5>2
          <6>2. Frame("close", len, TRUE).op = "close"
            BY DEF Frame
          <6> QED BY <6>1, <6>2 DEF ServerClose
        <5> QED BY <1>6, <3>2, <5>1, <5>2 DEF Server
      <4>2. \A i \in 1..Len(wire') : (i \in 1..Len(wire) /\ wire'[i] = wire[i]) \/ wire'[i] = f
        BY <1>1, <4>1
      <4> QED BY <4>1, <4>2 DEF IsData, DataOps
    <3> QED BY <3>1, <3>2
  <2> QED BY <1>0, <1>1, <1>2, <2>1, <2>2, <2>3
<1> QED BY <1>5, <1>6

LEMMA LimitServer ==
  ASSUME Inv, Inv', LimitInv, Server
  PROVE  LimitInv'
<1>1. UNCHANGED <<handle, usable, buf, outcome, delivered>>
  BY DEF Server, ServerData, ServerPing, ServerClose, Drop, assembly, call, history
<1>2. PICK m : m = server.msg
  OBVIOUS
<1>3. /\ m \in Nat \ {0} /\ server'.msg \in Nat /\ m <= server'.msg
      /\ \A k \in 1..m : SentSoFar(k) \in Nat /\ SentSoFar(k)' \in Nat /\ SentSoFar(k) <= SentSoFar(k)'
      /\ \A i \in 1..Len(wire') :
           \/ i \in 1..Len(wire) /\ wire'[i] = wire[i]
           \/ IsData(wire'[i]) =>
                wire'[i].msg = m /\ wire'[i].off + wire'[i].len <= SentSoFar(m)'
  BY <1>2, SentGrows
<1>4. (outcome = "toobig" => SentSoFar(Len(delivered) + 1) > MaxMsg)'
  <2>1. PICK k : k = Len(delivered) + 1
    OBVIOUS
  <2>2. k \in 1..m
    <3>1. m = Len(sent) + 1 /\ Len(delivered) <= Len(sent) /\ Len(delivered) \in Nat /\ Len(sent) \in Nat
      BY <1>2, ServerFacts DEF Inv, WireInv, MessagesFaithful
    <3> QED BY <2>1, <3>1
  <2>3. outcome = "toobig" => SentSoFar(k) > MaxMsg
    BY <2>1 DEF LimitInv, LimitExact
  <2>4. outcome = "toobig" => SentSoFar(k)' > MaxMsg
    BY <1>3, <2>2, <2>3, LimitAssumption
  <2>5. Len(delivered') + 1 = k
    BY <1>1, <2>1
  <2> QED BY <1>1, <2>4, <2>5
<1>5. ASSUME NEW i \in 1..Len(wire'), IsData(wire'[i]), NEW k, k = wire'[i].msg
      PROVE  k \in 1..server'.msg /\ wire'[i].off + wire'[i].len <= SentSoFar(k)'
  <2>1. CASE i \in 1..Len(wire) /\ wire'[i] = wire[i]
    <3>1. k \in 1..m /\ wire[i].off + wire[i].len <= SentSoFar(k)
      BY <1>2, <1>5, <2>1 DEF LimitInv, IsData
    <3>2. wire[i].off \in Nat /\ wire[i].len \in Nat
      BY <2>1, WireFacts DEF Inv
    <3>3. SentSoFar(k) \in Nat /\ SentSoFar(k)' \in Nat /\ SentSoFar(k) <= SentSoFar(k)'
      BY <1>3, <3>1
    <3>4. PICK x : x = wire[i].off + wire[i].len /\ x \in Nat
      BY <3>2
    <3>5. wire'[i].off + wire'[i].len = x
      BY <2>1, <3>4
    <3>6. x <= SentSoFar(k)'
      BY <3>1, <3>3, <3>4
    <3>7. k \in 1..server'.msg
      BY <1>3, <3>1
    <3> QED BY <3>5, <3>6, <3>7
  <2>2. CASE ~(i \in 1..Len(wire) /\ wire'[i] = wire[i])
    BY <1>3, <1>5, <2>2
  <2> QED BY <2>1, <2>2
<1>6. (\A i \in 1..Len(wire) : IsData(wire[i]) =>
         wire[i].msg \in 1..server.msg /\ wire[i].off + wire[i].len <= SentSoFar(wire[i].msg))'
  BY <1>5 DEF IsData, SentSoFar
<1>7. LimitExact'
  BY <1>1, <1>4 DEF LimitInv, LimitExact
<1> QED BY <1>1, <1>6, <1>7 DEF LimitInv, IsData

\* A step that receives nothing keeps the limit.
LEMMA LimitControl ==
  ASSUME Inv, LimitInv,
         \/ Tick \/ Call \/ SendStep \/ Done \/ UNCHANGED vars
         \/ RecvAgain \/ RecvTimesOut \/ WaitedToRecv \/ RecvFails
  PROVE  LimitInv'
<1>1. UNCHANGED <<wire, server, sent, buf, delivered>>
  BY DEF Tick, Call, Open, OpenFails, Send, Recv, SendRefused, Refused, FreeUsable, FreeUnusable,
         SendStep, SendComplete, SendBlocked, SendTimesOut, SendError, WaitedToSend, WaitToSendFails,
         RecvAgain, RecvTimesOut, WaitedToRecv, RecvFails, Done, vars,
         assembly, network, serverVars, history
<1>2. /\ outcome' = "toobig" => outcome = "toobig" /\ (usable' => usable)
      /\ handle' = "none" => handle = "none" /\ outcome' = outcome
  <2>1. CASE Tick \/ Done \/ UNCHANGED vars
    BY <2>1 DEF Tick, Done, vars, call
  <2>2. CASE Open \/ OpenFails
    BY <2>2 DEF Open, OpenFails, LimitInv, call
  <2>3. CASE Call /\ ~(Open \/ OpenFails)
    BY <2>3 DEF Call, Send, Recv, SendRefused, Refused, FreeUsable, FreeUnusable, Returns
  <2>4. CASE SendStep
    <3>1. handle = "open"
      BY <2>4 DEF Inv, StageInv, SendStep, SendComplete, SendBlocked, SendTimesOut, SendError,
         WaitedToSend, WaitToSendFails
    <3>2. CASE \E ok \in BOOLEAN : FrameReturns(ok)
      <4>1. outcome' # "toobig" /\ handle' # "none"
        BY <3>1, <3>2 DEF FrameReturns
      <4> QED BY <4>1
    <3>3. CASE UNCHANGED <<handle, usable, outcome>>
      BY <3>3, <3>1
    <3> QED BY <2>4, <3>2, <3>3 DEF SendStep, SendComplete, SendBlocked, SendTimesOut, SendError,
               WaitedToSend, WaitToSendFails
  <2>5. CASE RecvAgain \/ RecvTimesOut \/ WaitedToRecv \/ RecvFails
    BY <2>5 DEF RecvAgain, RecvTimesOut, WaitedToRecv, RecvFails, Returns, Inv, StageInv
  <2> QED BY <2>1, <2>2, <2>3, <2>4, <2>5
<1>3. LimitExact'
  BY <1>1, <1>2 DEF LimitInv, LimitExact, SentSoFar
<1> QED BY <1>1, <1>2, <1>3 DEF LimitInv, SentSoFar

\* A part libcurl hands over: what is buffered or delivered is within the limit, and
\* what is refused is not.
LEMMA LimitReceive ==
  ASSUME Inv, Inv', LimitInv, Receive
  PROVE  LimitInv'
<1> DEFINE h == Head(wire)
<1>1. PICK n \in PartSizes : HandOver(n)
  BY DEF Receive
<1>2. HandsOver(n) /\ wire # <<>> /\ UNCHANGED <<server, sent, handle>>
  BY <1>1 DEF HandOver, RecvPing, RecvTooBig, RecvPart, RecvLast, RecvClosePart, RecvCloseEnd,
     HandsOver, serverVars
<1>3. /\ h = wire[1] /\ 1 \in 1..Len(wire) /\ n \in Nat /\ handle = "open" /\ usable
      /\ \A i \in 1..Len(wire') : \E j \in 1..Len(wire) : wire'[i] = wire[j]
  BY <1>2, ShrinkStep
<1>4. /\ Len(buf) \in Nat /\ Len(buf) <= MaxMsg /\ outcome # "toobig"
      /\ \A i \in 1..Len(delivered) : Len(delivered[i].data) <= MaxMsg
  BY <1>3, ServerFacts DEF Inv, LimitInv, LimitExact
<1>5. (\A i \in 1..Len(wire) : IsData(wire[i]) =>
         wire[i].msg \in 1..server.msg /\ wire[i].off + wire[i].len <= SentSoFar(wire[i].msg))'
  <2> SUFFICES ASSUME NEW i \in 1..Len(wire'), IsData(wire'[i])
               PROVE  /\ wire'[i].msg \in 1..server'.msg
                      /\ (wire[i].off + wire[i].len <= SentSoFar(wire[i].msg))'
    BY DEF IsData
  <2>1. PICK j \in 1..Len(wire) : wire'[i] = wire[j]
    BY <1>3
  <2>2. wire[j].msg \in 1..server.msg /\ wire[j].off + wire[j].len <= SentSoFar(wire[j].msg)
    BY <2>1 DEF LimitInv, IsData
  <2> QED BY <1>2, <2>1, <2>2 DEF SentSoFar
<1>6. CASE RecvPing(n)
  <2>1. UNCHANGED <<buf, outcome, delivered>>
    BY <1>6 DEF RecvPing, assembly, call, history
  <2> QED BY <1>2, <1>3, <1>4, <1>5, <2>1 DEF LimitInv, LimitExact
<1>7. CASE RecvTooBig(n)
  <2>1. UNCHANGED <<buf, delivered>> /\ ~usable' /\ outcome' = (IF Fits(n) THEN "nomemory" ELSE "toobig")
    BY <1>7 DEF RecvTooBig, Returns, history
  <2>2. PICK k : k = Len(delivered) + 1
    OBVIOUS
  <2>3. ~Fits(n) => SentSoFar(k) > MaxMsg
    <3> SUFFICES ASSUME ~Fits(n) PROVE SentSoFar(k) > MaxMsg
      OBVIOUS
    <3>1. IsData(h)
      BY <1>7 DEF RecvTooBig, IsData
    <3>2. h.msg = k /\ Len(buf) = h.off + used
      BY <1>2, <2>2, <3>1, PartContinues
    <3>3. h.off + h.len <= SentSoFar(k) /\ k \in 1..server.msg
      BY <1>3, <3>1, <3>2 DEF LimitInv
    <3>4. n # 0 /\ Len(buf) + n > MaxMsg
      BY <1>3, <1>4, LimitAssumption DEF Fits
    <3>5. h.off \in Nat /\ h.len \in Nat /\ used \in Nat
      BY <1>3, WireFacts, ServerFacts DEF Inv
    <3>6. n <= h.len - used
      BY <1>2, <1>3, <3>4, <3>5 DEF HandsOver, PartSizes
    <3>7. SentSoFar(k) \in Nat
      <4>1. sent \in Seq(SentMessages) /\ server.off \in Nat /\ server.msg = Len(sent) + 1
        BY ServerFacts DEF Inv, WireInv
      <4>2. \A r \in SentMessages : r.len \in Nat
        BY DEF SentMessages
      <4> QED BY <3>3, <4>1, <4>2 DEF SentSoFar
    <3>8. h.off + h.len > MaxMsg
      BY <1>3, <1>4, <3>2, <3>4, <3>5, <3>6, LimitAssumption
    <3> QED BY <3>3, <3>5, <3>7, <3>8, LimitAssumption
  <2>4. LimitExact'
    BY <1>2, <1>4, <2>1, <2>2, <2>3 DEF LimitExact, SentSoFar
  <2> QED BY <1>2, <1>3, <1>4, <1>5, <2>1, <2>4 DEF LimitInv
<1>8. CASE RecvPart(n)
  <2>1. UNCHANGED <<outcome, delivered>> /\ buf' = buf \o Part(n) /\ Fits(n) /\ IsData(h)
    BY <1>8 DEF RecvPart, call, history, IsData
  <2>2. Len(buf') = Len(buf) + n
    BY <1>2, <2>1, PartContinues
  <2>3. Len(buf') <= MaxMsg
    BY <1>3, <1>4, <2>1, <2>2 DEF Fits
  <2> QED BY <1>2, <1>3, <1>4, <1>5, <2>1, <2>3 DEF LimitInv, LimitExact
<1>9. CASE RecvLast(n)
  <2>1. PICK m : /\ m = [kind |-> StartedKind, data |-> buf \o Part(n)]
                 /\ delivered' = Append(delivered, m) /\ m.data = buf \o Part(n)
    BY <1>9, SMTT(30) DEF RecvLast
  <2>2. buf' = <<>> /\ outcome' = "message" /\ Fits(n) /\ IsData(h)
    BY <1>9 DEF RecvLast, Returns, IsData
  <2>3. Len(m.data) <= MaxMsg
    <3>1. Len(m.data) = Len(buf) + n
      BY <1>2, <2>1, <2>2, PartContinues
    <3> QED BY <1>3, <1>4, <2>2, <3>1 DEF Fits
  <2>4. \A i \in 1..Len(delivered') : Len(delivered'[i].data) <= MaxMsg
    <3>1. delivered \in Seq(Messages)
      BY ServerFacts DEF Inv
    <3>2. \A i \in 1..Len(delivered') : (i \in 1..Len(delivered) /\ delivered'[i] = delivered[i]) \/ delivered'[i] = m
      BY <2>1, <3>1
    <3> QED BY <1>4, <2>3, <3>2
  <2>5. Len(buf') <= MaxMsg
    BY <2>2, LimitAssumption
  <2> QED BY <1>2, <1>3, <1>5, <2>2, <2>4, <2>5 DEF LimitInv, LimitExact
<1>10. CASE RecvClosePart(n)
  <2>1. UNCHANGED <<outcome, delivered>> /\ buf' \in CloseBuffers(n)
    BY <1>10 DEF RecvClosePart, call, history
  <2>2. Len(buf') <= MaxMsg
    <3>1. CASE buf' = <<>>
      BY <3>1, LimitAssumption
    <3>2. CASE buf' # <<>>
      <4>1. Fits(n) /\ buf' = buf \o Part(n)
        BY <2>1, <3>2 DEF CloseBuffers
      <4>2. Part(n) \in Seq(ByteIdentity) /\ Len(Part(n)) = n /\ buf \in Seq(ByteIdentity)
        BY <1>2, <1>3, PartType, ServerFacts DEF Inv
      <4>3. ASSUME NEW p \in Seq(ByteIdentity) PROVE Len(buf \o p) = Len(buf) + Len(p)
        BY <4>2
      <4>4. Len(buf') = Len(buf) + n
        BY <4>1, <4>2, <4>3
      <4> QED BY <1>3, <1>4, <4>1, <4>4 DEF Fits
    <3> QED BY <3>1, <3>2
  <2> QED BY <1>2, <1>3, <1>4, <1>5, <2>1, <2>2 DEF LimitInv, LimitExact
<1>11. CASE RecvCloseEnd(n)
  <2>1. UNCHANGED <<outcome, delivered>> /\ buf' = <<>>
    BY <1>11 DEF RecvCloseEnd
  <2>2. Len(buf') <= MaxMsg
    BY <2>1, LimitAssumption
  <2> QED BY <1>2, <1>3, <1>4, <1>5, <2>1, <2>2 DEF LimitInv, LimitExact
<1> QED BY <1>1, <1>6, <1>7, <1>8, <1>9, <1>10, <1>11 DEF HandOver

\* The limit is exact, for every limit and however messages are cut (growbuf_append):
\* a receive that reports a message as too big has met one of which the server has
\* sent more than the limit, and nothing longer than the limit is ever delivered.
THEOREM LimitCorrect == Spec => []LimitExact
<1>1. Init => LimitInv
  BY LimitAssumption DEF Init, LimitInv, LimitExact
<1>2. Inv /\ Inv' /\ LimitInv /\ [Next]_vars => LimitInv'
  BY LimitServer, LimitControl, LimitReceive DEF Next, RecvStep
<1>3. LimitInv => LimitExact
  BY DEF LimitInv
<1> QED BY <1>1, <1>2, <1>3, InvCorrect, PTL DEF Spec

-----------------------------------------------------------------------------
(***************************************************************************)
(* Why a connection becomes unusable.                                      *)
(***************************************************************************)
LEMMA StaysSend ==
  ASSUME Inv, StaysInv, "eintr" \notin Faults, SendStep
  PROVE  StaysInv'
<1>1. /\ handle = "open" /\ pc \in {"send", "pollout"} /\ purpose \in {"send", "answer", "free"}
      /\ UNCHANGED <<closing, up, purpose>> /\ (purpose = "answer" => closing # NotClosed)
  BY DEF Inv, StageInv, TypeOK, ClientType, StaysInv, SendStep, SendComplete, SendBlocked, SendTimesOut,
         SendError, WaitedToSend, WaitToSendFails, FrameReturns, network, history
<1>2. CASE SendComplete
  BY <1>1, <1>2 DEF SendComplete, FrameReturns, StaysInv, StaysUsable
<1>3. CASE \E n \in 0..(Current.size - Current.taken) : SendTimesOut(n)
  BY <1>1, <1>3 DEF SendTimesOut, FrameReturns, StaysInv, StaysUsable
<1>4. CASE SendError \/ WaitToSendFails
  BY <1>1, <1>4 DEF SendError, WaitToSendFails, PollFails, FrameReturns, StaysInv, StaysUsable
<1>5. CASE WaitedToSend \/ \E n \in 0..(Current.size - Current.taken) : SendBlocked(n)
  <2>1. usable /\ usable' = usable
    BY <1>1, <1>5 DEF WaitedToSend, SendBlocked, Inv, StageInv
  <2> QED BY <1>1, <2>1 DEF StaysInv, StaysUsable
<1> QED BY <1>2, <1>3, <1>4, <1>5 DEF SendStep

LEMMA StaysCall ==
  ASSUME Inv, StaysInv, Call
  PROVE  StaysInv'
<1>1. CASE Open \/ OpenFails
  BY <1>1 DEF Open, OpenFails, StaysInv, StaysUsable, Inv, StageInv, call, history
<1>2. CASE (\E op \in DataOps, len \in SendLens : Send(op, len)) \/ FreeUsable
  BY <1>2 DEF Send, FreeUsable, BeginFrame, StaysInv, StaysUsable
<1>3. CASE \E t \in RecvTimeouts : Recv(t)
  BY <1>3 DEF Recv, StaysInv, StaysUsable
<1>4. CASE SendRefused \/ FreeUnusable
  BY <1>4 DEF SendRefused, FreeUnusable, Refused, Returns, StaysInv, StaysUsable
<1> QED BY <1>1, <1>2, <1>3, <1>4 DEF Call

LEMMA StaysRecv ==
  ASSUME Inv, StaysInv, "eintr" \notin Faults, RecvStep
  PROVE  StaysInv'
<1>1. pc \in {"recv", "pollin"} /\ usable
  <2>1. pc \in {"recv", "pollin"}
    BY DEF RecvStep, RecvAgain, RecvTimesOut, WaitedToRecv, RecvFails, Receive, HandOver, HandsOver,
           RecvPing, RecvTooBig, RecvPart, RecvLast, RecvClosePart, RecvCloseEnd
  <2> QED BY <2>1 DEF Inv, StageInv
<1>2. CASE RecvAgain \/ RecvTimesOut \/ WaitedToRecv
  BY <1>1, <1>2 DEF RecvAgain, RecvTimesOut, WaitedToRecv, Returns, StaysInv, StaysUsable
<1>3. CASE RecvFails
  BY <1>1, <1>3 DEF RecvFails, PollFails, Returns, StaysInv, StaysUsable, network
<1>4. ASSUME NEW n \in PartSizes, RecvPing(n) \/ RecvPart(n) \/ RecvLast(n) \/ RecvClosePart(n)
      PROVE  StaysInv'
  <2>1. usable' = usable /\ pc' \in {"recv", "idle"}
    BY <1>4 DEF RecvPing, RecvPart, RecvLast, RecvClosePart, HandsOver, Returns, call
  <2> QED BY <1>1, <2>1 DEF StaysInv, StaysUsable
<1>5. ASSUME NEW n \in PartSizes, RecvTooBig(n)
      PROVE  StaysInv'
  BY <1>1, <1>5 DEF RecvTooBig, Returns, StaysInv, StaysUsable
<1>6. ASSUME NEW n \in PartSizes, RecvCloseEnd(n)
      PROVE  StaysInv'
  <2>1. PICK b \in CloseBuffers(n) : \E r \in ReasonsOf(b) : closing' = [code |-> StatusOf(b), reason |-> r]
    BY <1>6 DEF RecvCloseEnd
  <2>2. Len(StatusOf(b)) # 1
    BY <1>6, CloseBuffer DEF RecvCloseEnd
  <2>3. closing' # NotClosed
    <3>1. closing'.code = StatusOf(b)
      BY <2>1
    <3>2. Len(NotClosed.code) = 1
      BY DEF NotClosed
    <3> QED BY <2>2, <3>1, <3>2
  <2> QED BY <2>3 DEF StaysInv, StaysUsable
<1> QED BY <1>2, <1>3, <1>4, <1>5, <1>6 DEF RecvStep, Receive, HandOver

\* Where no signal interrupts poll, a connection stays usable until it breaks, the
\* server closes it, a message cannot be stored or a send runs out of its time: no
\* timeout of a receive makes it unusable (pl_curl/README.md).  The run ws_signal
\* shows that signals do.
THEOREM UsableCorrect ==
  ASSUME "eintr" \notin Faults
  PROVE  Spec => []StaysUsable
<1>1. Init => StaysInv
  BY DEF Init, StaysInv, StaysUsable
<1>2. Inv /\ StaysInv /\ [Next]_vars => StaysInv'
  <2> SUFFICES ASSUME Inv, StaysInv, [Next]_vars PROVE StaysInv'
    OBVIOUS
  <2>1. CASE Server
    <3>1. /\ UNCHANGED <<handle, usable, pc, purpose, left, outcome, closing>>
          /\ up' = up \/ ~up'
      BY <2>1 DEF Server, ServerData, ServerPing, ServerClose, Drop, call, history
    <3> QED BY <3>1 DEF StaysInv, StaysUsable
  <2>2. CASE Tick
    BY <2>2 DEF Tick, StaysInv, StaysUsable, Inv, StageInv, network, history
  <2>3. CASE Done \/ UNCHANGED vars
    BY <2>3 DEF Done, vars, StaysInv, StaysUsable, call, network, history
  <2> QED BY <2>1, <2>2, <2>3, StaysCall, StaysSend, StaysRecv DEF Next
<1>3. StaysInv => StaysUsable
  BY DEF StaysInv
<1> QED BY <1>1, <1>2, <1>3, InvCorrect, PTL DEF Spec

-----------------------------------------------------------------------------
(***************************************************************************)
(* The close of the server.                                                *)
(***************************************************************************)
LEMMA CloseServer ==
  ASSUME Inv, Inv', CloseInv, CloseKept, Server
  PROVE  CloseInv'
<1>1. /\ UNCHANGED <<handle, usable, buf, closing, out, used, delivered>>
      /\ server \in ServerStates /\ wire \in Seq(Frames) /\ Len(wire) \in Nat /\ server.close \in Nat \cup {-1}
  <2>1. server \in ServerStates
    BY DEF Inv, TypeOK, ServerType
  <2> QED BY <2>1, WireFacts DEF Inv, Server, ServerData, ServerPing, ServerClose, Drop, assembly, history, ServerStates
<1>2. CASE Drop
  <2>1. wire' = wire /\ server' = server /\ sent' = sent
    BY <1>2 DEF Drop, serverVars
  <2> QED BY <1>1, <2>1 DEF CloseInv, CloseCodeFaithful, Current
<1>3. ASSUME NEW f, wire' = Append(wire, f), server.close = -1,
             server'.op = "none" => server'.off = 0,
             IF f.op = "close" THEN server'.close = f.len /\ f.len \in CloseLens /\ f.off = 0 /\ sent' = sent
                               ELSE server'.close = -1
      PROVE  CloseInv'
  <2>1. closing = NotClosed
    BY <1>3 DEF CloseInv
  <2>2. \A i \in 1..Len(wire) : wire[i].op # "close"
    <3> SUFFICES ASSUME NEW i \in 1..Len(wire), wire[i].op = "close" PROVE FALSE
      OBVIOUS
    <3>1. wire[i].len = -1 /\ wire[i].len \in Nat
      BY <1>3, WireFacts DEF CloseInv, Inv
    <3> QED BY <3>1
  <2>3. /\ Len(wire') = Len(wire) + 1 /\ wire'[Len(wire) + 1] = f
        /\ \A i \in 1..Len(wire) : wire'[i] = wire[i]
        /\ wire' # <<>> /\ Head(wire') = wire'[1]
    BY <1>1, <1>3
  <2>4. \A i \in 1..Len(wire') : wire'[i].op = "close" =>
          i = Len(wire') /\ wire'[i].len = server'.close /\ wire'[i].off = 0
    <3> SUFFICES ASSUME NEW i \in 1..Len(wire'), wire'[i].op = "close"
                 PROVE  i = Len(wire') /\ wire'[i].len = server'.close /\ wire'[i].off = 0
      OBVIOUS
    <3>1. i = Len(wire) + 1
      BY <1>1, <2>2, <2>3
    <3> QED BY <1>3, <2>3, <3>1
  <2>5. Head(wire').op = "close" /\ (handle = "none" \/ usable) =>
          /\ Len(delivered) = Len(sent') /\ Len(buf) = used
          /\ \A j \in 1..used : buf[j] = <<0, j>>
    <3> SUFFICES ASSUME Head(wire').op = "close", handle = "none" \/ usable
                 PROVE  /\ Len(delivered) = Len(sent') /\ Len(buf) = used
                        /\ \A j \in 1..used : buf[j] = <<0, j>>
      OBVIOUS
    <3>1. wire = <<>> /\ f.op = "close"
      BY <1>1, <2>2, <2>3
    <3>2. Live
      BY <2>1, <3>1 DEF Live
    <3>3. used = 0 /\ Len(buf) = server.off /\ f.off = 0
      BY <1>3, <3>1, <3>2 DEF Inv, ReadInv
    <3>4. f = wire'[1] /\ 1 \in 1..Len(wire')
      BY <2>3, <3>1
    <3>5. Live'
      BY <1>1, <2>1, <3>3 DEF Live
    <3>6. Len(buf') = Head(wire').off
      BY <2>3, <3>3, <3>4, <3>5, <1>1 DEF Inv, ReadInv
    <3>7. Len(delivered) = Len(sent')
      <4>1. server.msg = Len(delivered) + 1 /\ server.msg = Len(sent) + 1
        BY <3>1, <3>2 DEF Inv, ReadInv, WireInv
      <4>2. sent' = sent
        BY <1>3, <3>1
      <4> QED BY <4>1, <4>2, ServerFacts DEF Inv
    <3> QED BY <1>1, <2>3, <3>3, <3>4, <3>6, <3>7
  <2>6. server'.close = -1 \/ server'.close \in CloseLens
    BY <1>3
  <2> QED BY <1>1, <1>3, <2>1, <2>3, <2>4, <2>5, <2>6 DEF CloseInv, CloseCodeFaithful, Current
<1>4. CASE \E op \in DataOps, len \in DataLens, fin \in BOOLEAN : ServerData(op, len, fin)
  <2>1. PICK op \in DataOps, len \in DataLens, fin \in BOOLEAN : ServerData(op, len, fin)
    BY <1>4
  <2>2. PICK f : f = Frame(op, len, fin)
    OBVIOUS
  <2>3. wire' = Append(wire, f) /\ f.op # "close" /\ server.close = -1
    BY <2>1, <2>2 DEF ServerData, CanSend, Frame, DataOps
  <2>4. server'.close = -1 /\ (server'.op = "none" => server'.off = 0)
    BY <1>1, <2>1, <2>3 DEF ServerData, ServerStates, DataOps
  <2> QED BY <1>3, <2>3, <2>4
<1>5. CASE \E len \in PingLens : ServerPing(len)
  <2>1. PICK len \in PingLens : ServerPing(len)
    BY <1>5
  <2>2. PICK f : f = Frame("ping", len, TRUE)
    OBVIOUS
  <2>3. wire' = Append(wire, f) /\ f.op # "close" /\ server.close = -1 /\ server' = server
    BY <2>1, <2>2 DEF ServerPing, CanSend, Frame, serverVars
  <2> QED BY <1>3, <2>3 DEF CloseInv
<1>6. CASE \E len \in CloseLens : ServerClose(len)
  <2>1. PICK len \in CloseLens : ServerClose(len)
    BY <1>6
  <2>2. PICK f : f = Frame("close", len, TRUE)
    OBVIOUS
  <2>3. /\ wire' = Append(wire, f) /\ f.op = "close" /\ f.len = len /\ f.off = server.off /\ sent' = sent
        /\ server.close = -1 /\ server.op = "none"
        /\ server' = [server EXCEPT !.close = len]
    BY <2>1, <2>2 DEF ServerClose, CanSend, Frame, CloseKept
  <2>4. server'.close = len /\ server'.op = "none" /\ server'.off = server.off /\ server.off = 0
    BY <1>1, <2>3 DEF ServerStates, CloseInv
  <2> QED BY <1>3, <2>3, <2>4
<1> QED BY <1>2, <1>4, <1>5, <1>6 DEF Server

\* A step that receives nothing and begins no frame after a close.
LEMMA CloseControl ==
  ASSUME Inv, CloseInv,
         \/ Tick \/ Call \/ SendStep \/ Done \/ UNCHANGED vars
         \/ RecvAgain \/ RecvTimesOut \/ WaitedToRecv \/ RecvFails
  PROVE  CloseInv'
<1>1. UNCHANGED <<wire, used, server, sent, delivered, buf, closing>>
  BY DEF Tick, Call, Open, OpenFails, Send, Recv, SendRefused, Refused, FreeUsable, FreeUnusable,
         SendStep, SendComplete, SendBlocked, SendTimesOut, SendError, WaitedToSend, WaitToSendFails,
         RecvAgain, RecvTimesOut, WaitedToRecv, RecvFails, Done, vars,
         assembly, network, serverVars, history
<1>2. handle' = "none" \/ usable' => handle = "none" \/ usable
  <2>1. CASE Tick \/ Done \/ UNCHANGED vars
    BY <2>1 DEF Tick, Done, vars
  <2>2. CASE Call
    BY <2>2 DEF Call, Open, OpenFails, Send, Recv, SendRefused, Refused, FreeUsable, FreeUnusable
  <2>3. CASE SendStep
    BY <2>3 DEF Inv, StageInv, SendStep, SendComplete, SendBlocked, SendTimesOut, SendError,
       WaitedToSend, WaitToSendFails
  <2>4. CASE RecvAgain \/ RecvTimesOut \/ WaitedToRecv \/ RecvFails
    BY <2>4 DEF RecvAgain, RecvTimesOut, WaitedToRecv, RecvFails
  <2> QED BY <2>1, <2>2, <2>3, <2>4
<1>3. closing # NotClosed =>
        out' # <<>> /\ Current'.op = "close" /\ Current'.code = closing.code
  <2> SUFFICES ASSUME closing # NotClosed
               PROVE  out' # <<>> /\ Current'.op = "close" /\ Current'.code = closing.code
    OBVIOUS
  <2>1. out # <<>> /\ Current.op = "close" /\ Current.code = closing.code
    BY DEF CloseInv, CloseCodeFaithful
  <2>2. CASE out' = out
    BY <2>1, <2>2 DEF Current
  <2>3. CASE \E n \in Nat : TakeBytes(n)
    <3>1. PICK n \in Nat : TakeBytes(n)
      BY <2>3
    <3>2. out \in Seq(OutFrames)
      BY DEF Inv, TypeOK, OutType
    <3>3. /\ out' \in Seq(OutFrames) /\ Len(out') = Len(out) /\ Len(out) \in 1..Len(out)
          /\ \A i \in 1..Len(out) : out'[i].op = out[i].op /\ out'[i].code = out[i].code
      BY <2>1, <3>1, <3>2, TakeType
    <3> QED BY <2>1, <3>3 DEF Current
  <2>4. out' = out \/ \E n \in Nat : TakeBytes(n)
    <3>1. CASE SendStep
      <4>1. Current.size - Current.taken \in Nat
        <5>1. out \in Seq(OutFrames) /\ Len(out) \in 1..Len(out)
          BY <2>1 DEF Inv, TypeOK, OutType
        <5>2. Current \in OutFrames /\ Current.taken <= Current.size
          BY <5>1 DEF Inv, TypeOK, OutType, Current
        <5>3. Current.taken \in Nat /\ Current.size \in Nat
          BY <5>2 DEF OutFrames
        <5> QED BY <5>2, <5>3
      <4>2. CASE SendComplete
        BY <4>1, <4>2 DEF SendComplete
      <4>3. CASE \E n \in 0..(Current.size - Current.taken) : SendBlocked(n) \/ SendTimesOut(n)
        <5>1. PICK n \in 0..(Current.size - Current.taken) : SendBlocked(n) \/ SendTimesOut(n)
          BY <4>3
        <5>2. n \in Nat
          BY <4>1
        <5>3. TakeBytes(n)
          BY <5>1 DEF SendBlocked, SendTimesOut
        <5> QED BY <5>2, <5>3
      <4>4. CASE SendError \/ WaitedToSend \/ WaitToSendFails
        BY <4>4 DEF SendError, WaitedToSend, WaitToSendFails
      <4> QED BY <3>1, <4>2, <4>3, <4>4 DEF SendStep
    <3>2. CASE Call
      <4>1. ~(usable /\ pc = "idle")
        BY DEF Inv, StageInv
      <4> QED BY <3>2, <4>1 DEF Call, Open, OpenFails, Send, Recv, SendRefused, Refused, FreeUsable, FreeUnusable
    <3>3. CASE ~SendStep /\ ~Call
      BY <3>3 DEF Tick, RecvAgain, RecvTimesOut, WaitedToRecv, RecvFails, Done, vars
    <3> QED BY <3>1, <3>2, <3>3
  <2> QED BY <2>2, <2>3, <2>4
<1>4. CloseCodeFaithful'
  BY <1>1, <1>3 DEF CloseInv, CloseCodeFaithful
<1> QED BY <1>1, <1>2, <1>3, <1>4 DEF CloseInv

\* One sequence behind another.
LEMMA Concatenation ==
  ASSUME NEW S, NEW p \in Seq(S), NEW q \in Seq(S), NEW r, r = p \o q
  PROVE  /\ r \in Seq(S) /\ Len(r) = Len(p) + Len(q)
         /\ \A j \in 1..(Len(p) + Len(q)) : r[j] = IF j <= Len(p) THEN p[j] ELSE q[j - Len(p)]
OBVIOUS

\* Without memory trouble and within the limit, the buffer after a part of the close
\* frame is its first bytes.
LEMMA ClosePayload ==
  ASSUME Inv, CloseInv, CloseKept, NEW n, HandsOver(n), UNCHANGED <<server, sent>>,
         Head(wire).op = "close",
         NEW b \in CloseBuffers(n)
  PROVE  /\ b \in Seq(ByteIdentity) /\ Len(b) = used + n /\ \A j \in 1..(used + n) : b[j] = <<0, j>>
         /\ Len(wire) = 1 /\ Head(wire).len = server.close
         /\ n \in Nat /\ used \in Nat /\ server.close \in Nat
<1> DEFINE h == Head(wire)
<1>1. /\ wire # <<>> /\ h = wire[1] /\ 1 \in 1..Len(wire) /\ usable /\ closing = NotClosed
      /\ n \in PartSizes /\ n \in Nat
  BY ShrinkStep DEF HandsOver
<1>2. /\ Len(wire) = 1 /\ h.len = server.close /\ h.len \in Nat /\ server.close \in CloseLens
      /\ used \in Nat /\ Len(buf) = used /\ buf \in Seq(ByteIdentity)
      /\ \A j \in 1..used : buf[j] = <<0, j>>
  <2>1. h.len \in Nat /\ used \in Nat /\ buf \in Seq(ByteIdentity)
    BY <1>1, WireFacts, ServerFacts DEF Inv
  <2>2. Len(wire) = 1 /\ h.len = server.close
    BY <1>1 DEF CloseInv
  <2>3. server.close \in CloseLens
    BY <2>1, <2>2 DEF CloseInv
  <2>4. Len(buf) = used /\ \A j \in 1..used : buf[j] = <<0, j>>
    BY <1>1 DEF CloseInv
  <2> QED BY <2>1, <2>2, <2>3, <2>4
<1>3. n = 0 \/ used + n <= MaxMsg
  <2>1. h.len <= MaxMsg
    BY <1>2 DEF CloseKept
  <2> QED BY <1>1, <1>2, <2>1, LimitAssumption DEF PartSizes
<1>4. b = buf \o Part(n)
  BY <1>1, <1>2, <1>3 DEF CloseBuffers, Fits, CanFailToAppend, CloseKept
<1>5. PICK p : p = Part(n)
  OBVIOUS
<1>6. p \in Seq(ByteIdentity) /\ Len(p) = n /\ \A i \in 1..n : p[i] = <<0, used + i>>
  <2>1. p \in Seq(ByteIdentity) /\ Len(p) = n /\ \A i \in 1..n : p[i] = Byte(h, used + i)
    BY <1>1, <1>5, PartType DEF Inv
  <2>2. \A i \in 1..n : Byte(h, used + i) = <<0, used + i>>
    BY DEF Byte, DataOps
  <2> QED BY <2>1, <2>2
<1>7. /\ b = buf \o p /\ b \in Seq(ByteIdentity) /\ Len(b) = used + n
      /\ \A j \in 1..(used + n) : b[j] = IF j <= used THEN buf[j] ELSE p[j - used]
  <2>1. b = buf \o p
    BY <1>4, <1>5
  <2>2. buf \in Seq(ByteIdentity) /\ p \in Seq(ByteIdentity) /\ Len(buf) = used /\ Len(p) = n
    BY <1>2, <1>6
  <2>3. /\ b \in Seq(ByteIdentity) /\ Len(b) = Len(buf) + Len(p)
        /\ \A j \in 1..(Len(buf) + Len(p)) : b[j] = IF j <= Len(buf) THEN buf[j] ELSE p[j - Len(buf)]
    <3>1. PICK c : c = buf
      OBVIOUS
    <3>2. b = c \o p /\ c \in Seq(ByteIdentity) /\ p \in Seq(ByteIdentity)
      BY <2>1, <2>2, <3>1
    <3>3. /\ b \in Seq(ByteIdentity) /\ Len(b) = Len(c) + Len(p)
          /\ \A j \in 1..(Len(c) + Len(p)) : b[j] = IF j <= Len(c) THEN c[j] ELSE p[j - Len(c)]
      BY <3>2, Concatenation
    <3> QED BY <3>1, <3>3
  <2>4. \A j \in 1..(used + n) : b[j] = IF j <= used THEN buf[j] ELSE p[j - used]
    BY <2>2, <2>3
  <2> QED BY <2>1, <2>2, <2>3, <2>4
<1>8. ASSUME NEW j \in 1..(used + n) PROVE b[j] = <<0, j>>
  <2>1. CASE j <= used
    <3>1. j \in 1..used /\ b[j] = buf[j]
      BY <1>1, <1>2, <1>7, <2>1
    <3> QED BY <1>2, <3>1
  <2>2. CASE ~(j <= used)
    <3>1. PICK i : i = j - used
      OBVIOUS
    <3>2. i \in 1..n /\ used + i = j
      BY <1>1, <1>2, <2>2, <3>1
    <3>3. b[j] = p[i]
      BY <1>7, <2>2, <3>1
    <3> QED BY <1>6, <3>2, <3>3
  <2> QED BY <2>1, <2>2
<1>9. server.close \in Nat
  BY <1>2
<1> QED BY <1>1, <1>2, <1>7, <1>8, <1>9

LEMMA CloseReceive ==
  ASSUME Inv, Inv', CloseInv, CloseKept, Receive
  PROVE  CloseInv'
<1> DEFINE h == Head(wire)
<1>1. PICK n \in PartSizes : HandOver(n)
  BY DEF Receive
<1>2. /\ HandsOver(n) /\ wire # <<>> /\ UNCHANGED <<server, sent, handle>>
      /\ (usable' => usable)
  BY <1>1 DEF HandOver, RecvPing, RecvTooBig, RecvPart, RecvLast, RecvClosePart, RecvCloseEnd,
     HandsOver, serverVars
<1>3. /\ h = wire[1] /\ 1 \in 1..Len(wire) /\ n \in Nat /\ handle = "open" /\ usable /\ closing = NotClosed
      /\ BytesLeft(n) # 0 => wire' = wire /\ used' = used + n
      /\ BytesLeft(n) = 0 => used + n = h.len /\ used' = 0
  BY <1>2, ShrinkStep
<1>4. BytesLeft(n) = 0 => wire' = Tail(wire)
  BY <1>2 DEF HandsOver
<1>5. wire \in Seq(Frames) /\ wire' \in Seq(Frames)
  BY DEF Inv, TypeOK, WireType
<1>6. \A i \in 1..Len(wire') : wire'[i].op = "close" =>
        i = Len(wire') /\ wire'[i].len = server'.close /\ wire'[i].off = 0
  <2>1. CASE BytesLeft(n) # 0
    BY <1>2, <1>3, <2>1 DEF CloseInv
  <2>2. CASE BytesLeft(n) = 0
    <3>1. Len(wire') = Len(wire) - 1 /\ Len(wire) \in Nat
          /\ \A i \in 1..Len(wire') : i + 1 \in 1..Len(wire) /\ wire'[i] = wire[i + 1]
      BY <1>2, <1>4, <1>5, <2>2
    <3>2. \A j \in 1..Len(wire) : wire[j].op = "close" =>
            j = Len(wire) /\ wire[j].len = server.close /\ wire[j].off = 0
      BY DEF CloseInv
    <3> QED BY <1>2, <3>1, <3>2
  <2> QED BY <2>1, <2>2
<1>7. CASE RecvCloseEnd(n)
  <2>1. PICK b \in CloseBuffers(n) : \E r \in ReasonsOf(b) :
          /\ closing' = [code |-> StatusOf(b), reason |-> r]
          /\ BeginFrame(OutFrame("close", Len(StatusOf(b)), StatusOf(b)), "answer")
    BY <1>7 DEF RecvCloseEnd
  <2>2. /\ b \in Seq(ByteIdentity) /\ Len(b) = used + n /\ \A j \in 1..(used + n) : b[j] = <<0, j>>
        /\ Len(wire) = 1 /\ h.len = server.close /\ server.close \in Nat /\ used \in Nat
    BY <1>2, <1>7, ClosePayload DEF RecvCloseEnd
  <2>3. BytesLeft(n) = 0 /\ h.op = "close"
    BY <1>7 DEF RecvCloseEnd
  <2>4. Len(b) = server.close /\ \A j \in 1..server.close : b[j] = <<0, j>>
    BY <1>3, <2>2, <2>3
  <2>5. StatusOf(b) = IF server.close >= 2 THEN <<<<0, 1>>, <<0, 2>>>> ELSE <<>>
    <3>1. CASE server.close >= 2
      <4>1. SubSeq(b, 1, 2) = <<b[1], b[2]>>
        <5>1. b \in Seq(ByteIdentity) /\ Len(b) >= 2
          BY <2>2, <2>4, <3>1
        <5>2. SubSeq(b, 1, 2) \in Seq(ByteIdentity) /\ Len(SubSeq(b, 1, 2)) = 2
          BY <5>1
        <5>3. SubSeq(b, 1, 2)[1] = b[1] /\ SubSeq(b, 1, 2)[2] = b[2]
          BY <5>1
        <5>4. PICK q : q = SubSeq(b, 1, 2)
          OBVIOUS
        <5>5. q \in Seq(ByteIdentity) /\ Len(q) = 2 /\ q[1] = b[1] /\ q[2] = b[2]
          BY <5>2, <5>3, <5>4
        <5>6. q = <<q[1], q[2]>>
          BY <5>5
        <5> QED BY <5>4, <5>5, <5>6
      <4>2. b[1] = <<0, 1>> /\ b[2] = <<0, 2>>
        BY <2>2, <2>4, <3>1
      <4> QED BY <2>4, <3>1, <4>1, <4>2 DEF StatusOf
    <3>2. CASE ~(server.close >= 2)
      BY <2>4, <3>2 DEF StatusOf
    <3> QED BY <3>1, <3>2
  <2>6. closing'.code = StatusOf(b)
    BY <2>1
  <2>7. PICK f : f = OutFrame("close", Len(StatusOf(b)), StatusOf(b))
    OBVIOUS
  <2>8. f.op = "close" /\ f.code = StatusOf(b)
    BY <2>7 DEF OutFrame
  <2>9. out' = Append(out, f) /\ out \in Seq(OutFrames)
    BY <2>1, <2>7 DEF BeginFrame, Inv, TypeOK, OutType
  <2>10. out' # <<>> /\ Current' = f
    BY <2>9 DEF Current
  <2>11. closing' # NotClosed
    <3>1. Len(StatusOf(b)) # 1
      BY <1>2, CloseBuffer
    <3>2. Len(NotClosed.code) = 1
      BY DEF NotClosed
    <3> QED BY <2>6, <3>1, <3>2
  <2>12. CloseCodeFaithful' /\ server'.close # -1
    <3>1. server'.close = server.close /\ server.close # -1
      BY <1>2, <2>2
    <3> QED BY <2>5, <2>6, <2>8, <2>10, <3>1 DEF CloseCodeFaithful
  <2> QED BY <1>2, <1>6, <2>10, <2>11, <2>12 DEF CloseInv
<1>8. CASE RecvClosePart(n)
  <2>1. buf' \in CloseBuffers(n) /\ h.op = "close" /\ BytesLeft(n) > 0 /\ UNCHANGED <<usable, closing, delivered, out>>
    BY <1>8 DEF RecvClosePart, history
  <2>2. Len(buf') = used + n /\ \A j \in 1..(used + n) : buf'[j] = <<0, j>>
    BY <1>2, <2>1, ClosePayload
  <2>3. used' = used + n /\ wire' = wire
    <3>1. BytesLeft(n) # 0
      BY <2>1
    <3> QED BY <1>3, <3>1
  <2> QED BY <1>2, <1>3, <1>6, <2>1, <2>2, <2>3 DEF CloseInv, CloseCodeFaithful
<1>9. CASE RecvPing(n) \/ RecvTooBig(n) \/ RecvPart(n) \/ RecvLast(n)
  <2>1. h.op # "close" /\ closing' = closing
    BY <1>9 DEF RecvPing, RecvTooBig, RecvPart, RecvLast, DataOps, history
  <2>2. wire' # <<>> /\ Head(wire').op = "close" /\ (handle' = "none" \/ usable') =>
          /\ Len(delivered') = Len(sent') /\ Len(buf') = used'
          /\ \A j \in 1..used' : buf'[j] = <<0, j>>
    <3> SUFFICES ASSUME wire' # <<>>, Head(wire').op = "close", handle' = "none" \/ usable'
                 PROVE  /\ Len(delivered') = Len(sent') /\ Len(buf') = used'
                        /\ \A j \in 1..used' : buf'[j] = <<0, j>>
      OBVIOUS
    <3>1. used' = 0
      BY <1>3, <2>1
    <3>2. Live' /\ ~IsData(Head(wire'))
      BY <1>3, <2>1, <3>1 DEF Live, IsData, DataOps
    <3>3. Head(wire') = wire'[1] /\ 1 \in 1..Len(wire')
      BY <1>5
    <3>4. Head(wire').off = 0
      BY <1>6, <3>3
    <3>5. Len(buf') = Head(wire').off + 0
      BY <3>2 DEF Inv, ReadInv, IsData
    <3>6. Len(delivered') = Len(sent')
      <4>1. Head(wire').msg = Len(delivered') + 1
        BY <3>2 DEF Inv, ReadInv
      <4>2. server'.msg = MsgAfter(wire'[Len(wire')]) /\ server'.msg = Len(sent') + 1
        BY DEF Inv, WireInv, MsgAfter, IsData
      <4>3. Len(wire') = 1 /\ server'.msg = Head(wire').msg
        BY <1>6, <3>2, <3>3, <4>2 DEF MsgAfter, IsData
      <4>4. sent' \in Seq(SentMessages) /\ delivered' \in Seq(Messages)
        BY DEF Inv, TypeOK, ServerType, HistoryType
      <4> QED BY <4>1, <4>2, <4>3, <4>4
    <3> QED BY <3>1, <3>4, <3>5, <3>6
  <2> QED BY <1>2, <1>3, <1>6, <2>1, <2>2 DEF CloseInv, CloseCodeFaithful
<1> QED BY <1>1, <1>7, <1>8, <1>9 DEF HandOver

LEMMA CloseInvCorrect ==
  ASSUME CloseKept
  PROVE  Spec => []CloseInv
<1>1. Init => CloseInv
  BY DEF Init, CloseInv, CloseCodeFaithful
<1>2. Inv /\ Inv' /\ CloseInv /\ [Next]_vars => CloseInv'
  BY CloseServer, CloseControl, CloseReceive DEF Next, RecvStep
<1> QED BY <1>1, <1>2, InvCorrect, PTL DEF Spec

\* Where the server closes between its messages, memory does not run out and a close
\* frame is within the limit, the status reported and answered is the server's
\* (pl_curl_ws_recv), however its frame is cut and whatever came before.
THEOREM CloseCodeCorrect ==
  ASSUME CloseKept
  PROVE  Spec => []CloseCodeFaithful
<1>1. CloseInv => CloseCodeFaithful
  BY DEF CloseInv
<1> QED BY <1>1, CloseInvCorrect, PTL

-----------------------------------------------------------------------------
(***************************************************************************)
(* The stream the caller sees.                                             *)
(***************************************************************************)
\* What is not touched is not seen.
LEMMA StreamUnseen ==
  ASSUME Inv, UNCHANGED <<sent, delivered, closing, handle, usable>>, server'.close = server.close
  PROVE  UNCHANGED Stream!vars
BY DEF Stream!vars, StreamSent, StreamCode, StreamTold, StreamStatus, Whole

\* A connection that ends, or had ended before.
LEMMA StreamEnds ==
  ASSUME Inv, UNCHANGED <<sent, delivered, closing, server>>, handle # "none", handle' # "none",
         handle' = "open" /\ usable' => handle = "open" /\ usable
  PROVE  Stream!End \/ UNCHANGED Stream!vars
<1>1. UNCHANGED <<StreamSent, StreamCode, StreamTold>>
  BY DEF StreamSent, StreamCode, StreamTold, Whole
<1>2. StreamStatus' = StreamStatus \/ (StreamStatus = "up" /\ StreamStatus' = "over")
  BY DEF StreamStatus
<1> QED BY <1>1, <1>2 DEF Stream!vars, Stream!End

LEMMA StreamServer ==
  ASSUME Inv, CloseInv, Server
  PROVE  Stream!Next \/ UNCHANGED Stream!vars
<1>1. /\ UNCHANGED <<handle, usable, delivered, closing>>
      /\ server \in ServerStates /\ sent \in Seq(SentMessages) /\ Len(sent) \in Nat
  BY ServerFacts DEF Inv, TypeOK, ServerType, Server, ServerData, ServerPing, ServerClose, Drop, history
<1>2. StreamStatus' = StreamStatus /\ StreamTold' = StreamTold
  BY <1>1 DEF StreamStatus, StreamTold
<1>3. CanSend => StreamStatus # "new" /\ StreamCode = "open"
  BY DEF CanSend, Inv, StageInv, StreamStatus, StreamCode
<1>4. ASSUME NEW op \in DataOps, NEW len \in DataLens, NEW fin \in BOOLEAN, ServerData(op, len, fin)
      PROVE  Stream!Next \/ UNCHANGED Stream!vars
  <2>1. server'.close = server.close
    BY <1>1, <1>4 DEF ServerData, ServerStates
  <2>2. CASE fin
    <3>1. PICK r : sent' = Append(sent, r)
      BY <1>4, <2>2 DEF ServerData
    <3>2. Len(sent') = Len(sent) + 1 /\ \A k \in 1..Len(sent) : sent'[k] = sent[k]
      BY <1>1, <3>1
    <3>3. \A k \in 1..Len(sent) : Whole(k)' = Whole(k)
      BY <3>2 DEF Whole
    <3>4. PICK s : s = StreamSent
      OBVIOUS
    <3>5. PICK t : t = StreamSent'
      OBVIOUS
    <3>6. PICK S : S = {s[i] : i \in 1..Len(sent)} \cup {t[i] : i \in 1..Len(sent')}
      OBVIOUS
    <3>7. /\ s \in Seq(S) /\ Len(s) = Len(sent)
          /\ \A k \in 1..Len(sent) : s[k] = Whole(k)
      BY <1>1, <3>4, <3>6 DEF StreamSent
    <3>8. /\ t \in Seq(S) /\ Len(t) = Len(sent) + 1
          /\ \A k \in 1..Len(sent) : t[k] = Whole(k)'
      BY <1>1, <3>2, <3>5, <3>6 DEF StreamSent
    <3>9. SubSeq(t, 1, Len(s)) = s
      BY <1>1, <3>3, <3>7, <3>8
    <3>10. StreamCode' = StreamCode /\ StreamStatus # "new" /\ StreamCode = "open"
      BY <1>3, <1>4, <2>1 DEF StreamCode, ServerData
    <3> QED BY <1>1, <1>2, <3>4, <3>7, <3>8, <3>9, <3>10, <3>5 DEF Stream!Next, Stream!ServerSends
  <2>3. CASE ~fin
    BY <1>1, <1>4, <2>1, <2>3, StreamUnseen DEF ServerData
  <2> QED BY <2>2, <2>3
<1>5. ASSUME NEW len \in CloseLens, ServerClose(len)
      PROVE  Stream!Next
  <2>1. server'.close = len /\ sent' = sent /\ CanSend /\ len \in Nat
    BY <1>1, <1>5, SizesAssumption DEF ServerClose, ServerStates
  <2>2. StreamCode' \in {"none", "given"} /\ StreamSent' = StreamSent
    BY <2>1 DEF StreamCode, StreamSent, Whole
  <2> QED BY <1>1, <1>2, <1>3, <2>1, <2>2 DEF Stream!Next, Stream!ServerCloses
<1>6. ASSUME Drop \/ \E len \in PingLens : ServerPing(len)
      PROVE  UNCHANGED Stream!vars
  BY <1>1, <1>6, StreamUnseen DEF Drop, ServerPing, serverVars
<1> QED BY <1>4, <1>5, <1>6 DEF Server

LEMMA StreamControl ==
  ASSUME Inv,
         \/ Tick \/ Call \/ SendStep \/ Done \/ UNCHANGED vars
         \/ RecvAgain \/ RecvTimesOut \/ WaitedToRecv \/ RecvFails
  PROVE  Stream!Next \/ UNCHANGED Stream!vars
<1>1. UNCHANGED <<server, sent, delivered, closing>>
  BY DEF Tick, Call, Open, OpenFails, Send, Recv, SendRefused, Refused, FreeUsable, FreeUnusable,
         SendStep, SendComplete, SendBlocked, SendTimesOut, SendError, WaitedToSend, WaitToSendFails,
         RecvAgain, RecvTimesOut, WaitedToRecv, RecvFails, Done, vars, serverVars, history
<1>2. CASE Tick \/ Done \/ UNCHANGED vars \/ RecvAgain \/ RecvTimesOut \/ WaitedToRecv
  <2>1. UNCHANGED <<handle, usable>>
    BY <1>2 DEF Tick, Done, vars, RecvAgain, RecvTimesOut, WaitedToRecv
  <2> QED BY <1>1, <2>1, StreamUnseen
<1>3. CASE Open \/ OpenFails
  <2>1. StreamStatus = "new" /\ StreamStatus' \in {"up", "over"}
    BY <1>1, <1>3 DEF Open, OpenFails, StreamStatus, Inv, StageInv
  <2>2. UNCHANGED <<StreamSent, StreamCode, StreamTold>>
    BY <1>1 DEF StreamSent, StreamCode, StreamTold, Whole
  <2> QED BY <1>1, <2>1, <2>2 DEF Stream!Next, Stream!Connect
<1>4. CASE Call /\ ~(Open \/ OpenFails)
  <2>1. handle = "open" /\ handle' # "none" /\ usable' = usable
    BY <1>4 DEF Call, Send, Recv, SendRefused, Refused, FreeUsable, FreeUnusable
  <2> QED BY <1>1, <2>1, StreamEnds DEF Stream!Next
<1>5. CASE SendStep
  <2>1. handle = "open" /\ usable
    BY <1>5 DEF Inv, StageInv, SendStep, SendComplete, SendBlocked, SendTimesOut, SendError,
       WaitedToSend, WaitToSendFails
  <2>2. handle' # "none"
    BY <1>5, <2>1 DEF SendStep, SendComplete, SendBlocked, SendTimesOut, SendError, WaitedToSend,
       WaitToSendFails, FrameReturns
  <2> QED BY <1>1, <2>1, <2>2, StreamEnds DEF Stream!Next
<1>6. CASE RecvFails
  <2>1. handle = "open" /\ handle' = handle /\ ~usable'
    BY <1>6 DEF Inv, StageInv, RecvFails
  <2> QED BY <1>1, <2>1, StreamEnds DEF Stream!Next
<1> QED BY <1>2, <1>3, <1>4, <1>5, <1>6

LEMMA StreamReceive ==
  ASSUME Inv, Inv', CloseInv, CloseInv', CloseKept, Receive
  PROVE  Stream!Next \/ UNCHANGED Stream!vars
<1> DEFINE k == Len(delivered) + 1
<1>1. PICK n \in PartSizes : HandOver(n)
  BY DEF Receive
<1>2. HandsOver(n) /\ UNCHANGED <<server, sent, handle>>
  BY <1>1 DEF HandOver, RecvPing, RecvTooBig, RecvPart, RecvLast, RecvClosePart, RecvCloseEnd,
     HandsOver, serverVars
<1>3. handle = "open" /\ usable /\ closing = NotClosed /\ n \in Nat
  BY <1>2, ShrinkStep
<1>4. StreamStatus = "up" /\ StreamSent' = StreamSent /\ StreamCode' = StreamCode
  BY <1>2, <1>3 DEF StreamStatus, StreamSent, StreamCode, Whole
<1>5. CASE RecvPing(n) \/ RecvPart(n) \/ RecvClosePart(n)
  BY <1>2, <1>5, StreamUnseen DEF RecvPing, RecvPart, RecvClosePart, history
<1>6. CASE RecvTooBig(n)
  <2>1. UNCHANGED <<delivered, closing>> /\ ~usable' /\ handle' = "open"
    BY <1>2, <1>3, <1>6 DEF RecvTooBig, history
  <2> QED BY <1>2, <1>3, <2>1, StreamEnds DEF Stream!Next
<1>7. CASE RecvLast(n)
  <2>1. PICK m : delivered' = Append(delivered, m)
    BY <1>7 DEF RecvLast
  <2>2. delivered \in Seq(Messages) /\ Len(delivered) \in Nat /\ Len(sent) \in Nat
    BY ServerFacts DEF Inv
  <2>3. Len(delivered') = k /\ delivered'[k] = m
    BY <2>1, <2>2
  <2>4. k <= Len(sent) /\ m = Whole(k)
    <3>1. Len(delivered') <= Len(sent') /\ \A i \in 1..Len(delivered') : delivered'[i] = Whole(i)'
      BY DEF Inv, MessagesFaithful
    <3>2. \A i : Whole(i)' = Whole(i)
      BY <1>2 DEF Whole
    <3> QED BY <1>2, <2>2, <2>3, <3>1, <3>2
  <2>5. Len(StreamSent) = Len(sent) /\ StreamSent[k] = m
    BY <2>2, <2>4 DEF StreamSent
  <2>6. UNCHANGED <<closing, usable>>
    BY <1>7 DEF RecvLast
  <2>7. StreamTold' = StreamTold /\ StreamStatus' = StreamStatus
    BY <1>2, <2>6 DEF StreamTold, StreamStatus
  <2> QED BY <1>4, <2>1, <2>2, <2>4, <2>5, <2>7 DEF Stream!Next, Stream!Deliver
<1>8. CASE RecvCloseEnd(n)
  <2>1. PICK b \in CloseBuffers(n) : \E r \in ReasonsOf(b) : closing' = [code |-> StatusOf(b), reason |-> r]
    BY <1>8 DEF RecvCloseEnd
  <2>2. closing' # NotClosed
    <3>1. closing'.code = StatusOf(b)
      BY <2>1
    <3>2. Len(NotClosed.code) = 1
      BY DEF NotClosed
    <3>3. Len(StatusOf(b)) # 1
      BY <1>2, CloseBuffer
    <3> QED BY <3>1, <3>2, <3>3
  <2>3. StreamTold' = StreamCode /\ StreamCode # "open" /\ StreamStatus' = "over"
    <3>1. /\ server.close # -1 /\ server.close \in Nat \cup {-1}
          /\ closing'.code = IF server.close >= 2 THEN <<<<0, 1>>, <<0, 2>>>> ELSE <<>>
      <4>1. server.close \in Nat \cup {-1}
        BY DEF Inv, TypeOK, ServerType, ServerStates
      <4> QED BY <1>2, <2>2, <4>1 DEF CloseInv, CloseCodeFaithful
    <3>2. <<<<0, 1>>, <<0, 2>>>> # <<>>
      OBVIOUS
    <3>3. StreamStatus' = "over"
      BY <1>2, <1>3, <2>2 DEF StreamStatus
    <3> QED BY <2>2, <3>1, <3>2, <3>3 DEF StreamTold, StreamCode
  <2>4. delivered = StreamSent
    <3>1. wire # <<>> /\ Head(wire).op = "close"
      BY <1>8 DEF RecvCloseEnd, HandsOver
    <3>2. Len(delivered) = Len(sent)
      BY <1>3, <3>1 DEF CloseInv
    <3>3. delivered \in Seq(Messages) /\ \A i \in 1..Len(delivered) : delivered[i] = Whole(i)
      BY ServerFacts DEF Inv, MessagesFaithful
    <3>4. delivered = [i \in 1..Len(delivered) |-> delivered[i]]
      BY <3>3
    <3> QED BY <3>2, <3>3, <3>4 DEF StreamSent
  <2>5. delivered' = delivered
    BY <1>8 DEF RecvCloseEnd
  <2> QED BY <1>4, <2>3, <2>4, <2>5 DEF Stream!Next, Stream!ReportClose
<1> QED BY <1>1, <1>5, <1>6, <1>7, <1>8 DEF HandOver

\* pl_curl_ws_recv implements the stream of WsStream where the server closes between
\* its messages and its close frame is kept: whole messages in order, the news of the
\* close behind the last of them and with the right status, and nothing after the end.
THEOREM StreamCorrect ==
  ASSUME CloseKept
  PROVE  Spec => StreamSpec
<1>1. Init => Stream!Init
  <2> SUFFICES ASSUME Init PROVE Stream!Init
    OBVIOUS
  <2>1. sent = <<>> /\ delivered = <<>> /\ closing = NotClosed /\ handle = "none" /\ server.close = -1
    BY DEF Init
  <2>2. StreamSent = <<>>
    BY <2>1 DEF StreamSent
  <2> QED BY <2>1, <2>2 DEF Stream!Init, StreamCode, StreamTold, StreamStatus
<1>2. Inv /\ Inv' /\ CloseInv /\ CloseInv' /\ [Next]_vars => [Stream!Next]_(Stream!vars)
  BY StreamServer, StreamControl, StreamReceive DEF Next, RecvStep
<1> QED BY <1>1, <1>2, InvCorrect, CloseInvCorrect, PTL DEF Spec, StreamSpec, Stream!Spec

=============================================================================
