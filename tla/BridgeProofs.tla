---------------------------- MODULE BridgeProofs ----------------------------
(***************************************************************************)
(* Proofs about GpCurl, CurlOptions, Regexp, PgArgs and what Memory asks   *)
(* of the last three, for every value of their constants: any number of    *)
(* handles, any times, any option list and any number of parameters there  *)
(* is room for, any pattern, any argument list, and every way a call can   *)
(* fail.                                                                   *)
(***************************************************************************)
EXTENDS GpCurl, Memory, FiniteSetTheorems, SequenceTheorems, TLAPS

-----------------------------------------------------------------------------
(***************************************************************************)
(* The WebSocket handles of GNU Prolog (GpCurl): each reaches its own      *)
(* connection or none, a receive waits for the time it was asked for, and  *)
(* the bridge implements the contract it shares with the SWI-Prolog bridge.*)
(***************************************************************************)
USE GpAssumption

-----------------------------------------------------------------------------
\* The inductive invariant: the handles, the messages, and the receive the program
\* is in.
States == {"unused", "usable", "unusable", "freed", "twice"}

HandleInv ==
  /\ conn \in [Conns -> States]
  /\ table \in Seq(Conns \cup {"null"}) /\ given \in Seq(Conns)
  /\ Len(given) = Len(table)
  /\ cap \in Nat /\ room \in Nat /\ Len(table) <= cap /\ cap <= room
  /\ Len(table) <= MaxHandles
  /\ \A i \in 1..Len(table) : conn[given[i]] # "unused"
  /\ WsHandlesExact

CountInv == inbox \in [Conns -> Nat] /\ taken \in [Conns -> Nat]

Calls == [pc : {"idle", "recv", "poll", "timeout"}, slot : Nat, asked : Nat,
          limit : Int, waited : Nat, quiet : BOOLEAN]

\* A poll that an int can limit ends no later than the receive does.
PollInv ==
  call.pc = "poll" /\ call.asked <= IntMax =>
    call.limit >= 0 /\ call.waited + call.limit <= call.asked

CallInv ==
  /\ call \in Calls
  /\ call.pc # "idle" => call.slot \in Issued /\ table[call.slot] # "null"
  /\ call.pc = "timeout" => conn[At] = "usable"
  /\ PollInv /\ RecvWaits

Inv == HandleInv /\ CountInv /\ CallInv

LEMMA Facts ==
  ASSUME HandleInv
  PROVE  /\ conn \in [Conns -> States] /\ table \in Seq(Conns \cup {"null"}) /\ given \in Seq(Conns)
         /\ cap \in Nat /\ room \in Nat /\ Len(table) \in Nat /\ Len(given) = Len(table)
         /\ \A i \in 1..Len(table) :
              /\ table[i] \in Conns \cup {"null"} /\ given[i] \in Conns
              /\ conn[given[i]] # "unused"
              /\ table[i] # "null" => table[i] = given[i] /\ conn[table[i]] \in {"usable", "unusable"}
              /\ table[i] = "null" => conn[given[i]] = "freed"
<1>1. /\ conn \in [Conns -> States] /\ table \in Seq(Conns \cup {"null"}) /\ given \in Seq(Conns)
      /\ cap \in Nat /\ room \in Nat
  BY DEF HandleInv
<1>2. Len(table) \in Nat /\ Len(given) = Len(table)
  BY <1>1 DEF HandleInv
<1>3. ASSUME NEW i \in 1..Len(table)
      PROVE  /\ table[i] \in Conns \cup {"null"} /\ given[i] \in Conns
             /\ conn[given[i]] # "unused"
             /\ table[i] # "null" => table[i] = given[i] /\ conn[table[i]] \in {"usable", "unusable"}
             /\ table[i] = "null" => conn[given[i]] = "freed"
  <2>1. table[i] \in Conns \cup {"null"} /\ given[i] \in Conns /\ conn[given[i]] # "unused"
    BY <1>1, <1>2, <1>3 DEF HandleInv
  <2>2. table[i] # "null" => table[i] = given[i] /\ conn[table[i]] \in {"usable", "unusable"}
    BY <1>3, <2>1 DEF HandleInv, WsHandlesExact, Issued
  <2>3. ASSUME table[i] = "null" PROVE conn[given[i]] = "freed"
    <3>1. \A j \in 1..Len(table) : table[j] # given[i]
      BY <1>3, <2>1, <2>3 DEF HandleInv, WsHandlesExact, Issued
    <3>2. conn[given[i]] \notin {"usable", "unusable", "twice", "unused"}
      BY <2>1, <3>1 DEF HandleInv, WsHandlesExact, Issued
    <3> QED BY <1>1, <2>1, <3>2 DEF States
  <2> QED BY <2>1, <2>2, <2>3
<1> QED BY <1>1, <1>2, <1>3

-----------------------------------------------------------------------------
(***************************************************************************)
(* The handles.                                                            *)
(***************************************************************************)
LEMMA GrownRoom ==
  ASSUME HandleInv
  PROVE  Grown \in Nat /\ (Full => Len(table) + 1 <= Grown)
BY Facts DEF Full, Grown, HandleInv

LEMMA OpenKeeps ==
  ASSUME HandleInv, Open
  PROVE  HandleInv'
<1> DEFINE n == Len(table)
<1>0. n < MaxHandles
  BY DEF Open
<1>1. PICK c \in Conns : /\ conn[c] = "unused" /\ conn' = [conn EXCEPT ![c] = "usable"]
                         /\ table' = Append(table, c) /\ given' = Append(given, c)
  BY DEF Open
<1>2. IF Full THEN cap' = Grown /\ room' = Grown ELSE UNCHANGED <<cap, room>>
  BY DEF Open
<1>3. /\ Len(table') = n + 1 /\ Len(given') = n + 1 /\ n \in Nat
      /\ table' \in Seq(Conns \cup {"null"}) /\ given' \in Seq(Conns)
      /\ table'[n + 1] = c /\ given'[n + 1] = c
      /\ \A i \in 1..n : table'[i] = table[i] /\ given'[i] = given[i]
  BY <1>1, Facts
<1>4. conn' \in [Conns -> States] /\ conn'[c] = "usable" /\ \A d \in Conns \ {c} : conn'[d] = conn[d]
  BY <1>1, Facts DEF States
<1>5. \A i \in 1..n : given[i] \in Conns \ {c} /\ conn[given[i]] # "unused" /\ table[i] # c
  <2> TAKE i \in 1..n
  <2>1. /\ given[i] \in Conns /\ given[i] # c /\ conn[given[i]] # "unused"
        /\ table[i] = c => table[i] = given[i]
    BY <1>1, Facts
  <2> QED BY <2>1
<1>6. cap' \in Nat /\ room' \in Nat /\ n + 1 <= cap' /\ cap' <= room'
  <2>1. CASE Full
    BY <1>2, <2>1, GrownRoom
  <2>2. CASE ~Full
    BY <1>2, <2>2, Facts DEF Full, HandleInv
  <2> QED BY <2>1, <2>2
<1>7. n + 1 <= MaxHandles
  BY <1>0, <1>3
<1> \A i \in 1..(n + 1) : i \in 1..n \/ i = n + 1
  BY <1>3
<1> HIDE DEF n
<1>8. \A i \in 1..(n + 1) : conn'[given'[i]] # "unused"
  BY <1>3, <1>4, <1>5
<1>9. WsHandlesExact'
  <2>1. \A i \in 1..(n + 1) : table'[i] \in {given'[i], "null"}
    <3>1. \A i \in 1..n : table[i] \in {given[i], "null"}
      BY Facts DEF n
    <3> QED BY <1>3, <3>1
  <2>2. \A i, j \in 1..(n + 1) : i # j => given'[i] # given'[j]
    <3>1. \A i, j \in 1..n : i # j => given[i] # given[j]
      BY DEF HandleInv, WsHandlesExact, Issued, n
    <3> QED BY <1>3, <1>5, <3>1
  <2>3. \A d \in Conns : /\ conn'[d] \in {"usable", "unusable"} <=> \E i \in 1..(n + 1) : table'[i] = d
                         /\ conn'[d] # "twice"
    <3> TAKE d \in Conns
    <3>1. CASE d = c
      BY <1>3, <1>4, <3>1
    <3>2. CASE d # c
      <4>1. conn'[d] = conn[d]
        BY <1>4, <3>2
      <4>2. (\E i \in 1..(n + 1) : table'[i] = d) <=> (\E i \in 1..n : table[i] = d)
        BY <1>3, <3>2
      <4> QED BY <4>1, <4>2 DEF HandleInv, WsHandlesExact, Issued, n
    <3> QED BY <3>1, <3>2
  <2>4. n + 1 <= room'
    BY <1>3, <1>6
  <2> QED BY <1>3, <2>1, <2>2, <2>3, <2>4 DEF WsHandlesExact, Issued
<1> QED BY <1>3, <1>4, <1>6, <1>7, <1>8, <1>9 DEF HandleInv

LEMMA OpenNoMemoryKeeps ==
  ASSUME HandleInv, OpenNoMemory
  PROVE  HandleInv'
<1>1. PICK c \in Conns : conn[c] = "unused" /\ conn' = [conn EXCEPT ![c] = "freed"]
  BY DEF OpenNoMemory
<1>2. UNCHANGED <<table, cap, room, given>>
  BY DEF OpenNoMemory, slots
<1>3. conn' \in [Conns -> States] /\ conn'[c] = "freed" /\ \A d \in Conns \ {c} : conn'[d] = conn[d]
  BY <1>1, Facts DEF States
<1>4. \A i \in 1..Len(table) : given[i] \in Conns /\ given[i] # c /\ table[i] # c
  <2> TAKE i \in 1..Len(table)
  <2>1. given[i] \in Conns /\ given[i] # c /\ (table[i] = c => table[i] = given[i])
    BY <1>1, Facts
  <2> QED BY <2>1
<1>5. \A i \in 1..Len(table) : conn'[given'[i]] # "unused"
  BY <1>2, <1>3, <1>4 DEF HandleInv
<1>6. WsHandlesExact'
  BY <1>2, <1>3, <1>4 DEF HandleInv, WsHandlesExact, Issued
<1> QED BY <1>2, <1>3, <1>5, <1>6 DEF HandleInv

LEMMA CloseKeeps ==
  ASSUME HandleInv, NEW i \in Issued, Close(i)
  PROVE  HandleInv'
<1> DEFINE c == table[i]
<1>1. i \in 1..Len(table) /\ c \in Conns /\ c = given[i] /\ conn[c] \in {"usable", "unusable"}
  BY Facts DEF Close, OpenSlot, Issued
<1>2. /\ conn' = [conn EXCEPT ![c] = "freed"]
      /\ table' = [table EXCEPT ![i] = "null"]
      /\ UNCHANGED <<cap, room, given>>
  BY <1>1 DEF Close, Freed
<1> HIDE DEF c
<1>3. conn' \in [Conns -> States] /\ conn'[c] = "freed" /\ \A d \in Conns \ {c} : conn'[d] = conn[d]
  BY <1>1, <1>2, Facts DEF States
<1>4. /\ table' \in Seq(Conns \cup {"null"}) /\ Len(table') = Len(table)
      /\ table'[i] = "null" /\ \A j \in 1..Len(table) : j # i => table'[j] = table[j]
  BY <1>1, <1>2, Facts
<1>5. \A j \in 1..Len(table) : j # i => table[j] # c /\ given[j] \in Conns /\ given[j] # c
  <2> SUFFICES ASSUME NEW j \in 1..Len(table), j # i
               PROVE  table[j] # c /\ given[j] \in Conns /\ given[j] # c
    OBVIOUS
  <2>1. given[j] # c
    BY <1>1 DEF HandleInv, WsHandlesExact, Issued
  <2> QED BY <1>1, <2>1, Facts
<1>6. \A j \in 1..Len(table) : conn'[given[j]] # "unused"
  BY <1>1, <1>3, <1>5, Facts
<1>7. WsHandlesExact'
  <2>1. \A j \in 1..Len(table) : table'[j] \in {given[j], "null"}
    BY <1>4, Facts
  <2>2. \A d \in Conns : /\ conn'[d] \in {"usable", "unusable"} <=> \E j \in 1..Len(table) : table'[j] = d
                         /\ conn'[d] # "twice"
    <3> TAKE d \in Conns
    <3>1. CASE d = c
      BY <1>1, <1>3, <1>4, <1>5, <3>1
    <3>2. CASE d # c
      <4>1. conn'[d] = conn[d]
        BY <1>3, <3>2
      <4>2. (\E j \in 1..Len(table) : table'[j] = d) <=> (\E j \in 1..Len(table) : table[j] = d)
        BY <1>1, <1>4, <3>2 DEF c
      <4> QED BY <4>1, <4>2 DEF HandleInv, WsHandlesExact, Issued
    <3> QED BY <3>1, <3>2
  <2> QED BY <1>2, <1>4, <2>1, <2>2 DEF HandleInv, WsHandlesExact, Issued
<1> QED BY <1>2, <1>3, <1>4, <1>6, <1>7 DEF HandleInv

\* The server closes a connection, or its link breaks.
LEMMA EndRecvKeeps ==
  ASSUME HandleInv, NEW c \in Conns, conn[c] = "usable",
         conn' = [conn EXCEPT ![c] = "unusable"], UNCHANGED <<table, cap, room, given>>
  PROVE  HandleInv'
<1>1. conn' \in [Conns -> States] /\ conn'[c] = "unusable" /\ \A d \in Conns \ {c} : conn'[d] = conn[d]
  BY Facts DEF States
<1>2. \A i \in 1..Len(table) : conn'[given'[i]] # "unused"
  BY <1>1, Facts
<1>3. WsHandlesExact'
  BY <1>1, Facts DEF HandleInv, WsHandlesExact, Issued
<1> QED BY <1>1, <1>2, <1>3 DEF HandleInv

LEMMA SameHandles ==
  ASSUME HandleInv, UNCHANGED <<conn, table, cap, room, given>>
  PROVE  HandleInv'
BY DEF HandleInv, WsHandlesExact, Issued

-----------------------------------------------------------------------------
(***************************************************************************)
(* The receive.                                                            *)
(***************************************************************************)
\* Between calls nothing is claimed of the connections.
LEMMA IdleHandleKeeps ==
  ASSUME CallInv, IsIdle, UNCHANGED call
  PROVE  CallInv'
BY DEF CallInv, IsIdle, PollInv, RecvWaits

LEMMA ReturnKeeps ==
  ASSUME call' = Idle
  PROVE  CallInv'
<1>1. call'.pc = "idle" /\ call'.asked = 0 /\ call'.waited = 0 /\ call' \in Calls
  BY DEF Idle, Calls
<1> QED BY <1>1 DEF CallInv, PollInv, RecvWaits

LEMMA SameCall ==
  ASSUME CallInv, UNCHANGED <<conn, table, call>>
  PROVE  CallInv'
BY DEF CallInv, PollInv, RecvWaits, Issued, At

\* What a receive waits for is the time that was asked for, cut to what poll takes.
LEMMA ReceivingKeeps ==
  ASSUME CallInv, UNCHANGED <<conn, table>>,
         Poll \/ Tick \/ PollReturns \/ ReadsOn \/ RecvTimeout \/ \E i \in Issued : Recv(i)
  PROVE  CallInv'
<1> DEFINE a == call.asked
           w == call.waited
           l == call.limit
<1>1. call \in Calls /\ a \in Nat /\ w \in Nat /\ l \in Int /\ IntMax \in Nat
  BY DEF CallInv, Calls
<1>2. a <= IntMax /\ (call.quiet \/ call.pc = "poll") => w <= a
  BY DEF CallInv, RecvWaits
<1>3. ASSUME \E i \in Issued : Recv(i) PROVE CallInv'
  <2>1. PICK i \in Issued, ms \in Timeouts :
          /\ table[i] # "null"
          /\ call' = [pc |-> "recv", slot |-> i, asked |-> ms, limit |-> 0, waited |-> 0,
                      quiet |-> TRUE]
    BY <1>3 DEF Recv, OpenSlot
  <2>2. i \in Nat /\ i \in Issued' /\ ms \in Nat
    BY DEF Issued
  <2>3. call' \in Calls /\ call'.pc = "recv" /\ call'.slot = i /\ call'.asked = ms /\ call'.waited = 0
    BY <2>1, <2>2 DEF Calls, Idle
  <2> QED BY <2>1, <2>2, <2>3 DEF CallInv, PollInv, RecvWaits
<1>4. ASSUME Poll PROVE CallInv'
  <2>1. call' = [call EXCEPT !.pc = "poll", !.limit = AsInt(Left)] /\ call.pc = "recv" /\ ~(Left <= 0)
    BY <1>4 DEF Poll, InRecv, Expired
  <2>2. Left = a - w /\ Left \in Int /\ AsInt(Left) \in Int
    BY <1>1 DEF Left, AsInt
  <2>3. a <= IntMax => AsInt(Left) = a - w /\ a - w >= 0
    BY <1>1, <2>1, <2>2 DEF AsInt
  <2> HIDE DEF a, w, l
  <2> DEFINE new == AsInt(Left)
  <2> HIDE DEF new
  <2>4. /\ call' \in Calls /\ call'.pc = "poll" /\ call'.slot = call.slot
        /\ call'.asked = a /\ call'.waited = w /\ call'.limit = new
    BY <2>1, <2>2 DEF Calls, CallInv, a, w, new
  <2>5. a <= IntMax => new >= 0 /\ w + new <= a /\ w <= a
    BY <1>1, <2>2, <2>3 DEF new
  <2>6. call'.slot \in Issued' /\ table'[call'.slot] # "null"
    BY <2>1, <2>4 DEF CallInv, Issued
  <2> QED BY <2>4, <2>5, <2>6 DEF CallInv, PollInv, RecvWaits
<1>5. ASSUME Tick PROVE CallInv'
  <2>1. /\ call.pc = "poll" /\ l # 0
        /\ call' = [call EXCEPT !.waited = w + 1, !.limit = IF l > 0 THEN l - 1 ELSE l]
    BY <1>5 DEF Tick
  <2>2. a <= IntMax => l >= 0 /\ w + l <= a
    BY <2>1 DEF CallInv, PollInv
  <2> HIDE DEF a, w, l
  <2> DEFINE new == IF l > 0 THEN l - 1 ELSE l
  <2>3. new \in Int /\ w + 1 \in Nat
    BY <1>1
  <2>4. a <= IntMax => new >= 0 /\ (w + 1) + new <= a /\ w + 1 <= a
    BY <1>1, <2>1, <2>2
  <2> HIDE DEF new
  <2>5. /\ call' \in Calls /\ call'.pc = "poll" /\ call'.slot = call.slot
        /\ call'.asked = a /\ call'.waited = w + 1 /\ call'.limit = new
    BY <2>1, <2>3 DEF Calls, CallInv, a, new
  <2>6. call'.slot \in Issued' /\ table'[call'.slot] # "null"
    BY <2>1, <2>5 DEF CallInv, Issued
  <2> QED BY <2>4, <2>5, <2>6 DEF CallInv, PollInv, RecvWaits
<1>6. ASSUME PollReturns PROVE CallInv'
  <2>1. call.pc = "poll" /\ call' = [call EXCEPT !.pc = "recv"]
    BY <1>6 DEF PollReturns
  <2>2. /\ call' \in Calls /\ call'.pc = "recv" /\ call'.slot = call.slot
        /\ call'.asked = a /\ call'.waited = w
    BY <1>1, <2>1 DEF Calls
  <2>3. call'.slot \in Issued' /\ table'[call'.slot] # "null"
    BY <2>1, <2>2 DEF CallInv, Issued
  <2> QED BY <1>2, <2>1, <2>2, <2>3 DEF CallInv, PollInv, RecvWaits
<1>7. ASSUME RecvTimeout PROVE CallInv'
  <2>1. /\ call.pc = "recv" /\ conn[At] = "usable" /\ a - w <= 0
        /\ call' = [call EXCEPT !.pc = "timeout"]
    BY <1>7 DEF RecvTimeout, InRecv, Expired, Left
  <2>2. /\ call' \in Calls /\ call'.pc = "timeout" /\ call'.slot = call.slot
        /\ call'.asked = a /\ call'.waited = w /\ call'.quiet = call.quiet
    BY <1>1, <2>1 DEF Calls
  <2>3. call'.slot \in Issued' /\ table'[call'.slot] # "null" /\ conn'[At'] = "usable"
    BY <2>1, <2>2 DEF CallInv, Issued, At
  <2>4. w >= a
    BY <1>1, <2>1
  <2>5. a <= IntMax /\ call'.quiet => w <= a
    BY <1>2, <2>2
  <2> HIDE DEF a, w, l
  <2>6. PollInv' /\ RecvWaits'
    BY <2>2, <2>4, <2>5 DEF PollInv, RecvWaits
  <2> QED BY <2>2, <2>3, <2>6 DEF CallInv
<1>8. ASSUME ReadsOn PROVE CallInv'
  <2>1. call.pc = "recv" /\ call' = [call EXCEPT !.waited = w + 1, !.quiet = FALSE]
    BY <1>8 DEF ReadsOn, InRecv
  <2> HIDE DEF a, w, l
  <2>2. /\ call' \in Calls /\ call'.pc = "recv" /\ call'.slot = call.slot
        /\ call'.quiet = FALSE
    <3>1. w + 1 \in Nat
      BY <1>1
    <3>2. call'.quiet = FALSE
      BY <1>1, <2>1, Zenon DEF Calls
    <3> QED BY <1>1, <2>1, <3>1, <3>2 DEF Calls
  <2>3. call'.slot \in Issued' /\ table'[call'.slot] # "null"
    BY <2>1, <2>2 DEF CallInv, Issued
  <2> QED BY <2>2, <2>3 DEF CallInv, PollInv, RecvWaits
<1> QED BY <1>3, <1>4, <1>5, <1>6, <1>7, <1>8

\* The connection a receive is on.
LEMMA Receives ==
  ASSUME Inv, call.pc # "idle"
  PROVE  /\ call.slot \in 1..Len(table) /\ At \in Conns /\ At = given[call.slot]
         /\ conn[At] \in {"usable", "unusable"} /\ taken[At] \in Nat
<1>1. call.slot \in 1..Len(table) /\ table[call.slot] # "null"
  BY DEF Inv, CallInv, Issued
<1>2. table[call.slot] \in Conns /\ table[call.slot] = given[call.slot]
      /\ conn[table[call.slot]] \in {"usable", "unusable"}
  BY <1>1, Facts DEF Inv
<1> QED BY <1>1, <1>2 DEF At, Inv, CountInv

-----------------------------------------------------------------------------
LEMMA SendBreaksKeeps ==
  ASSUME Inv, NEW i \in Issued, SendBreaks(i)
  PROVE  Inv'
<1>1. /\ i \in 1..Len(table) /\ table[i] # "null" /\ conn[table[i]] = "usable"
      /\ conn' = [conn EXCEPT ![table[i]] = "unusable"]
      /\ UNCHANGED <<table, cap, room, given, inbox, taken, call>> /\ IsIdle
  BY DEF SendBreaks, OpenSlot, slots, Issued
<1>2. table[i] \in Conns
  BY <1>1, Facts DEF Inv
<1> DEFINE c == table[i]
<1> HIDE DEF c
<1>3. c \in Conns /\ conn[c] = "usable" /\ conn' = [conn EXCEPT ![c] = "unusable"]
  BY <1>1, <1>2 DEF c
<1>4. HandleInv'
  BY <1>1, <1>3, EndRecvKeeps DEF Inv
<1>5. CallInv' /\ CountInv'
  BY <1>1, IdleHandleKeeps DEF Inv, CountInv
<1> QED BY <1>4, <1>5 DEF Inv

LEMMA RecvEndsKeeps ==
  ASSUME Inv, RecvEnds
  PROVE  Inv'
<1>1. /\ call.pc = "recv" /\ conn[At] = "usable" /\ conn' = [conn EXCEPT ![At] = "unusable"]
      /\ UNCHANGED <<table, cap, room, given, inbox, taken>> /\ call' = Idle
  BY DEF RecvEnds, InRecv, slots
<1>2. At \in Conns
  BY <1>1, Receives
<1> DEFINE c == At
<1> HIDE DEF c
<1>3. c \in Conns /\ conn[c] = "usable" /\ conn' = [conn EXCEPT ![c] = "unusable"]
  BY <1>1, <1>2 DEF c
<1>4. HandleInv'
  BY <1>1, <1>3, EndRecvKeeps DEF Inv
<1>5. CallInv' /\ CountInv'
  BY <1>1, ReturnKeeps DEF Inv, CountInv
<1> QED BY <1>4, <1>5 DEF Inv

LEMMA RecvMessageKeeps ==
  ASSUME Inv, RecvMessage
  PROVE  Inv'
<1>1. /\ UNCHANGED <<conn, table, cap, room, given, inbox>> /\ call' = Idle
      /\ taken' = [taken EXCEPT ![At] = @ + 1]
  BY DEF RecvMessage, slots
<1>2. At \in Conns /\ taken \in [Conns -> Nat] /\ inbox \in [Conns -> Nat]
  BY Receives DEF RecvMessage, InRecv, Inv, CountInv
<1>3. CountInv'
  <2>1. taken[At] + 1 \in Nat
    BY <1>2
  <2> QED BY <1>1, <1>2, <2>1 DEF CountInv
<1> QED BY <1>1, <1>3, SameHandles, ReturnKeeps DEF Inv

LEMMA InvCorrect == GpSpec => []Inv
<1>1. GpInit => Inv
  <2> SUFFICES ASSUME GpInit PROVE Inv
    OBVIOUS
  <2>1. /\ conn = [c \in Conns |-> "unused"] /\ table = <<>> /\ cap = 0 /\ room = 0 /\ given = <<>>
        /\ call = Idle /\ CountInv
    BY DEF GpInit, CountInv
  <2>2. table \in Seq(Conns \cup {"null"}) /\ given \in Seq(Conns) /\ Len(table) = 0 /\ Len(given) = 0
    BY <2>1
  <2>3. WsHandlesExact
    BY <2>1, <2>2 DEF WsHandlesExact, Issued
  <2>4. HandleInv
    BY <2>1, <2>2, <2>3 DEF HandleInv, States
  <2>5. call.pc = "idle" /\ call.asked = 0 /\ call.waited = 0 /\ call \in Calls
    BY <2>1 DEF Idle, Calls
  <2>6. CallInv
    BY <2>5 DEF CallInv, PollInv, RecvWaits
  <2> QED BY <2>1, <2>4, <2>6 DEF Inv
<1>2. Inv /\ [GpNext]_gpVars => Inv'
  <2> SUFFICES ASSUME Inv, [GpNext]_gpVars PROVE Inv'
    OBVIOUS
  <2>0. HandleInv /\ CountInv /\ CallInv
    BY DEF Inv
  <2>1. CASE UNCHANGED <<core, slots, call>>
    BY <2>0, <2>1, SameHandles, SameCall DEF core, slots, Inv, CountInv
  <2>2. CASE Open \/ OpenNoMemory
    <3>1. HandleInv'
      BY <2>0, <2>2, OpenKeeps, OpenNoMemoryKeeps
    <3>2. IsIdle /\ UNCHANGED <<inbox, taken, call>>
      BY <2>2 DEF Open, OpenNoMemory
    <3> QED BY <2>0, <3>1, <3>2, IdleHandleKeeps DEF Inv, CountInv
  <2>3. CASE OpenFails \/ NotIssued
    BY <2>1, <2>3 DEF OpenFails, NotIssued, Answer
  <2>4. CASE \E i \in Issued : OnHandle(i)
    <3>1. PICK i \in Issued : OnHandle(i)
      BY <2>4
    <3>2. CASE Refused(i) \/ SendFails(i) \/ Send(i)
      BY <2>1, <3>2 DEF Refused, SendFails, Send, Answer
    <3>3. CASE Close(i)
      <4>1. IsIdle /\ UNCHANGED <<inbox, taken, call>>
        BY <3>3 DEF Close, OpenSlot
      <4> QED BY <2>0, <3>3, <4>1, CloseKeeps, IdleHandleKeeps DEF Inv, CountInv
    <3>4. CASE Recv(i)
      <4>1. UNCHANGED <<core, slots>>
        BY <3>4 DEF Recv
      <4> QED BY <2>0, <3>4, <4>1, SameHandles, ReceivingKeeps DEF core, slots, Inv, CountInv
    <3> QED BY <3>1, <3>2, <3>3, <3>4, SendBreaksKeeps DEF OnHandle
  <2>5. CASE Receiving
    <3>1. CASE RecvTimeout \/ Poll \/ Tick \/ PollReturns \/ ReadsOn
      <4>1. UNCHANGED <<core, slots>>
        BY <3>1 DEF RecvTimeout, Poll, Tick, PollReturns, ReadsOn
      <4> QED BY <2>0, <3>1, <4>1, SameHandles, ReceivingKeeps DEF core, slots, Inv, CountInv
    <3>2. CASE RecvUnusable \/ TimeoutReturned
      <4>1. UNCHANGED <<core, slots>> /\ call' = Idle
        BY <3>2 DEF RecvUnusable, TimeoutReturned
      <4> QED BY <2>0, <4>1, SameHandles, ReturnKeeps DEF core, slots, Inv, CountInv
    <3> QED BY <2>5, <3>1, <3>2, RecvMessageKeeps, RecvEndsKeeps DEF Receiving
  <2>6. CASE \E c \in Conns : ServerSends(c)
    <3>1. PICK c \in Conns : ServerSends(c)
      BY <2>6
    <3>2. UNCHANGED <<conn, table, cap, room, given, call>> /\ CountInv'
      BY <2>0, <3>1 DEF ServerSends, slots, CountInv
    <3> QED BY <2>0, <3>2, SameHandles, SameCall DEF Inv
  <2> QED BY <2>1, <2>2, <2>3, <2>4, <2>5, <2>6 DEF GpNext, gpVars
<1> QED BY <1>1, <1>2, PTL DEF GpSpec

-----------------------------------------------------------------------------
\* The variables keep their types, for any number of connections, handles and
\* messages and any timeouts.
THEOREM GpTypeCorrect == GpSpec => []GpTypeOK
<1>1. Inv => GpTypeOK
  BY DEF Inv, HandleInv, CountInv, CallInv, GpTypeOK, States, Calls
<1> QED BY <1>1, InvCorrect, PTL

\* A WebSocket handle of GNU Prolog reaches the connection it was made for or none,
\* a connection is freed exactly when no handle reaches it, and once, and the table
\* is written within what realloc has given it (gp_ws_table_alloc), for any first
\* capacity and any number of handles.
THEOREM WsHandlesCorrect == GpSpec => []WsHandlesExact
<1>1. Inv => WsHandlesExact
  BY DEF Inv, HandleInv
<1> QED BY <1>1, InvCorrect, PTL

\* A receive answers timeout after the time that was asked for and not before; if
\* that time is an int it never sleeps past it, and it is over by then unless pings
\* or parts of a message have come (ws_wait, gp_curl_ws_recv).  This holds for any
\* moments poll is woken at and any time frames take to read.
THEOREM RecvWaitsCorrect == GpSpec => []RecvWaits
<1>1. Inv => RecvWaits
  BY DEF Inv, CallInv
<1> QED BY <1>1, InvCorrect, PTL

-----------------------------------------------------------------------------
(***************************************************************************)
(* The contract.  GivenOf and StateOf are what a program sees of the       *)
(* handles and the connections; every step of the bridge is one of the     *)
(* contract's, or nothing of it is seen.                                   *)
(***************************************************************************)
LEMMA Seen ==
  ASSUME HandleInv, NEW i \in Issued
  PROVE  /\ i \in 1..MaxHandles /\ GivenOf[i] = given[i] /\ given[i] \in Conns
         /\ table[i] # "null" => table[i] = given[i] /\ StateOf[given[i]] \in {"open", "ended"}
         /\ table[i] = "null" => StateOf[given[i]] = "closed"
<1>1. i \in 1..Len(table) /\ i \in 1..MaxHandles /\ i <= Len(given)
  BY Facts DEF Issued, HandleInv
<1>2. GivenOf[i] = given[i] /\ given[i] \in Conns
  BY <1>1, Facts DEF GivenOf
<1>3. table[i] # "null" => table[i] = given[i] /\ conn[given[i]] \in {"usable", "unusable"}
  BY <1>1, Facts
<1>4. table[i] = "null" => conn[given[i]] = "freed"
  BY <1>1, Facts
<1> QED BY <1>1, <1>2, <1>3, <1>4 DEF StateOf

\* What a connection is seen as after it has changed.
LEMMA StateSeen ==
  ASSUME HandleInv, NEW c \in Conns, NEW s \in States, conn' = [conn EXCEPT ![c] = s]
  PROVE  StateOf' = [StateOf EXCEPT ![c] = CASE s = "unused"   -> "unused"
                                             [] s = "usable"   -> "open"
                                             [] s = "unusable" -> "ended"
                                             [] OTHER          -> "closed"]
<1>1. conn' \in [Conns -> States] /\ conn'[c] = s /\ \A d \in Conns \ {c} : conn'[d] = conn[d]
  BY Facts DEF States
<1> QED BY <1>1 DEF StateOf

\* A program is told that a call has failed.
LEMMA FailedSeen ==
  ASSUME UNCHANGED <<conn, given, taken>>, reply' \in {<<"error">>, <<"false">>}
  PROVE  Contract!Next
<1>1. UNCHANGED <<GivenOf, StateOf>>
  BY DEF GivenOf, StateOf
<1>2. Contract!Failed
  BY <1>1 DEF Contract!Failed, Contract!NoAnswer
<1> QED BY <1>2 DEF Contract!Next

LEMMA SilentSeen ==
  ASSUME UNCHANGED <<conn, given, taken, reply>>
  PROVE  UNCHANGED Contract!vars
BY DEF GivenOf, StateOf, Contract!vars

LEMMA OpenSeen ==
  ASSUME HandleInv, Open
  PROVE  Contract!Next
<1>1. PICK c \in Conns : /\ conn[c] = "unused" /\ conn' = [conn EXCEPT ![c] = "usable"]
                         /\ given' = Append(given, c)
  BY DEF Open
<1> DEFINE h == Len(table) + 1
<1>2. h \in 1..MaxHandles /\ h = Len(given) + 1 /\ UNCHANGED taken
  BY Facts DEF Open
<1>3. reply' \in {<<"opened", h>>, <<"false">>, <<"error">>}
  BY DEF Open
<1> HIDE DEF h
<1>4. /\ Len(given') = h /\ given'[h] = c /\ Len(given) \in Nat
      /\ \A i \in 1..Len(given) : given'[i] = given[i]
  BY <1>1, <1>2, Facts
<1>5. GivenOf[h] = "none" /\ GivenOf' = [GivenOf EXCEPT ![h] = c]
  <2>1. GivenOf[h] = "none"
    BY <1>2, <1>4 DEF GivenOf
  <2>2. \A i \in 1..MaxHandles : (IF i <= Len(given') THEN given'[i] ELSE "none")
                               = IF i = h THEN c ELSE IF i <= Len(given) THEN given[i] ELSE "none"
    BY <1>2, <1>4
  <2> QED BY <1>2, <2>1, <2>2 DEF GivenOf
<1>6. StateOf[c] = "unused" /\ StateOf' = [StateOf EXCEPT ![c] = "open"]
  BY <1>1, StateSeen DEF StateOf, States
<1>7. Contract!Open(h, c)
  BY <1>2, <1>3, <1>5, <1>6 DEF Contract!Open, Contract!NoAnswer
<1> QED BY <1>2, <1>7 DEF Contract!Next

LEMMA OpenNoMemorySeen ==
  ASSUME HandleInv, OpenNoMemory
  PROVE  Contract!Next
<1>1. PICK c \in Conns : conn[c] = "unused" /\ conn' = [conn EXCEPT ![c] = "freed"]
  BY DEF OpenNoMemory
<1>2. UNCHANGED <<GivenOf, taken>> /\ reply' = <<"error">>
  BY DEF OpenNoMemory, slots, GivenOf
<1>3. StateOf[c] = "unused" /\ StateOf' = [StateOf EXCEPT ![c] = "closed"]
  BY <1>1, StateSeen DEF StateOf, States
<1>4. Contract!OpenFails
  BY <1>2, <1>3 DEF Contract!OpenFails
<1> QED BY <1>4 DEF Contract!Next

\* A connection that is in the table is open exactly while it is usable.
LEMMA OpenExactly ==
  ASSUME HandleInv, NEW i \in Issued, table[i] # "null"
  PROVE  /\ Contract!Is(i, {"open", "ended"})
         /\ conn[table[i]] = "usable" => Contract!Is(i, {"open"})
         /\ conn[table[i]] \in {"usable", "unusable"}
<1>1. /\ GivenOf[i] = given[i] /\ given[i] \in Conns /\ table[i] = given[i]
      /\ StateOf[given[i]] \in {"open", "ended"}
  BY Seen
<1>2. conn[table[i]] \in {"usable", "unusable"}
  BY Facts DEF Issued
<1>3. conn[given[i]] = "usable" => StateOf[given[i]] = "open"
  BY <1>1 DEF StateOf
<1> QED BY <1>1, <1>2, <1>3 DEF Contract!Is

LEMMA OnHandleSeen ==
  ASSUME Inv, NEW i \in Issued, OnHandle(i)
  PROVE  [Contract!Next]_(Contract!vars)
<1> DEFINE c == given[i]
<1>0. HandleInv
  BY DEF Inv
<1>1. /\ i \in 1..MaxHandles /\ GivenOf[i] = c /\ c \in Conns
      /\ table[i] # "null" => table[i] = c
      /\ table[i] = "null" => StateOf[c] = "closed"
  BY <1>0, Seen
<1> HIDE DEF c
<1>2. CASE Refused(i)
  <2>1. Contract!Is(i, {"closed"}) /\ reply' = <<"existence", i>>
    BY <1>1, <1>2 DEF Refused, Answer, Contract!Is
  <2>2. UNCHANGED <<GivenOf, StateOf, taken>>
    BY <1>2 DEF Refused, Answer, core, slots, GivenOf, StateOf
  <2>3. Contract!Refused(i)
    BY <2>1, <2>2 DEF Contract!Refused
  <2> QED BY <1>1, <2>3 DEF Contract!Next
<1>3. CASE SendFails(i)
  BY <1>3, FailedSeen DEF SendFails, Answer, core, slots
<1>4. CASE Send(i)
  <2>1. Contract!Is(i, {"open"}) /\ reply' = <<"sent", GivenOf[i]>>
    BY <1>0, <1>1, <1>4, OpenExactly DEF Send, OpenSlot, Answer
  <2>2. UNCHANGED <<GivenOf, StateOf, taken>>
    BY <1>4 DEF Send, Answer, core, slots, GivenOf, StateOf
  <2>3. Contract!Sent(i)
    BY <2>1, <2>2 DEF Contract!Sent
  <2> QED BY <1>1, <2>3 DEF Contract!Next
<1>5. CASE SendBreaks(i)
  <2>1. table[i] = c /\ Contract!Is(i, {"open"}) /\ reply' = <<"error">>
    BY <1>0, <1>1, <1>5, OpenExactly DEF SendBreaks, OpenSlot
  <2>2. conn' = [conn EXCEPT ![c] = "unusable"]
    BY <1>5, <2>1 DEF SendBreaks
  <2>3. StateOf' = [StateOf EXCEPT ![GivenOf[i]] = "ended"]
    BY <1>0, <1>1, <2>2, StateSeen DEF States
  <2>4. UNCHANGED <<GivenOf, taken>>
    BY <1>5 DEF SendBreaks, slots, GivenOf
  <2>5. Contract!Ends(i)
    BY <2>1, <2>3, <2>4 DEF Contract!Ends, Contract!NoAnswer
  <2> QED BY <1>1, <2>5 DEF Contract!Next
<1>6. CASE Close(i)
  <2>1. /\ table[i] = c /\ Contract!Is(i, {"open", "ended"}) /\ reply' = <<"closed", i>>
        /\ conn[c] \in {"usable", "unusable"}
    BY <1>0, <1>1, <1>6, OpenExactly DEF Close, OpenSlot
  <2>2. conn' = [conn EXCEPT ![c] = "freed"]
    BY <1>1, <1>6, <2>1 DEF Close, Freed
  <2>3. StateOf' = [StateOf EXCEPT ![GivenOf[i]] = "closed"]
    BY <1>0, <1>1, <2>2, StateSeen DEF States
  <2>4. UNCHANGED <<GivenOf, taken>>
    BY <1>6 DEF Close, GivenOf
  <2>5. Contract!Close(i)
    BY <2>1, <2>3, <2>4 DEF Contract!Close
  <2> QED BY <1>1, <2>5 DEF Contract!Next
<1>7. CASE Recv(i)
  BY <1>7, SilentSeen DEF Recv, core, slots
<1> QED BY <1>2, <1>3, <1>4, <1>5, <1>6, <1>7 DEF OnHandle

LEMMA ReceivingSeen ==
  ASSUME Inv, Receiving
  PROVE  [Contract!Next]_(Contract!vars)
<1> DEFINE i == call.slot
           c == At
<1>0. HandleInv /\ CallInv
  BY DEF Inv
<1>1. ASSUME call.pc # "idle"
      PROVE  /\ i \in 1..MaxHandles /\ GivenOf[i] = c /\ c \in Conns
             /\ conn[c] = "usable" => Contract!Is(i, {"open"})
  <2>1. i \in Issued /\ table[i] # "null" /\ c = table[i]
    BY <1>0, <1>1 DEF CallInv, At
  <2> HIDE DEF i, c
  <2> QED BY <1>0, <2>1, Seen, OpenExactly
<1> HIDE DEF i
<1>2. CASE RecvMessage
  <2>1. call.pc # "idle" /\ conn[c] = "usable" /\ taken' = [taken EXCEPT ![c] = @ + 1]
    BY <1>2 DEF RecvMessage, InRecv
  <2>2. reply' \in {<<"message", c, taken[c] + 1>>, <<"false">>, <<"error">>}
    BY <1>2 DEF RecvMessage
  <2>3. UNCHANGED <<GivenOf, StateOf>>
    BY <1>2 DEF RecvMessage, slots, GivenOf, StateOf
  <2> HIDE DEF c
  <2>4. Contract!Message(i)
    BY <1>1, <2>1, <2>2, <2>3 DEF Contract!Message, Contract!NoAnswer
  <2> QED BY <1>1, <2>1, <2>4 DEF Contract!Next
<1>3. CASE RecvEnds
  <2>1. call.pc # "idle" /\ conn[c] = "usable" /\ conn' = [conn EXCEPT ![c] = "unusable"]
    BY <1>3 DEF RecvEnds, InRecv
  <2>2. reply' \in {<<"end", c>>, <<"false">>, <<"error">>}
    BY <1>3 DEF RecvEnds
  <2>3. UNCHANGED <<GivenOf, taken>>
    BY <1>3 DEF RecvEnds, slots, GivenOf
  <2> HIDE DEF c
  <2>4. StateOf' = [StateOf EXCEPT ![GivenOf[i]] = "ended"]
    BY <1>0, <1>1, <2>1, StateSeen DEF States
  <2>5. Contract!Ends(i)
    BY <1>1, <2>1, <2>2, <2>3, <2>4 DEF Contract!Ends, Contract!NoAnswer
  <2> QED BY <1>1, <2>1, <2>5 DEF Contract!Next
<1>4. CASE TimeoutReturned
  <2>1. call.pc = "timeout" /\ conn[c] = "usable"
    BY <1>0, <1>4 DEF TimeoutReturned, CallInv
  <2>2. reply' \in {<<"timeout", c>>, <<"false">>}
    BY <1>4 DEF TimeoutReturned
  <2>3. UNCHANGED <<GivenOf, StateOf, taken>>
    BY <1>4 DEF TimeoutReturned, core, slots, GivenOf, StateOf
  <2> HIDE DEF c
  <2>4. Contract!Timeout(i)
    BY <1>1, <2>1, <2>2, <2>3 DEF Contract!Timeout, Contract!NoAnswer
  <2> QED BY <1>1, <2>1, <2>4 DEF Contract!Next
<1>5. CASE RecvUnusable
  BY <1>5, FailedSeen DEF RecvUnusable, core, slots
<1>6. CASE RecvTimeout \/ Poll \/ Tick \/ PollReturns \/ ReadsOn
  BY <1>6, SilentSeen DEF RecvTimeout, Poll, Tick, PollReturns, ReadsOn, core, slots
<1> QED BY <1>2, <1>3, <1>4, <1>5, <1>6 DEF Receiving

\* The GNU Prolog bridge keeps the promises both bridges make about WebSockets
\* (pl_curl/README.md, "WEBSOCKETS"): closed handles are refused, nothing comes from
\* a connection that has ended, messages come in order and once each, for any
\* number of handles, connections and messages.
THEOREM WsContractCorrect == GpSpec => WsContractSpec
<1>1. GpInit => Contract!Init
  <2> SUFFICES ASSUME GpInit PROVE Contract!Init
    OBVIOUS
  <2>1. \A h \in 1..MaxHandles : ~(h <= Len(given))
    BY DEF GpInit
  <2>2. GivenOf = [h \in 1..MaxHandles |-> "none"]
    BY <2>1 DEF GivenOf
  <2>3. StateOf = [c \in Conns |-> "unused"]
    BY DEF GpInit, StateOf
  <2> QED BY <2>2, <2>3 DEF GpInit, Contract!Init
<1>2. Inv /\ [GpNext]_gpVars => [Contract!Next]_(Contract!vars)
  <2> SUFFICES ASSUME Inv, [GpNext]_gpVars PROVE [Contract!Next]_(Contract!vars)
    OBVIOUS
  <2>0. HandleInv
    BY DEF Inv
  <2>1. CASE UNCHANGED gpVars
    BY <2>1, SilentSeen DEF gpVars, core, slots
  <2>2. CASE Open \/ OpenNoMemory
    BY <2>0, <2>2, OpenSeen, OpenNoMemorySeen
  <2>3. CASE OpenFails \/ NotIssued
    BY <2>3, FailedSeen DEF OpenFails, NotIssued, Answer, core, slots
  <2>4. CASE \E i \in Issued : OnHandle(i)
    BY <2>4, OnHandleSeen
  <2>5. CASE Receiving
    BY <2>5, ReceivingSeen
  <2>6. CASE \E c \in Conns : ServerSends(c)
    BY <2>6, SilentSeen DEF ServerSends, slots
  <2> QED BY <2>1, <2>2, <2>3, <2>4, <2>5, <2>6 DEF GpNext
<1>3. Inv /\ [GpNext]_gpVars => [Contract!Step]_(Contract!vars)
  BY <1>2 DEF Contract!Step
<1> QED BY <1>1, <1>3, InvCorrect, PTL DEF GpSpec, WsContractSpec, Contract!Spec

HIDE GpAssumption

-----------------------------------------------------------------------------
(***************************************************************************)
(* The option lists of pl_curl (CurlOptions)                               *)
(***************************************************************************)
USE OptAssumption

-----------------------------------------------------------------------------
(***************************************************************************)
(* What is read of a list, up to option n.                                 *)
(***************************************************************************)
AskedTo(name, n) == {i \in Asked(name) : i <= n}
IsLast(m, S) == m \in S \cup {0} /\ \A j \in S : j <= m

Request ==
  [param : Seq(Nat), header : Seq(Nat), mode : Nat, user : Nat, pass : Nat,
   user_agent : Nat, number : Nat, as : Nat, bool : Nat]

OptSteps == {"url", "options", "check", "copy", "perform", "answer", "done", "failed", "crashed"}

OptTypeOK ==
  /\ ask \in OptCalls
  /\ parse \in [pc : OptSteps, at : Nat \ {0}, headers : Nat, strs : Nat]
  /\ parse.at <= Len(ask.list) + 1
  /\ req \in Request
  /\ parse.pc \in {"url", "options"} => OnePass
  /\ parse.pc \in {"check", "copy"} => ask.parser = "gp_ws"
  /\ parse.pc = "answer" => GetCall

\* What a call owns, and what it has lost.
OwnedInv ==
  /\ parse.pc \in {"url", "check", "answer", "done", "failed"} => owned = {}
  /\ parse.pc # "answer" => response # "held"
  /\ lost # {} => ask.parser = "gp_ws" /\ parse.pc = "failed" /\ (ask.url = "bad" \/ RaisesInCopy)
  /\ response = "lost" => ask.parser = "gp_get" /\ parse.pc = "failed"

LEMMA ListType ==
  ASSUME ask \in OptCalls
  PROVE  /\ ask.list \in Seq(Options) /\ Len(ask.list) \in Nat /\ DOMAIN ask.list = 1..Len(ask.list)
         /\ ask.parser \in {"swi_get", "gp_get", "swi_ws", "gp_ws"}
         /\ ask.tail \in Tails /\ ask.url \in {"ok", "bad"}
<1>1. ask.list \in Lists /\ ask.parser \in Parsers /\ ask.tail \in Tails /\ ask.url \in {"ok", "bad"}
  BY DEF OptCalls
<1>2. ask.list \in Seq(Options) /\ ask.parser \in {"swi_get", "gp_get", "swi_ws", "gp_ws"}
  BY <1>1
<1> HIDE OptAssumption
<1> QED BY <1>1, <1>2

OptionNames == TextNames \cup Settings

LEMMA ArgsType ==
  ASSUME NEW n \in Nat, NEW a \in [1..n -> ArgKinds]
  PROVE  a \in Seq(ArgKinds) /\ Len(a) = n
<1> HIDE OptAssumption
<1>1. a \in Seq(ArgKinds)
  BY SeqDef
<1>2. DOMAIN a = 1..n /\ DOMAIN a = 1..Len(a) /\ Len(a) \in Nat
  BY <1>1, LenProperties
<1> QED BY <1>1, <1>2

LEMMA OptionType ==
  ASSUME NEW o \in Options
  PROVE  /\ o.name \in OptionNames \cup {"other", "junk"}
         /\ o.args \in Seq(ArgKinds)
         /\ o.name \in Pairs => Len(o.args) = 2
         /\ o.name \in Singles => Len(o.args) = 1
<1> USE DEF Pairs, Singles, Settings, KvNames, OptionNames, TextNames, AuthNames
<1> HIDE OptAssumption
<1>1. CASE o \in [name : Pairs, args : [1..2 -> ArgKinds]]
  <2>1. o.args \in [1..2 -> ArgKinds] /\ o.name \in Pairs
    BY <1>1
  <2>2. o.args \in Seq(ArgKinds) /\ Len(o.args) = 2
    BY <2>1, ArgsType
  <2> QED BY <2>1, <2>2
<1>2. CASE o \in [name : Singles, args : [1..1 -> ArgKinds]]
  <2>1. o.args \in [1..1 -> ArgKinds] /\ o.name \in Singles
    BY <1>2
  <2>2. o.args \in Seq(ArgKinds) /\ Len(o.args) = 1
    BY <2>1, ArgsType
  <2> QED BY <2>1, <2>2
<1>3. CASE o \in [name : {"other", "junk"}, args : Seq(ArgKinds)]
  BY <1>3
<1> QED BY <1>1, <1>2, <1>3 DEF Options

\* What With changes, and what it leaves.
LEMMA WithGives ==
  ASSUME NEW r \in Request, NEW name \in OptionNames, NEW i \in Nat
  PROVE  LET w == With(r, name, i) IN
         /\ w \in Request
         /\ w.param = IF name = "param" THEN Append(r.param, i) ELSE r.param
         /\ w.header = IF name = "header" THEN Append(r.header, i) ELSE r.header
         /\ w.mode = IF name \in AuthNames THEN i ELSE r.mode
         /\ w.pass = IF name \in AuthNames THEN i ELSE r.pass
         /\ w.user = IF name = "basic_auth" THEN i ELSE r.user
         /\ w.user_agent = IF name = "user_agent" THEN i ELSE r.user_agent
         /\ w.number = IF name = "number" THEN i ELSE r.number
         /\ w.as = IF name = "as" THEN i ELSE r.as
         /\ w.bool = IF name = "bool" THEN i ELSE r.bool
<1> HIDE OptAssumption
<1>1. Append(r.param, i) \in Seq(Nat) /\ Append(r.header, i) \in Seq(Nat)
  BY DEF Request
<1>2. CASE name = "param"
  <2>1. With(r, name, i) = [r EXCEPT !.param = Append(r.param, i)]
    BY <1>2 DEF With, KvNames
  <2> QED BY <1>1, <1>2, <2>1 DEF Request, AuthNames
<1>3. CASE name = "header"
  <2>1. With(r, name, i) = [r EXCEPT !.header = Append(r.header, i)]
    BY <1>3 DEF With, KvNames
  <2> QED BY <1>1, <1>3, <2>1 DEF Request, AuthNames
<1>4. CASE name = "basic_auth"
  <2>1. With(r, name, i) = [r EXCEPT !.mode = i, !.user = i, !.pass = i]
    BY <1>4 DEF With, KvNames
  <2> QED BY <1>4, <2>1 DEF Request, AuthNames
<1>5. CASE name = "bearer_auth"
  <2>1. With(r, name, i) = [r EXCEPT !.mode = i, !.pass = i]
    BY <1>5 DEF With, KvNames
  <2> QED BY <1>5, <2>1 DEF Request, AuthNames
<1>6. CASE name = "user_agent"
  <2>1. With(r, name, i) = [r EXCEPT !.user_agent = i]
    BY <1>6 DEF With, KvNames
  <2> QED BY <1>6, <2>1 DEF Request, AuthNames
<1>7. CASE name = "number"
  <2>1. With(r, name, i) = [r EXCEPT !.number = i]
    BY <1>7 DEF With, KvNames
  <2> QED BY <1>7, <2>1 DEF Request, AuthNames
<1>8. CASE name = "as"
  <2>1. With(r, name, i) = [r EXCEPT !.as = i]
    BY <1>8 DEF With, KvNames
  <2> QED BY <1>8, <2>1 DEF Request, AuthNames
<1>9. CASE name = "bool"
  <2>1. With(r, name, i) = [r EXCEPT !.bool = i]
    BY <1>9 DEF With, KvNames
  <2> QED BY <1>9, <2>1 DEF Request, AuthNames
<1> QED BY <1>2, <1>3, <1>4, <1>5, <1>6, <1>7, <1>8, <1>9
        DEF OptionNames, TextNames, Settings, KvNames, AuthNames

-----------------------------------------------------------------------------
(***************************************************************************)
(* The next option of a list                                               *)
(***************************************************************************)
LEMMA NextAsked ==
  ASSUME ask \in OptCalls, NEW n \in Nat, n + 1 \in DOMAIN ask.list, NEW name
  PROVE  /\ ask.list[n + 1].name = name /\ name \in Known
              => AskedTo(name, n + 1) = AskedTo(name, n) \cup {n + 1}
         /\ ~(ask.list[n + 1].name = name /\ name \in Known) => AskedTo(name, n + 1) = AskedTo(name, n)
<1>1. \A i \in DOMAIN ask.list : i \in Nat
  BY ListType
<1> HIDE OptAssumption
<1> QED BY <1>1 DEF AskedTo, Asked

LEMMA AllAsked ==
  ASSUME ask \in OptCalls, NEW name
  PROVE  AskedTo(name, Len(ask.list)) = Asked(name) /\ AskedTo(name, 0) = {}
<1>1. \A i \in DOMAIN ask.list : i \in Nat \ {0} /\ i <= Len(ask.list)
  BY ListType
<1> HIDE OptAssumption
<1> QED BY <1>1 DEF AskedTo, Asked

LEMMA LastIs ==
  ASSUME NEW S \in SUBSET Nat, NEW m \in Nat, IsLast(m, S)
  PROVE  LastOf(S) = m
<1> DEFINE P(i) == i \in S \cup {0} /\ \A j \in S : j <= i
<1> HIDE OptAssumption
<1>2. P(m)
  BY DEF IsLast
<1>3. ASSUME NEW i, P(i) PROVE i = m
  <2>1. i \in Nat
    BY <1>3
  <2>2. i <= m /\ m <= i
    BY <1>2, <1>3
  <2> QED BY <2>1, <2>2
<1>1. P(m) /\ \A i : P(i) => i = m
  BY <1>2, <1>3
<1> QED BY <1>1 DEF LastOf, IsLast

LEMMA LastGrows ==
  ASSUME NEW S, NEW n \in Nat, NEW m, IsLast(m, S), \A j \in S : j \in Nat /\ j <= n
  PROVE  IsLast(n + 1, S \cup {n + 1})
<1>1. \A j \in S : j <= n + 1
  OBVIOUS
<1> QED BY <1>1 DEF IsLast

\* One more element in order.
LEMMA OrderGrows ==
  ASSUME NEW S, NEW n \in Nat, NEW s \in Seq(Nat), InOrder(s, S), \A j \in S : j \in Nat /\ j <= n
  PROVE  InOrder(Append(s, n + 1), S \cup {n + 1})
<1> DEFINE a == Append(s, n + 1)
<1>1. PICK l : l = Len(s)
  OBVIOUS
<1>2. /\ l \in Nat /\ DOMAIN s = 1..l /\ DOMAIN a = 1..(l + 1) /\ a[l + 1] = n + 1
      /\ \A k \in 1..l : a[k] = s[k] /\ s[k] \in Nat
  BY <1>1
<1>3. /\ \A j, k \in 1..l : j < k => s[j] < s[k]
      /\ \A k \in 1..l : s[k] \in S
      /\ \A i \in S : \E k \in 1..l : s[k] = i
  BY <1>2 DEF InOrder
<1> HIDE DEF a
<1>4. \A k \in 1..(l + 1) : k \in 1..l \/ k = l + 1
  BY <1>2
<1>5. \A k \in 1..l : a[k] < n + 1 /\ a[k] \in S
  BY <1>2, <1>3
<1>6. \A j, k \in 1..(l + 1) : j < k => a[j] < a[k]
  <2> SUFFICES ASSUME NEW j \in 1..(l + 1), NEW k \in 1..(l + 1), j < k PROVE a[j] < a[k]
    OBVIOUS
  <2>1. j \in 1..l
    BY <1>2
  <2>2. CASE k = l + 1
    BY <1>2, <1>5, <2>1, <2>2
  <2>3. CASE k \in 1..l
    BY <1>2, <1>3, <2>1, <2>3
  <2> QED BY <1>4, <2>2, <2>3
<1>7. \A k \in 1..(l + 1) : a[k] \in S \cup {n + 1}
  BY <1>2, <1>4, <1>5
<1>8. ASSUME NEW i \in S \cup {n + 1} PROVE \E k \in 1..(l + 1) : a[k] = i
  <2>1. CASE i = n + 1
    BY <1>2, <2>1
  <2>2. CASE i \in S
    <3>1. PICK k \in 1..l : s[k] = i
      BY <1>3, <2>2
    <3>2. k \in 1..(l + 1) /\ a[k] = i
      BY <1>2, <3>1
    <3> QED BY <3>2
  <2> QED BY <2>1, <2>2
<1>9. InOrder(a, S \cup {n + 1})
  BY <1>2, <1>6, <1>7, <1>8 DEF InOrder
<1> QED BY <1>9 DEF a

-----------------------------------------------------------------------------
(***************************************************************************)
(* The request built from the first n options                              *)
(***************************************************************************)
\* pl_curl_get/5 of GNU Prolog has been given more than it keeps.
TooMany(name, n) == ask.parser = "gp_get" /\ Cardinality(AskedTo(name, n)) > MaxKv

KvKept(name, n) ==
  /\ Len(req[name]) <= MaxKv
  /\ \/ TooMany(name, n)
     \/ /\ InOrder(req[name], AskedTo(name, n))
        /\ Len(req[name]) = Cardinality(AskedTo(name, n))

KvBuilt(n) == \A name \in KvNames : KvKept(name, n)

AuthBuilt(n) ==
  /\ IsLast(req.mode, AskedTo("basic_auth", n) \cup AskedTo("bearer_auth", n))
  /\ req.pass = req.mode
  /\ req.mode \in Asked("basic_auth") => req.user = req.mode

TextsOk(n) ==
  \A i \in 1..n : ask.list[i].name \in Known \cap (AuthNames \cup {"user_agent"}) => Wellformed(ask.list[i])

TextOwned(n) ==
  Copies => \A i \in 1..n : ask.list[i].name \in Known \cap TextNames => TextsOf(i) \subseteq owned

TextBuilt(n) ==
  /\ KvBuilt(n) /\ AuthBuilt(n) /\ IsLast(req.user_agent, AskedTo("user_agent", n))
  /\ TextsOk(n) /\ TextOwned(n)

SetBuilt(n) ==
  /\ \A name \in Settings : IsLast(req[name], AskedTo(name, n))
  /\ \A i \in 1..n : ask.list[i].name \in {"number", "as"} => Wellformed(ask.list[i])

SameTexts ==
  /\ req'.param = req.param /\ req'.header = req.header /\ req'.mode = req.mode
  /\ req'.pass = req.pass /\ req'.user = req.user /\ req'.user_agent = req.user_agent

SameSettings == req'.number = req.number /\ req'.as = req.as /\ req'.bool = req.bool

LEMMA SameAsked ==
  ASSUME UNCHANGED ask
  PROVE  /\ \A name, n : AskedTo(name, n)' = AskedTo(name, n)
         /\ \A name : Asked(name)' = Asked(name)
         /\ Known' = Known /\ Copies' = Copies /\ \A i : TextsOf(i)' = TextsOf(i)
         /\ ask'.list = ask.list /\ ask'.parser = ask.parser /\ GetCall' = GetCall /\ OnePass' = OnePass
         /\ RaisesInCopy' = RaisesInCopy
BY DEF AskedTo, Asked, Known, GetCall, Copies, TextsOf, OnePass, RaisesInCopy

LEMMA SameKept ==
  ASSUME UNCHANGED ask, NEW name, NEW n, NEW m,
         AskedTo(name, m) = AskedTo(name, n), req'[name] = req[name], KvKept(name, n)
  PROVE  KvKept(name, m)'
<1>1. AskedTo(name, m)' = AskedTo(name, n) /\ ask'.parser = ask.parser
  BY SameAsked
<1> HIDE OptAssumption
<1> QED BY <1>1 DEF KvKept, TooMany, InOrder

LEMMA Bounded ==
  ASSUME ask \in OptCalls, NEW name, NEW n \in Nat
  PROVE  \A j \in AskedTo(name, n) : j \in Nat /\ j <= n
<1>1. \A i \in DOMAIN ask.list : i \in Nat
  BY ListType
<1> HIDE OptAssumption
<1> QED BY <1>1 DEF AskedTo, Asked

LEMMA CountAsked ==
  ASSUME ask \in OptCalls, NEW n \in Nat, NEW name
  PROVE  /\ IsFiniteSet(AskedTo(name, n)) /\ IsFiniteSet(Asked(name))
         /\ Cardinality(AskedTo(name, n)) \in Nat
         /\ Cardinality(AskedTo(name, n)) <= Cardinality(Asked(name))
<1>1. Asked(name) \subseteq 1..Len(ask.list) /\ Len(ask.list) \in Nat /\ AskedTo(name, n) \subseteq Asked(name)
  BY ListType DEF Asked, AskedTo
<1>2. IsFiniteSet(1..Len(ask.list))
  BY <1>1, FS_Interval
<1>3. IsFiniteSet(Asked(name))
  BY <1>1, <1>2, FS_Subset
<1>4. IsFiniteSet(AskedTo(name, n)) /\ Cardinality(AskedTo(name, n)) <= Cardinality(Asked(name))
  BY <1>1, <1>3, FS_Subset
<1> QED BY <1>3, <1>4, FS_CardinalityType

LEMMA CountNext ==
  ASSUME ask \in OptCalls, NEW n \in Nat, n + 1 \in DOMAIN ask.list, NEW name
  PROVE  Cardinality(AskedTo(name, n + 1))
           = IF ask.list[n + 1].name = name /\ name \in Known THEN Cardinality(AskedTo(name, n)) + 1
             ELSE Cardinality(AskedTo(name, n))
<1>1. IsFiniteSet(AskedTo(name, n)) /\ n + 1 \notin AskedTo(name, n)
  BY CountAsked, Bounded
<1>2. Cardinality(AskedTo(name, n) \cup {n + 1}) = Cardinality(AskedTo(name, n)) + 1
  BY <1>1, FS_AddElement
<1> QED BY <1>2, NextAsked

\* The same texts, and one option more that is none of them or for which pl_curl_get/5
\* of GNU Prolog has no room.
LEMMA SkipText ==
  ASSUME OptTypeOK, UNCHANGED ask, NEW n \in Nat, n + 1 \in DOMAIN ask.list, TextBuilt(n), SameTexts,
         owned \subseteq owned',
         \/ ask.list[n + 1].name \notin Known \cap TextNames
         \/ ask.parser = "gp_get" /\ NoRoom(ask.list[n + 1].name)
  PROVE  TextBuilt(n + 1)'
<1>0. PICK nm : nm = ask.list[n + 1].name
  OBVIOUS
<1>1. ask \in OptCalls /\ req \in Request
  BY DEF OptTypeOK
<1>2. \A name, k : AskedTo(name, k)' = AskedTo(name, k)
  BY SameAsked
<1>3. ASSUME NEW name \in TextNames, name # nm \/ nm \notin Known
      PROVE  AskedTo(name, n + 1) = AskedTo(name, n)
  BY <1>0, <1>1, <1>3, NextAsked
<1>4. nm \notin Known \cap TextNames \/ nm \in KvNames
  BY <1>0 DEF NoRoom
<1>5. nm \notin Known \/ nm \notin AuthNames \cup {"user_agent"}
  BY <1>4 DEF KvNames, AuthNames, TextNames
<1>6. req'.param = req.param /\ req'.header = req.header
  BY DEF SameTexts
<1>7. KvBuilt(n + 1)'
  <2> SUFFICES ASSUME NEW name \in KvNames PROVE KvKept(name, n + 1)'
    BY DEF KvBuilt
  <2>1. req'[name] = req[name] /\ req[name] \in Seq(Nat)
    BY <1>1, <1>6 DEF KvNames, Request
  <2>2. KvKept(name, n)
    BY DEF TextBuilt, KvBuilt
  <2>3. CASE name # nm \/ nm \notin Known
    <3>1. AskedTo(name, n + 1) = AskedTo(name, n)
      BY <1>3, <2>3 DEF TextNames
    <3> QED BY <2>1, <2>2, <3>1, SameKept
  <2>4. CASE name = nm /\ nm \in Known
    <3>1. ask.parser = "gp_get" /\ ~(Len(req[name]) < MaxKv)
      <4>1. ask.parser = "gp_get" /\ NoRoom(nm)
        BY <1>0, <2>4 DEF TextNames
      <4> QED BY <2>1, <2>4, <4>1 DEF NoRoom
    <3>2. Cardinality(AskedTo(name, n + 1)) = Cardinality(AskedTo(name, n)) + 1
      BY <1>0, <1>1, <2>4, CountNext
    <3>3. Cardinality(AskedTo(name, n)) \in Nat /\ Len(req[name]) \in Nat /\ MaxKv \in Nat
      BY <1>1, <2>1, CountAsked
    <3>4. Cardinality(AskedTo(name, n)) >= MaxKv
      BY <2>2, <3>1, <3>3 DEF KvKept, TooMany
    <3>5. Cardinality(AskedTo(name, n + 1)) > MaxKv
      BY <3>2, <3>3, <3>4
    <3>6. AskedTo(name, n + 1)' = AskedTo(name, n + 1) /\ ask'.parser = ask.parser
      BY <1>2
    <3> QED BY <2>1, <2>2, <3>1, <3>5, <3>6 DEF KvKept, TooMany
  <2> QED BY <2>3, <2>4
<1>8. AuthBuilt(n + 1)'
  <2>1. req'.mode = req.mode /\ req'.pass = req.pass /\ req'.user = req.user
    BY DEF SameTexts
  <2>2. \A name \in AuthNames : AskedTo(name, n + 1)' = AskedTo(name, n)
    BY <1>2, <1>3, <1>5 DEF AuthNames, TextNames
  <2>3. Asked("basic_auth")' = Asked("basic_auth")
    BY SameAsked
  <2>4. AuthBuilt(n)
    BY DEF TextBuilt
  <2> QED BY <2>1, <2>2, <2>3, <2>4 DEF AuthBuilt, AuthNames, IsLast
<1>9. IsLast(req.user_agent, AskedTo("user_agent", n + 1))'
  <2>1. AskedTo("user_agent", n + 1)' = AskedTo("user_agent", n)
    BY <1>2, <1>3, <1>5 DEF TextNames
  <2>2. req'.user_agent = req.user_agent
    BY DEF SameTexts
  <2> QED BY <2>1, <2>2 DEF TextBuilt, IsLast
<1>10. TextsOk(n + 1)' /\ TextOwned(n + 1)'
  <2>1. \A i \in 1..(n + 1) : i \in 1..n \/ i = n + 1
    OBVIOUS
  <2>2. TextsOk(n) /\ TextOwned(n)
    BY DEF TextBuilt
  <2>3. Known' = Known /\ Copies' = Copies /\ ask' = ask /\ \A i : TextsOf(i)' = TextsOf(i)
    BY SameAsked
  <2>4. TextsOk(n + 1)'
    BY <1>0, <1>5, <2>1, <2>2, <2>3 DEF TextsOk
  <2>5. ~Copies \/ nm \notin Known \cap TextNames
    BY <1>0 DEF Copies
  <2>6. TextOwned(n + 1)'
    BY <1>0, <2>1, <2>2, <2>3, <2>5 DEF TextOwned
  <2> QED BY <2>4, <2>6
<1> QED BY <1>7, <1>8, <1>9, <1>10 DEF TextBuilt

LEMMA KeepText ==
  ASSUME UNCHANGED ask, NEW n \in Nat, TextBuilt(n), SameTexts, owned \subseteq owned', req \in Request
  PROVE  TextBuilt(n)'
<1>1. /\ \A name, k : AskedTo(name, k)' = AskedTo(name, k)
      /\ \A name : Asked(name)' = Asked(name)
      /\ Known' = Known /\ Copies' = Copies /\ ask' = ask /\ \A i : TextsOf(i)' = TextsOf(i)
  BY SameAsked
<1>2. \A name \in KvNames : req'[name] = req[name]
  BY DEF KvNames, SameTexts
<1>3. KvBuilt(n)'
  <2> SUFFICES ASSUME NEW name \in KvNames PROVE KvKept(name, n)'
    BY DEF KvBuilt
  <2>1. KvKept(name, n) /\ req'[name] = req[name]
    BY <1>2 DEF TextBuilt, KvBuilt
  <2> QED BY <2>1, SameKept
<1>4. AuthBuilt(n)' /\ IsLast(req.user_agent, AskedTo("user_agent", n))'
  BY <1>1 DEF TextBuilt, AuthBuilt, SameTexts, IsLast
<1>5. TextsOk(n)' /\ TextOwned(n)'
  BY <1>1 DEF TextBuilt, TextsOk, TextOwned
<1> QED BY <1>3, <1>4, <1>5 DEF TextBuilt

\* One option more, whose texts are taken.
LEMMA TakeText ==
  ASSUME OptTypeOK, UNCHANGED ask, NEW n \in Nat, n + 1 \in DOMAIN ask.list, TextBuilt(n),
         NEW nm \in TextNames, nm = ask.list[n + 1].name, nm \in Known,
         req' = With(req, nm, n + 1), nm \notin KvNames => Wellformed(ask.list[n + 1]),
         nm \in KvNames => Len(req[nm]) < MaxKv,
         owned \subseteq owned', Copies => TextsOf(n + 1) \subseteq owned'
  PROVE  TextBuilt(n + 1)'
<1>1. ask \in OptCalls /\ req \in Request /\ nm \in OptionNames /\ n + 1 \in Nat
  BY DEF OptTypeOK, OptionNames
<1>2. \A name, k : AskedTo(name, k)' = AskedTo(name, k)
  BY SameAsked
<1>3. /\ \A name : name # nm => AskedTo(name, n + 1) = AskedTo(name, n)
      /\ AskedTo(nm, n + 1) = AskedTo(nm, n) \cup {n + 1}
  BY <1>1, NextAsked
<1>4. /\ req'.param = IF nm = "param" THEN Append(req.param, n + 1) ELSE req.param
      /\ req'.header = IF nm = "header" THEN Append(req.header, n + 1) ELSE req.header
      /\ req'.mode = IF nm \in AuthNames THEN n + 1 ELSE req.mode
      /\ req'.pass = IF nm \in AuthNames THEN n + 1 ELSE req.pass
      /\ req'.user = IF nm = "basic_auth" THEN n + 1 ELSE req.user
      /\ req'.user_agent = IF nm = "user_agent" THEN n + 1 ELSE req.user_agent
  BY <1>1, WithGives
<1>5. \A name : \A j \in AskedTo(name, n) : j \in Nat /\ j <= n
  BY <1>1, Bounded
<1>7. KvBuilt(n + 1)'
  <2> SUFFICES ASSUME NEW name \in KvNames PROVE KvKept(name, n + 1)'
    BY DEF KvBuilt
  <2>1. req'[name] = (IF nm = name THEN Append(req[name], n + 1) ELSE req[name]) /\ req[name] \in Seq(Nat)
    BY <1>1, <1>4 DEF KvNames, Request
  <2>2. KvKept(name, n)
    BY DEF TextBuilt, KvBuilt
  <2>4. CASE name # nm
    BY <1>3, <2>1, <2>2, <2>4, SameKept
  <2>5. CASE name = nm
    <3>1. Len(req[name]) < MaxKv /\ Len(req[name]) \in Nat /\ MaxKv \in Nat
      BY <2>1, <2>5
    <3>2. Len(Append(req[name], n + 1)) = Len(req[name]) + 1
      BY <2>1
    <3>3. /\ Cardinality(AskedTo(name, n + 1)) = Cardinality(AskedTo(name, n)) + 1
          /\ Cardinality(AskedTo(name, n)) \in Nat
      BY <1>1, <2>5, CountNext, CountAsked
    <3>4. /\ req'[name] = Append(req[name], n + 1)
          /\ AskedTo(name, n + 1)' = AskedTo(name, n + 1) /\ ask'.parser = ask.parser
          /\ AskedTo(name, n + 1) = AskedTo(name, n) \cup {n + 1}
      BY <1>2, <1>3, <2>1, <2>5
    <3>5. CASE TooMany(name, n)
      <4>1. Cardinality(AskedTo(name, n + 1)) > MaxKv
        BY <3>1, <3>3, <3>5 DEF TooMany
      <4> QED BY <3>1, <3>2, <3>4, <3>5, <4>1 DEF KvKept, TooMany
    <3>6. CASE InOrder(req[name], AskedTo(name, n)) /\ Len(req[name]) = Cardinality(AskedTo(name, n))
      <4>1. InOrder(Append(req[name], n + 1), AskedTo(name, n + 1))
        BY <1>5, <2>1, <3>4, <3>6, OrderGrows
      <4>2. InOrder(req[name], AskedTo(name, n + 1))'
        BY <3>4, <4>1 DEF InOrder
      <4>3. Len(req'[name]) = Cardinality(AskedTo(name, n + 1)) /\ Len(req'[name]) <= MaxKv
        BY <3>1, <3>2, <3>3, <3>4, <3>6
      <4> QED BY <3>4, <4>2, <4>3 DEF KvKept
    <3> QED BY <2>2, <3>5, <3>6 DEF KvKept
  <2> QED BY <2>4, <2>5
<1>8. AuthBuilt(n + 1)'
  <2>1. AuthBuilt(n) /\ Asked("basic_auth")' = Asked("basic_auth")
    BY SameAsked DEF TextBuilt
  <2> DEFINE S == AskedTo("basic_auth", n) \cup AskedTo("bearer_auth", n)
             T == AskedTo("basic_auth", n + 1) \cup AskedTo("bearer_auth", n + 1)
  <2>2. T' = T
    BY <1>2
  <2>3. CASE nm \notin AuthNames
    <3>1. T = S
      BY <1>3, <2>3 DEF AuthNames
    <3>2. req'.mode = req.mode /\ req'.pass = req.pass /\ req'.user = req.user
      BY <1>4, <2>3 DEF AuthNames
    <3> QED BY <2>1, <2>2, <3>1, <3>2 DEF AuthBuilt, IsLast
  <2>4. CASE nm \in AuthNames
    <3>1. T = S \cup {n + 1}
      BY <1>3, <2>4 DEF AuthNames
    <3>2. IsLast(n + 1, T)
      <4>1. IsLast(req.mode, S) /\ \A j \in S : j \in Nat /\ j <= n
        BY <1>5, <2>1 DEF AuthBuilt
      <4> HIDE DEF S, T
      <4> QED BY <3>1, <4>1, LastGrows
    <3>3. req'.mode = n + 1 /\ req'.pass = n + 1
      BY <1>4, <2>4
    <3>4. n + 1 \in Asked("basic_auth") => req'.user = n + 1
      BY <1>4, <2>4 DEF Asked
    <3>5. IsLast(req'.mode, T')
      BY <2>2, <3>2, <3>3
    <3> QED BY <2>1, <3>3, <3>4, <3>5 DEF AuthBuilt, IsLast
  <2> QED BY <2>3, <2>4
<1>9. IsLast(req.user_agent, AskedTo("user_agent", n + 1))'
  <2>1. AskedTo("user_agent", n + 1)' = AskedTo("user_agent", n + 1)
    BY <1>2
  <2>2. IsLast(req.user_agent, AskedTo("user_agent", n))
    BY DEF TextBuilt
  <2>3. IsLast(req'.user_agent, AskedTo("user_agent", n + 1))
    <3>1. CASE nm = "user_agent"
      BY <1>3, <1>4, <1>5, <2>2, <3>1, LastGrows
    <3>2. CASE nm # "user_agent"
      BY <1>3, <1>4, <2>2, <3>2
    <3> QED BY <3>1, <3>2
  <2> QED BY <2>1, <2>3 DEF IsLast
<1>10. TextsOk(n + 1)' /\ TextOwned(n + 1)'
  <2>1. \A i \in 1..(n + 1) : i \in 1..n \/ i = n + 1
    OBVIOUS
  <2>2. TextsOk(n) /\ TextOwned(n)
    BY DEF TextBuilt
  <2>3. Known' = Known /\ Copies' = Copies /\ ask' = ask /\ \A i : TextsOf(i)' = TextsOf(i)
    BY SameAsked
  <2>4. nm \in AuthNames \cup {"user_agent"} => Wellformed(ask.list[n + 1])
    BY DEF AuthNames, KvNames
  <2>5. TextsOk(n + 1)'
    BY <2>1, <2>2, <2>3, <2>4 DEF TextsOk
  <2>6. TextOwned(n + 1)'
    BY <2>1, <2>2, <2>3 DEF TextOwned
  <2> QED BY <2>5, <2>6
<1> QED BY <1>7, <1>8, <1>9, <1>10 DEF TextBuilt


LEMMA KeepSet ==
  ASSUME UNCHANGED ask, NEW n \in Nat, SetBuilt(n), SameSettings
  PROVE  SetBuilt(n)'
<1>1. \A name, k : AskedTo(name, k)' = AskedTo(name, k)
  BY SameAsked
<1>2. \A name \in Settings : req'[name] = req[name]
  BY DEF Settings, SameSettings
<1> QED BY <1>1, <1>2 DEF SetBuilt, IsLast

\* One option more, a setting or not.
LEMMA NextSet ==
  ASSUME OptTypeOK, UNCHANGED ask, NEW n \in Nat, n + 1 \in DOMAIN ask.list, SetBuilt(n),
         NEW nm, nm = ask.list[n + 1].name,
         \/ nm \notin Settings /\ SameSettings
         \/ /\ nm \in Settings /\ req' = With(req, nm, n + 1)
            /\ nm \in {"number", "as"} => Wellformed(ask.list[n + 1])
  PROVE  SetBuilt(n + 1)'
<1>1. ask \in OptCalls /\ req \in Request /\ n + 1 \in Nat /\ Settings \subseteq Known
      /\ (nm \in Settings => nm \in OptionNames)
  BY DEF OptTypeOK, OptionNames, Known
<1>2. \A name, k : AskedTo(name, k)' = AskedTo(name, k)
  BY SameAsked
<1>3. /\ \A name : name # nm => AskedTo(name, n + 1) = AskedTo(name, n)
      /\ nm \in Settings => AskedTo(nm, n + 1) = AskedTo(nm, n) \cup {n + 1}
  BY <1>1, NextAsked
<1>4. \A name : \A j \in AskedTo(name, n) : j \in Nat /\ j <= n
  BY <1>1, Bounded
<1>5. \A name \in Settings : req'[name] = IF name = nm THEN n + 1 ELSE req[name]
  <2>1. CASE nm \notin Settings
    BY <2>1 DEF Settings, SameSettings
  <2>2. CASE nm \in Settings
    <3>1. /\ req'.number = IF nm = "number" THEN n + 1 ELSE req.number
          /\ req'.as = IF nm = "as" THEN n + 1 ELSE req.as
          /\ req'.bool = IF nm = "bool" THEN n + 1 ELSE req.bool
      BY <1>1, <2>2, WithGives
    <3> QED BY <3>1 DEF Settings
  <2> QED BY <2>1, <2>2
<1>6. ASSUME NEW name \in Settings PROVE IsLast(req[name], AskedTo(name, n + 1))'
  <2>1. IsLast(req[name], AskedTo(name, n))
    BY DEF SetBuilt
  <2>2. IsLast(req'[name], AskedTo(name, n + 1))
    <3>1. CASE name = nm
      BY <1>3, <1>4, <1>5, <2>1, <3>1, LastGrows
    <3>2. CASE name # nm
      BY <1>3, <1>5, <2>1, <3>2
    <3> QED BY <3>1, <3>2
  <2> QED BY <1>2, <2>2 DEF IsLast
<1>7. \A i \in 1..(n + 1) : i \in 1..n \/ i = n + 1
  OBVIOUS
<1>8. nm \in {"number", "as"} => Wellformed(ask.list[n + 1])
  BY DEF Settings
<1> QED BY <1>6, <1>7, <1>8 DEF SetBuilt

-----------------------------------------------------------------------------
(***************************************************************************)
(* The inductive invariant: how far the texts and the settings of the list *)
(* have been taken at each step.                                           *)
(***************************************************************************)
Texted ==
  IF parse.pc \in {"url", "check"} THEN 0
  ELSE IF parse.pc \in {"options", "copy"} THEN parse.at - 1
  ELSE Len(ask.list)

Settled ==
  IF parse.pc = "url" THEN 0
  ELSE IF parse.pc \in {"options", "check"} THEN parse.at - 1
  ELSE Len(ask.list)

OptParsing == {"url", "options", "check", "copy", "perform"}

\* How many texts the headers and user agents of the first n options are.
CopiedTo(n) == 2 * Cardinality(AskedTo("header", n)) + Cardinality(AskedTo("user_agent", n))

\* What pl_curl_ws_open of GNU Prolog has counted.
GpCounts ==
  /\ ask.parser # "gp_ws" => parse.strs = 0 /\ parse.pc # "crashed"
  /\ ask.parser = "gp_ws" =>
       /\ parse.pc = "check" => parse.headers <= MaxKv /\ parse.strs = 0
                                /\ parse.headers = Cardinality(AskedTo("header", parse.at - 1))
       /\ parse.pc \in {"copy", "perform"} => Cardinality(Asked("header")) <= MaxKv
       /\ parse.pc = "copy" => parse.strs = CopiedTo(parse.at - 1)
  /\ parse.strs > StrsRoom \/ parse.pc = "crashed" => Cardinality(Asked("user_agent")) > 1

OptInv ==
  /\ OptTypeOK /\ OwnedInv /\ GpCounts
  /\ parse.pc \in OptParsing => TextBuilt(Texted) /\ SetBuilt(Settled)
  /\ Copies /\ (parse.pc = "perform" \/ parse.pc = "options") => <<0, 1>> \in owned

\* Where the parser is in the list.
LEMMA Here ==
  ASSUME OptTypeOK, ~AtEnd
  PROVE  /\ parse.at - 1 \in Nat /\ (parse.at - 1) + 1 = parse.at /\ parse.at \in DOMAIN ask.list
         /\ Option = ask.list[parse.at] /\ Option \in Options
         /\ parse.at + 1 \in Nat \ {0} /\ parse.at + 1 <= Len(ask.list) + 1
         /\ (parse.at + 1) - 1 = parse.at
<1>1. /\ ask.list \in Seq(Options) /\ Len(ask.list) \in Nat /\ DOMAIN ask.list = 1..Len(ask.list)
      /\ parse.at \in Nat \ {0}
  BY ListType DEF OptTypeOK
<1>2. parse.at \in 1..Len(ask.list)
  BY <1>1 DEF AtEnd
<1> HIDE OptAssumption
<1> QED BY <1>1, <1>2, ElementOfSeq DEF Option

LEMMA EndOfList ==
  ASSUME OptTypeOK, AtEnd
  PROVE  parse.at - 1 = Len(ask.list) /\ Len(ask.list) \in Nat
<1>1. Len(ask.list) \in Nat /\ parse.at \in Nat \ {0} /\ parse.at <= Len(ask.list) + 1
  BY ListType DEF OptTypeOK
<1> HIDE OptAssumption
<1> QED BY <1>1 DEF AtEnd


LEMMA OptSame ==
  ASSUME OptTypeOK, UNCHANGED ask, NEW pc \in OptSteps, Step(pc), req' \in Request,
         pc \in {"url", "options"} => OnePass, pc \in {"check", "copy"} => ask.parser = "gp_ws",
         pc = "answer" => GetCall
  PROVE  OptTypeOK' /\ parse'.pc = pc /\ parse'.at = 1 /\ parse'.headers = parse.headers
         /\ parse'.strs = parse.strs
<1>1. parse \in [pc : OptSteps, at : Nat \ {0}, headers : Nat, strs : Nat] /\ ask \in OptCalls /\ Len(ask.list) \in Nat
  BY ListType DEF OptTypeOK
<1> HIDE OptAssumption
<1>2. parse' = [parse EXCEPT !.pc = pc, !.at = 1]
  BY DEF Step
<1>3. parse' \in [pc : OptSteps, at : Nat \ {0}, headers : Nat, strs : Nat] /\ parse'.pc = pc /\ parse'.at = 1
      /\ parse'.headers = parse.headers /\ parse'.strs = parse.strs
  <2>1. parse \in [pc : OptSteps, at : Nat \ {0}, headers : Nat, strs : Nat] /\ 1 \in Nat \ {0}
    BY <1>1
  <2> QED BY <1>2, <2>1
<1>4. OnePass' = OnePass /\ GetCall' = GetCall /\ ask' = ask
  BY SameAsked
<1> QED BY <1>1, <1>3, <1>4 DEF OptTypeOK

OptRecord == [pc : OptSteps, at : Nat \ {0}, headers : Nat, strs : Nat]

LEMMA MovesOn ==
  ASSUME OptTypeOK, ~AtEnd, UNCHANGED ask, req' \in Request, NEW h \in Nat, NEW t \in Nat,
         \/ parse' = [parse EXCEPT !.at = @ + 1] /\ h = parse.headers /\ t = parse.strs
         \/ parse' = [parse EXCEPT !.at = @ + 1, !.headers = h] /\ t = parse.strs
         \/ parse' = [parse EXCEPT !.at = @ + 1, !.strs = t] /\ h = parse.headers
  PROVE  OptTypeOK' /\ parse'.pc = parse.pc /\ parse'.at = parse.at + 1 /\ parse'.headers = h
         /\ parse'.strs = t
<1>1. parse \in OptRecord /\ ask \in OptCalls
  BY DEF OptTypeOK, OptRecord
<1>2. parse.at + 1 \in Nat \ {0} /\ parse.at + 1 <= Len(ask.list) + 1
  BY Here
<1> HIDE OptAssumption
<1>3. parse' \in OptRecord /\ parse'.pc = parse.pc
      /\ parse'.at = parse.at + 1 /\ parse'.headers = h /\ parse'.strs = t
  <2>1. CASE parse' = [parse EXCEPT !.at = @ + 1] /\ h = parse.headers /\ t = parse.strs
    BY <1>1, <1>2, <2>1 DEF OptRecord
  <2>2. CASE parse' = [parse EXCEPT !.at = @ + 1, !.headers = h] /\ t = parse.strs
    BY <1>1, <1>2, <2>2 DEF OptRecord
  <2>3. CASE parse' = [parse EXCEPT !.at = @ + 1, !.strs = t] /\ h = parse.headers
    BY <1>1, <1>2, <2>3 DEF OptRecord
  <2> QED BY <2>1, <2>2, <2>3
<1>4. OnePass' = OnePass /\ GetCall' = GetCall /\ ask' = ask
  BY SameAsked
<1> QED BY <1>1, <1>2, <1>3, <1>4 DEF OptTypeOK, OptRecord

LEMMA Advances ==
  ASSUME OptTypeOK, ~AtEnd, UNCHANGED ask, req' \in Request, Advance
  PROVE  OptTypeOK' /\ parse'.pc = parse.pc /\ parse'.at = parse.at + 1 /\ parse'.strs = parse.strs
<1>1. /\ parse.headers \in Nat /\ parse.strs \in Nat
      /\ parse' = [parse EXCEPT !.at = @ + 1]
  BY DEF OptTypeOK, Advance
<1> QED BY <1>1, MovesOn

\* A call that fails has freed everything, and one that raises an error out of the
\* copying has lost what it had.
LEMMA FailKeeps ==
  ASSUME OptInv, parse.pc # "answer",
         \/ Fail
         \/ /\ parse.pc = "copy" /\ (ask.url = "bad" \/ RaisesInCopy)
            /\ \E copied : Raise(copied)
  PROVE  OptInv'
<1>1. Step("failed") /\ owned' = {} /\ UNCHANGED <<ask, req, response>>
      /\ (lost' = lost \/ (parse.pc = "copy" /\ (ask.url = "bad" \/ RaisesInCopy)))
  BY DEF Fail, Raise
<1>2. OptTypeOK' /\ parse'.pc = "failed" /\ parse'.strs = parse.strs
  <2>1. OptTypeOK /\ req' \in Request /\ "failed" \in OptSteps
    BY <1>1 DEF OptInv, OptTypeOK, OptSteps
  <2> QED BY <1>1, <2>1, OptSame
<1>3. OwnedInv'
  <2>1. RaisesInCopy' = RaisesInCopy /\ ask' = ask
    BY <1>1, SameAsked
  <2> QED BY <1>1, <1>2, <2>1 DEF OptInv, OptTypeOK, OwnedInv
<1>4. GpCounts'
  <2>1. parse.strs > StrsRoom => Cardinality(Asked("user_agent")) > 1
    BY DEF OptInv, GpCounts
  <2>2. Cardinality(Asked("user_agent"))' = Cardinality(Asked("user_agent")) /\ StrsRoom' = StrsRoom
    BY <1>1, SameAsked DEF StrsRoom
  <2>3. ask.parser # "gp_ws" => parse.strs = 0
    BY DEF OptInv, GpCounts
  <2> QED BY <1>1, <1>2, <2>1, <2>2, <2>3 DEF GpCounts
<1> QED BY <1>2, <1>3, <1>4 DEF OptInv, OptParsing

\* The other parsers count nothing.
LEMMA OnePassCounts ==
  ASSUME OptInv, OnePass, UNCHANGED ask, parse'.strs = parse.strs, parse'.pc # "crashed"
  PROVE  GpCounts'
<1>1. ask.parser # "gp_ws" /\ ask'.parser = ask.parser
  BY DEF OnePass
<1>2. parse.strs = 0 /\ parse'.strs = 0
  BY <1>1 DEF OptInv, GpCounts
<1>3. ~(0 > StrsRoom)
  BY DEF StrsRoom
<1> QED BY <1>1, <1>2, <1>3 DEF GpCounts, StrsRoom

LEMMA UrlKeeps ==
  ASSUME OptInv, OptUrl
  PROVE  OptInv'
<1>1. parse.pc = "url" /\ OnePass
  BY DEF OptUrl
<1>2. CASE Fail
  BY <1>1, <1>2, FailKeeps
<1>3. CASE /\ Step("options") /\ owned' = IF Copies THEN {<<0, 1>>} ELSE {}
           /\ UNCHANGED <<ask, req, lost, response>>
  <2>1. OptTypeOK' /\ parse'.pc = "options" /\ parse'.at = 1 /\ parse'.strs = parse.strs
    BY <1>1, <1>3, OptSame DEF OptInv, OptTypeOK, OptSteps
  <2>2. TextBuilt(0) /\ SetBuilt(0) /\ owned = {} /\ req \in Request
    BY <1>1 DEF OptInv, OptTypeOK, OwnedInv, Texted, Settled, OptParsing
  <2>3. TextBuilt(0)' /\ SetBuilt(0)'
    BY <1>3, <2>2, KeepText, KeepSet DEF SameTexts, SameSettings
  <2>4. Texted' = 0 /\ Settled' = 0
    BY <2>1 DEF Texted, Settled
  <2>5. Copies' => <<0, 1>> \in owned'
    BY <1>3, SameAsked
  <2>7. OwnedInv'
    BY <1>1, <1>3, <2>1 DEF OptInv, OwnedInv
  <2>8. GpCounts'
    BY <1>1, <1>3, <2>1, OnePassCounts
  <2>9. TextBuilt(Texted)' /\ SetBuilt(Settled)'
    BY <2>3, <2>4 DEF TextBuilt, SetBuilt
  <2> QED BY <2>1, <2>5, <2>7, <2>8, <2>9 DEF OptInv
<1> QED BY <1>2, <1>3 DEF OptUrl


\* An option that can be sent: its arguments are texts or numbers.
LEMMA NotRefused ==
  ASSUME ~Refuses, Option \in Options, Option.name \in TextNames \cup {"number", "as"}
  PROVE  Wellformed(Option)
BY DEF Refuses, Wellformed

LEMMA OptTakenKeeps ==
  ASSUME OptInv, OptTaken
  PROVE  OptInv'
<1>1. /\ OnePass /\ parse.pc = "options" /\ ~AtEnd /\ ~Ignored /\ ~Refuses /\ ~NoRoom(Option.name)
      /\ req' = With(req, Option.name, parse.at) /\ Advance /\ UNCHANGED <<ask, lost, response>>
      /\ owned' = IF Copies /\ Option.name \in TextNames THEN owned \cup TextsOf(parse.at) ELSE owned
  BY DEF OptTaken
<1>2. OptTypeOK /\ req \in Request
  BY DEF OptInv, OptTypeOK
<1>3. PICK n : n = parse.at - 1
  OBVIOUS
<1>4. /\ n \in Nat /\ n + 1 = parse.at /\ n + 1 \in DOMAIN ask.list /\ Option = ask.list[n + 1]
      /\ Option \in Options
  BY <1>1, <1>2, <1>3, Here
<1>5. PICK nm : nm = Option.name
  OBVIOUS
<1>6. nm \in OptionNames /\ nm \in Known
  BY <1>1, <1>5 DEF Ignored, Known, OptionNames, TextNames, KvNames
<1>7. req' \in Request
  BY <1>1, <1>2, <1>4, <1>5, <1>6, WithGives
<1>8. OptTypeOK' /\ parse'.pc = "options" /\ parse'.at = n + 1 + 1 /\ parse'.strs = parse.strs
  BY <1>1, <1>2, <1>4, <1>7, Advances
<1>9. TextBuilt(n) /\ SetBuilt(n) /\ (Copies => <<0, 1>> \in owned)
  BY <1>1, <1>3 DEF OptInv, OptParsing, Texted, Settled
<1>10. nm \in TextNames \cup {"number", "as"} => Wellformed(ask.list[n + 1])
  BY <1>1, <1>4, <1>5, NotRefused
<1>11. owned \subseteq owned' /\ UNCHANGED ask
  BY <1>1
<1>12. TextBuilt(n + 1)' /\ SetBuilt(n + 1)'
  <2>1. CASE nm \in TextNames
    <3>1. nm \in KvNames => Len(req[nm]) < MaxKv
      <4>1. nm \in KvNames => Len(req[nm]) \in Nat
        BY <1>2 DEF KvNames, Request
      <4> QED BY <1>1, <1>5, <4>1 DEF NoRoom
    <3>2. Copies => TextsOf(n + 1) \subseteq owned'
      BY <1>1, <1>4, <1>5, <2>1
    <3>3. TextBuilt(n + 1)'
      BY <1>1, <1>2, <1>4, <1>5, <1>6, <1>9, <1>10, <1>11, <2>1, <3>1, <3>2, TakeText
    <3>4. SameSettings /\ nm \notin Settings
      <4>1. nm \notin Settings
        BY <2>1 DEF TextNames, KvNames, AuthNames, Settings
      <4> QED BY <1>1, <1>2, <1>4, <1>5, <1>6, <4>1, WithGives DEF SameSettings, Settings
    <3> QED BY <1>2, <1>4, <1>5, <1>9, <1>11, <3>3, <3>4, NextSet
  <2>2. CASE nm \notin TextNames
    <3>1. nm \in Settings
      BY <1>6, <2>2 DEF OptionNames
    <3>2. SameTexts
      <4>1. nm \notin AuthNames /\ nm # "param" /\ nm # "header" /\ nm # "user_agent" /\ nm # "basic_auth"
        BY <2>2 DEF TextNames, KvNames, AuthNames
      <4> QED BY <1>1, <1>2, <1>4, <1>5, <1>6, <4>1, WithGives DEF SameTexts
    <3>3. TextBuilt(n + 1)'
      BY <1>2, <1>4, <1>5, <1>9, <1>11, <2>2, <3>2, SkipText
    <3>4. SetBuilt(n + 1)'
      <4>1. req' = With(req, nm, n + 1) /\ nm = ask.list[n + 1].name
        BY <1>1, <1>4, <1>5
      <4>2. nm \in {"number", "as"} => Wellformed(ask.list[n + 1])
        BY <1>10
      <4> QED BY <1>2, <1>4, <1>9, <1>11, <3>1, <4>1, <4>2, NextSet
    <3> QED BY <3>3, <3>4
  <2> QED BY <2>1, <2>2
<1>13. Texted' = n + 1 /\ Settled' = n + 1
  BY <1>4, <1>8 DEF Texted, Settled
<1>14. TextBuilt(Texted)' /\ SetBuilt(Settled)'
  BY <1>12, <1>13 DEF TextBuilt, SetBuilt
<1>15. OwnedInv'
  BY <1>1, <1>8 DEF OptInv, OwnedInv
<1>16. GpCounts'
  BY <1>1, <1>8, OnePassCounts
<1>17. Copies' => <<0, 1>> \in owned'
  BY <1>9, <1>11, SameAsked
<1> QED BY <1>8, <1>14, <1>15, <1>16, <1>17 DEF OptInv

LEMMA IgnoredKeeps ==
  ASSUME OptInv, OptIgnored
  PROVE  OptInv'
<1>1. /\ OnePass /\ parse.pc = "options" /\ ~AtEnd /\ Ignored
      /\ Advance /\ UNCHANGED <<ask, req, owned, lost, response>>
  BY DEF OptIgnored
<1>2. OptTypeOK /\ req \in Request
  BY DEF OptInv, OptTypeOK
<1>3. PICK n : n = parse.at - 1
  OBVIOUS
<1>4. /\ n \in Nat /\ n + 1 = parse.at /\ n + 1 \in DOMAIN ask.list /\ Option = ask.list[n + 1]
  BY <1>1, <1>2, <1>3, Here
<1>8. OptTypeOK' /\ parse'.pc = "options" /\ parse'.at = n + 1 + 1 /\ parse'.strs = parse.strs
  BY <1>1, <1>2, <1>4, Advances
<1>9. TextBuilt(n) /\ SetBuilt(n) /\ (Copies => <<0, 1>> \in owned)
  BY <1>1, <1>3 DEF OptInv, OptParsing, Texted, Settled
<1>10. /\ \/ Option.name \notin Known \cap TextNames
          \/ ask.parser = "gp_get" /\ NoRoom(Option.name)
       /\ Option.name \notin Settings
  <2>1. CASE Option.name \notin Known
    BY <2>1 DEF Known
  <2>2. CASE ask.parser = "gp_get" /\ NoRoom(Option.name)
    BY <2>2 DEF NoRoom, KvNames, Settings
  <2> QED BY <1>1, <2>1, <2>2 DEF Ignored
<1>11. SameTexts /\ SameSettings /\ owned \subseteq owned'
  BY <1>1 DEF SameTexts, SameSettings
<1>12. TextBuilt(n + 1)'
  BY <1>1, <1>2, <1>4, <1>9, <1>10, <1>11, SkipText
<1>18. SetBuilt(n + 1)'
  BY <1>1, <1>2, <1>4, <1>9, <1>10, <1>11, NextSet
<1>13. Texted' = n + 1 /\ Settled' = n + 1
  BY <1>4, <1>8 DEF Texted, Settled
<1>14. TextBuilt(Texted)' /\ SetBuilt(Settled)'
  BY <1>12, <1>18, <1>13 DEF TextBuilt, SetBuilt
<1>15. OwnedInv'
  BY <1>1, <1>8 DEF OptInv, OwnedInv
<1>16. GpCounts'
  BY <1>1, <1>8, OnePassCounts
<1>17. Copies' => <<0, 1>> \in owned'
  BY <1>1, <1>9, SameAsked
<1> QED BY <1>8, <1>14, <1>15, <1>16, <1>17 DEF OptInv

LEMMA EndKeeps ==
  ASSUME OptInv, OptEnd
  PROVE  OptInv'
<1>1. OnePass /\ parse.pc = "options" /\ AtEnd
  BY DEF OptEnd
<1>2. CASE Fail
  BY <1>1, <1>2, FailKeeps
<1>3. CASE Step("perform") /\ UNCHANGED <<ask, req, owned, lost, response>>
  <2>1. OptTypeOK /\ req \in Request
    BY DEF OptInv, OptTypeOK
  <2>2. OptTypeOK' /\ parse'.pc = "perform" /\ parse'.strs = parse.strs
    BY <1>3, <2>1, OptSame DEF OptSteps
  <2>3. PICK n : n = Len(ask.list)
    OBVIOUS
  <2>4. n \in Nat /\ parse.at - 1 = n
    BY <1>1, <2>1, <2>3, EndOfList
  <2>5. TextBuilt(n) /\ SetBuilt(n) /\ (Copies => <<0, 1>> \in owned)
    BY <1>1, <2>4 DEF OptInv, OptParsing, Texted, Settled
  <2>6. TextBuilt(n)' /\ SetBuilt(n)'
    BY <1>3, <2>1, <2>4, <2>5, KeepText, KeepSet DEF SameTexts, SameSettings
  <2>7. Texted' = n /\ Settled' = n
    BY <1>3, <2>2, <2>3 DEF Texted, Settled
  <2>8. TextBuilt(Texted)' /\ SetBuilt(Settled)'
    BY <2>6, <2>7 DEF TextBuilt, SetBuilt
  <2>9. OwnedInv'
    BY <1>1, <1>3, <2>2 DEF OptInv, OwnedInv
  <2>10. GpCounts'
    BY <1>1, <1>3, <2>2, OnePassCounts
  <2>11. Copies' => <<0, 1>> \in owned'
    BY <1>3, <2>5, SameAsked
  <2> QED BY <2>2, <2>8, <2>9, <2>10, <2>11 DEF OptInv
<1> QED BY <1>2, <1>3 DEF OptEnd


-----------------------------------------------------------------------------
(***************************************************************************)
(* pl_curl_ws_open of GNU Prolog                                           *)
(***************************************************************************)
LEMMA CheckKeeps ==
  ASSUME OptInv, GpCheck
  PROVE  OptInv'
<1>1. parse.pc = "check" /\ ~CheckRefused /\ ~AtEnd /\ UNCHANGED <<ask, owned, lost, response>>
      /\ req' = (IF Option.name \in Settings THEN With(req, Option.name, parse.at) ELSE req)
  BY DEF GpCheck
<1>2. OptTypeOK /\ req \in Request /\ ask.parser = "gp_ws" /\ parse.headers \in Nat
      /\ ask \in OptCalls
  BY <1>1 DEF OptInv, OptTypeOK
<1>3. PICK n : n = parse.at - 1
  OBVIOUS
<1>4. /\ n \in Nat /\ n + 1 = parse.at /\ n + 1 \in DOMAIN ask.list /\ Option = ask.list[n + 1]
      /\ Option \in Options
  BY <1>1, <1>2, <1>3, Here
<1>5. PICK nm : nm = Option.name
  OBVIOUS
<1>6. nm \in Settings => nm \in OptionNames /\ nm \notin TextNames
  BY DEF OptionNames, TextNames, Settings, KvNames, AuthNames
<1>7. req' \in Request /\ SameTexts
  <2>1. CASE nm \notin Settings
    BY <1>1, <1>2, <1>5, <2>1 DEF SameTexts
  <2>2. CASE nm \in Settings
    <3>1. nm \notin AuthNames /\ nm # "param" /\ nm # "header" /\ nm # "user_agent" /\ nm # "basic_auth"
      BY <1>6, <2>2 DEF TextNames, KvNames, AuthNames
    <3>2. req' = With(req, nm, n + 1) /\ nm \in OptionNames /\ n + 1 \in Nat
      BY <1>1, <1>4, <1>5, <1>6, <2>2
    <3> HIDE OptAssumption
    <3> QED BY <1>2, <3>1, <3>2, WithGives DEF SameTexts
  <2> QED BY <2>1, <2>2
<1> DEFINE h == IF nm = "header" THEN parse.headers + 1 ELSE parse.headers
<1>8. h \in Nat /\ parse.strs \in Nat
      /\ parse' = [parse EXCEPT !.at = @ + 1, !.headers = h]
  <2>1. parse' = [parse EXCEPT !.at = @ + 1, !.headers = h]
    BY <1>5 DEF GpCheck
  <2> QED BY <1>2, <2>1 DEF OptTypeOK
<1> HIDE DEF h
<1>9. OptTypeOK' /\ parse'.pc = "check" /\ parse'.at = n + 1 + 1 /\ parse'.headers = h
      /\ parse'.strs = parse.strs
  BY <1>1, <1>2, <1>4, <1>7, <1>8, MovesOn
<1>10. TextBuilt(0) /\ SetBuilt(n)
  BY <1>1, <1>3 DEF OptInv, OptParsing, Texted, Settled
<1>11. TextBuilt(0)'
  BY <1>1, <1>2, <1>7, <1>10, KeepText
<1>12. SetBuilt(n + 1)'
  <2>1. nm \in Settings => Wellformed(ask.list[n + 1])
    <3> SUFFICES ASSUME nm \in Settings PROVE Wellformed(ask.list[n + 1])
      OBVIOUS
    <3>1. Option.args[1] = "ok"
      BY <1>1, <1>5 DEF CheckRefused
    <3>2. Len(Option.args) = 1
      BY <1>4, <1>5, OptionType DEF Singles
    <3> QED BY <1>4, <3>1, <3>2 DEF Wellformed
  <2>2. CASE nm \notin Settings
    <3>1. SameSettings
      BY <1>1, <1>5, <2>2 DEF SameSettings
    <3> QED BY <1>1, <1>2, <1>4, <1>5, <1>10, <2>2, <3>1, NextSet
  <2>3. CASE nm \in Settings
    <3>1. req' = With(req, nm, n + 1)
      BY <1>1, <1>4, <1>5, <2>3
    <3> QED BY <1>1, <1>2, <1>4, <1>5, <1>10, <2>1, <2>3, <3>1, NextSet
  <2> QED BY <2>2, <2>3
<1>13. Texted' = 0 /\ Settled' = n + 1
  BY <1>4, <1>9 DEF Texted, Settled
<1>14. TextBuilt(Texted)' /\ SetBuilt(Settled)'
  BY <1>11, <1>12, <1>13 DEF TextBuilt, SetBuilt
<1>15. OwnedInv'
  BY <1>1, <1>9 DEF OptInv, OwnedInv
<1>16. GpCounts'
  <2>1. parse.headers <= MaxKv /\ parse.headers = Cardinality(AskedTo("header", n)) /\ parse.strs = 0
    BY <1>1, <1>2, <1>3 DEF OptInv, GpCounts
  <2>2. "header" \in Known
    BY <1>2 DEF Known, GetCall, TextNames, KvNames
  <2>3. h = Cardinality(AskedTo("header", n + 1))
    BY <1>2, <1>4, <1>5, <2>1, <2>2, CountNext DEF h
  <2>4. h <= MaxKv
    <3>1. nm = "header" => ~(parse.headers >= MaxKv)
      BY <1>1, <1>5 DEF CheckRefused
    <3> QED BY <1>2, <2>1, <3>1 DEF h
  <2>5. parse'.at - 1 = n + 1
    BY <1>4, <1>9
  <2>6. Cardinality(AskedTo("header", parse.at - 1))' = Cardinality(AskedTo("header", n + 1))
    BY <1>1, <2>5 DEF AskedTo, Asked, Known, GetCall
  <2>7. ~(0 > StrsRoom)
    BY DEF StrsRoom
  <2> QED BY <1>1, <1>2, <1>9, <2>1, <2>3, <2>4, <2>6, <2>7 DEF GpCounts, StrsRoom
<1> QED BY <1>9, <1>14, <1>15, <1>16 DEF OptInv

LEMMA CheckedKeeps ==
  ASSUME OptInv, GpChecked
  PROVE  OptInv'
<1>1. parse.pc = "check" /\ ~CheckRefused /\ AtEnd /\ Step("copy")
      /\ UNCHANGED <<ask, req, owned, lost, response>>
  BY DEF GpChecked
<1>2. OptTypeOK /\ req \in Request /\ ask.parser = "gp_ws" /\ ask \in OptCalls /\ owned = {}
  BY <1>1 DEF OptInv, OptTypeOK, OwnedInv
<1>3. OptTypeOK' /\ parse'.pc = "copy" /\ parse'.at = 1 /\ parse'.strs = parse.strs
  BY <1>1, <1>2, OptSame DEF OptSteps
<1>4. PICK n : n = Len(ask.list)
  OBVIOUS
<1>5. n \in Nat /\ parse.at - 1 = n
  BY <1>1, <1>2, <1>4, EndOfList
<1>6. TextBuilt(0) /\ SetBuilt(n)
  BY <1>1, <1>5 DEF OptInv, OptParsing, Texted, Settled
<1>7. TextBuilt(0)' /\ SetBuilt(n)'
  BY <1>1, <1>2, <1>5, <1>6, KeepText, KeepSet DEF SameTexts, SameSettings
<1>8. Texted' = 0 /\ Settled' = n
  BY <1>1, <1>3, <1>4 DEF Texted, Settled
<1>9. TextBuilt(Texted)' /\ SetBuilt(Settled)'
  BY <1>7, <1>8 DEF TextBuilt, SetBuilt
<1>10. OwnedInv'
  BY <1>1, <1>3 DEF OptInv, OwnedInv
<1>11. GpCounts'
  <2>1. Cardinality(Asked("header")) <= MaxKv /\ AskedTo("header", 0) = {}
    <3>1. AskedTo("header", n) = Asked("header") /\ AskedTo("header", 0) = {}
      BY <1>2, <1>4, AllAsked
    <3> QED BY <1>1, <1>2, <1>5, <3>1 DEF OptInv, GpCounts
  <2>2. CopiedTo(0) = 0
    <3>1. AskedTo("user_agent", 0) = {} /\ Cardinality({}) = 0
      BY <1>2, AllAsked, FS_EmptySet
    <3> HIDE OptAssumption
    <3> QED BY <2>1, <3>1 DEF CopiedTo
  <2>3. parse.strs = 0 /\ ~(0 > StrsRoom)
    BY <1>1, <1>2 DEF OptInv, GpCounts, StrsRoom
  <2>4. parse'.at - 1 = 0
    BY <1>3
  <2>5. /\ Cardinality(Asked("header"))' = Cardinality(Asked("header"))
        /\ CopiedTo(parse.at - 1)' = CopiedTo(0)
    BY <1>1, <2>4 DEF CopiedTo, AskedTo, Asked, Known, GetCall
  <2> QED BY <1>1, <1>2, <1>3, <2>1, <2>2, <2>3, <2>5 DEF GpCounts, StrsRoom
<1>12. ~(parse'.pc = "perform" \/ parse'.pc = "options")
  BY <1>3
<1> QED BY <1>3, <1>9, <1>10, <1>11, <1>12 DEF OptInv


\* What is copied has a place in strs if user_agent is given once.
LEMMA StrsFit ==
  ASSUME ask \in OptCalls, NEW n \in Nat, Cardinality(Asked("header")) <= MaxKv,
         NEW t \in Nat, t <= CopiedTo(n) + 1, t > StrsRoom
  PROVE  Cardinality(Asked("user_agent")) > 1
<1>1. /\ Cardinality(AskedTo("header", n)) \in Nat
      /\ Cardinality(AskedTo("header", n)) <= Cardinality(Asked("header"))
      /\ Cardinality(AskedTo("user_agent", n)) \in Nat
      /\ Cardinality(AskedTo("user_agent", n)) <= Cardinality(Asked("user_agent"))
      /\ Cardinality(Asked("header")) \in Nat /\ Cardinality(Asked("user_agent")) \in Nat
  BY CountAsked, FS_CardinalityType
<1>2. MaxKv \in Nat
  OBVIOUS
<1> HIDE OptAssumption
<1> QED BY <1>1, <1>2 DEF CopiedTo, StrsRoom

\* What is left of a step of the copying, once the texts are known.
LEMMA CopyEnds ==
  ASSUME OptInv, parse.pc = "copy", ~AtEnd, UNCHANGED <<ask, lost, response>>,
         NEW t \in Nat,
         \/ parse' = [parse EXCEPT !.at = @ + 1, !.strs = t]
         \/ parse' = [parse EXCEPT !.at = @ + 1] /\ t = parse.strs,
         ask.parser = "gp_ws", req' \in Request, NEW n \in Nat, n + 1 = parse.at,
         NEW L, L = Len(ask.list), TextBuilt(n + 1)', SetBuilt(L)',
         Cardinality(Asked("header")) <= MaxKv, t = CopiedTo(n + 1)
  PROVE  OptInv'
<1>1. OptTypeOK /\ ask \in OptCalls /\ n + 1 \in Nat
  BY DEF OptInv, OptTypeOK
<1>2. OptTypeOK' /\ parse'.pc = "copy" /\ parse'.at = n + 1 + 1 /\ parse'.strs = t
  <2>1. parse.headers \in Nat
    BY <1>1 DEF OptTypeOK
  <2> QED BY <1>1, <2>1, MovesOn
<1>3. Texted' = n + 1 /\ Settled' = L
  BY <1>2 DEF Texted, Settled
<1>4. TextBuilt(Texted)' /\ SetBuilt(Settled)'
  BY <1>3 DEF TextBuilt, SetBuilt
<1>5. OwnedInv'
  BY <1>2 DEF OptInv, OwnedInv
<1>6. parse'.at - 1 = n + 1
  BY <1>2
<1>7. /\ Cardinality(Asked("header"))' = Cardinality(Asked("header"))
      /\ Cardinality(Asked("user_agent"))' = Cardinality(Asked("user_agent"))
      /\ CopiedTo(parse.at - 1)' = CopiedTo(n + 1)
  BY <1>6 DEF CopiedTo, AskedTo, Asked, Known, GetCall
<1>8. t > StrsRoom => Cardinality(Asked("user_agent")) > 1
  BY <1>1, StrsFit
<1>9. GpCounts'
  BY <1>2, <1>7, <1>8 DEF GpCounts, StrsRoom
<1> QED BY <1>2, <1>4, <1>5, <1>9 DEF OptInv

LEMMA CopyKeeps ==
  ASSUME OptInv, GpCopy
  PROVE  OptInv'
<1>1. parse.pc = "copy" /\ ~AtEnd /\ UNCHANGED <<ask, lost, response>>
      /\ IF HasTexts THEN parse' = [parse EXCEPT !.at = @ + 1, !.strs = parse.strs + Len(Option.args)]
         ELSE parse' = [parse EXCEPT !.at = @ + 1]
  <2>1. parse.pc = "copy" /\ ~AtEnd /\ UNCHANGED <<ask, lost, response>>
    BY DEF GpCopy
  <2>2. parse \in OptRecord
    BY DEF OptInv, OptTypeOK, OptRecord
  <2>3. CASE HasTexts
    <3>1. parse' = [parse EXCEPT !.at = @ + 1, !.strs = @ + Len(Option.args)]
      BY <2>3 DEF GpCopy
    <3> QED BY <2>1, <2>3, <3>1
  <2>4. CASE ~HasTexts
    <3>1. parse' = [parse EXCEPT !.at = @ + 1, !.strs = @]
      BY <2>4 DEF GpCopy
    <3>2. parse' = [parse EXCEPT !.at = @ + 1]
      BY <2>2, <3>1 DEF OptRecord
    <3> QED BY <2>1, <2>4, <3>2
  <2> QED BY <2>3, <2>4
<1>2. OptTypeOK /\ req \in Request /\ ask.parser = "gp_ws" /\ ask \in OptCalls
  BY <1>1 DEF OptInv, OptTypeOK
<1>3. PICK n : n = parse.at - 1
  OBVIOUS
<1>4. /\ n \in Nat /\ n + 1 = parse.at /\ n + 1 \in DOMAIN ask.list /\ Option = ask.list[n + 1]
      /\ Option \in Options /\ n + 1 \in Nat
  BY <1>1, <1>2, <1>3, Here
<1>5. PICK nm : nm = Option.name
  OBVIOUS
<1>6. PICK L : L = Len(ask.list)
  OBVIOUS
<1>7. L \in Nat
  BY <1>2, <1>6, ListType
<1>8. TextBuilt(n) /\ SetBuilt(L)
  BY <1>1, <1>3, <1>6 DEF OptInv, OptParsing, Texted, Settled
<1>9. /\ Cardinality(Asked("header")) <= MaxKv
      /\ Len(req.header) = Cardinality(AskedTo("header", n))
      /\ parse.strs = CopiedTo(n) /\ parse.strs \in Nat
  <2>1. KvKept("header", n)
    BY <1>8 DEF TextBuilt, KvBuilt, KvNames
  <2> QED BY <1>1, <1>2, <1>3, <2>1 DEF OptInv, GpCounts, KvKept, TooMany, OptTypeOK
<1>10. "header" \in Known /\ "user_agent" \in Known
  BY <1>2 DEF Known, GetCall, TextNames, KvNames
<1>11. Cardinality(AskedTo("header", n + 1))
         = IF nm = "header" THEN Cardinality(AskedTo("header", n)) + 1 ELSE Cardinality(AskedTo("header", n))
  BY <1>2, <1>4, <1>5, <1>10, CountNext
<1>14. Cardinality(AskedTo("user_agent", n + 1))
         = IF nm = "user_agent" THEN Cardinality(AskedTo("user_agent", n)) + 1
           ELSE Cardinality(AskedTo("user_agent", n))
  BY <1>2, <1>4, <1>5, <1>10, CountNext
<1>15. Cardinality(AskedTo("header", n)) \in Nat /\ Cardinality(AskedTo("user_agent", n)) \in Nat
  BY <1>2, <1>4, CountAsked
<1>12. CASE nm \in {"header", "user_agent"}
  <2>1. /\ \A k \in 1..Len(Option.args) : Option.args[k] = "ok"
        /\ req' = With(req, nm, n + 1) /\ owned' = owned \cup TextsOf(n + 1)
    BY <1>4, <1>5, <1>12 DEF GpCopy, HasTexts
  <2>2. nm \in TextNames /\ nm \in OptionNames /\ nm \in Known /\ nm \notin Settings /\ nm # "param"
    BY <1>10, <1>12 DEF TextNames, OptionNames, KvNames, Settings
  <2>3. Len(req.header) \in Nat /\ req.header \in Seq(Nat)
    BY <1>2 DEF Request
  <2>4. nm = "header" => Len(req.header) < MaxKv
    <3>1. Cardinality(AskedTo("header", n + 1)) <= Cardinality(Asked("header"))
          /\ Cardinality(AskedTo("header", n + 1)) \in Nat /\ Cardinality(Asked("header")) \in Nat
      BY <1>2, <1>4, CountAsked, FS_CardinalityType
    <3> QED BY <1>9, <1>11, <2>3, <3>1
  <2>5. req' \in Request /\ SameSettings
        /\ req'.header = IF nm = "header" THEN Append(req.header, n + 1) ELSE req.header
    BY <1>2, <1>4, <2>1, <2>2, WithGives DEF SameSettings, Settings
  <2>6. TextBuilt(n + 1)'
    <3>1. Wellformed(ask.list[n + 1])
      BY <1>4, <2>1 DEF Wellformed
    <3>2. owned \subseteq owned' /\ TextsOf(n + 1) \subseteq owned'
      BY <2>1
    <3>3. nm \in KvNames => Len(req[nm]) < MaxKv
      BY <2>2, <2>4 DEF KvNames
    <3> QED BY <1>1, <1>2, <1>4, <1>5, <1>8, <2>1, <2>2, <3>1, <3>2, <3>3, TakeText
  <2>7. SetBuilt(L)'
    BY <1>1, <1>7, <1>8, <2>5, KeepSet
  <2>8. PICK t : t = parse.strs + Len(Option.args)
    OBVIOUS
  <2>9. t = CopiedTo(n + 1) /\ t \in Nat
    <3>1. Len(Option.args) = IF nm = "header" THEN 2 ELSE 1
      BY <1>4, <1>5, <1>12, OptionType DEF Pairs, Singles, KvNames
    <3> QED BY <1>9, <1>11, <1>12, <1>14, <1>15, <2>8, <3>1 DEF CopiedTo
  <2>10. parse' = [parse EXCEPT !.at = @ + 1, !.strs = t]
    <3>1. HasTexts
      BY <1>5, <1>12 DEF HasTexts
    <3> QED BY <1>1, <2>8, <3>1
  <2> QED BY <2>5, <2>6, <2>7, <2>9, <2>10, <1>1, <1>2, <1>4, <1>6, <1>9, CopyEnds
<1>13. CASE nm \notin {"header", "user_agent"}
  <2>1. UNCHANGED <<req, owned>>
    BY <1>5, <1>13 DEF GpCopy, HasTexts
  <2>2. ask.list[n + 1].name \notin Known \cap TextNames
    BY <1>2, <1>4, <1>5, <1>13 DEF Known, GetCall, TextNames, KvNames, AuthNames, Settings
  <2>3. SameTexts /\ SameSettings /\ owned \subseteq owned' /\ req' \in Request
    BY <1>2, <2>1 DEF SameTexts, SameSettings
  <2>4. TextBuilt(n + 1)'
    BY <1>1, <1>2, <1>4, <1>8, <2>2, <2>3, SkipText
  <2>5. SetBuilt(L)'
    BY <1>1, <1>7, <1>8, <2>3, KeepSet
  <2>6. parse.strs = CopiedTo(n + 1)
    BY <1>9, <1>11, <1>13, <1>14 DEF CopiedTo
  <2>7. parse' = [parse EXCEPT !.at = @ + 1]
    <3>1. ~HasTexts
      BY <1>5, <1>13 DEF HasTexts
    <3> QED BY <1>1, <3>1
  <2> QED BY <2>3, <2>4, <2>5, <2>6, <2>7, <1>1, <1>2, <1>4, <1>6, <1>9, CopyEnds
<1> QED BY <1>12, <1>13

LEMMA CopyFails ==
  ASSUME OptInv, GpCopyFails \/ GpCheckFails \/ OptRefused
  PROVE  OptInv'
BY FailKeeps DEF GpCopyFails, GpCheckFails, OptRefused

LEMMA CopyRaises ==
  ASSUME OptInv, GpCopyRaises
  PROVE  OptInv'
<1>1. parse.pc = "copy" /\ ~AtEnd /\ HasTexts
  BY DEF GpCopyRaises
<1>2. PICK k \in 1..Len(Option.args) :
        /\ Option.args[k] = "list"
        /\ Raise({<<parse.at, m>> : m \in 1..k})
  BY DEF GpCopyRaises
<1>3. parse.at \in DOMAIN ask.list /\ Option = ask.list[parse.at] /\ Option \in Options
  BY <1>1, Here DEF OptInv
<1>4. k \in DOMAIN Option.args
  <2>1. Option.args \in Seq(ArgKinds)
    BY <1>3, OptionType
  <2> QED BY <1>2, <2>1
<1>5. RaisesInCopy
  BY <1>1, <1>2, <1>3, <1>4 DEF RaisesInCopy, HasTexts
<1> QED BY <1>1, <1>2, <1>5, FailKeeps

LEMMA GpUrlKeeps ==
  ASSUME OptInv, GpUrl
  PROVE  OptInv'
<1>1. parse.pc = "copy" /\ AtEnd
  BY DEF GpUrl
<1>2. CASE Fail \/ (ask.url = "bad" /\ Raise({}))
  BY <1>1, <1>2, FailKeeps
<1>3. CASE /\ owned' = owned \cup {<<0, 1>>}
           /\ parse' = [parse EXCEPT !.pc = "perform", !.at = 1, !.strs = @ + 1]
           /\ UNCHANGED <<ask, req, lost, response>>
  <2>1. OptTypeOK /\ req \in Request /\ ask.parser = "gp_ws" /\ ask \in OptCalls
    BY <1>1 DEF OptInv, OptTypeOK
  <2>2. OptTypeOK' /\ parse'.pc = "perform" /\ parse'.strs = parse.strs + 1
    <3>1. parse \in [pc : OptSteps, at : Nat \ {0}, headers : Nat, strs : Nat] /\ Len(ask.list) \in Nat
      BY <2>1, ListType DEF OptTypeOK
    <3>2. /\ parse' \in [pc : OptSteps, at : Nat \ {0}, headers : Nat, strs : Nat]
          /\ parse'.pc = "perform" /\ parse'.strs = parse.strs + 1 /\ parse'.at = 1
      <4> HIDE OptAssumption
      <4>1. parse.strs + 1 \in Nat /\ "perform" \in OptSteps /\ 1 \in Nat \ {0}
        BY <3>1 DEF OptSteps
      <4> QED BY <1>3, <3>1, <4>1
    <3>3. OnePass' = OnePass /\ GetCall' = GetCall /\ ask' = ask
      BY <1>3, SameAsked
    <3> HIDE OptAssumption
    <3> QED BY <1>3, <2>1, <3>1, <3>2, <3>3 DEF OptTypeOK
  <2>3. PICK n : n = Len(ask.list)
    OBVIOUS
  <2>4. n \in Nat /\ parse.at - 1 = n
    BY <1>1, <2>1, <2>3, EndOfList
  <2>5. TextBuilt(n) /\ SetBuilt(n)
    BY <1>1, <2>3, <2>4 DEF OptInv, OptParsing, Texted, Settled
  <2>6. TextBuilt(n)' /\ SetBuilt(n)'
    BY <1>3, <2>1, <2>4, <2>5, KeepText, KeepSet DEF SameTexts, SameSettings
  <2>7. Texted' = n /\ Settled' = n
    BY <1>3, <2>2, <2>3 DEF Texted, Settled
  <2>8. TextBuilt(Texted)' /\ SetBuilt(Settled)'
    BY <2>6, <2>7 DEF TextBuilt, SetBuilt
  <2>9. OwnedInv'
    BY <1>1, <1>3, <2>2 DEF OptInv, OwnedInv
  <2>10. GpCounts'
    <3>1. Cardinality(Asked("header")) <= MaxKv /\ parse.strs = CopiedTo(n) /\ parse.strs + 1 \in Nat
      BY <1>1, <2>1, <2>4 DEF OptInv, GpCounts, OptTypeOK
    <3>2. parse.strs + 1 > StrsRoom => Cardinality(Asked("user_agent")) > 1
      <4>1. parse.strs + 1 <= CopiedTo(n) + 1
        BY <3>1
      <4> QED BY <2>1, <2>4, <3>1, <4>1, StrsFit
    <3>3. /\ Cardinality(Asked("header"))' = Cardinality(Asked("header"))
          /\ Cardinality(Asked("user_agent"))' = Cardinality(Asked("user_agent"))
      BY <1>3 DEF Asked, Known, GetCall
    <3> QED BY <1>3, <2>1, <2>2, <3>1, <3>2, <3>3 DEF GpCounts, StrsRoom
  <2>11. <<0, 1>> \in owned'
    BY <1>3
  <2> QED BY <2>2, <2>8, <2>9, <2>10, <2>11 DEF OptInv
<1> QED BY <1>2, <1>3 DEF GpUrl

LEMMA OverrunKeeps ==
  ASSUME OptInv, GpOverrun
  PROVE  OptInv'
<1>1. /\ parse.pc \in {"copy", "perform"} /\ parse.strs > StrsRoom
      /\ Step("crashed") /\ UNCHANGED <<ask, req, owned, lost, response>>
  BY DEF GpOverrun
<1>2. OptTypeOK /\ req \in Request
  BY DEF OptInv, OptTypeOK
<1>3. OptTypeOK' /\ parse'.pc = "crashed" /\ parse'.strs = parse.strs
  BY <1>1, <1>2, OptSame DEF OptSteps
<1>4. ask.parser = "gp_ws" /\ Cardinality(Asked("user_agent")) > 1
  <2>1. ~(0 > StrsRoom)
    BY DEF StrsRoom
  <2> QED BY <1>1, <2>1 DEF OptInv, GpCounts
<1>5. GpCounts'
  <2>1. Cardinality(Asked("user_agent"))' = Cardinality(Asked("user_agent")) /\ ask'.parser = ask.parser
    BY <1>1, SameAsked
  <2> QED BY <1>3, <1>4, <2>1 DEF GpCounts
<1>6. OwnedInv'
  BY <1>1, <1>3 DEF OptInv, OwnedInv
<1> QED BY <1>3, <1>5, <1>6 DEF OptInv, OptParsing

-----------------------------------------------------------------------------
(***************************************************************************)
(* The request and its response                                            *)
(***************************************************************************)
LEMMA EndCounts ==
  ASSUME GpCounts, UNCHANGED ask, parse'.strs = parse.strs, parse'.pc \in {"answer", "done", "failed"}
  PROVE  GpCounts'
<1>1. Cardinality(Asked("user_agent"))' = Cardinality(Asked("user_agent")) /\ ask'.parser = ask.parser
  BY SameAsked
<1>2. /\ parse.strs > StrsRoom => Cardinality(Asked("user_agent")) > 1
      /\ ask.parser # "gp_ws" => parse.strs = 0
  BY DEF GpCounts
<1> QED BY <1>1, <1>2 DEF GpCounts, StrsRoom

LEMMA PerformsKeeps ==
  ASSUME OptInv, Performs
  PROVE  OptInv'
<1>1. parse.pc = "perform"
  BY DEF Performs
<1>2. CASE Fail
  BY <1>1, <1>2, FailKeeps
<1>3. CASE /\ Step(IF GetCall THEN "answer" ELSE "done") /\ owned' = {}
           /\ response' = IF GetCall THEN "held" ELSE "none"
           /\ UNCHANGED <<ask, req, lost>>
  <2>1. OptTypeOK /\ req \in Request
    BY DEF OptInv, OptTypeOK
  <2>2. PICK pc : pc = IF GetCall THEN "answer" ELSE "done"
    OBVIOUS
  <2>3. OptTypeOK' /\ parse'.pc = pc /\ parse'.strs = parse.strs
    <3>1. pc \in OptSteps /\ (pc = "answer" => GetCall) /\ pc \notin {"url", "options", "check", "copy"}
      BY <2>2 DEF OptSteps
    <3>2. Step(pc) /\ UNCHANGED ask /\ req' \in Request
      BY <1>3, <2>1, <2>2
    <3> QED BY <2>1, <3>1, <3>2, OptSame
  <2>4. OwnedInv'
    <3>1. lost' = {} /\ owned' = {}
      BY <1>1, <1>3 DEF OptInv, OwnedInv
    <3>2. response' # "lost" /\ (parse'.pc # "answer" => response' # "held")
      BY <1>3, <2>2, <2>3
    <3> QED BY <3>1, <3>2 DEF OwnedInv
  <2>5. parse'.pc \in {"answer", "done"}
    BY <2>2, <2>3
  <2>6. GpCounts'
    BY <1>3, <2>3, <2>5, EndCounts DEF OptInv
  <2> QED BY <2>3, <2>4, <2>5, <2>6 DEF OptInv, OptParsing
<1> QED BY <1>2, <1>3 DEF Performs

LEMMA AnswersKeeps ==
  ASSUME OptInv, Answers \/ AnswerRaises
  PROVE  OptInv'
<1>1. parse.pc = "answer" /\ UNCHANGED <<ask, req, owned, lost>>
  BY DEF Answers, AnswerRaises
<1>2. OptTypeOK /\ req \in Request /\ owned = {}
  BY <1>1 DEF OptInv, OptTypeOK, OwnedInv
<1>3. PICK pc \in {"done", "failed"} : Step(pc)
  BY DEF Answers, AnswerRaises
<1>4. OptTypeOK' /\ parse'.pc = pc /\ parse'.strs = parse.strs
  BY <1>1, <1>2, <1>3, OptSame DEF OptSteps
<1>5. response' = "freed" \/ (response' = "lost" /\ ask.parser = "gp_get" /\ Step("failed"))
  BY DEF Answers, AnswerRaises
<1>6. OwnedInv'
  <2>1. Step("failed") => parse'.pc = "failed"
    BY <1>2 DEF Step, OptTypeOK
  <2> QED BY <1>1, <1>2, <1>3, <1>4, <1>5, <2>1 DEF OptInv, OwnedInv
<1>7. GpCounts'
  BY <1>1, <1>3, <1>4, EndCounts DEF OptInv
<1> QED BY <1>3, <1>4, <1>6, <1>7 DEF OptInv, OptParsing

-----------------------------------------------------------------------------
(***************************************************************************)
(* The theorems                                                            *)
(***************************************************************************)
LEMMA OptStarts ==
  ASSUME OptInit
  PROVE  OptInv
<1>1. /\ ask \in OptCalls /\ req = NoRequest /\ owned = {} /\ lost = {} /\ response = "none"
      /\ parse = [pc |-> IF ask.parser = "gp_ws" THEN "check" ELSE "url", at |-> 1,
                 headers |-> 0, strs |-> 0]
  BY DEF OptInit, OptStart
<1>2. req \in Request /\ Len(ask.list) \in Nat
  BY <1>1, ListType DEF NoRequest, Request
<1>3. OptTypeOK
  BY <1>1, <1>2 DEF OptTypeOK, OptSteps, OnePass
<1>4. OwnedInv
  BY <1>1 DEF OwnedInv
<1>5. \A name : AskedTo(name, 0) = {}
  BY <1>1, AllAsked
<1>6. Cardinality({}) = 0
  BY FS_EmptySet
<1>7. GpCounts
  <2>1. parse.at = 1 /\ parse.headers = 0 /\ parse.strs = 0 /\ parse.pc \in {"check", "url"}
    BY <1>1
  <2>2. AskedTo("header", parse.at - 1) = {}
    BY <1>5, <2>1
  <2>3. parse.headers <= MaxKv /\ parse.headers = Cardinality(AskedTo("header", parse.at - 1))
    <3>1. 0 <= MaxKv
      OBVIOUS
    <3> HIDE OptAssumption
    <3> QED BY <1>6, <2>1, <2>2, <3>1
  <2>4. parse.pc \notin {"copy", "perform", "crashed"}
    BY <2>1
  <2>5. ~(0 > StrsRoom)
    BY DEF StrsRoom
  <2> QED BY <2>1, <2>3, <2>4, <2>5 DEF GpCounts
<1>8. TextBuilt(0)
  <2>1. KvBuilt(0)
    <3> SUFFICES ASSUME NEW name \in KvNames PROVE KvKept(name, 0)
      BY DEF KvBuilt
    <3>1. req[name] = <<>> /\ Len(<<>>) = 0 /\ 0 <= MaxKv
      BY <1>1 DEF KvNames, NoRequest
    <3>2. InOrder(<<>>, {})
      BY DEF InOrder
    <3>3. AskedTo(name, 0) = {} /\ Cardinality(AskedTo(name, 0)) = 0
      BY <1>5, <1>6
    <3> HIDE OptAssumption
    <3> QED BY <3>1, <3>2, <3>3 DEF KvKept
  <2>2. AuthBuilt(0) /\ IsLast(req.user_agent, AskedTo("user_agent", 0))
    BY <1>1, <1>5 DEF AuthBuilt, IsLast, NoRequest, Asked
  <2>3. TextsOk(0) /\ TextOwned(0)
    BY DEF TextsOk, TextOwned
  <2> QED BY <2>1, <2>2, <2>3 DEF TextBuilt
<1>9. SetBuilt(0)
  BY <1>1, <1>5 DEF SetBuilt, IsLast, NoRequest, Settings
<1>10. Texted = 0 /\ Settled = 0
  BY <1>1 DEF Texted, Settled
<1>11. TextBuilt(Texted) /\ SetBuilt(Settled)
  BY <1>8, <1>9, <1>10
<1>12. ~(parse.pc = "perform" \/ parse.pc = "options")
  BY <1>1
<1> QED BY <1>3, <1>4, <1>7, <1>11, <1>12 DEF OptInv

LEMMA IdleKeeps ==
  ASSUME OptInv, UNCHANGED optVars
  PROVE  OptInv'
<1>1. UNCHANGED <<ask, parse, req, owned, lost, response>>
  BY DEF optVars
<1>2. OptTypeOK' /\ OwnedInv' /\ GpCounts'
  <2>1. /\ RaisesInCopy' = RaisesInCopy
        /\ \A name, n : AskedTo(name, n)' = AskedTo(name, n)
        /\ \A name : Asked(name)' = Asked(name)
        /\ OnePass' = OnePass /\ GetCall' = GetCall /\ ask' = ask
    BY <1>1, SameAsked
  <2>2. OptTypeOK' /\ OwnedInv'
    BY <1>1, <2>1 DEF OptInv, OptTypeOK, OwnedInv
  <2>3. GpCounts'
    BY <1>1, <2>1 DEF OptInv, GpCounts, CopiedTo, StrsRoom
  <2> QED BY <2>2, <2>3
<1>3. CASE parse.pc \in OptParsing
  <2>1. PICK t \in Nat, s \in Nat : t = Texted /\ s = Settled
    <3>1. parse.at \in Nat \ {0} /\ Len(ask.list) \in Nat
      BY ListType DEF OptInv, OptTypeOK
    <3> QED BY <3>1 DEF Texted, Settled
  <2>2. TextBuilt(t)' /\ SetBuilt(s)'
    BY <1>1, <1>3, <2>1, KeepText, KeepSet DEF OptInv, OptTypeOK, SameTexts, SameSettings
  <2>3. Texted' = t /\ Settled' = s
    BY <1>1, <2>1 DEF Texted, Settled
  <2>4. TextBuilt(Texted)' /\ SetBuilt(Settled)'
    BY <2>2, <2>3 DEF TextBuilt, SetBuilt
  <2> QED BY <1>1, <1>2, <2>4 DEF OptInv, Copies
<1>4. CASE parse.pc \notin OptParsing
  BY <1>1, <1>2, <1>4 DEF OptInv, Copies, OptParsing
<1> QED BY <1>3, <1>4

LEMMA OptInvCorrect == OptSpec => []OptInv
<1>1. OptInit => OptInv
  BY OptStarts
<1>2. OptInv /\ [OptNext]_optVars => OptInv'
  <2> SUFFICES ASSUME OptInv, [OptNext]_optVars PROVE OptInv'
    OBVIOUS
  <2>1. CASE OptUrl
    BY <2>1, UrlKeeps
  <2>2. CASE OptTaken
    BY <2>2, OptTakenKeeps
  <2>3. CASE OptIgnored
    BY <2>3, IgnoredKeeps
  <2>4. CASE OptEnd
    BY <2>4, EndKeeps
  <2>5. CASE GpCheck
    BY <2>5, CheckKeeps
  <2>6. CASE GpChecked
    BY <2>6, CheckedKeeps
  <2>7. CASE GpCopy
    BY <2>7, CopyKeeps
  <2>8. CASE GpUrl
    BY <2>8, GpUrlKeeps
  <2>9. CASE Performs
    BY <2>9, PerformsKeeps
  <2>10. CASE Answers \/ AnswerRaises
    BY <2>10, AnswersKeeps
  <2>11. CASE OptRefused \/ GpCheckFails \/ GpCopyFails
    BY <2>11, CopyFails
  <2>13. CASE GpCopyRaises
    BY <2>13, CopyRaises
  <2>14. CASE GpOverrun
    BY <2>14, OverrunKeeps
  <2>12. CASE UNCHANGED optVars
    BY <2>12, IdleKeeps
  <2> QED BY <2>1, <2>2, <2>3, <2>4, <2>5, <2>6, <2>7, <2>8, <2>9, <2>10, <2>11, <2>12, <2>13, <2>14 DEF OptNext
<1> QED BY <1>1, <1>2, PTL DEF OptSpec

\* In every call of pl_curl_get and pl_curl_ws_open of both bridges, for every list of
\* options and every number of parameters there is room for: what is performed has
\* the last of each setting and of two authentications the later with its own user
\* and password, and nothing in the list that cannot be sent; it has every parameter
\* and header, once and in order, and no more than there is room for, unless
\* pl_curl_get/5 of GNU Prolog was given more; and no text a parser copied has been
\* freed by then.  Nothing is said of the texts GNU Prolog's pl_curl_get/5 does not
\* copy, nor of what it keeps of too long a list.
THEOREM RequestFaithfulCorrect == OptSpec => []RequestFaithful
<1>1. OptInv => RequestFaithful
  <2> SUFFICES ASSUME OptInv, parse.pc = "perform" PROVE RequestFaithful
    BY DEF RequestFaithful
  <2>1. ask \in OptCalls /\ req \in Request
    BY DEF OptInv, OptTypeOK
  <2>2. PICK n : n = Len(ask.list)
    OBVIOUS
  <2>3. n \in Nat /\ DOMAIN ask.list = 1..n
    BY <2>1, <2>2, ListType
  <2>4. TextBuilt(n) /\ SetBuilt(n) /\ (Copies => <<0, 1>> \in owned)
    BY <2>2 DEF OptInv, OptParsing, Texted, Settled
  <2>5. \A name : AskedTo(name, n) = Asked(name)
    BY <2>1, <2>2, AllAsked
  <2>6. \A name : Asked(name) \subseteq Nat
    BY <2>3 DEF Asked
  <2>7. \A name \in KvNames :
          \/ ask.parser = "gp_get" /\ Cardinality(Asked(name)) > MaxKv
          \/ InOrder(req[name], Asked(name)) /\ Cardinality(Asked(name)) <= MaxKv
    <3> SUFFICES ASSUME NEW name \in KvNames
                 PROVE  \/ ask.parser = "gp_get" /\ Cardinality(Asked(name)) > MaxKv
                        \/ InOrder(req[name], Asked(name)) /\ Cardinality(Asked(name)) <= MaxKv
      OBVIOUS
    <3>1. KvKept(name, n) /\ AskedTo(name, n) = Asked(name)
      BY <2>4, <2>5 DEF TextBuilt, KvBuilt
    <3> HIDE OptAssumption
    <3> QED BY <3>1 DEF KvKept, TooMany
  <2>8. \A name \in Settings \cup {"user_agent"} : req[name] = LastOf(Asked(name))
    <3> SUFFICES ASSUME NEW name \in Settings \cup {"user_agent"} PROVE req[name] = LastOf(Asked(name))
      OBVIOUS
    <3>1. IsLast(req[name], Asked(name))
      BY <2>4, <2>5 DEF TextBuilt, SetBuilt
    <3>2. req[name] \in Nat
      BY <2>1 DEF Request, Settings
    <3> QED BY <2>6, <3>1, <3>2, LastIs
  <2>9. LET last == LastOf(Asked("basic_auth") \cup Asked("bearer_auth"))
        IN  Auth(req) = <<last, last, IF last \in Asked("basic_auth") THEN last ELSE 0>>
    <3>1. AuthBuilt(n) /\ req.mode \in Nat
      BY <2>1, <2>4 DEF TextBuilt, Request
    <3>2. IsLast(req.mode, Asked("basic_auth") \cup Asked("bearer_auth"))
      <4>1. IsLast(req.mode, AskedTo("basic_auth", n) \cup AskedTo("bearer_auth", n))
        BY <3>1 DEF AuthBuilt
      <4>2. AskedTo("basic_auth", n) = Asked("basic_auth") /\ AskedTo("bearer_auth", n) = Asked("bearer_auth")
        BY <2>5
      <4> QED BY <4>1, <4>2
    <3>3. req.mode = LastOf(Asked("basic_auth") \cup Asked("bearer_auth"))
      BY <2>6, <3>1, <3>2, LastIs
    <3> QED BY <3>1, <3>3 DEF AuthBuilt, Auth
  <2>10. ASSUME NEW i \in DOMAIN ask.list, ask.list[i].name \in Known \ (KvNames \cup {"bool"})
         PROVE  Wellformed(ask.list[i])
    <3>1. i \in 1..n
      BY <2>3
    <3>2. \/ ask.list[i].name \in Known \cap (AuthNames \cup {"user_agent"})
          \/ ask.list[i].name \in {"number", "as"}
      <4> HIDE OptAssumption
      <4>1. ask.list[i].name \in TextNames \cup Settings
        BY <2>10 DEF Known, TextNames, KvNames
      <4> QED BY <2>10, <4>1 DEF TextNames, Settings
    <3> QED BY <2>4, <3>1, <3>2 DEF TextBuilt, TextsOk, SetBuilt
  <2>11. ASSUME Copies, NEW i \in DOMAIN ask.list \cup {0},
                i = 0 \/ ask.list[i].name \in Known \cap TextNames
         PROVE  TextsAt(i) \subseteq owned
    <3>1. CASE i = 0
      BY <2>4, <2>11, <3>1 DEF TextsAt
    <3>2. CASE i # 0
      <4>1. i \in 1..n
        BY <2>3, <2>11, <3>2
      <4>2. TextsOf(i) \subseteq owned
        BY <2>4, <2>11, <3>2, <4>1 DEF TextBuilt, TextOwned
      <4> QED BY <3>2, <4>2 DEF TextsAt
    <3> QED BY <3>1, <3>2
  <2> QED BY <2>7, <2>8, <2>9, <2>10, <2>11 DEF RequestFaithful
<1> QED BY <1>1, OptInvCorrect, PTL

\* A call that has returned holds no text and no response.  The calls in which GNU
\* Prolog's bridge may lose some are exactly named, as in the property, and so are
\* those in which it may write past strs; no other call does (strings_free,
\* gp_ws_free_strings, pl_curl_response_free).
THEOREM OptionsFreedCorrect == OptSpec => []OptionsFreed
<1>1. OptInv => OptionsFreed
  <2> SUFFICES ASSUME OptInv PROVE OptionsFreed
    OBVIOUS
  <2>1. OwnedInv /\ GpCounts
    BY DEF OptInv
  <2>2. ~(0 > StrsRoom)
    BY DEF StrsRoom
  <2> QED BY <2>1, <2>2 DEF OptionsFreed, OwnedInv, GpCounts
<1> QED BY <1>1, OptInvCorrect, PTL

HIDE OptAssumption

-----------------------------------------------------------------------------
(***************************************************************************)
(* pl_regexp/3 (Regexp)                                                    *)
(***************************************************************************)
USE RxAssumption

RxSteps == {"str", "pattern", "compile", "matches", "match", "buffers", "collect", "true",
          "failed", "raised"}
Ended == {"true", "failed", "raised"}

RxTypeOK ==
  rx \in [bridge : RxBridges, pc : RxSteps, str : RxKinds, pattern : RxKinds, groups : 0..MaxGroups]

\* What a call owns at each of its steps.
OwnedAt ==
  /\ RxAt("str") => blocks = {}
  /\ RxAt("pattern") => blocks = Copied("str")
  /\ RxAt("compile") => blocks = Copied("str") \cup Copied("pattern")
  /\ RxAt("matches") => blocks = Copied("str") \cup {"regex"}
  /\ RxAt("match") \/ RxAt("buffers") => blocks = Copied("str") \cup {"regex", "matches"}
  /\ RxAt("collect") => blocks = Copied("str") \cup {"regex", "matches"}
                                  \cup (IF Gp THEN {"vals", "buffer"} ELSE {})
  /\ RxAt("buffers") => Gp
  /\ rx.pc \in Ended => blocks = {}

\* The two ways to lose blocks: an argument is no text, or all is done and Matches is
\* no list.
Lost ==
  \/ rx.str \in {"list", "other"} \/ rx.pattern \in {"list", "other"}
  \/ vals # <<>> /\ Len(vals) = Len(matches)

BlocksInv ==
  /\ RxTypeOK /\ OwnedAt /\ ~misused
  /\ stray # {} => Gp /\ rx.pc = "raised" /\ Lost

\* Neither argument is read as anything else later.
LEMMA RxSame ==
  ASSUME RxTypeOK, NEW pc \in RxSteps, RxTo(pc)
  PROVE  /\ RxTypeOK' /\ rx'.pc = pc /\ Gp' = Gp /\ rx'.groups = rx.groups
         /\ Copied("str")' = Copied("str") /\ Copied("pattern")' = Copied("pattern")
         /\ rx'.str = rx.str /\ rx'.pattern = rx.pattern
<1>1. /\ rx'.pc = pc /\ rx'.bridge = rx.bridge /\ rx'.groups = rx.groups
      /\ rx'.str = rx.str /\ rx'.pattern = rx.pattern /\ RxTypeOK'
  BY DEF RxTypeOK, RxTo
<1>2. Gp' = Gp
  BY <1>1 DEF Gp
<1>3. rx'["str"] = rx["str"] /\ rx'["pattern"] = rx["pattern"]
  BY <1>1 DEF RxTypeOK
<1> QED BY <1>1, <1>2, <1>3 DEF Copied

LEMMA CopiedIs == Copied("str") \in {{}, {"str"}} /\ Copied("pattern") \in {{}, {"pattern"}}
BY DEF Copied

\* An argument is on the Prolog side, or the call has a copy of it.
LEMMA Readable == /\ {"str"} \subseteq Copied("str") \cup Needs({"str"})
                  /\ {"pattern"} \subseteq Copied("pattern") \cup Needs({"pattern"})
BY DEF Copied, Needs

\* What uses String and blocks that are there does no harm.
LEMMA UsesOwned ==
  ASSUME ~misused, NEW S, S \subseteq blocks \cup Needs(S), Uses(S)
  PROVE  ~misused'
BY DEF Uses

LEMMA Ends ==
  ASSUME BlocksInv, NEW pc \in {"true", "failed"}, rx.pc \notin Ended,
         RxTo(pc), blocks' = {}, UNCHANGED stray, ~misused'
  PROVE  BlocksInv'
<1>1. RxTypeOK' /\ rx'.pc = pc
  BY RxSame DEF BlocksInv, RxSteps
<1>2. stray = {}
  BY DEF BlocksInv, Ended
<1> QED BY <1>1, <1>2 DEF BlocksInv, OwnedAt, RxAt, Ended

\* A step to a state of which OwnedAt says what the call owns.
LEMMA Goes ==
  ASSUME BlocksInv, NEW pc \in RxSteps \ Ended, rx.pc \notin Ended, RxTo(pc), UNCHANGED stray,
         ~misused', OwnedAt'
  PROVE  BlocksInv'
<1>1. RxTypeOK'
  BY RxSame DEF BlocksInv
<1>2. stray = {}
  BY DEF BlocksInv, Ended
<1> QED BY <1>1, <1>2 DEF BlocksInv

LEMMA Raises ==
  ASSUME BlocksInv, NEW extra, rx.pc \notin Ended, Throws(extra), Lost,
         Gp \/ (blocks = {} /\ extra = {})
  PROVE  BlocksInv'
<1>1. /\ RxTypeOK' /\ rx'.pc = "raised" /\ Gp' = Gp
      /\ rx'.str = rx.str /\ rx'.pattern = rx.pattern
  BY RxSame DEF BlocksInv, Throws, RxSteps
<1>2. stray = {} /\ stray' = stray \cup blocks \cup extra /\ blocks' = {} /\ ~misused'
  BY DEF BlocksInv, Ended, Throws
<1>3. Lost'
  BY <1>1 DEF Lost, Throws, made
<1> QED BY <1>1, <1>2, <1>3 DEF BlocksInv, OwnedAt, RxAt

-----------------------------------------------------------------------------
LEMMA TextKeeps ==
  ASSUME BlocksInv,
         \/ RxText("str", "pattern") \/ RxText("pattern", "compile")
         \/ RxNoText("str") \/ RxNoText("pattern")
         \/ RxTextNoMemory("str") \/ RxTextNoMemory("pattern")
  PROVE  BlocksInv'
<1>1. CASE RxText("str", "pattern")
  <2>1. /\ RxAt("str") /\ RxTo("pattern") /\ blocks' = Copied("str") /\ UNCHANGED <<stray, misused>>
    BY <1>1 DEF RxText, BlocksInv, OwnedAt
  <2>2. rx'.pc = "pattern" /\ Copied("str")' = Copied("str")
    BY <2>1, RxSame DEF BlocksInv, RxSteps
  <2>3. OwnedAt'
    BY <2>1, <2>2 DEF OwnedAt, RxAt, Ended
  <2> QED BY <2>1, <2>3, Goes DEF BlocksInv, RxAt, Ended, RxSteps
<1>2. CASE RxText("pattern", "compile")
  <2>1. /\ RxAt("pattern") /\ RxTo("compile") /\ blocks' = Copied("str") \cup Copied("pattern")
        /\ UNCHANGED <<stray, misused>>
    BY <1>2 DEF RxText, BlocksInv, OwnedAt
  <2>2. rx'.pc = "compile" /\ Copied("str")' = Copied("str") /\ Copied("pattern")' = Copied("pattern")
    BY <2>1, RxSame DEF BlocksInv, RxSteps
  <2>3. OwnedAt'
    BY <2>1, <2>2 DEF OwnedAt, RxAt, Ended
  <2> QED BY <2>1, <2>3, Goes DEF BlocksInv, RxAt, Ended, RxSteps
<1>3. ASSUME NEW arg \in {"str", "pattern"}, RxNoText(arg) PROVE BlocksInv'
  <2>1. PICK extra : /\ Throws(extra) /\ (~Gp => extra = {})
    BY <1>3 DEF RxNoText
  <2>2. rx.pc \in {"str", "pattern"} /\ (~Gp => blocks = {})
    BY <1>3 DEF RxNoText, RxAt, BlocksInv, OwnedAt, Copied
  <2>3. Lost
    BY <1>3 DEF RxNoText, Lost
  <2> QED BY <2>1, <2>2, <2>3, Raises DEF Ended
<1>4. ASSUME NEW arg \in {"str", "pattern"}, RxTextNoMemory(arg) PROVE BlocksInv'
  <2>1. rx.pc \in {"str", "pattern"} /\ blocks \subseteq {"str"}
    BY <1>4, CopiedIs DEF RxTextNoMemory, RxAt, BlocksInv, OwnedAt
  <2>2. RxTo("failed") /\ blocks' = {} /\ UNCHANGED <<stray, misused>>
    BY <1>4, <2>1 DEF RxTextNoMemory, Frees
  <2> QED BY <2>1, <2>2, Ends DEF BlocksInv, Ended
<1> QED BY <1>1, <1>2, <1>3, <1>4

LEMMA CompileKeeps ==
  ASSUME BlocksInv, Compile \/ CompileFails
  PROVE  BlocksInv'
<1>1. /\ RxAt("compile") /\ blocks = Copied("str") \cup Copied("pattern") /\ Uses({"pattern"})
      /\ UNCHANGED stray
  BY DEF Compile, CompileFails, Frees, BlocksInv, OwnedAt
<1>2. ~misused'
  BY <1>1, Readable, UsesOwned DEF BlocksInv
<1>3. CASE Compile
  <2>1. RxTo("matches") /\ blocks' = (blocks \ {"pattern"}) \cup {"regex"}
    BY <1>3 DEF Compile
  <2>2. rx'.pc = "matches" /\ Copied("str")' = Copied("str")
    BY <2>1, RxSame DEF BlocksInv, RxSteps
  <2>3. blocks' = Copied("str")' \cup {"regex"}
    BY <1>1, <2>1, <2>2, CopiedIs
  <2>4. OwnedAt'
    BY <2>2, <2>3 DEF OwnedAt, RxAt, Ended
  <2> QED BY <1>1, <1>2, <2>1, <2>4, Goes DEF RxAt, Ended, RxSteps
<1>4. CASE CompileFails
  <2>1. RxTo("failed") /\ blocks' = {}
    BY <1>1, <1>4, CopiedIs DEF CompileFails, Frees
  <2> QED BY <1>1, <1>2, <2>1, Ends DEF RxAt, Ended
<1> QED BY <1>3, <1>4

LEMMA AllocKeeps ==
  ASSUME BlocksInv, AllocMatches \/ Buffers
  PROVE  BlocksInv'
<1>1. UNCHANGED <<stray, misused>> /\ rx.pc \notin Ended
  BY DEF AllocMatches, Buffers, Frees, RxAt, Ended
<1>2. CASE RxTo("failed")
  <2>1. rx'.pc = "failed"
    BY <1>2, RxSame DEF BlocksInv, RxSteps
  <2>2. blocks' = {}
    <3>1. CASE AllocMatches
      <4>1. RxAt("matches") /\ blocks' = blocks \ {"str", "regex"}
        BY <2>1, <3>1, RxSame DEF AllocMatches, Frees, BlocksInv, RxSteps
      <4> QED BY <4>1, CopiedIs DEF BlocksInv, OwnedAt
    <3>2. CASE Buffers
      <4>1. RxAt("buffers") /\ blocks' = blocks \ {"str", "matches", "regex"}
        BY <2>1, <3>2, RxSame DEF Buffers, Frees, BlocksInv, RxSteps
      <4> QED BY <4>1, CopiedIs DEF BlocksInv, OwnedAt
    <3> QED BY <3>1, <3>2
  <2> QED BY <1>1, <1>2, <2>2, Ends DEF BlocksInv
<1>3. CASE RxAt("matches") /\ RxTo("match") /\ blocks' = blocks \cup {"matches"}
  <2>1. rx'.pc = "match" /\ Copied("str")' = Copied("str")
    BY <1>3, RxSame DEF BlocksInv, RxSteps
  <2>2. blocks' = Copied("str")' \cup {"regex", "matches"}
    BY <1>3, <2>1 DEF BlocksInv, OwnedAt
  <2>3. OwnedAt'
    BY <2>1, <2>2 DEF OwnedAt, RxAt, Ended
  <2> QED BY <1>1, <1>3, <2>3, Goes DEF BlocksInv, Ended, RxSteps
<1>4. CASE RxAt("buffers") /\ RxTo("collect") /\ blocks' = blocks \cup {"vals", "buffer"}
  <2>1. rx'.pc = "collect" /\ Copied("str")' = Copied("str") /\ Gp'
    BY <1>4, RxSame DEF BlocksInv, OwnedAt, RxSteps
  <2>2. blocks' = Copied("str")' \cup {"regex", "matches"} \cup {"vals", "buffer"}
    BY <1>4, <2>1 DEF BlocksInv, OwnedAt
  <2>3. OwnedAt'
    BY <2>1, <2>2 DEF OwnedAt, RxAt, Ended
  <2> QED BY <1>1, <1>4, <2>3, Goes DEF BlocksInv, Ended, RxSteps
<1> QED BY <1>2, <1>3, <1>4 DEF AllocMatches, Buffers

LEMMA MatchKeeps ==
  ASSUME BlocksInv, Match \/ NoMatch \/ MatchFails
  PROVE  BlocksInv'
<1>1. /\ RxAt("match") /\ blocks = Copied("str") \cup {"regex", "matches"}
      /\ Uses({"str", "regex", "matches"}) /\ UNCHANGED stray
  BY DEF Match, NoMatch, MatchFails, Frees, BlocksInv, OwnedAt
<1>2. {"str", "regex", "matches"} \subseteq blocks \cup Needs({"str", "regex", "matches"})
  BY <1>1, Readable DEF Needs
<1>3. ~misused'
  BY <1>1, <1>2, UsesOwned DEF BlocksInv
<1>4. CASE Match
  <2>1. RxTo(IF Gp THEN "buffers" ELSE "collect") /\ blocks' = blocks
    BY <1>4 DEF Match
  <2>2. /\ rx'.pc = (IF Gp THEN "buffers" ELSE "collect") /\ Gp' = Gp
        /\ Copied("str")' = Copied("str")
    BY <2>1, RxSame DEF BlocksInv, RxSteps
  <2>3. OwnedAt'
    BY <1>1, <2>1, <2>2 DEF OwnedAt, RxAt, Ended
  <2> QED BY <1>1, <1>3, <2>1, <2>3, Goes DEF RxAt, Ended, RxSteps
<1>5. CASE NoMatch \/ MatchFails
  <2>1. RxTo("failed") /\ blocks' = {}
    BY <1>1, <1>5, CopiedIs DEF NoMatch, MatchFails, Frees
  <2> QED BY <1>1, <1>3, <2>1, Ends DEF RxAt, Ended
<1> QED BY <1>4, <1>5

LEMMA CollectKeeps ==
  ASSUME BlocksInv, Collect \/ Unify \/ UnifyFails \/ UnifyRaises,
         RxAt("collect") => Len(matches) # 0
  PROVE  BlocksInv'
<1>1. /\ RxAt("collect") /\ rx.pc \notin Ended
      /\ blocks = Copied("str") \cup {"regex", "matches"} \cup (IF Gp THEN {"vals", "buffer"} ELSE {})
  BY DEF Collect, Unify, UnifyFails, UnifyRaises, BlocksInv, OwnedAt, RxAt, Ended
<1>2. CASE Collect
  <2> DEFINE S == {"str", "matches"} \cup (IF Gp THEN {"vals", "buffer"} ELSE {})
  <2>1. Uses(S) /\ UNCHANGED <<rx, blocks, stray>>
    BY <1>2 DEF Collect
  <2>2. "str" \in blocks \cup Needs(S)
    BY <1>1, Readable DEF Needs
  <2>3. S \subseteq blocks \cup Needs(S)
    BY <1>1, <2>2
  <2> HIDE DEF S
  <2>4. ~misused'
    BY <2>1, <2>3, UsesOwned DEF BlocksInv
  <2>5. Gp' = Gp /\ Copied("str")' = Copied("str") /\ Copied("pattern")' = Copied("pattern")
    BY <2>1 DEF Gp, Copied
  <2>6. stray = {} /\ stray' = {}
    BY <1>1, <2>1 DEF BlocksInv, Ended
  <2> QED BY <2>1, <2>4, <2>5, <2>6 DEF BlocksInv, RxTypeOK, OwnedAt, RxAt
<1>3. CASE Unify
  <2>1. PICK pc \in {"true", "failed"} : RxTo(pc)
    BY <1>3 DEF Unify
  <2>2. blocks' = {} /\ UNCHANGED <<stray, misused>>
    BY <1>1, <1>3, CopiedIs DEF Unify, Frees
  <2> QED BY <1>1, <2>1, <2>2, Ends DEF BlocksInv
<1>4. CASE UnifyFails
  <2>1. ~Gp /\ RxTo("failed") /\ blocks' = blocks \ {"matches", "regex"} /\ UNCHANGED <<stray, misused>>
    BY <1>4 DEF UnifyFails, Frees
  <2>2. Copied("str") = {}
    BY <2>1 DEF Copied
  <2> QED BY <1>1, <2>1, <2>2, Ends DEF BlocksInv
<1>5. CASE UnifyRaises
  <2>1. Len(vals) = Len(matches) /\ Len(matches) # 0 /\ Gp /\ Throws({})
    BY <1>1, <1>5 DEF UnifyRaises
  <2>2. vals # <<>>
    <3>1. Len(<<>>) = 0
      OBVIOUS
    <3> QED BY <2>1, <3>1
  <2>3. Lost
    BY <2>1, <2>2 DEF Lost
  <2> QED BY <1>1, <2>1, <2>3, Raises
<1> QED BY <1>2, <1>3, <1>4, <1>5

-----------------------------------------------------------------------------
(***************************************************************************)
(* The list of matches.                                                    *)
(***************************************************************************)
Whole == rx.groups + 1
Taking == {"match", "buffers", "collect", "true"}

\* One element of the list: the group's text, or '' if it took no part.
Element(k) == IF k = 1 \/ matches[k] THEN k ELSE 0

Slots == matches \in [1..Whole -> BOOLEAN]
Made == vals \in Seq(Nat) /\ Len(vals) <= Whole /\ \A k \in 1..Len(vals) : vals[k] = Element(k)

ListInv ==
  /\ RxTypeOK
  /\ rx.pc \in {"matches"} \cup Taking => Slots
  /\ rx.pc \in {"buffers", "collect"} => matches[1]
  /\ rx.pc \notin {"collect", "true", "failed", "raised"} => vals = <<>>
  /\ rx.pc \in {"collect", "true"} => Made
  /\ rx.pc = "true" => Len(vals) = Whole

LEMMA WholeIs == RxTypeOK => Whole \in Nat \ {0}
BY DEF RxTypeOK, Whole

\* A step that changes neither the list nor what it is made of.
LEMMA SameList ==
  ASSUME ListInv, UNCHANGED made, NEW pc \in RxSteps, RxTo(pc),
         pc = "true" => rx.pc = "collect" /\ Len(vals) = Whole,
         pc \in {"match", "matches"} => rx.pc = "matches",
         pc \notin {"true", "failed", "raised"} => rx.pc \notin {"collect", "true", "failed", "raised"},
         pc \notin {"buffers", "collect"}
  PROVE  ListInv'
<1>1. RxTypeOK' /\ rx'.pc = pc /\ rx'.groups = rx.groups /\ UNCHANGED <<matches, vals>>
  BY RxSame DEF ListInv, made
<1>2. Whole' = Whole /\ Slots' = Slots /\ Made' = Made
  BY <1>1 DEF Whole, Slots, Made, Element
<1> QED BY <1>1, <1>2 DEF ListInv, Taking

LEMMA CompileList ==
  ASSUME ListInv, Compile
  PROVE  ListInv'
<1>1. /\ RxAt("compile") /\ RxTo("matches") /\ UNCHANGED vals
      /\ matches' = [i \in 1..(rx.groups + 1) |-> FALSE]
  BY DEF Compile
<1>2. RxTypeOK' /\ rx'.pc = "matches" /\ rx'.groups = rx.groups
  BY <1>1, RxSame DEF ListInv, RxSteps
<1>3. Slots'
  BY <1>1, <1>2 DEF Slots, Whole
<1>4. vals' = <<>>
  BY <1>1 DEF ListInv, RxAt
<1> QED BY <1>2, <1>3, <1>4 DEF ListInv

LEMMA MatchList ==
  ASSUME ListInv, Match
  PROVE  ListInv'
<1>1. PICK part \in [DOMAIN matches -> BOOLEAN] : (part # <<>> => part[1]) /\ matches' = part
  BY DEF Match
<1> DEFINE pc == IF Gp THEN "buffers" ELSE "collect"
<1>2. rx.pc = "match" /\ RxTo(pc) /\ UNCHANGED vals /\ pc \in {"buffers", "collect"}
  BY DEF Match, RxAt
<1> HIDE DEF pc
<1>3. RxTypeOK' /\ rx'.pc = pc /\ rx'.groups = rx.groups
  BY <1>2, RxSame DEF ListInv, RxSteps
<1>4. Slots /\ vals' = <<>> /\ Whole' = Whole /\ Whole \in Nat \ {0}
  BY <1>2, <1>3, WholeIs DEF ListInv, Taking, Whole
<1>5. Slots'
  BY <1>1, <1>4 DEF Slots
<1>6. matches'[1]
  <2>1. DOMAIN part = 1..Whole
    BY <1>4 DEF Slots
  <2>2. 1 \in DOMAIN part /\ DOMAIN <<>> = {}
    BY <1>4, <2>1
  <2>3. part # <<>>
    BY <2>2
  <2> QED BY <1>1, <2>3
<1>7. Made'
  <2>1. <<>> \in Seq(Nat) /\ Len(<<>>) = 0
    OBVIOUS
  <2> QED BY <1>4, <2>1 DEF Made
<1> QED BY <1>2, <1>3, <1>4, <1>5, <1>6, <1>7 DEF ListInv

LEMMA BuffersList ==
  ASSUME ListInv, Buffers
  PROVE  ListInv'
<1>1. rx.pc = "buffers" /\ UNCHANGED made /\ (RxTo("collect") \/ RxTo("failed"))
  BY DEF Buffers, Frees, RxAt
<1>2. CASE RxTo("failed")
  BY <1>1, <1>2, SameList DEF RxSteps
<1>3. CASE RxTo("collect")
  <2>1. RxTypeOK' /\ rx'.pc = "collect" /\ rx'.groups = rx.groups /\ UNCHANGED <<matches, vals>>
    BY <1>1, <1>3, RxSame DEF ListInv, made, RxSteps
  <2>2. Slots /\ vals = <<>> /\ Whole' = Whole /\ Whole \in Nat \ {0}
    BY <1>1, <2>1, WholeIs DEF ListInv, Taking, Whole
  <2>3. Slots'
    BY <2>1, <2>2 DEF Slots
  <2>4. Made'
    <3>1. <<>> \in Seq(Nat) /\ Len(<<>>) = 0
      OBVIOUS
    <3> QED BY <2>1, <2>2, <3>1 DEF Made
  <2>5. matches'[1]
    BY <1>1, <2>1 DEF ListInv
  <2> QED BY <2>1, <2>3, <2>4, <2>5 DEF ListInv
<1> QED BY <1>1, <1>2, <1>3

LEMMA CollectList ==
  ASSUME ListInv, Collect
  PROVE  ListInv'
<1> DEFINE n == Len(vals) + 1
<1>1. rx.pc = "collect" /\ UNCHANGED <<rx, matches>> /\ Len(vals) < Len(matches)
  BY DEF Collect, RxAt
<1>2. Slots /\ Made /\ Whole \in Nat
  BY <1>1, WholeIs DEF ListInv, Taking
<1>3. Len(matches) = Whole
  BY <1>2 DEF Slots
<1>4. n \in Nat \ {0} /\ n <= Whole /\ Len(vals) \in Nat
  BY <1>1, <1>2, <1>3 DEF Made
<1>5. vals' = Append(vals, Element(n))
  <2>1. Len(vals) # 0 => (IF matches[n] THEN n ELSE 0) = Element(n)
    BY <1>4 DEF Element
  <2>2. CASE Len(vals) # 0
    BY <2>1, <2>2 DEF Collect
  <2>3. CASE Len(vals) = 0
    <3>1. n = 1 /\ matches[1]
      BY <1>1, <2>3 DEF ListInv
    <3> QED BY <3>1 DEF Collect, Element
  <2> QED BY <2>2, <2>3
<1>6. Element(n) \in Nat
  BY <1>4 DEF Element
<1> HIDE DEF n
<1>7. /\ vals' \in Seq(Nat) /\ Len(vals') = Len(vals) + 1 /\ vals'[Len(vals) + 1] = Element(n)
      /\ \A k \in 1..Len(vals) : vals'[k] = vals[k]
  BY <1>2, <1>5, <1>6 DEF Made
<1>8. Made'
  <2>1. Whole' = Whole /\ \A k : Element(k)' = Element(k)
    BY <1>1 DEF Whole, Element
  <2>2. \A k \in 1..Len(vals') : k \in 1..Len(vals) \/ k = n
    BY <1>4, <1>7 DEF n
  <2> QED BY <1>2, <1>4, <1>7, <2>1, <2>2 DEF Made, n
<1>9. Slots' /\ RxTypeOK'
  BY <1>1, <1>2 DEF Slots, Whole, ListInv, RxTypeOK
<1> QED BY <1>1, <1>8, <1>9 DEF ListInv

LEMMA ListCorrect == RxSpec => []ListInv
<1>1. RxInit => ListInv
  BY DEF RxInit, RxStart, RxCalls, RxTypeOK, RxSteps, ListInv, Taking
<1>2. ListInv /\ [RxNext]_rxVars => ListInv'
  <2> SUFFICES ASSUME ListInv, [RxNext]_rxVars PROVE ListInv'
    OBVIOUS
  <2>1. CASE UNCHANGED rxVars
    <3>1. UNCHANGED <<rx, matches, vals>>
      BY <2>1 DEF rxVars
    <3> QED BY <3>1 DEF ListInv, RxTypeOK, Slots, Made, Element, Whole
  <2>2. CASE RxText("str", "pattern") \/ RxText("pattern", "compile")
    <3>1. UNCHANGED made /\ \/ rx.pc = "str" /\ RxTo("pattern")
                            \/ rx.pc = "pattern" /\ RxTo("compile")
      BY <2>2 DEF RxText, RxAt
    <3> QED BY <3>1, SameList DEF RxSteps
  <2>3. CASE \/ RxNoText("str") \/ RxNoText("pattern") \/ UnifyRaises
             \/ RxTextNoMemory("str") \/ RxTextNoMemory("pattern")
    <3>1. UNCHANGED made /\ (RxTo("raised") \/ RxTo("failed"))
      BY <2>3 DEF RxNoText, UnifyRaises, Throws, RxTextNoMemory, Frees
    <3> QED BY <3>1, SameList DEF RxSteps
  <2>4. CASE CompileFails \/ NoMatch \/ MatchFails \/ UnifyFails
    <3>1. UNCHANGED made /\ RxTo("failed")
      BY <2>4 DEF CompileFails, NoMatch, MatchFails, UnifyFails, Frees
    <3> QED BY <3>1, SameList DEF RxSteps
  <2>5. CASE AllocMatches
    <3>1. rx.pc = "matches" /\ UNCHANGED made /\ (RxTo("match") \/ RxTo("failed"))
      BY <2>5 DEF AllocMatches, Frees, RxAt
    <3> QED BY <3>1, SameList DEF RxSteps
  <2>6. CASE Unify
    <3>1. PICK pc \in {"true", "failed"} : RxTo(pc)
      BY <2>6 DEF Unify
    <3>2. rx.pc = "collect" /\ UNCHANGED made /\ Len(vals) = Len(matches)
      BY <2>6 DEF Unify, Frees, RxAt
    <3>3. Len(matches) = Whole
      BY <3>2, WholeIs DEF ListInv, Taking, Slots
    <3> QED BY <3>1, <3>2, <3>3, SameList DEF RxSteps
  <2> QED BY <2>1, <2>2, <2>3, <2>4, <2>5, <2>6, CompileList, MatchList, BuffersList, CollectList
          DEF RxNext
<1> QED BY <1>1, <1>2, PTL DEF RxSpec

LEMMA BlocksCorrect == RxSpec => []BlocksInv
<1>1. RxInit => BlocksInv
  <2> SUFFICES ASSUME RxInit PROVE BlocksInv
    OBVIOUS
  <2>1. rx.pc = "str" /\ RxTypeOK /\ blocks = {} /\ stray = {} /\ ~misused
    BY DEF RxInit, RxStart, RxCalls, RxTypeOK, RxSteps
  <2> QED BY <2>1 DEF BlocksInv, OwnedAt, RxAt, Ended
<1>2. BlocksInv /\ ListInv /\ [RxNext]_rxVars => BlocksInv'
  <2> SUFFICES ASSUME BlocksInv, ListInv, [RxNext]_rxVars PROVE BlocksInv'
    OBVIOUS
  <2>1. CASE UNCHANGED rxVars
    <3>1. UNCHANGED <<rx, blocks, stray, misused, matches, vals>>
      BY <2>1 DEF rxVars
    <3> QED BY <3>1 DEF BlocksInv, RxTypeOK, OwnedAt, RxAt, Gp, Copied, Lost
  <2>2. RxAt("collect") => Len(matches) # 0
    BY WholeIs DEF ListInv, Taking, RxAt, Slots
  <2>3. CASE RxNext
    BY <2>2, <2>3, TextKeeps, CompileKeeps, AllocKeeps, MatchKeeps, CollectKeeps DEF RxNext
  <2> QED BY <2>1, <2>3
<1> QED BY <1>1, <1>2, ListCorrect, PTL DEF RxSpec

\* A call of pl_regexp/3 that has returned owns nothing, and none has used a block it
\* did not own; blocks are lost by calls of the GNU Prolog bridge only, and only if an
\* argument is no text or, the matches being made, Matches is no list.  Nothing is said
\* of how many those lose (swi-regexp.c, gp-regexp-c.c).
THEOREM RegexpFreedCorrect == RxSpec => []RegexpFreed
<1>1. BlocksInv => RegexpFreed
  BY DEF BlocksInv, OwnedAt, RegexpFreed, Ended, Lost
<1> QED BY <1>1, BlocksCorrect, PTL

\* Matches is the whole match and then every group of the pattern in order, '' for
\* those that took no part (pl_regexp/README.md), for any number of groups.
THEOREM MatchesCompleteCorrect == RxSpec => []MatchesComplete
<1>1. ListInv => MatchesComplete
  <2> SUFFICES ASSUME ListInv, rx.pc = "true"
               PROVE  vals = [i \in 1..(rx.groups + 1) |-> IF i = 1 \/ matches[i] THEN i ELSE 0]
    BY DEF MatchesComplete
  <2>1. vals \in Seq(Nat) /\ Len(vals) = Whole /\ \A k \in 1..Whole : vals[k] = Element(k)
    BY DEF ListInv, Made
  <2>2. vals = [k \in 1..Whole |-> Element(k)]
    BY <2>1
  <2> QED BY <2>2 DEF Whole, Element
<1> QED BY <1>1, ListCorrect, PTL

HIDE RxAssumption

-----------------------------------------------------------------------------
(***************************************************************************)
(* The arguments of pl_postgresql (PgArgs)                                 *)
(***************************************************************************)
USE PaAssumption

Places == {"NULL", "block", "stack", "shared"}
PaSteps == {"list", "read", "sent", "done", "failed"}

PaTypeOK ==
  /\ pa \in [bridge : PaBridges, pred : {"connect", "exec"}, pc : PaSteps, args : Seq(PaKinds),
             closed : BOOLEAN]
  /\ passed \in Seq(Places)
  /\ Connects => Len(pa.args) = 5 /\ pa.pc # "list"
  /\ Len(pa.args) > 0

\* Argument i has been converted: its text is in memory of its own, or it is the
\* query, after which nothing else is converted.
Converted(i) ==
  IF Absent(i) THEN passed[i] = "NULL"
  ELSE IF passed[i] = "NULL" THEN InGp /\ Connects
  ELSE /\ pa.args[i] \in {"text", "number", "nil"}
       /\ passed[i] = "block" => i \in copies
       /\ passed[i] = "shared" => shared = i /\ i = Len(pa.args)

PaInv ==
  /\ PaTypeOK
  /\ pa.pc \in {"list", "read", "sent"} =>
       /\ Len(passed) <= Len(pa.args)
       /\ \A i \in 1..Len(passed) : Converted(i)
  /\ pa.pc = "list" => passed = <<>>
  /\ pa.pc \in {"read", "sent"} /\ ~Connects => Params <= ParamLimit
  /\ pa.pc = "sent" => Len(passed) = Len(pa.args) /\ ~Lacks
  /\ ArgumentsFreed

\* The call is the same at another step.
LEMMA PaSame ==
  ASSUME PaTypeOK, NEW pc \in PaSteps, PaTo(pc), UNCHANGED passed, Connects => pc # "list"
  PROVE  /\ PaTypeOK' /\ pa'.pc = pc /\ pa'.args = pa.args /\ InGp' = InGp
         /\ Connects' = Connects /\ pa'.bridge = pa.bridge /\ pa'.pred = pa.pred
BY DEF PaTypeOK, PaTo, InGp, Connects

\* A call that fails or raises an error has freed what it can.
Mislaid == Kind = "list" \/ (~Connects /\ ~IsQuery)

LEMMA PaEnds ==
  ASSUME PaInv, pa.pc \in {"list", "read"},
         PaFail \/ (\E extra : InGp /\ Reading /\ Mislaid /\ PaRaise(extra))
  PROVE  PaInv'
<1>1. PaTo("failed") /\ UNCHANGED passed /\ copies' = {} /\ adrift = {}
  BY DEF PaFail, PaRaise, PaInv, ArgumentsFreed
<1>2. /\ PaTypeOK' /\ pa'.pc = "failed" /\ pa'.args = pa.args /\ InGp' = InGp
      /\ Connects' = Connects
  BY <1>1, PaSame DEF PaInv, PaSteps
<1>3. adrift' # {} => InGp /\ NextArg <= Len(pa.args) /\ Mislaid
  BY <1>1 DEF PaFail, Reading
<1>4. NextArg' = NextArg /\ Mislaid' = Mislaid
  BY <1>1, <1>2 DEF NextArg, Mislaid, Kind, IsQuery, Params
<1>5. ArgumentsFreed'
  BY <1>1, <1>2, <1>3, <1>4 DEF ArgumentsFreed, Mislaid
<1> QED BY <1>1, <1>2, <1>5 DEF PaInv

\* The array of parameters is made, or the list is refused.
LEMMA ListKeeps ==
  ASSUME PaInv, ListTaken \/ ListRefused
  PROVE  PaInv'
<1>1. CASE ListTaken
  <2>1. pa.pc = "list" /\ passed = <<>> /\ ~Connects /\ Params <= ParamLimit
    BY <1>1 DEF PaInv, PaTypeOK, ListTaken, ListLimit
  <2>2. PaTypeOK' /\ pa'.pc = "read" /\ pa'.args = pa.args /\ Connects' = Connects
    BY <1>1, PaSame DEF PaInv, ListTaken, PaSteps
  <2>3. passed' = <<>> /\ adrift = {} /\ adrift' = {}
    BY <1>1, <2>1 DEF ListTaken, PaInv, ArgumentsFreed
  <2>4. Params' <= ParamLimit
    BY <2>1, <2>2 DEF Params
  <2>5. Len(passed') = 0 /\ 0 <= Len(pa'.args)
    BY <2>2, <2>3 DEF PaTypeOK
  <2> QED BY <2>2, <2>3, <2>4, <2>5 DEF PaInv, ArgumentsFreed
<1>2. CASE ListRefused
  BY <1>2, PaEnds DEF ListRefused
<1> QED BY <1>1, <1>2

\* What has been converted remains so while another argument is.
LEMMA ConvertedStays ==
  ASSUME PaTypeOK, UNCHANGED pa, NEW i \in 1..Len(passed), Converted(i), copies \subseteq copies',
         passed'[i] = passed[i], shared' = shared \/ i < Len(pa.args)
  PROVE  Converted(i)'
<1>1. Absent(i)' = Absent(i) /\ InGp' = InGp /\ Connects' = Connects
  BY DEF Absent, InGp, Connects, Params
<1>2. pa' = pa
  OBVIOUS
<1>3. Len(pa.args) \in Nat /\ Len(passed) \in Nat
  BY DEF PaTypeOK
<1> QED BY <1>1, <1>2, <1>3 DEF Converted

\* One more argument is converted.
LEMMA OneMore ==
  ASSUME PaInv, Reading, UNCHANGED <<pa, adrift>>, NEW place \in Places,
         passed' = Append(passed, place),
         copies \subseteq copies', shared' \in {shared, NextArg},
         IF Absent(NextArg) THEN place = "NULL"
         ELSE IF place = "NULL" THEN InGp /\ Connects
         ELSE /\ Kind \in {"text", "number", "nil"}
              /\ place = "block" => NextArg \in copies'
              /\ place = "shared" => shared' = NextArg /\ NextArg = Len(pa.args)
  PROVE  PaInv'
<1>9. PICK n : n = Len(passed)
  OBVIOUS
<1>1. n \in Nat /\ n + 1 <= Len(pa.args) /\ Len(pa.args) \in Nat /\ pa.pc = "read"
      /\ passed \in Seq(Places)
  BY <1>9 DEF PaInv, PaTypeOK, Reading, NextArg
<1>2. /\ passed' \in Seq(Places) /\ Len(passed') = n + 1 /\ passed'[n + 1] = place
      /\ \A i \in 1..n : passed'[i] = passed[i]
  BY <1>1, <1>9
<1>3. InGp' = InGp /\ Connects' = Connects /\ Params' = Params /\ pa' = pa
  BY DEF InGp, Connects, Params
<1>4. PaTypeOK'
  BY <1>2, <1>3 DEF PaInv, PaTypeOK
<1>5. \A i \in 1..n : Converted(i)'
  <2> TAKE i \in 1..n
  <2>1. Converted(i) /\ i < Len(pa.args)
    BY <1>1, <1>9 DEF PaInv
  <2> QED BY <1>2, <1>9, <2>1, ConvertedStays DEF PaInv
<1>6. Converted(n + 1)'
  <2>1. Absent(n + 1)' = Absent(n + 1)
    BY <1>3 DEF Absent
  <2>2. Kind = pa.args[n + 1] /\ NextArg = n + 1
    BY <1>9 DEF Kind, NextArg
  <2> QED BY <1>2, <1>3, <2>1, <2>2 DEF Converted
<1>7. \A i \in 1..(n + 1) : Converted(i)'
  <2> TAKE i \in 1..(n + 1)
  <2>1. i \in 1..n \/ i = n + 1
    BY <1>1
  <2> QED BY <1>5, <1>6, <2>1
<1>8. ArgumentsFreed'
  BY <1>1, <1>3 DEF PaInv, ArgumentsFreed
<1> QED BY <1>1, <1>2, <1>3, <1>4, <1>7, <1>8 DEF PaInv

LEMMA PaTakenKeeps ==
  ASSUME PaInv, TextTaken \/ AbsentTaken
  PROVE  PaInv'
<1>1. CASE TextTaken
  <2>1. Kind \in {"text", "number", "nil"}
    BY <1>1 DEF TextTaken, IsText
  <2>2. Place \in Places /\ Place # "NULL"
    BY DEF Place, Places
  <2>3. Place = "shared" => ~InGp /\ NextArg = Len(pa.args)
    BY DEF Place, IsQuery, Params, PaInv, PaTypeOK
  <2>4. /\ Reading /\ UNCHANGED <<pa, adrift>> /\ passed' = Append(passed, Place)
        /\ copies \subseteq copies' /\ shared' \in {shared, NextArg}
        /\ Place = "block" => NextArg \in copies'
        /\ Place = "shared" => shared' = NextArg
        /\ ~Absent(NextArg)
    BY <1>1, <2>3 DEF TextTaken
  <2> QED BY <2>1, <2>2, <2>3, <2>4, OneMore
<1>2. CASE AbsentTaken
  <2>1. "NULL" \in Places
    BY DEF Places
  <2> QED BY <1>2, <2>1, OneMore DEF AbsentTaken
<1> QED BY <1>1, <1>2

LEMMA NothingKeeps ==
  ASSUME PaInv, GpNothing \/ GpListRaises \/ SwiRefused
  PROVE  PaInv'
<1>1. CASE GpNothing
  <2>1. CASE Connects
    <3>1. "NULL" \in Places
      BY DEF Places
    <3>2. /\ Reading /\ InGp /\ ~Absent(NextArg) /\ passed' = Append(passed, "NULL")
          /\ UNCHANGED <<pa, shared, copies, adrift>>
      BY <1>1, <2>1 DEF GpNothing
    <3> QED BY <2>1, <3>1, <3>2, OneMore
  <2>2. CASE ~Connects
    BY <1>1, <2>2, PaEnds DEF GpNothing, Reading, Mislaid
  <2> QED BY <2>1, <2>2
<1>2. CASE GpListRaises
  BY <1>2, PaEnds DEF GpListRaises, Reading, Mislaid
<1>3. CASE SwiRefused
  BY <1>3, PaEnds DEF SwiRefused, Reading
<1> QED BY <1>1, <1>2, <1>3

LEMMA LibpqKeeps ==
  ASSUME PaInv, PaIncomplete \/ PaSend \/ PaReturns
  PROVE  PaInv'
<1>1. CASE PaIncomplete
  BY <1>1, PaEnds DEF PaIncomplete, ReadAll
<1>2. CASE PaSend
  <2>1. pa.pc = "read" /\ NextArg > Len(pa.args) /\ ~Lacks
    BY <1>2 DEF PaSend, ReadAll
  <2>2. UNCHANGED <<passed, shared, copies, adrift>>
    BY <1>2 DEF PaSend
  <2>3. /\ PaTypeOK' /\ pa'.pc = "sent" /\ pa'.args = pa.args /\ InGp' = InGp
        /\ Connects' = Connects
    BY <1>2, <2>2, PaSame DEF PaInv, PaSend, PaSteps
  <2>4. Len(passed) = Len(pa.args)
    BY <2>1 DEF PaInv, PaTypeOK, NextArg
  <2>5. Params' = Params /\ Lacks' = Lacks
    BY <2>2, <2>3 DEF Params, Lacks
  <2>6. \A i \in 1..Len(passed) : Converted(i)'
    <3> TAKE i \in 1..Len(passed)
    <3>1. Converted(i)
      BY <2>1 DEF PaInv
    <3>2. Absent(i)' = Absent(i)
      BY <2>3, <2>5 DEF Absent
    <3> QED BY <2>2, <2>3, <3>1, <3>2 DEF Converted
  <2>7. ArgumentsFreed'
    BY <2>1, <2>2, <2>3 DEF PaInv, ArgumentsFreed
  <2> QED BY <2>1, <2>2, <2>3, <2>4, <2>5, <2>6, <2>7 DEF PaInv, PaTypeOK
<1>3. CASE PaReturns
  <2>1. PaTypeOK' /\ pa'.pc = "done"
    BY <1>3, PaSame DEF PaInv, PaReturns, PaSteps
  <2>2. adrift' = {} /\ copies' = {}
    BY <1>3 DEF PaInv, PaReturns, ArgumentsFreed
  <2> QED BY <2>1, <2>2 DEF PaInv, ArgumentsFreed
<1> QED BY <1>1, <1>2, <1>3

LEMMA PaStarts == PaInit => PaInv
<1> SUFFICES ASSUME PaInit PROVE PaInv
  OBVIOUS
<1>1. passed = <<>> /\ copies = {} /\ adrift = {} /\ pa \in PaCalls
  BY DEF PaInit, PaStart
<1>2. CASE pa \in ConnectCalls
  <2>1. pa.args \in Seq(PaKinds) /\ Len(pa.args) = 5
    BY <1>2 DEF ConnectCalls
  <2>2. pa \in [bridge : PaBridges, pred : {"connect", "exec"}, pc : PaSteps, args : Seq(PaKinds),
                closed : BOOLEAN]
        /\ pa.pred = "connect" /\ pa.pc = "read"
    <3> HIDE PaAssumption
    <3> QED BY <1>2, <2>1 DEF PaSteps, ConnectCalls
  <2>3. PaTypeOK /\ Connects
    BY <1>1, <2>1, <2>2 DEF PaTypeOK, Connects, Places
  <2>4. Len(passed) = 0
    BY <1>1
  <2> QED BY <1>1, <2>1, <2>2, <2>3, <2>4 DEF PaInv, ArgumentsFreed
<1>3. CASE pa \in QueryCalls
  <2>1. PICK params \in ParamLists, query \in Queries : pa.args = Append(params, query)
    BY <1>3 DEF QueryCalls
  <2>2. params \in Seq(PaKinds) /\ query \in PaKinds
    OBVIOUS
  <2> HIDE PaAssumption
  <2>3. pa.args \in Seq(PaKinds) /\ Len(pa.args) = Len(params) + 1 /\ Len(params) \in Nat
    BY <2>1, <2>2
  <2>4. pa \in [bridge : PaBridges, pred : {"connect", "exec"}, pc : PaSteps, args : Seq(PaKinds),
                closed : BOOLEAN]
        /\ pa.pred = "exec" /\ pa.pc = "list"
    BY <1>3, <2>3 DEF PaSteps, QueryCalls
  <2>5. PaTypeOK /\ ~Connects
    BY <1>1, <2>3, <2>4 DEF PaTypeOK, Connects, Places
  <2> QED BY <1>1, <2>3, <2>4, <2>5 DEF PaInv, ArgumentsFreed
<1> QED BY <1>1, <1>2, <1>3 DEF PaCalls

LEMMA PaInvCorrect == PaSpec => []PaInv
<1>1. PaInv /\ [PaNext]_paVars => PaInv'
  <2> SUFFICES ASSUME PaInv, [PaNext]_paVars PROVE PaInv'
    OBVIOUS
  <2>1. CASE UNCHANGED paVars
    BY <2>1 DEF paVars, PaInv, PaTypeOK, Converted, Absent, Connects, InGp, Params, Lacks,
                ArgumentsFreed, NextArg, Kind, IsQuery
  <2>2. CASE PaNext
    BY <2>2, ListKeeps, PaTakenKeeps, NothingKeeps, LibpqKeeps DEF PaNext
  <2> QED BY <2>1, <2>2
<1> QED BY <1>1, PaStarts, PTL DEF PaSpec

\* A call of connect/6 or of a query with parameters that has returned holds no copy of
\* an argument, in both bridges; blocks nothing refers to are left by failed calls of
\* GNU Prolog alone, at a list that is no text or at a parameter without a text.
THEOREM ArgumentsFreedCorrect == PaSpec => []ArgumentsFreed
<1>1. PaInv => ArgumentsFreed
  BY DEF PaInv
<1> QED BY <1>1, PaInvCorrect, PTL

\* In both bridges, for every login and every list of parameters: libpq reads at each
\* place the argument of that place or NULL, never memory that was freed or another
\* argument; NULL for every absent one, and the text of every other but the user and
\* the password of GNU Prolog's connect/6, of which the theorem only says that what is
\* read is theirs or NULL.
THEOREM ArgumentsFaithfulCorrect == PaSpec => []ArgumentsFaithful
<1>1. PaInv => ArgumentsFaithful
  <2> SUFFICES ASSUME PaInv, pa.pc = "sent" PROVE ArgumentsFaithful
    BY DEF ArgumentsFaithful
  <2>1. /\ Len(passed) = Len(pa.args) /\ ~Lacks /\ (~Connects => Params <= ParamLimit)
        /\ \A i \in 1..Len(passed) : Converted(i)
    BY DEF PaInv
  <2>2. ASSUME NEW i \in 1..Len(passed)
        PROVE  IF Absent(i) THEN Read(i) = 0
               ELSE \/ Read(i) = i /\ pa.args[i] \in {"text", "number", "nil"}
                    \/ Read(i) = 0 /\ Unchecked(i)
    <3>1. CASE Absent(i)
      BY <2>1, <3>1 DEF Converted, Read
    <3>2. CASE ~Absent(i) /\ passed[i] = "NULL"
      <4>1. InGp /\ Connects
        BY <2>1, <3>2 DEF Converted
      <4>2. i \in 1..5 /\ i \notin 1..3
        BY <2>1, <3>2, <4>1 DEF Lacks, PaInv, PaTypeOK
      <4> QED BY <3>2, <4>1, <4>2 DEF Read, Unchecked
    <3>3. CASE ~Absent(i) /\ passed[i] # "NULL"
      BY <2>1, <3>3 DEF Converted, Read
    <3> QED BY <3>1, <3>2, <3>3
  <2> QED BY <2>1, <2>2 DEF ArgumentsFaithful
<1> QED BY <1>1, PaInvCorrect, PTL

HIDE PaAssumption

-----------------------------------------------------------------------------
(***************************************************************************)
(* All three (Memory)                                                      *)
(***************************************************************************)

\* For every option list, pattern and argument list: a call that has returned holds no
\* memory it asked for, whichever way it returned, and none uses what it has freed.
\* Blocks nothing refers to any more are left by the calls of the GNU Prolog bridges
\* that the three parts name, and by no other; the theorem does not say that those
\* leave none (GnuMemoryExact, which TLC finds violated).
THEOREM MemoryExactCorrect == OptSpec /\ RxSpec /\ PaSpec => []MemoryExact
<1>1. OptionsFreed /\ RegexpFreed /\ ArgumentsFreed => MemoryExact
  BY DEF MemoryExact
<1> QED BY <1>1, OptionsFreedCorrect, RegexpFreedCorrect, ArgumentsFreedCorrect, PTL

=============================================================================
