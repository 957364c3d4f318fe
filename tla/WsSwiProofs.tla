----------------------------- MODULE WsSwiProofs -----------------------------
(***************************************************************************)
(* Proofs about WsSwi for every value of its constants: what the program   *)
(* can name is never freed and nothing is freed twice, whenever the        *)
(* collector runs; no message is lost or answered twice; a receive waits   *)
(* for the time it was asked for, and signals wait for a slice at most.    *)
(***************************************************************************)
EXTENDS WsSwi, TLAPS

USE SwiAssumption

-----------------------------------------------------------------------------
(***************************************************************************)
(* The inductive invariant, in three parts.                                *)
(***************************************************************************)
States == {"unused", "usable", "unusable", "freed", "twice"}
Open2 == {"usable", "unusable"}

\* A handle whose structure is there.
Live(h) == wsBlob[h] \in WsAddrs

HeapTypes ==
  /\ wsConn \in [WsConns -> States]
  /\ wsMem \in [WsAddrs -> WsConns \cup {"null"}] /\ wsAlloc \subseteq WsAddrs
  /\ wsBlob \in [WsHandles -> WsAddrs \cup {"unused", "released"}]
  /\ wsHeld \subseteq WsHandles
  /\ owner \in [WsHandles -> WsConns \cup {"none"}]

\* What belongs to a handle: a structure of its own, in it the connection it was
\* made for or NULL.
Proper(h) ==
  /\ Live(h) => wsBlob[h] \in wsAlloc /\ owner[h] \in WsConns /\ Ws(h) \in {owner[h], "null"}
  /\ wsBlob[h] # "unused" => owner[h] \in WsConns /\ wsConn[owner[h]] # "unused"
  /\ wsBlob[h] = "unused" => owner[h] = "none"
  /\ h \in wsHeld => Live(h)

Apart ==
  \A h, g \in WsHandles : h # g =>
    /\ Live(h) /\ Live(g) => wsBlob[h] # wsBlob[g]
    /\ owner[h] # "none" => owner[h] # owner[g]

\* A connection can be used as long as it is in the structure of a handle.
Reached(c) == \E h \in WsHandles : Live(h) /\ Ws(h) = c
ConnExact(c) == (wsConn[c] \in Open2 <=> Reached(c)) /\ wsConn[c] # "twice"

HeapInv ==
  /\ HeapTypes /\ Apart
  /\ \A h \in WsHandles : Proper(h)
  /\ \A c \in WsConns : ConnExact(c)

\* What a program saw of the messages that were taken.
ToldOf(h) ==
  /\ told[h] \in Seq(Nat)
  /\ owner[h] = "none" => told[h] = <<>>
  /\ owner[h] # "none" =>
       Len(told[h]) = taken[owner[h]] /\ \A i \in 1..Len(told[h]) : told[h][i] \in {i, 0}

ToldInv ==
  /\ inbox \in [WsConns -> 0..MaxMsgs] /\ taken \in [WsConns -> 0..MaxMsgs]
  /\ \A c \in WsConns : taken[c] <= inbox[c] /\ (wsConn[c] = "unused" => taken[c] = 0)
  /\ DOMAIN told = WsHandles
  /\ \A h \in WsHandles : ToldOf(h)

Calls == [pc : {"idle", "core", "signals", "timeout", "crashed"}, handle : WsHandles \cup {"none"},
          asked : Nat, left : Nat, waited : Nat]

Waiting == wsCall.pc \in {"core", "signals"} => wsCall.left + wsCall.waited = wsCall.asked

SignalInv ==
  /\ signal \in [pending : BOOLEAN, since : Nat]
  /\ signal.since <= Slice
  /\ ~signal.pending \/ wsCall.pc = "core" => signal.since = 0

CallInv ==
  /\ wsCall \in Calls
  /\ wsCall.pc # "idle" => wsCall.handle \in wsHeld
  /\ wsCall.pc \in {"signals", "timeout"} => At # "null" /\ wsConn[At] = "usable"
  /\ Waiting /\ WaitsExactly

Inv == HeapInv /\ ToldInv /\ CallInv /\ SignalInv

-----------------------------------------------------------------------------
(***************************************************************************)
(* The handles.                                                            *)
(***************************************************************************)
LEMMA LiveFacts ==
  ASSUME HeapInv, NEW h \in WsHandles, Live(h)
  PROVE  /\ wsBlob[h] \in WsAddrs /\ wsBlob[h] \in wsAlloc /\ owner[h] \in WsConns
         /\ Ws(h) \in {owner[h], "null"}
         /\ Ws(h) # "null" => Ws(h) \in WsConns /\ Ws(h) = owner[h] /\ wsConn[Ws(h)] \in Open2
<1>1. /\ wsBlob[h] \in WsAddrs /\ wsBlob[h] \in wsAlloc /\ owner[h] \in WsConns
      /\ Ws(h) \in {owner[h], "null"}
  BY DEF HeapInv, Proper, Live
<1>2. Ws(h) # "null" => Ws(h) \in WsConns /\ wsConn[Ws(h)] \in Open2
  BY <1>1 DEF HeapInv, ConnExact, Reached
<1> QED BY <1>1, <1>2

\* No other handle reaches the connection of a handle.
LEMMA OthersApart ==
  ASSUME HeapInv, NEW h \in WsHandles, NEW g \in WsHandles, h # g, Live(h), Live(g), Ws(h) # "null"
  PROVE  wsBlob[g] # wsBlob[h] /\ Ws(g) # Ws(h) /\ owner[g] # owner[h]
<1>1. Ws(h) = owner[h] /\ owner[h] \in WsConns /\ owner[g] \in WsConns /\ Ws(g) \in {owner[g], "null"}
  BY LiveFacts
<1>2. wsBlob[g] # wsBlob[h] /\ owner[h] # owner[g]
  BY <1>1 DEF HeapInv, Apart
<1> QED BY <1>1, <1>2

LEMMA SameHeap ==
  ASSUME HeapInv, UNCHANGED <<wsConn, wsHeap>>, wsHeld' \subseteq wsHeld
  PROVE  HeapInv'
<1>1. UNCHANGED <<wsConn, wsMem, wsAlloc, wsBlob, owner>>
  BY DEF wsHeap
<1>2. \A h \in WsHandles : Live(h)' = Live(h) /\ Ws(h)' = Ws(h)
  BY <1>1 DEF Live, Ws
<1>3. HeapTypes' /\ Apart'
  BY <1>1, <1>2 DEF HeapInv, HeapTypes, Apart
<1>4. \A h \in WsHandles : Proper(h)'
  BY <1>1, <1>2 DEF HeapInv, Proper
<1>5. \A c \in WsConns : ConnExact(c)'
  BY <1>1, <1>2 DEF HeapInv, ConnExact, Reached
<1> QED BY <1>3, <1>4, <1>5 DEF HeapInv

LEMMA OpenKeepsHeap ==
  ASSUME HeapInv, Open
  PROVE  HeapInv'
<1>1. PICK c \in WsConns, a \in WsAddrs, h \in WsHandles, unified \in BOOLEAN :
        /\ wsConn[c] = "unused" /\ a \notin wsAlloc /\ wsBlob[h] = "unused"
        /\ wsConn' = [wsConn EXCEPT ![c] = "usable"]
        /\ wsMem' = [wsMem EXCEPT ![a] = c] /\ wsAlloc' = wsAlloc \cup {a}
        /\ wsBlob' = [wsBlob EXCEPT ![h] = a] /\ owner' = [owner EXCEPT ![h] = c]
        /\ wsHeld' = IF unified THEN wsHeld \cup {h} ELSE wsHeld
  BY DEF Open
<1>2. HeapTypes
  BY DEF HeapInv
<1>3. /\ wsConn' \in [WsConns -> States] /\ wsConn'[c] = "usable" /\ \A d \in WsConns \ {c} : wsConn'[d] = wsConn[d]
      /\ wsMem' \in [WsAddrs -> WsConns \cup {"null"}] /\ wsMem'[a] = c /\ \A b \in WsAddrs \ {a} : wsMem'[b] = wsMem[b]
      /\ wsBlob' \in [WsHandles -> WsAddrs \cup {"unused", "released"}] /\ wsBlob'[h] = a
      /\ \A g \in WsHandles \ {h} : wsBlob'[g] = wsBlob[g]
      /\ owner' \in [WsHandles -> WsConns \cup {"none"}] /\ owner'[h] = c
      /\ \A g \in WsHandles \ {h} : owner'[g] = owner[g]
      /\ wsAlloc' = wsAlloc \cup {a} /\ wsHeld' \subseteq wsHeld \cup {h}
  BY <1>1, <1>2 DEF HeapTypes, States
<1>4. HeapTypes'
  BY <1>2, <1>3 DEF HeapTypes
<1>5. ~Live(h) /\ owner[h] = "none" /\ Live(h)' /\ Ws(h)' = c
  BY <1>1, <1>3 DEF HeapInv, Proper, Live, Ws
<1>6. ASSUME NEW g \in WsHandles \ {h}
      PROVE  /\ Live(g)' = Live(g) /\ owner[g] # c
             /\ Live(g) => wsBlob[g] \in WsAddrs /\ wsBlob[g] # a /\ Ws(g)' = Ws(g) /\ Ws(g) # c
  <2>1. owner[g] # c
    <3>1. wsBlob[g] = "unused" => owner[g] = "none"
      BY DEF HeapInv, Proper
    <3>2. wsBlob[g] # "unused" => wsConn[owner[g]] # "unused"
      BY DEF HeapInv, Proper
    <3> QED BY <1>1, <3>1, <3>2
  <2>2. Live(g)' = Live(g)
    BY <1>3 DEF Live
  <2>3. Live(g) => wsBlob[g] \in WsAddrs /\ wsBlob[g] # a /\ Ws(g) # c
    BY <1>1, <2>1, LiveFacts
  <2>4. Live(g) => Ws(g)' = Ws(g)
    BY <1>3, <2>3 DEF Ws
  <2> QED BY <2>1, <2>2, <2>3, <2>4
<1>7. Apart'
  BY <1>3, <1>5, <1>6 DEF HeapInv, Apart
<1>8. ASSUME NEW g \in WsHandles PROVE Proper(g)'
  <2>1. CASE g = h
    BY <1>1, <1>3, <1>5, <2>1 DEF Proper
  <2>2. CASE g # h
    <3>1. Proper(g) /\ g \in WsHandles \ {h}
      BY <2>2 DEF HeapInv
    <3>2. wsBlob'[g] = wsBlob[g] /\ owner'[g] = owner[g] /\ Live(g)' = Live(g) /\ (Live(g) => Ws(g)' = Ws(g))
      BY <1>3, <1>6, <3>1
    <3>3. wsBlob[g] # "unused" => owner[g] \in WsConns \ {c} /\ wsConn[owner[g]] # "unused"
      BY <1>6, <3>1 DEF Proper
    <3> QED BY <1>3, <2>2, <3>1, <3>2, <3>3 DEF Proper
  <2> QED BY <2>1, <2>2
<1>9. ASSUME NEW d \in WsConns PROVE ConnExact(d)'
  <2>1. CASE d = c
    BY <1>3, <1>5, <2>1 DEF ConnExact, Reached, Open2
  <2>2. CASE d # c
    <3>1. Reached(d)' <=> Reached(d)
      BY <1>5, <1>6, <2>2 DEF Reached
    <3> QED BY <1>3, <2>2, <3>1 DEF ConnExact, HeapInv
  <2> QED BY <2>1, <2>2
<1> QED BY <1>4, <1>7, <1>8, <1>9 DEF HeapInv

\* A connection there is no handle for changes its state, or one that has a handle
\* ends.
LEMMA ConnKeepsHeap ==
  ASSUME HeapInv, NEW c \in WsConns, NEW s \in States \ {"unused", "twice"},
         wsConn' = [wsConn EXCEPT ![c] = s], wsConn[c] \in Open2 <=> s \in Open2,
         UNCHANGED <<wsHeap, wsHeld>>
  PROVE  HeapInv'
<1>1. UNCHANGED <<wsMem, wsAlloc, wsBlob, owner, wsHeld>>
  BY DEF wsHeap
<1>2. wsConn' \in [WsConns -> States] /\ wsConn'[c] = s /\ \A d \in WsConns \ {c} : wsConn'[d] = wsConn[d]
  BY DEF HeapInv, HeapTypes
<1>3. \A h \in WsHandles : Live(h)' = Live(h) /\ Ws(h)' = Ws(h)
  BY <1>1 DEF Live, Ws
<1>4. HeapTypes' /\ Apart'
  BY <1>1, <1>2, <1>3 DEF HeapInv, HeapTypes, Apart
<1>5. \A h \in WsHandles : Proper(h)'
  BY <1>1, <1>2, <1>3 DEF HeapInv, Proper
<1>6. ASSUME NEW d \in WsConns PROVE ConnExact(d)'
  <2>1. Reached(d)' <=> Reached(d)
    BY <1>3 DEF Reached
  <2> QED BY <1>2, <2>1 DEF HeapInv, ConnExact
<1> QED BY <1>4, <1>5, <1>6 DEF HeapInv

\* pl_curl_ws_free, and then the structure gets NULL: by close or a signal handler.
LEMMA CloseKeepsHeap ==
  ASSUME HeapInv, NEW h \in wsHeld, Ws(h) # "null",
         FreeConn(Ws(h)), wsMem' = [wsMem EXCEPT ![wsBlob[h]] = "null"],
         UNCHANGED <<wsAlloc, wsBlob, owner, wsHeld>>
  PROVE  HeapInv'
<1> DEFINE c == Ws(h)
           a == wsBlob[h]
<1>1. h \in WsHandles /\ Live(h)
  BY DEF HeapInv, HeapTypes, Proper
<1>2. a \in WsAddrs /\ c \in WsConns /\ c = owner[h] /\ wsConn[c] \in Open2
  BY <1>1, LiveFacts
<1>3. wsConn' = [wsConn EXCEPT ![c] = "freed"]
  BY <1>2 DEF FreeConn, Freed, Open2
<1>4. \A g \in WsHandles \ {h} : Live(g) => wsBlob[g] # a /\ Ws(g) # c
  BY <1>1, OthersApart
<1>5. wsMem' = [wsMem EXCEPT ![a] = "null"] /\ wsMem[a] = c
  BY DEF Ws
<1> HIDE DEF c, a
<1>6. /\ wsConn' \in [WsConns -> States] /\ wsConn'[c] = "freed" /\ \A d \in WsConns \ {c} : wsConn'[d] = wsConn[d]
      /\ wsMem' \in [WsAddrs -> WsConns \cup {"null"}] /\ wsMem'[a] = "null"
      /\ \A b \in WsAddrs \ {a} : wsMem'[b] = wsMem[b]
  BY <1>2, <1>3, <1>5 DEF HeapInv, HeapTypes, States
<1>7. \A g \in WsHandles : Live(g)' = Live(g)
  BY DEF Live
<1>8. Ws(h)' = "null" /\ \A g \in WsHandles \ {h} : Live(g) => Ws(g)' = Ws(g)
  <2>1. Ws(h)' = "null"
    BY <1>6 DEF Ws, a
  <2>2. ASSUME NEW g \in WsHandles \ {h}, Live(g) PROVE Ws(g)' = Ws(g)
    BY <1>4, <1>6, <2>2 DEF Ws, Live
  <2> QED BY <2>1, <2>2
<1>9. HeapTypes' /\ Apart'
  BY <1>6, <1>7 DEF HeapInv, HeapTypes, Apart
<1>10. ASSUME NEW g \in WsHandles PROVE Proper(g)'
  <2>1. Proper(g)
    BY DEF HeapInv
  <2>2. wsConn[owner[g]] # "unused" /\ owner[g] \in WsConns => wsConn'[owner[g]] # "unused"
    BY <1>6
  <2> QED BY <1>7, <1>8, <2>1, <2>2 DEF Proper
<1>11. ASSUME NEW d \in WsConns PROVE ConnExact(d)'
  <2>1. CASE d = c
    <3>1. ~Reached(d)'
      BY <1>2, <1>4, <1>7, <1>8, <2>1 DEF Reached
    <3> QED BY <1>6, <2>1, <3>1 DEF ConnExact, Open2
  <2>2. CASE d # c
    <3>1. Ws(h) # d /\ d # "null"
      BY <2>2 DEF c
    <3>2. Reached(d)' <=> Reached(d)
      BY <1>7, <1>8, <3>1 DEF Reached
    <3> QED BY <1>6, <2>2, <3>2 DEF HeapInv, ConnExact
  <2> QED BY <2>1, <2>2
<1> QED BY <1>9, <1>10, <1>11 DEF HeapInv

\* The collector releases a handle no term holds.
LEMMA ReleaseKeepsHeap ==
  ASSUME HeapInv, NEW h \in WsHandles, WsRelease(h)
  PROVE  HeapInv'
<1> DEFINE c == Ws(h)
           a == wsBlob[h]
<1>1. /\ Live(h) /\ h \notin wsHeld /\ FreeConn(c) /\ wsAlloc' = wsAlloc \ {a}
      /\ wsBlob' = [wsBlob EXCEPT ![h] = "released"] /\ UNCHANGED <<wsMem, owner, wsHeld>>
  BY DEF WsRelease, Live
<1>2. a \in WsAddrs /\ owner[h] \in WsConns /\ c \in {owner[h], "null"}
  BY <1>1, LiveFacts
<1>3. c # "null" => c \in WsConns /\ wsConn[c] \in Open2
  BY <1>1, LiveFacts
<1>4. \A g \in WsHandles \ {h} : Live(g) => wsBlob[g] # a /\ (c # "null" => Ws(g) # c)
  BY <1>1, OthersApart DEF HeapInv, Apart
<1> HIDE DEF c, a
<1>5. /\ wsConn' \in [WsConns -> States]
      /\ c # "null" => wsConn'[c] = "freed"
      /\ \A d \in WsConns \ {c} : wsConn'[d] = wsConn[d]
  BY <1>1, <1>3 DEF FreeConn, Freed, Open2, HeapInv, HeapTypes, States
<1>6. /\ wsBlob' \in [WsHandles -> WsAddrs \cup {"unused", "released"}] /\ wsBlob'[h] = "released"
      /\ \A g \in WsHandles \ {h} : wsBlob'[g] = wsBlob[g]
  BY <1>1 DEF HeapInv, HeapTypes
<1>7. HeapTypes'
  BY <1>1, <1>5, <1>6 DEF HeapInv, HeapTypes
<1>8. ~Live(h)' /\ \A g \in WsHandles \ {h} : Live(g)' = Live(g) /\ Ws(g)' = Ws(g)
  BY <1>1, <1>6 DEF Live, Ws
<1>9. Apart'
  BY <1>1, <1>6, <1>8 DEF HeapInv, Apart
<1>10. ASSUME NEW g \in WsHandles PROVE Proper(g)'
  <2>1. Proper(g) /\ (owner[g] \in WsConns /\ wsConn[owner[g]] # "unused" => wsConn'[owner[g]] # "unused")
    BY <1>5 DEF HeapInv
  <2>2. CASE g = h
    BY <1>1, <1>6, <1>8, <2>1, <2>2 DEF Proper, Live
  <2>3. CASE g # h
    BY <1>1, <1>4, <1>6, <1>8, <2>1, <2>3 DEF Proper
  <2> QED BY <2>2, <2>3
<1>11. ASSUME NEW d \in WsConns PROVE ConnExact(d)'
  <2>1. CASE d = c
    <3>1. ~Reached(d)'
      BY <1>4, <1>8, <2>1 DEF Reached
    <3> QED BY <1>5, <2>1, <3>1 DEF ConnExact, Open2
  <2>2. CASE d # c
    <3>1. Ws(h) # d
      BY <2>2 DEF c
    <3>2. Reached(d)' <=> Reached(d)
      BY <1>8, <3>1 DEF Reached
    <3> QED BY <1>5, <2>2, <3>2 DEF HeapInv, ConnExact
  <2> QED BY <2>1, <2>2
<1> QED BY <1>7, <1>9, <1>10, <1>11 DEF HeapInv

-----------------------------------------------------------------------------
(***************************************************************************)
(* The messages.                                                           *)
(***************************************************************************)
LEMMA SameTold ==
  ASSUME ToldInv, UNCHANGED <<inbox, taken, told, owner>>,
         \A c \in WsConns : wsConn'[c] = "unused" => wsConn[c] = "unused"
  PROVE  ToldInv'
<1>1. \A h \in WsHandles : ToldOf(h)'
  BY DEF ToldInv, ToldOf
<1> QED BY <1>1 DEF ToldInv

LEMMA OpenKeepsTold ==
  ASSUME HeapInv, ToldInv, Open
  PROVE  ToldInv'
<1>1. PICK c \in WsConns, h \in WsHandles :
        /\ wsConn[c] = "unused" /\ wsBlob[h] = "unused"
        /\ wsConn' = [wsConn EXCEPT ![c] = "usable"] /\ owner' = [owner EXCEPT ![h] = c]
        /\ UNCHANGED <<inbox, taken, told>>
  BY DEF Open
<1>2. /\ wsConn'[c] = "usable" /\ \A d \in WsConns \ {c} : wsConn'[d] = wsConn[d]
      /\ owner'[h] = c /\ \A g \in WsHandles \ {h} : owner'[g] = owner[g]
  BY <1>1 DEF HeapInv, HeapTypes
<1>3. owner[h] = "none"
  BY <1>1 DEF HeapInv, Proper
<1>4. ASSUME NEW g \in WsHandles PROVE ToldOf(g)'
  <2>1. CASE g = h
    <3>1. told[h] = <<>> /\ taken[c] = 0
      BY <1>1, <1>3 DEF ToldInv, ToldOf
    <3>2. <<>> \in Seq(Nat) /\ Len(<<>>) = 0
      OBVIOUS
    <3> QED BY <1>1, <1>2, <2>1, <3>1, <3>2 DEF ToldOf
  <2>2. CASE g # h
    BY <1>1, <1>2, <2>2 DEF ToldInv, ToldOf
  <2> QED BY <2>1, <2>2
<1> QED BY <1>1, <1>2, <1>4 DEF ToldInv

\* A message is taken and answered, by the receive or by a signal handler.
LEMMA GivenKeepsTold ==
  ASSUME HeapInv, ToldInv, wsCall.handle \in wsHeld, At # "null", taken[At] < inbox[At],
         Given, UNCHANGED <<wsConn, inbox, owner>>
  PROVE  ToldInv'
<1> DEFINE h == wsCall.handle
           c == At
<1>1. h \in WsHandles /\ Live(h)
  BY DEF HeapInv, HeapTypes, Proper
<1>2. c \in WsConns /\ c = owner[h] /\ wsConn[c] # "unused"
  BY <1>1, LiveFacts DEF At, Open2
<1>3. \A g \in WsHandles \ {h} : owner[g] # c
  BY <1>1, <1>2, SwiAssumption DEF HeapInv, Apart
<1>4. taken' = [taken EXCEPT ![c] = @ + 1]
  BY DEF Given
<1>5. PICK m \in {taken[c] + 1, 0} : told' = [told EXCEPT ![h] = Append(@, m)]
  BY DEF Given
<1>6. taken[c] < inbox[c]
  OBVIOUS
<1> HIDE DEF h, c
<1>7. /\ taken[c] \in Nat /\ taken[c] + 1 \in 0..MaxMsgs /\ taken[c] + 1 <= inbox[c]
      /\ taken'[c] = taken[c] + 1 /\ \A d \in WsConns \ {c} : taken'[d] = taken[d]
      /\ taken' \in [WsConns -> 0..MaxMsgs]
  <2>1. taken[c] \in 0..MaxMsgs /\ inbox[c] \in 0..MaxMsgs
    BY <1>2 DEF ToldInv
  <2>2. taken[c] \in Nat /\ taken[c] + 1 \in 0..MaxMsgs /\ taken[c] + 1 <= inbox[c]
    BY <1>6, <2>1
  <2> QED BY <1>2, <1>4, <2>2 DEF ToldInv
<1>8. /\ told'[h] = Append(told[h], m) /\ \A g \in WsHandles \ {h} : told'[g] = told[g]
      /\ DOMAIN told' = WsHandles
  BY <1>1, <1>5 DEF ToldInv
<1>9. ASSUME NEW g \in WsHandles PROVE ToldOf(g)'
  <2>1. CASE g = h
    <3>1. /\ told[h] \in Seq(Nat) /\ Len(told[h]) = taken[c]
          /\ \A i \in 1..Len(told[h]) : told[h][i] \in {i, 0}
      BY <1>1, <1>2, SwiAssumption DEF ToldInv, ToldOf
    <3> DEFINE n == Len(told[h])
    <3>2. m \in Nat /\ m \in {n + 1, 0} /\ n \in Nat
      BY <1>5, <1>7, <3>1
    <3>3. /\ told'[h] \in Seq(Nat) /\ Len(told'[h]) = n + 1 /\ told'[h][n + 1] = m
          /\ \A i \in 1..n : told'[h][i] = told[h][i]
      BY <1>8, <3>1, <3>2
    <3> HIDE DEF n
    <3>4. \A i \in 1..(n + 1) : i \in 1..n \/ i = n + 1
      BY <3>2
    <3>5. \A i \in 1..n : told[h][i] \in {i, 0}
      BY <3>1 DEF n
    <3>6. \A i \in 1..(n + 1) : told'[h][i] \in {i, 0}
      BY <3>2, <3>3, <3>4, <3>5
    <3>7. n + 1 = taken'[c] /\ owner'[h] = c
      BY <1>2, <1>7, <3>1 DEF n
    <3> QED BY <1>2, <2>1, <3>3, <3>6, <3>7, SwiAssumption DEF ToldOf
  <2>2. CASE g # h
    <3>1. told'[g] = told[g] /\ owner'[g] = owner[g] /\ owner[g] # c
      BY <1>3, <1>8, <2>2
    <3>2. owner[g] # "none" => owner[g] \in WsConns \ {c}
      BY <3>1 DEF HeapInv, HeapTypes
    <3>3. owner[g] # "none" => taken'[owner[g]] = taken[owner[g]]
      BY <1>7, <3>2
    <3> QED BY <3>1, <3>3 DEF ToldInv, ToldOf
  <2> QED BY <2>1, <2>2
<1>10. \A d \in WsConns : taken'[d] <= inbox'[d] /\ (wsConn'[d] = "unused" => taken'[d] = 0)
  BY <1>2, <1>7 DEF ToldInv
<1> QED BY <1>7, <1>8, <1>9, <1>10 DEF ToldInv

LEMMA ServerKeepsTold ==
  ASSUME ToldInv, NEW c \in WsConns, ServerSends(c)
  PROVE  ToldInv'
<1>1. inbox' = [inbox EXCEPT ![c] = @ + 1] /\ inbox[c] < MaxMsgs /\ UNCHANGED <<wsConn, taken, told, owner>>
  BY DEF ServerSends, wsHeap
<1>2. inbox[c] \in 0..MaxMsgs /\ taken[c] \in 0..MaxMsgs
  BY DEF ToldInv
<1>3. inbox[c] + 1 \in 0..MaxMsgs /\ (taken[c] <= inbox[c] => taken[c] <= inbox[c] + 1)
  BY <1>1, <1>2
<1>4. inbox' \in [WsConns -> 0..MaxMsgs] /\ inbox'[c] = inbox[c] + 1
      /\ \A d \in WsConns \ {c} : inbox'[d] = inbox[d]
  BY <1>1, <1>3 DEF ToldInv
<1>5. \A d \in WsConns : taken'[d] <= inbox'[d]
  BY <1>1, <1>3, <1>4 DEF ToldInv
<1>6. \A h \in WsHandles : ToldOf(h)'
  BY <1>1 DEF ToldInv, ToldOf
<1> QED BY <1>1, <1>4, <1>5, <1>6 DEF ToldInv

-----------------------------------------------------------------------------
(***************************************************************************)
(* The receive and the signals.                                            *)
(***************************************************************************)
LEMMA IdleKeepsCall ==
  ASSUME CallInv, WsIsIdle, UNCHANGED wsCall
  PROVE  CallInv'
BY DEF CallInv, WsIsIdle, Waiting, WaitsExactly

LEMMA ReturnKeepsCall ==
  ASSUME wsCall' = WsIdle
  PROVE  CallInv'
<1>1. wsCall'.pc = "idle" /\ wsCall' \in Calls
  BY DEF WsIdle, Calls
<1> QED BY <1>1 DEF CallInv, Waiting, WaitsExactly

\* The connection a receive is on.
LEMMA Receives ==
  ASSUME HeapInv, CallInv, wsCall.pc # "idle"
  PROVE  /\ wsCall.handle \in WsHandles /\ wsCall.handle \in wsHeld /\ Live(wsCall.handle)
         /\ At # "null" => At \in WsConns /\ At = owner[wsCall.handle] /\ wsConn[At] \in Open2
<1>1. wsCall.handle \in wsHeld /\ wsCall.handle \in WsHandles /\ Live(wsCall.handle)
  BY DEF CallInv, HeapInv, HeapTypes, Proper
<1> QED BY <1>1, LiveFacts DEF At

LEMMA RecvKeepsCall ==
  ASSUME CallInv, NEW h \in WsHandles, Recv(h)
  PROVE  CallInv'
<1>1. PICK ms \in Timeouts :
        wsCall' = [pc |-> "core", handle |-> h, asked |-> ms, left |-> ms, waited |-> 0]
  BY DEF Recv
<1>2. h \in wsHeld /\ wsHeld' = wsHeld /\ ms \in Nat
  BY DEF Recv, Usable
<1>3. /\ wsCall' \in Calls /\ wsCall'.pc = "core" /\ wsCall'.handle = h
      /\ wsCall'.left + wsCall'.waited = wsCall'.asked
  BY <1>1, <1>2 DEF Calls
<1> QED BY <1>2, <1>3 DEF CallInv, Waiting, WaitsExactly

\* A slice has passed, the last one or another: what is left is what remains to wait.
LEMMA SliceKeepsCall ==
  ASSUME CallInv, RecvTimeout \/ SliceEnds
  PROVE  CallInv'
<1> DEFINE a == wsCall.asked
           w == wsCall.waited
           l == wsCall.left
<1>1. wsCall \in Calls /\ a \in Nat /\ w \in Nat /\ l \in Nat /\ Slice \in Nat \ {0}
  BY DEF CallInv, Calls
<1>2. /\ wsCall.pc = "core" /\ At # "null" /\ wsConn[At] = "usable" /\ UNCHANGED <<server, wsHeap, wsHeld>>
      /\ wsCall.handle \in wsHeld /\ l + w = a
  BY DEF RecvTimeout, SliceEnds, InCore, CallInv, Waiting
<1>3. Wait = IF l > Slice THEN Slice ELSE l
  BY DEF Wait
<1>4. CASE RecvTimeout
  <2>1. wsCall' = [wsCall EXCEPT !.pc = "timeout", !.waited = w + Wait] /\ l <= Slice
    BY <1>4 DEF RecvTimeout, LastSlice
  <2>2. Wait = l
    BY <1>1, <1>3, <2>1
  <2> HIDE DEF a, w, l
  <2>3. w + l \in Nat /\ w + l = a
    BY <1>1, <1>2
  <2>4. /\ wsCall' \in Calls /\ wsCall'.pc = "timeout" /\ wsCall'.handle = wsCall.handle
        /\ wsCall'.asked = a /\ wsCall'.waited = w + l
    BY <1>1, <2>1, <2>2, <2>3 DEF Calls, a
  <2>5. At' = At /\ wsConn' = wsConn
    BY <1>2, <2>4 DEF server, wsHeap, At, Ws
  <2> QED BY <1>2, <2>3, <2>4, <2>5 DEF CallInv, Waiting, WaitsExactly
<1>5. CASE SliceEnds
  <2>1. wsCall' = [wsCall EXCEPT !.pc = "signals", !.left = l - Slice, !.waited = w + Wait] /\ ~(l <= Slice)
    BY <1>5 DEF SliceEnds, LastSlice
  <2>2. Wait = Slice
    BY <1>1, <1>3, <2>1
  <2> HIDE DEF a, w, l
  <2>3. w + Slice \in Nat /\ l - Slice \in Nat /\ (l - Slice) + (w + Slice) = a
    BY <1>1, <1>2, <2>1
  <2>4. /\ wsCall' \in Calls /\ wsCall'.pc = "signals" /\ wsCall'.handle = wsCall.handle
        /\ wsCall'.asked = a /\ wsCall'.waited = w + Slice /\ wsCall'.left = l - Slice
    BY <1>1, <2>1, <2>2, <2>3 DEF Calls, a
  <2>5. At' = At /\ wsConn' = wsConn
    BY <1>2, <2>4 DEF server, wsHeap, At, Ws
  <2> QED BY <1>2, <2>3, <2>4, <2>5 DEF CallInv, Waiting, WaitsExactly
<1> QED BY <1>4, <1>5

LEMMA SliceKeepsSignal ==
  ASSUME CallInv, SignalInv, RecvTimeout \/ SliceEnds
  PROVE  SignalInv'
<1>1. wsCall.pc = "core" /\ signal' = Aged(Wait) /\ wsCall.left \in Nat /\ Slice \in Nat
  BY DEF RecvTimeout, SliceEnds, InCore, CallInv, Calls
<1>2. wsCall'.pc \in {"timeout", "signals"}
  BY DEF RecvTimeout, SliceEnds, CallInv, Calls
<1>3. Wait \in Nat /\ Wait <= Slice
  BY <1>1 DEF Wait
<1>4. signal \in [pending : BOOLEAN, since : Nat] /\ signal.since = 0
  BY <1>1 DEF SignalInv
<1>5. CASE signal.pending
  <2>1. signal' = [signal EXCEPT !.since = @ + Wait]
    BY <1>1, <1>5 DEF Aged
  <2>2. /\ signal' \in [pending : BOOLEAN, since : Nat] /\ signal'.since = Wait
        /\ signal'.pending = signal.pending
    BY <1>3, <1>4, <2>1
  <2> QED BY <1>2, <1>3, <1>5, <2>2 DEF SignalInv
<1>6. CASE ~signal.pending
  BY <1>1, <1>2, <1>4, <1>6 DEF Aged, SignalInv
<1> QED BY <1>5, <1>6

LEMMA GoOnKeepsCall ==
  ASSUME CallInv, wsCall.pc = "signals", GoOn, UNCHANGED wsHeld
  PROVE  CallInv' /\ wsCall'.pc = "core"
<1>1. /\ wsCall' \in Calls /\ wsCall'.pc = "core" /\ wsCall'.handle = wsCall.handle
      /\ wsCall'.asked = wsCall.asked /\ wsCall'.left = wsCall.left /\ wsCall'.waited = wsCall.waited
  BY DEF GoOn, CallInv, Calls
<1> QED BY <1>1 DEF CallInv, Waiting, WaitsExactly

\* The core is called with NULL after a signal handler has closed the handle.
LEMMA CrashKeepsCall ==
  ASSUME CallInv, CoreCrashes
  PROVE  CallInv'
<1>1. /\ wsCall' \in Calls /\ wsCall'.pc = "crashed" /\ wsCall'.handle = wsCall.handle
      /\ wsCall.pc = "core" /\ wsHeld' = wsHeld
  BY DEF CoreCrashes, InCore, CallInv, Calls
<1> QED BY <1>1 DEF CallInv, Waiting, WaitsExactly

\* What others do leaves the connection of the receive alone.
LEMMA SameCall ==
  ASSUME CallInv, UNCHANGED <<wsCall, wsHeld>>,
         wsCall.pc # "idle" => At' = At /\ (At # "null" => wsConn'[At] = wsConn[At])
  PROVE  CallInv'
BY DEF CallInv, Waiting, WaitsExactly

LEMMA QuietSignal ==
  ASSUME SignalInv, UNCHANGED signal, wsCall'.pc = "core" => wsCall.pc = "core" \/ ~signal.pending
  PROVE  SignalInv'
BY DEF SignalInv

LEMMA NoSignalIs == signal' = NoSignal => SignalInv'
<1> SUFFICES ASSUME signal' = NoSignal PROVE SignalInv'
  OBVIOUS
<1>1. signal'.since = 0 /\ signal'.pending = FALSE /\ signal' \in [pending : BOOLEAN, since : Nat]
  BY DEF NoSignal
<1> QED BY <1>1 DEF SignalInv

-----------------------------------------------------------------------------
(***************************************************************************)
(* The invariant is one.                                                   *)
(***************************************************************************)
LEMMA InitInv == WsInit => Inv
<1> SUFFICES ASSUME WsInit PROVE Inv
  OBVIOUS
<1>1. /\ \A c \in WsConns : wsConn[c] = "unused" /\ inbox[c] = 0 /\ taken[c] = 0
      /\ \A h \in WsHandles : wsBlob[h] = "unused" /\ owner[h] = "none" /\ told[h] = <<>>
      /\ DOMAIN told = WsHandles /\ wsHeld = {}
  BY DEF WsInit
<1>2. HeapTypes
  BY DEF WsInit, HeapTypes, States
<1>3. \A h \in WsHandles : ~Live(h)
  BY <1>1 DEF Live
<1>4. HeapInv
  <2>1. \A h \in WsHandles : Proper(h)
    BY <1>1, <1>3 DEF Proper
  <2>2. \A c \in WsConns : ConnExact(c)
    BY <1>1, <1>3 DEF ConnExact, Reached, Open2
  <2> QED BY <1>1, <1>2, <1>3, <2>1, <2>2 DEF HeapInv, Apart
<1>5. ToldInv
  <2>1. <<>> \in Seq(Nat)
    OBVIOUS
  <2>2. \A h \in WsHandles : ToldOf(h)
    BY <1>1, <2>1 DEF ToldOf
  <2>3. inbox \in [WsConns -> 0..MaxMsgs] /\ taken \in [WsConns -> 0..MaxMsgs]
    BY DEF WsInit
  <2> QED BY <1>1, <2>2, <2>3 DEF ToldInv
<1>6. CallInv
  <2>1. wsCall.pc = "idle" /\ wsCall \in Calls
    BY DEF WsInit, WsIdle, Calls
  <2> QED BY <2>1 DEF CallInv, Waiting, WaitsExactly
<1>7. SignalInv
  <2>1. signal.since = 0 /\ signal.pending = FALSE /\ signal \in [pending : BOOLEAN, since : Nat]
    BY DEF WsInit, NoSignal
  <2> QED BY <2>1 DEF SignalInv
<1> QED BY <1>4, <1>5, <1>6, <1>7 DEF Inv

\* A step of the program between two receives.
LEMMA ProgramKeepsInv ==
  ASSUME Inv, WsIsIdle, ~signal.pending, Program
  PROVE  Inv'
<1>1. HeapInv /\ ToldInv /\ CallInv /\ SignalInv
  BY DEF Inv
<1>2. CASE Open
  <2>1. UNCHANGED <<wsCall, signal>>
    BY <1>2 DEF Open
  <2> QED BY <1>1, <1>2, <2>1, OpenKeepsHeap, OpenKeepsTold, IdleKeepsCall, QuietSignal DEF Inv
<1>3. CASE OpenNoMemory
  <2>1. PICK c \in WsConns : wsConn[c] = "unused" /\ wsConn' = [wsConn EXCEPT ![c] = "freed"]
    BY <1>3 DEF OpenNoMemory
  <2>2. UNCHANGED <<inbox, taken, wsHeap, owner, wsHeld, wsCall, signal, told>>
    BY <1>3 DEF OpenNoMemory, wsHeap
  <2>3. wsConn[c] \notin Open2 /\ "freed" \notin Open2 /\ "freed" \in States \ {"unused", "twice"}
    BY <2>1 DEF Open2, States
  <2>4. HeapInv'
    BY <1>1, <2>1, <2>2, <2>3, ConnKeepsHeap
  <2>5. \A d \in WsConns : wsConn'[d] = "unused" => wsConn[d] = "unused"
    BY <1>1, <2>1 DEF HeapInv, HeapTypes
  <2> QED BY <1>1, <2>2, <2>4, <2>5, SameTold, IdleKeepsCall, QuietSignal DEF Inv
<1>4. CASE Errs \/ \E h \in WsHandles : Stale(h) \/ Send(h) \/ WsForget(h)
  <2>1. UNCHANGED <<wsConn, inbox, taken, wsHeap, owner, wsCall, signal, told>> /\ wsHeld' \subseteq wsHeld
    BY <1>4 DEF Errs, Stale, Send, WsForget, Answer, server, wsHeap
  <2>2. HeapInv'
    BY <1>1, <2>1, SameHeap
  <2> QED BY <1>1, <2>1, <2>2, SameTold, IdleKeepsCall, QuietSignal DEF Inv
<1>5. ASSUME NEW h \in WsHandles, SendFails(h) PROVE Inv'
  <2>1. /\ h \in wsHeld /\ Ws(h) # "null"
        /\ wsConn' = [wsConn EXCEPT ![Ws(h)] = IF @ = "usable" THEN "unusable" ELSE @]
        /\ UNCHANGED <<inbox, taken, wsHeap, owner, wsHeld, wsCall, signal, told>>
    BY <1>5 DEF SendFails, Usable, wsHeap
  <2>2. Ws(h) \in WsConns /\ wsConn[Ws(h)] \in Open2
    BY <1>1, <2>1, LiveFacts DEF HeapInv, Proper
  <2>3. wsConn' = [wsConn EXCEPT ![Ws(h)] = "unusable"]
    BY <2>1, <2>2 DEF Open2
  <2>4. "unusable" \in Open2 /\ "unusable" \in States \ {"unused", "twice"}
    BY DEF Open2, States
  <2>5. HeapInv'
    BY <1>1, <2>1, <2>2, <2>3, <2>4, ConnKeepsHeap
  <2>6. \A d \in WsConns : wsConn'[d] = "unused" => wsConn[d] = "unused"
    BY <1>1, <2>2, <2>3 DEF HeapInv, HeapTypes
  <2> QED BY <1>1, <2>1, <2>5, <2>6, SameTold, IdleKeepsCall, QuietSignal DEF Inv
<1>6. ASSUME NEW h \in WsHandles, Close(h) PROVE Inv'
  <2>1. /\ h \in wsHeld /\ Ws(h) # "null" /\ FreeConn(Ws(h)) /\ wsMem' = [wsMem EXCEPT ![wsBlob[h]] = "null"]
        /\ UNCHANGED <<inbox, taken, wsAlloc, wsBlob, owner, wsHeld, wsCall, signal, told>>
    BY <1>6 DEF Close, Usable
  <2>2. HeapInv'
    BY <1>1, <2>1, CloseKeepsHeap
  <2>3. \A d \in WsConns : wsConn'[d] = "unused" => wsConn[d] = "unused"
    BY <1>1, <2>1 DEF FreeConn, Freed, HeapInv, HeapTypes
  <2> QED BY <1>1, <2>1, <2>2, <2>3, SameTold, IdleKeepsCall, QuietSignal DEF Inv
<1>7. ASSUME NEW h \in WsHandles, Recv(h) PROVE Inv'
  <2>1. UNCHANGED <<wsConn, inbox, taken, wsHeap, owner, wsHeld, signal, told>>
    BY <1>7 DEF Recv, server, wsHeap
  <2>2. HeapInv'
    BY <1>1, <2>1, SameHeap
  <2> QED BY <1>1, <1>7, <2>1, <2>2, SameTold, RecvKeepsCall, QuietSignal DEF Inv
<1> QED BY <1>2, <1>3, <1>4, <1>5, <1>6, <1>7 DEF Program

\* A step of a receive, with what a signal handler does in it.
LEMMA ReceiveKeepsInv ==
  ASSUME Inv, Receive
  PROVE  Inv'
<1>1. HeapInv /\ ToldInv /\ CallInv /\ SignalInv
  BY DEF Inv
<1>2. CASE CoreCrashes \/ RecvEnded \/ Returned \/ RecvTimeout \/ SliceEnds
  <2>1. UNCHANGED <<wsConn, inbox, taken, wsHeap, owner, wsHeld, told>>
    BY <1>2 DEF CoreCrashes, RecvEnded, Returned, RecvTimeout, SliceEnds, server, wsHeap
  <2>2. HeapInv'
    BY <1>1, <2>1, SameHeap
  <2>3. ToldInv'
    BY <1>1, <2>1, SameTold
  <2>4. CASE RecvTimeout \/ SliceEnds
    BY <1>1, <2>2, <2>3, <2>4, SliceKeepsCall, SliceKeepsSignal DEF Inv
  <2>5. CASE CoreCrashes
    <3>1. UNCHANGED signal /\ wsCall.pc = "core"
      BY <2>5 DEF CoreCrashes, InCore
    <3> QED BY <1>1, <2>2, <2>3, <2>5, <3>1, CrashKeepsCall, QuietSignal DEF Inv
  <2>6. CASE RecvEnded \/ Returned
    <3>1. UNCHANGED signal /\ wsCall' = WsIdle /\ wsCall'.pc = "idle"
      BY <2>6 DEF RecvEnded, Returned, WsIdle
    <3> QED BY <1>1, <2>2, <2>3, <3>1, ReturnKeepsCall, QuietSignal DEF Inv
  <2> QED BY <1>2, <2>4, <2>5, <2>6
<1>3. CASE RecvMessage
  <2>1. /\ wsCall.pc = "core" /\ At # "null" /\ taken[At] < inbox[At] /\ Given
        /\ wsCall' = WsIdle /\ wsCall'.pc = "idle" /\ UNCHANGED <<wsConn, inbox, wsHeap, owner, wsHeld, signal>>
    BY <1>3 DEF RecvMessage, InCore, wsHeap, WsIdle
  <2>2. HeapInv'
    BY <1>1, <2>1, SameHeap
  <2>3. ToldInv'
    BY <1>1, <2>1, GivenKeepsTold DEF CallInv
  <2> QED BY <1>1, <2>1, <2>2, <2>3, ReturnKeepsCall, QuietSignal DEF Inv
<1>4. CASE RecvEnds
  <2>1. /\ wsCall.pc = "core" /\ At # "null" /\ wsConn' = [wsConn EXCEPT ![At] = "unusable"]
        /\ wsCall' = WsIdle /\ wsCall'.pc = "idle"
        /\ UNCHANGED <<inbox, taken, wsHeap, owner, wsHeld, signal, told>>
    BY <1>4 DEF RecvEnds, InCore, wsHeap, WsIdle
  <2>2. At \in WsConns /\ wsConn[At] \in Open2
    BY <1>1, <2>1, Receives
  <2>3. "unusable" \in Open2 /\ "unusable" \in States \ {"unused", "twice"}
    BY DEF Open2, States
  <2>4. HeapInv'
    BY <1>1, <2>1, <2>2, <2>3, ConnKeepsHeap
  <2>5. \A d \in WsConns : wsConn'[d] = "unused" => wsConn[d] = "unused"
    BY <1>1, <2>1, <2>2 DEF HeapInv, HeapTypes
  <2> QED BY <1>1, <2>1, <2>4, <2>5, SameTold, ReturnKeepsCall, QuietSignal DEF Inv
<1>5. CASE HandleSignals
  <2>1. wsCall.pc = "signals" /\ UNCHANGED wsHeld /\ At # "null" /\ wsCall.handle \in wsHeld
    BY <1>1, <1>5 DEF HandleSignals, CallInv
  <2>2. CASE ~signal.pending
    <3>1. GoOn /\ UNCHANGED <<wsConn, inbox, taken, wsHeap, owner, wsHeld, signal, told>>
      BY <1>5, <2>1, <2>2 DEF HandleSignals, server, wsHeap
    <3>2. HeapInv' /\ ToldInv'
      BY <1>1, <3>1, SameHeap, SameTold
    <3>3. CallInv' /\ SignalInv'
      BY <1>1, <2>1, <2>2, <3>1, GoOnKeepsCall, QuietSignal
    <3> QED BY <3>2, <3>3 DEF Inv
  <2>3. CASE signal.pending
    <3>1. signal' = NoSignal /\ SignalInv'
      BY <1>5, <2>3, NoSignalIs DEF HandleSignals
    <3>2. CASE GoOn /\ UNCHANGED <<server, wsHeap, wsReply, told>>
      <4>1. UNCHANGED <<wsConn, inbox, taken, wsHeap, owner, told>>
        BY <3>2 DEF server, wsHeap
      <4> QED BY <1>1, <2>1, <3>1, <3>2, <4>1, SameHeap, SameTold, GoOnKeepsCall DEF Inv
    <3>3. CASE wsCall' = WsIdle /\ UNCHANGED <<server, wsHeap, told>>
      <4>1. UNCHANGED <<wsConn, inbox, taken, wsHeap, owner, told>>
        BY <3>3 DEF server, wsHeap
      <4> QED BY <1>1, <2>1, <3>1, <3>3, <4>1, SameHeap, SameTold, ReturnKeepsCall DEF Inv
    <3>4. CASE /\ FreeConn(At) /\ wsMem' = [wsMem EXCEPT ![wsBlob[wsCall.handle]] = "null"]
               /\ GoOn /\ UNCHANGED <<inbox, taken, wsAlloc, wsBlob, owner, told>>
      <4>1. At = Ws(wsCall.handle)
        BY DEF At
      <4>2. HeapInv'
        BY <1>1, <2>1, <3>4, <4>1, CloseKeepsHeap
      <4>3. \A d \in WsConns : wsConn'[d] = "unused" => wsConn[d] = "unused"
        BY <1>1, <3>4 DEF FreeConn, Freed, HeapInv, HeapTypes
      <4> QED BY <1>1, <2>1, <3>1, <3>4, <4>2, <4>3, SameTold, GoOnKeepsCall DEF Inv
    <3>5. CASE /\ taken[At] < inbox[At] /\ Given /\ GoOn /\ UNCHANGED <<wsConn, inbox, wsHeap>>
      <4>1. UNCHANGED owner
        BY <3>5 DEF wsHeap
      <4> QED BY <1>1, <2>1, <3>1, <3>5, <4>1, SameHeap, GivenKeepsTold, GoOnKeepsCall DEF Inv
    <3> QED BY <1>5, <2>3, <3>2, <3>3, <3>4, <3>5 DEF HandleSignals
  <2> QED BY <2>2, <2>3
<1> QED BY <1>2, <1>3, <1>4, <1>5 DEF Receive

\* The collector frees what the receive does not use: another handle's.
LEMMA ReleasesOther ==
  ASSUME Inv, NEW h \in WsHandles, WsRelease(h), wsCall.pc # "idle"
  PROVE  At' = At /\ (At # "null" => wsConn'[At] = wsConn[At])
<1> DEFINE g == wsCall.handle
<1>1. HeapInv /\ CallInv
  BY DEF Inv
<1>2. /\ Live(h) /\ h \notin wsHeld /\ FreeConn(Ws(h)) /\ wsBlob' = [wsBlob EXCEPT ![h] = "released"]
      /\ UNCHANGED <<wsMem, wsCall>>
  BY DEF WsRelease, Live
<1>3. g \in WsHandles \ {h} /\ Live(g) /\ (At # "null" => At \in WsConns)
  BY <1>1, <1>2, Receives
<1>4. wsBlob'[g] = wsBlob[g]
  BY <1>1, <1>2, <1>3 DEF HeapInv, HeapTypes
<1>5. At' = At
  BY <1>2, <1>4 DEF At, Ws
<1>6. Ws(h) # "null" => Ws(g) # Ws(h)
  BY <1>1, <1>2, <1>3, OthersApart
<1>7. At # "null" => wsConn'[At] = wsConn[At]
  BY <1>1, <1>2, <1>3, <1>6 DEF FreeConn, At, HeapInv, HeapTypes
<1> QED BY <1>5, <1>7

LEMMA ReleaseKeepsInv ==
  ASSUME Inv, NEW h \in WsHandles, WsRelease(h)
  PROVE  Inv'
<1>1. HeapInv /\ ToldInv /\ CallInv /\ SignalInv
  BY DEF Inv
<1>2. /\ Live(h) /\ h \notin wsHeld /\ FreeConn(Ws(h)) /\ wsBlob' = [wsBlob EXCEPT ![h] = "released"]
      /\ UNCHANGED <<inbox, taken, wsMem, owner, wsHeld, wsCall, signal, told>>
  BY DEF WsRelease, Live
<1>3. HeapInv'
  BY <1>1, ReleaseKeepsHeap
<1>4. \A d \in WsConns : wsConn'[d] = "unused" => wsConn[d] = "unused"
  BY <1>1, <1>2 DEF FreeConn, Freed, HeapInv, HeapTypes
<1> QED BY <1>1, <1>2, <1>3, <1>4, ReleasesOther, SameTold, SameCall, QuietSignal DEF Inv

LEMMA NextInv == Inv /\ [WsNext]_wsVars => Inv'
<1> SUFFICES ASSUME Inv, [WsNext]_wsVars PROVE Inv'
  OBVIOUS
<1>1. HeapInv /\ ToldInv /\ CallInv /\ SignalInv
  BY DEF Inv
<1>2. CASE ~(WsIsIdle /\ signal.pending) /\ Program
  <2>1. WsIsIdle
    BY <1>2 DEF Program, Open, OpenNoMemory, Errs, Stale, Send, SendFails, Close, Recv, WsForget, Usable
  <2> QED BY <1>2, <2>1, ProgramKeepsInv
<1>3. CASE Receive
  BY <1>3, ReceiveKeepsInv
<1>4. CASE Signal \/ HandledByProlog \/ (UNCHANGED wsVars) \/ \E c \in WsConns : ServerSends(c)
  <2>1. UNCHANGED <<wsConn, taken, wsHeap, owner, wsHeld, wsCall, told>>
    BY <1>4 DEF Signal, HandledByProlog, ServerSends, wsVars, server, wsHeap
  <2>2. HeapInv'
    BY <1>1, <2>1, SameHeap
  <2>3. ToldInv'
    <3>1. CASE UNCHANGED inbox
      BY <1>1, <2>1, <3>1, SameTold
    <3>2. CASE \E c \in WsConns : ServerSends(c)
      BY <1>1, <3>2, ServerKeepsTold
    <3> QED BY <1>4, <3>1, <3>2 DEF Signal, HandledByProlog, server, wsVars
  <2>4. CallInv'
    <3>1. At' = At
      BY <2>1 DEF At, Ws, wsHeap
    <3> QED BY <1>1, <2>1, <3>1, SameCall
  <2>5. SignalInv'
    <3>1. CASE Signal
      <4>1. signal' \in [pending : BOOLEAN, since : Nat] /\ signal'.since = 0
        BY <3>1 DEF Signal
      <4> QED BY <4>1 DEF SignalInv
    <3>2. CASE HandledByProlog
      BY <3>2, NoSignalIs DEF HandledByProlog
    <3>3. CASE UNCHANGED signal
      BY <1>1, <2>1, <3>3, QuietSignal
    <3> QED BY <1>4, <3>1, <3>2, <3>3 DEF ServerSends, wsVars
  <2> QED BY <2>2, <2>3, <2>4, <2>5 DEF Inv
<1>5. ASSUME NEW h \in WsHandles, WsRelease(h) PROVE Inv'
  BY <1>5, ReleaseKeepsInv
<1> QED BY <1>2, <1>3, <1>4, <1>5 DEF WsNext

LEMMA InvCorrect == WsSpec => []Inv
BY InitInv, NextInv, PTL DEF WsSpec

-----------------------------------------------------------------------------
\* What the program can name is not freed and nothing is freed twice, be the
\* collector as early or late as it may (release_curl_websocket, swi_curl_ws_close).
THEOREM HandlesSafeCorrect == WsSpec => []HandlesSafe
<1>1. Inv => HandlesSafe
  <2> SUFFICES ASSUME Inv PROVE HandlesSafe
    OBVIOUS
  <2>1. HeapInv
    BY DEF Inv
  <2>2. ASSUME NEW h \in wsHeld PROVE wsBlob[h] \in wsAlloc
    BY <2>1, <2>2, LiveFacts DEF HeapInv, HeapTypes, Proper
  <2>3. ASSUME NEW h \in WsHandles, wsBlob[h] \in wsAlloc, Ws(h) # "null"
        PROVE  wsConn[Ws(h)] \in {"usable", "unusable"}
    BY <2>1, <2>3, LiveFacts DEF HeapInv, HeapTypes, Live, Open2
  <2>4. ASSUME NEW c \in WsConns
        PROVE  /\ wsConn[c] # "twice"
               /\ wsConn[c] \in {"usable", "unusable"} =>
                    \E h \in WsHandles : wsBlob[h] \in wsAlloc /\ Ws(h) = c
    BY <2>1, LiveFacts DEF HeapInv, ConnExact, Reached, Open2
  <2> QED BY <2>2, <2>3, <2>4 DEF HandlesSafe
<1> QED BY <1>1, InvCorrect, PTL

\* Each message the core hands over is answered once and in order
\* (swi_curl_ws_recv), also when a signal handler receives in between.
THEOREM NoMessageLostCorrect == WsSpec => []NoMessageLost
<1>1. Inv => NoMessageLost
  BY DEF Inv, ToldInv, ToldOf, NoMessageLost
<1> QED BY <1>1, InvCorrect, PTL

\* However the timeout divides into slices, timeout is answered after all of it
\* (swi_curl_ws_recv).
THEOREM WaitsExactlyCorrect == WsSpec => []WaitsExactly
<1>1. Inv => WaitsExactly
  BY DEF Inv, CallInv
<1> QED BY <1>1, InvCorrect, PTL

\* However long the receive, a signal waits for a slice at most (swi_curl_ws_recv).
THEOREM SignalsHandledCorrect == WsSpec => []SignalsHandled
<1>1. Inv => SignalsHandled
  BY DEF Inv, SignalInv, SignalsHandled
<1> QED BY <1>1, InvCorrect, PTL

-----------------------------------------------------------------------------
(***************************************************************************)
(* What the core is called with, if no signal handler closes the handle a  *)
(* receive is on: what swi_curl_ws_recv checked before its loop still      *)
(* holds in each slice, whatever the other handlers, the rest of the       *)
(* program and the collector do in between.                                *)
(***************************************************************************)
CoreInv == CloseDetected /\ (InCore => At # "null")

\* A step that leaves the structure of the receive alone.
LEMMA SameCore ==
  ASSUME CoreInv, UNCHANGED wsCall, wsCall.pc # "idle" => At' = At
  PROVE  CoreInv'
BY DEF CoreInv, CloseDetected, InCore

\* A step after which the core is not waiting.
LEMMA LeavesCore ==
  ASSUME wsCall'.pc \notin {"core", "crashed"}
  PROVE  CoreInv'
BY DEF CoreInv, CloseDetected, InCore

LEMMA ProgramKeepsCore ==
  ASSUME Inv, CoreInv, Program
  PROVE  CoreInv'
<1>1. wsCall.pc = "idle" /\ CallInv
  BY DEF Program, Open, OpenNoMemory, Errs, Stale, Send, SendFails, Close, Recv, WsForget, Usable,
         WsIsIdle, Inv
<1>2. CASE UNCHANGED wsCall
  BY <1>1, <1>2, SameCore
<1>3. ASSUME NEW h \in WsHandles, Recv(h) PROVE CoreInv'
  <2>1. Ws(h) # "null" /\ wsCall'.pc = "core" /\ wsCall'.handle = h /\ UNCHANGED wsHeap
    BY <1>3 DEF Recv, Usable
  <2>2. At' = Ws(h)
    BY <2>1 DEF At, Ws, wsHeap
  <2> QED BY <2>1, <2>2 DEF CoreInv, CloseDetected
<1> QED BY <1>2, <1>3 DEF Program, Open, OpenNoMemory, Errs, Stale, Send, SendFails, Close, WsForget,
                          Answer

LEMMA ReceiveKeepsCore ==
  ASSUME Inv, CoreInv, Receive, "close" \notin Handlers
  PROVE  CoreInv'
<1>1. CallInv /\ wsCall \in Calls
  BY DEF Inv, CallInv
<1>2. CASE CoreCrashes
  BY <1>2 DEF CoreCrashes, CoreInv
<1>3. CASE RecvMessage \/ RecvEnds \/ RecvEnded \/ RecvTimeout \/ Returned \/ SliceEnds
  <2>1. \/ wsCall' = WsIdle
        \/ wsCall' = [wsCall EXCEPT !.pc = "timeout", !.waited = @ + Wait]
        \/ wsCall' = [wsCall EXCEPT !.pc = "signals", !.left = @ - Slice, !.waited = @ + Wait]
    BY <1>3 DEF RecvMessage, RecvEnds, RecvEnded, RecvTimeout, Returned, SliceEnds
  <2>2. wsCall'.pc \in {"idle", "timeout", "signals"}
    <3>1. CASE wsCall' = WsIdle
      BY <3>1 DEF WsIdle
    <3>2. CASE wsCall' = [wsCall EXCEPT !.pc = "timeout", !.waited = @ + Wait]
      BY <1>1, <3>2 DEF Calls
    <3>3. CASE wsCall' = [wsCall EXCEPT !.pc = "signals", !.left = @ - Slice, !.waited = @ + Wait]
      BY <1>1, <3>3 DEF Calls
    <3> QED BY <2>1, <3>1, <3>2, <3>3
  <2> QED BY <2>2, LeavesCore
<1>4. CASE HandleSignals
  <2>1. At # "null"
    BY <1>1, <1>4 DEF HandleSignals, CallInv
  <2>2. CASE wsCall' = WsIdle
    BY <2>2, LeavesCore DEF WsIdle
  <2>3. CASE GoOn /\ UNCHANGED wsHeap
    <3>1. wsCall'.pc = "core" /\ wsCall'.handle = wsCall.handle
      BY <1>1, <2>3 DEF GoOn, Calls
    <3>2. At' = At
      BY <2>3, <3>1 DEF At, Ws, wsHeap
    <3> QED BY <2>1, <3>1, <3>2 DEF CoreInv, CloseDetected
  <2> QED BY <1>4, <2>2, <2>3 DEF HandleSignals
<1> QED BY <1>2, <1>3, <1>4 DEF Receive

\* The core is never called without a connection, for any timeouts and any timing of
\* signals, messages and the collector, if no handler closes the handle of the receive
\* it interrupts; with one that does, the run ws_swi_signal finds the call with NULL
\* (swi_curl_ws_recv takes h->ws anew in each slice).
THEOREM CloseDetectedCorrect ==
  ASSUME "close" \notin Handlers
  PROVE  WsSpec => []CloseDetected
<1>1. WsInit => CoreInv
  BY LeavesCore DEF WsInit, WsIdle, CoreInv, CloseDetected, InCore
<1>2. Inv /\ CoreInv /\ [WsNext]_wsVars => CoreInv'
  <2> SUFFICES ASSUME Inv, CoreInv, [WsNext]_wsVars PROVE CoreInv'
    OBVIOUS
  <2>1. CASE Program
    BY <2>1, ProgramKeepsCore
  <2>2. CASE Receive
    BY <2>2, ReceiveKeepsCore
  <2>3. CASE Signal \/ HandledByProlog \/ (UNCHANGED wsVars) \/ \E c \in WsConns : ServerSends(c)
    <3>1. UNCHANGED <<wsCall, wsBlob, wsMem>>
      BY <2>3 DEF Signal, HandledByProlog, ServerSends, wsVars, server, wsHeap
    <3>2. At' = At
      BY <3>1 DEF At, Ws
    <3> QED BY <3>1, <3>2, SameCore
  <2>4. ASSUME NEW h \in WsHandles, WsRelease(h) PROVE CoreInv'
    <3>1. UNCHANGED wsCall
      BY <2>4 DEF WsRelease
    <3> QED BY <2>4, <3>1, ReleasesOther, SameCore
  <2> QED BY <2>1, <2>2, <2>3, <2>4 DEF WsNext
<1>3. CoreInv => CloseDetected
  BY DEF CoreInv
<1> QED BY <1>1, <1>2, <1>3, InvCorrect, PTL DEF WsSpec

-----------------------------------------------------------------------------
(***************************************************************************)
(* The contract.  owner, StateOf and taken are what a program sees of the  *)
(* handles and the connections; every step of the bridge is one of the     *)
(* contract's, or nothing of it is seen.                                   *)
(***************************************************************************)
Kept == [WsPromise!Next]_(WsPromise!vars)

\* What a connection is seen as after it has changed.
LEMMA StateSeen ==
  ASSUME HeapInv, NEW c \in WsConns, NEW s \in States, wsConn' = [wsConn EXCEPT ![c] = s]
  PROVE  WsStateOf' = [WsStateOf EXCEPT ![c] = CASE s = "unused"   -> "unused"
                                             [] s = "usable"   -> "open"
                                             [] s = "unusable" -> "ended"
                                             [] OTHER          -> "closed"]
<1>1. wsConn' \in [WsConns -> States] /\ wsConn'[c] = s /\ \A d \in WsConns \ {c} : wsConn'[d] = wsConn[d]
  BY DEF HeapInv, HeapTypes
<1> QED BY <1>1 DEF WsStateOf

\* A handle that has a connection is open, or its connection has ended; one that has
\* none is closed.
LEMMA Seen ==
  ASSUME HeapInv, NEW h \in WsHandles, Live(h)
  PROVE  /\ Ws(h) # "null" => /\ Ws(h) = owner[h] /\ Ws(h) \in WsConns
                              /\ WsPromise!Is(h, {"open", "ended"})
                              /\ wsConn[Ws(h)] = "usable" => WsPromise!Is(h, {"open"})
         /\ Ws(h) = "null" => WsPromise!Is(h, {"closed"})
<1>1. owner[h] \in WsConns /\ Ws(h) \in {owner[h], "null"}
  BY LiveFacts
<1>2. CASE Ws(h) # "null"
  <2>1. Ws(h) = owner[h] /\ Ws(h) \in WsConns /\ wsConn[Ws(h)] \in Open2
    BY <1>2, LiveFacts
  <2>2. /\ WsStateOf[owner[h]] \in {"open", "ended"}
        /\ wsConn[owner[h]] = "usable" => WsStateOf[owner[h]] = "open"
    BY <2>1 DEF WsStateOf, Open2
  <2> QED BY <1>1, <1>2, <2>1, <2>2 DEF WsPromise!Is
<1>3. CASE Ws(h) = "null"
  <2>1. ~Reached(owner[h])
    <3>1. \A g \in WsHandles : g # h /\ Live(g) => Ws(g) # owner[h]
      BY <1>1, LiveFacts, SwiAssumption DEF HeapInv, Apart
    <3>2. Ws(h) # owner[h]
      BY <1>1, <1>3, SwiAssumption
    <3> QED BY <3>1, <3>2 DEF Reached
  <2>2. wsConn[owner[h]] # "unused"
    BY DEF HeapInv, Proper, Live
  <2>3. wsConn[owner[h]] = "freed"
    BY <1>1, <2>1, <2>2 DEF HeapInv, HeapTypes, ConnExact, Open2, States
  <2>4. WsStateOf[owner[h]] = "closed"
    BY <1>1, <2>3 DEF WsStateOf
  <2> QED BY <1>1, <1>3, <2>4 DEF WsPromise!Is
<1> QED BY <1>2, <1>3

\* A program is told that a call has failed.
LEMMA FailedSeen ==
  ASSUME UNCHANGED <<wsConn, owner, taken>>, wsReply' \in {<<"error">>, <<"false">>}
  PROVE  Kept
<1>1. UNCHANGED WsStateOf
  BY DEF WsStateOf
<1>2. WsPromise!Failed
  BY <1>1 DEF WsPromise!Failed, WsPromise!NoAnswer
<1> QED BY <1>2 DEF WsPromise!Next, Kept

LEMMA SilentSeen ==
  ASSUME UNCHANGED <<wsConn, owner, taken, wsReply>>
  PROVE  Kept
BY DEF WsStateOf, WsPromise!vars, Kept

LEMMA OpenSeen ==
  ASSUME HeapInv, Open
  PROVE  Kept
<1>1. PICK c \in WsConns, h \in WsHandles :
        /\ wsConn[c] = "unused" /\ wsBlob[h] = "unused"
        /\ wsConn' = [wsConn EXCEPT ![c] = "usable"] /\ owner' = [owner EXCEPT ![h] = c]
        /\ wsReply' = <<"opened", h>> \/ wsReply' = <<"false">>
        /\ UNCHANGED taken
  BY DEF Open
<1>2. owner[h] = "none"
  BY <1>1 DEF HeapInv, Proper
<1>3. WsStateOf[c] = "unused" /\ WsStateOf' = [WsStateOf EXCEPT ![c] = "open"]
  BY <1>1, StateSeen DEF WsStateOf, States
<1>4. WsPromise!Open(h, c)
  BY <1>1, <1>2, <1>3 DEF WsPromise!Open, WsPromise!NoAnswer
<1> QED BY <1>4 DEF WsPromise!Next, Kept

\* What a close, a send or a receive does to the connection of a handle.
LEMMA EndsSeen ==
  ASSUME HeapInv, NEW h \in WsHandles, Live(h), Ws(h) # "null", wsConn[Ws(h)] = "usable",
         wsConn' = [wsConn EXCEPT ![Ws(h)] = "unusable"], UNCHANGED <<owner, taken>>,
         wsReply' \in {<<"end", Ws(h)>>, <<"false">>, <<"error">>}
  PROVE  Kept
<1>1. WsPromise!Is(h, {"open"}) /\ Ws(h) = owner[h] /\ Ws(h) \in WsConns
  BY Seen
<1>2. WsStateOf' = [WsStateOf EXCEPT ![owner[h]] = "ended"]
  BY <1>1, StateSeen DEF States
<1>3. WsPromise!Ends(h)
  BY <1>1, <1>2 DEF WsPromise!Ends, WsPromise!NoAnswer
<1> QED BY <1>3 DEF WsPromise!Next, Kept

LEMMA CloseSeen ==
  ASSUME HeapInv, NEW h \in WsHandles, Live(h), Ws(h) # "null", FreeConn(Ws(h)),
         UNCHANGED <<owner, taken>>, wsReply' = <<"closed", h>>
  PROVE  Kept
<1>1. WsPromise!Is(h, {"open", "ended"}) /\ Ws(h) = owner[h] /\ Ws(h) \in WsConns
  BY Seen
<1>2. wsConn' = [wsConn EXCEPT ![Ws(h)] = "freed"]
  BY LiveFacts DEF FreeConn, Freed, Open2
<1>3. WsStateOf' = [WsStateOf EXCEPT ![owner[h]] = "closed"]
  BY <1>1, <1>2, StateSeen DEF States
<1>4. WsPromise!Close(h)
  BY <1>1, <1>3 DEF WsPromise!Close
<1> QED BY <1>4 DEF WsPromise!Next, Kept

LEMMA GivenSeen ==
  ASSUME HeapInv, CallInv, wsCall.pc # "idle", At # "null", wsConn[At] = "usable", Given,
         UNCHANGED <<wsConn, owner>>
  PROVE  Kept
<1> DEFINE h == wsCall.handle
           c == At
<1>1. h \in WsHandles /\ Live(h) /\ c = Ws(h)
  BY Receives DEF At
<1>2. taken' = [taken EXCEPT ![c] = @ + 1]
      /\ wsReply' \in {<<"message", c, taken[c] + 1>>, <<"false">>, <<"error">>}
  BY DEF Given
<1> HIDE DEF h
<1>3. WsPromise!Is(h, {"open"}) /\ c = owner[h]
  BY <1>1, Seen
<1>4. UNCHANGED WsStateOf
  BY DEF WsStateOf
<1> HIDE DEF c
<1>5. WsPromise!Message(h)
  BY <1>2, <1>3, <1>4 DEF WsPromise!Message, WsPromise!NoAnswer
<1> QED BY <1>1, <1>5 DEF WsPromise!Next, Kept

LEMMA ProgramSeen ==
  ASSUME Inv, Program
  PROVE  Kept
<1>0. HeapInv /\ \A h \in wsHeld : h \in WsHandles /\ Live(h)
  BY DEF Inv, HeapInv, HeapTypes, Proper
<1>1. CASE Open
  BY <1>0, <1>1, OpenSeen
<1>2. CASE OpenNoMemory
  <2>1. PICK c \in WsConns : wsConn[c] = "unused" /\ wsConn' = [wsConn EXCEPT ![c] = "freed"]
    BY <1>2 DEF OpenNoMemory
  <2>2. WsStateOf[c] = "unused" /\ WsStateOf' = [WsStateOf EXCEPT ![c] = "closed"]
    BY <1>0, <2>1, StateSeen DEF WsStateOf, States
  <2>3. WsPromise!OpenFails
    BY <1>2, <2>2 DEF OpenNoMemory, wsHeap, WsPromise!OpenFails
  <2> QED BY <2>3 DEF WsPromise!Next, Kept
<1>3. CASE Errs
  BY <1>3, FailedSeen DEF Errs, Answer, server, wsHeap
<1>4. ASSUME NEW h \in WsHandles, Stale(h) PROVE Kept
  <2>1. WsPromise!Is(h, {"closed"}) /\ wsReply' = <<"existence", h>>
    BY <1>0, <1>4, Seen DEF Stale, Answer
  <2>2. UNCHANGED <<owner, WsStateOf, taken>>
    BY <1>4 DEF Stale, Answer, server, wsHeap, WsStateOf
  <2>3. WsPromise!Refused(h)
    BY <2>1, <2>2 DEF WsPromise!Refused
  <2> QED BY <2>3 DEF WsPromise!Next, Kept
<1>5. ASSUME NEW h \in WsHandles, Send(h) PROVE Kept
  <2>1. WsPromise!Is(h, {"open"}) /\ wsReply' = <<"sent", owner[h]>>
    BY <1>0, <1>5, Seen DEF Send, Usable, Answer
  <2>2. UNCHANGED <<owner, WsStateOf, taken>>
    BY <1>5 DEF Send, Answer, server, wsHeap, WsStateOf
  <2>3. WsPromise!Sent(h)
    BY <2>1, <2>2 DEF WsPromise!Sent
  <2> QED BY <2>3 DEF WsPromise!Next, Kept
<1>6. ASSUME NEW h \in WsHandles, SendFails(h) PROVE Kept
  <2>1. /\ Live(h) /\ Ws(h) # "null" /\ wsReply' = <<"error">>
        /\ wsConn' = [wsConn EXCEPT ![Ws(h)] = IF @ = "usable" THEN "unusable" ELSE @]
        /\ UNCHANGED <<owner, taken>>
    BY <1>0, <1>6 DEF SendFails, Usable, wsHeap
  <2>2. CASE wsConn[Ws(h)] = "usable"
    BY <1>0, <2>1, <2>2, EndsSeen
  <2>3. CASE wsConn[Ws(h)] # "usable"
    <3>1. wsConn' = wsConn
      BY <1>0, <2>1, <2>3 DEF HeapInv, HeapTypes
    <3> QED BY <2>1, <3>1, FailedSeen
  <2> QED BY <2>2, <2>3
<1>7. ASSUME NEW h \in WsHandles, Close(h) PROVE Kept
  BY <1>0, <1>7, CloseSeen DEF Close, Usable
<1>8. ASSUME NEW h \in WsHandles, Recv(h) \/ WsForget(h) PROVE Kept
  BY <1>8, SilentSeen DEF Recv, WsForget, server, wsHeap
<1> QED BY <1>1, <1>2, <1>3, <1>4, <1>5, <1>6, <1>7, <1>8 DEF Program

LEMMA ReceiveSeen ==
  ASSUME Inv, Receive
  PROVE  Kept
<1>0. HeapInv /\ CallInv
  BY DEF Inv
<1>1. ASSUME wsCall.pc # "idle"
      PROVE  wsCall.handle \in WsHandles /\ Live(wsCall.handle) /\ At = Ws(wsCall.handle)
  BY <1>0, <1>1, Receives DEF At
<1>2. CASE CoreCrashes \/ RecvTimeout \/ SliceEnds
  BY <1>2, SilentSeen DEF CoreCrashes, RecvTimeout, SliceEnds, server, wsHeap
<1>3. CASE RecvMessage
  <2>1. wsCall.pc # "idle" /\ At # "null" /\ wsConn[At] = "usable" /\ Given /\ UNCHANGED <<wsConn, owner>>
    BY <1>3 DEF RecvMessage, InCore, wsHeap
  <2> QED BY <1>0, <2>1, GivenSeen
<1>4. CASE RecvEnds
  <2>1. /\ wsCall.pc # "idle" /\ At # "null" /\ wsConn[At] = "usable"
        /\ wsConn' = [wsConn EXCEPT ![At] = "unusable"] /\ UNCHANGED <<owner, taken>>
        /\ wsReply' \in {<<"end", At>>, <<"false">>, <<"error">>}
    BY <1>4 DEF RecvEnds, InCore, wsHeap
  <2> QED BY <1>0, <1>1, <2>1, EndsSeen
<1>5. CASE RecvEnded
  BY <1>5, FailedSeen DEF RecvEnded, server, wsHeap
<1>6. CASE Returned
  <2> DEFINE h == wsCall.handle
  <2>1. wsCall.pc # "idle" /\ At # "null" /\ wsConn[At] = "usable" /\ At = Ws(h)
        /\ h \in WsHandles /\ Live(h)
    BY <1>0, <1>1, <1>6 DEF Returned, CallInv
  <2>2. wsReply' \in {<<"timeout", Ws(h)>>, <<"false">>}
    BY <1>6, <2>1 DEF Returned
  <2>3. UNCHANGED <<owner, WsStateOf, taken>>
    BY <1>6 DEF Returned, server, wsHeap, WsStateOf
  <2> HIDE DEF h
  <2>4. WsPromise!Is(h, {"open"}) /\ Ws(h) = owner[h]
    BY <1>0, <2>1, Seen
  <2>5. WsPromise!Timeout(h)
    BY <2>2, <2>3, <2>4 DEF WsPromise!Timeout, WsPromise!NoAnswer
  <2> QED BY <2>1, <2>5 DEF WsPromise!Next, Kept
<1>7. CASE HandleSignals
  <2>1. wsCall.pc # "idle" /\ At # "null" /\ wsConn[At] = "usable"
    BY <1>0, <1>7 DEF HandleSignals, CallInv
  <2>2. CASE UNCHANGED <<server, wsHeap, wsReply, told>>
    BY <2>2, SilentSeen DEF server, wsHeap
  <2>3. CASE wsReply' = <<"error">> /\ UNCHANGED <<server, wsHeap, told>>
    BY <2>3, FailedSeen DEF server, wsHeap
  <2>4. CASE FreeConn(At) /\ wsReply' = <<"closed", wsCall.handle>> /\ UNCHANGED <<taken, owner>>
    BY <1>0, <1>1, <2>1, <2>4, CloseSeen
  <2>5. CASE Given /\ UNCHANGED <<wsConn, wsHeap>>
    BY <1>0, <2>1, <2>5, GivenSeen DEF wsHeap
  <2> QED BY <1>7, <2>2, <2>3, <2>4, <2>5 DEF HandleSignals
<1> QED BY <1>2, <1>3, <1>4, <1>5, <1>6, <1>7 DEF Receive

LEMMA ReleaseSeen ==
  ASSUME Inv, NEW h \in WsHandles, WsRelease(h)
  PROVE  Kept
<1>1. HeapInv /\ Live(h) /\ FreeConn(Ws(h)) /\ UNCHANGED <<owner, taken, wsReply>>
  BY DEF Inv, WsRelease, Live
<1>2. CASE Ws(h) = "null"
  BY <1>1, <1>2, SilentSeen DEF FreeConn
<1>3. CASE Ws(h) # "null"
  <2> DEFINE c == Ws(h)
  <2>1. c \in WsConns /\ wsConn[c] \in Open2
    BY <1>1, <1>3, LiveFacts
  <2>2. wsConn' = [wsConn EXCEPT ![c] = "freed"]
    BY <1>1, <1>3, <2>1 DEF FreeConn, Freed, Open2
  <2> HIDE DEF c
  <2>3. WsStateOf[c] \in {"open", "ended"} /\ WsStateOf' = [WsStateOf EXCEPT ![c] = "closed"]
    BY <1>1, <2>1, <2>2, StateSeen DEF WsStateOf, States, Open2
  <2>4. WsPromise!Collect(c)
    BY <1>1, <2>3 DEF WsPromise!Collect
  <2> QED BY <2>1, <2>4 DEF WsPromise!Next, Kept
<1> QED BY <1>2, <1>3

\* The SWI-Prolog bridge keeps the promises both bridges make about WebSockets
\* (pl_curl/README.md, "WEBSOCKETS"), with signals handled inside receives and the
\* collector at work at any time, for any number of handles and connections.
THEOREM ContractKeptCorrect == WsSpec => ContractKept
<1>1. WsInit => WsPromise!Init
  <2> SUFFICES ASSUME WsInit PROVE WsPromise!Init
    OBVIOUS
  <2>1. WsStateOf = [c \in WsConns |-> "unused"]
    BY DEF WsInit, WsStateOf
  <2> QED BY <2>1 DEF WsInit, WsPromise!Init
<1>2. Inv /\ [WsNext]_wsVars => [WsPromise!Next]_(WsPromise!vars)
  <2> SUFFICES ASSUME Inv, [WsNext]_wsVars PROVE Kept
    BY DEF Kept
  <2>1. CASE Program
    BY <2>1, ProgramSeen
  <2>2. CASE Receive
    BY <2>2, ReceiveSeen
  <2>3. CASE Signal \/ HandledByProlog \/ (UNCHANGED wsVars) \/ \E c \in WsConns : ServerSends(c)
    BY <2>3, SilentSeen DEF Signal, HandledByProlog, ServerSends, wsVars, server, wsHeap
  <2>4. ASSUME NEW h \in WsHandles, WsRelease(h) PROVE Kept
    BY <2>4, ReleaseSeen
  <2> QED BY <2>1, <2>2, <2>3, <2>4 DEF WsNext
<1>3. Inv /\ [WsNext]_wsVars => [WsPromise!Step]_(WsPromise!vars)
  BY <1>2 DEF WsPromise!Step
<1> QED BY <1>1, <1>3, InvCorrect, PTL DEF WsSpec, ContractKept, WsPromise!Spec

=============================================================================
