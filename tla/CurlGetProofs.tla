---------------------------- MODULE CurlGetProofs ----------------------------
(***************************************************************************)
(* Proofs about CurlGet for every value of its constants: a handle is used *)
(* by one thread at a time, a request is sent with its own options only,   *)
(* no option points to memory that is freed, responses are whole, a body   *)
(* fits its buffer and nothing is lost, for any number of threads, handles *)
(* and requests.                                                           *)
(***************************************************************************)
EXTENDS CurlGet, TLAPS, NaturalsInduction, WellFoundedInduction

-----------------------------------------------------------------------------
(***************************************************************************)
(* The loop of growbuf_append.  Doubled is a recursive function's value;   *)
(* that there is such a function is proved first, by induction, and only   *)
(* what follows from its equation is used.                                 *)
(***************************************************************************)
\* A set of numbers that is not empty has a least one.
LEMMA Least ==
  ASSUME NEW T \in SUBSET Nat, T # {}
  PROVE  \E x \in T : \A y \in T : x <= y
<1> DEFINE R == OpToRel(<, Nat)
<1>1. IsWellFoundedOn(R, Nat)
  BY NatLessThanWellFounded
<1>2. ASSUME NEW x \in Nat, NEW y \in Nat, y < x PROVE <<y, x>> \in R
  BY <1>2 DEF OpToRel
<1> HIDE DEF R
<1>3. PICK x \in T : \A y \in T : ~ (<<y, x>> \in R)
  BY <1>1, WFMin
<1>4. \A y \in T : ~(y < x)
  BY <1>3, <1>2
<1> QED BY <1>4

\* Induction, for the set of the numbers that have a property.
LEMMA Induction ==
  ASSUME NEW T \in SUBSET Nat, 0 \in T, \A n \in T : n + 1 \in T
  PROVE  T = Nat
<1> SUFFICES ASSUME Nat \ T # {} PROVE FALSE
  OBVIOUS
<1>1. PICK x \in Nat \ T : \A y \in Nat \ T : x <= y
  BY Least
<1>2. x # 0 /\ x - 1 \in Nat
  BY <1>1
<1>3. x - 1 \in T
  BY <1>1, <1>2
<1> QED BY <1>1, <1>2, <1>3

\* The loop that doubles a capacity until it is enough: each turn is one of the
\* function, for what is still missing gets less.
Turns(f, need) == f = [c \in Nat \ {0} |-> IF c < need THEN f[2 * c] ELSE c]

\* There is such a function, whatever size is needed.
LEMMA LoopEnds ==
  ASSUME NEW need \in Nat
  PROVE  \E f : Turns(f, need)
<1> DEFINE Within(f, k) == \A c \in Nat \ {0} : c + k >= need =>
                             f[c] = IF c < need THEN f[2 * c] ELSE c
           T == {k \in Nat : \E f \in [Nat \ {0} -> Nat] : Within(f, k)}
<1>1. 0 \in T
  <2>1. [c \in Nat \ {0} |-> c] \in [Nat \ {0} -> Nat] /\ Within([c \in Nat \ {0} |-> c], 0)
    OBVIOUS
  <2> QED BY <2>1
<1>2. ASSUME NEW k \in T PROVE k + 1 \in T
  <2>1. PICK f \in [Nat \ {0} -> Nat] : Within(f, k)
    OBVIOUS
  <2> DEFINE g == [c \in Nat \ {0} |-> IF c + k >= need THEN f[c] ELSE f[2 * c]]
  <2>2. g \in [Nat \ {0} -> Nat]
    OBVIOUS
  <2>3. \A c \in Nat \ {0} : c + k >= need => g[c] = f[c]
    OBVIOUS
  <2>4. ASSUME NEW c \in Nat \ {0}, c + (k + 1) >= need
        PROVE  g[c] = IF c < need THEN g[2 * c] ELSE c
    <3>1. 2 * c \in Nat \ {0} /\ 2 * c + k >= need
      BY <2>4
    <3>2. g[2 * c] = f[2 * c]
      BY <2>3, <3>1
    <3>3. CASE c + k >= need
      BY <2>1, <2>3, <3>2, <3>3
    <3>4. CASE ~(c + k >= need)
      BY <3>2, <3>4
    <3> QED BY <3>3, <3>4
  <2> HIDE DEF g
  <2> QED BY <2>2, <2>4
<1>3. T = Nat
  <2> HIDE DEF T
  <2>1. T \in SUBSET Nat
    BY DEF T
  <2> QED BY <1>1, <1>2, <2>1, Induction
<1>4. PICK f \in [Nat \ {0} -> Nat] : Within(f, need)
  BY <1>3
<1>5. \A c \in Nat \ {0} : f[c] = IF c < need THEN f[2 * c] ELSE c
  BY <1>4
<1>6. f = [c \in Nat \ {0} |-> IF c < need THEN f[2 * c] ELSE c]
  BY <1>5
<1> QED BY <1>6 DEF Turns

\* And what it ends with is enough.
LEMMA LoopSuffices ==
  ASSUME NEW need \in Nat, NEW f, Turns(f, need)
  PROVE  \A c \in Nat \ {0} : f[c] \in Nat /\ need <= f[c]
<1> DEFINE Enough(c) == f[c] \in Nat /\ need <= f[c]
           T == {k \in Nat : \A c \in Nat \ {0} : c + k >= need => Enough(c)}
<1>1. \A c \in Nat \ {0} : f[c] = IF c < need THEN f[2 * c] ELSE c
  BY DEF Turns
<1>2. 0 \in T
  BY <1>1
<1>3. ASSUME NEW k \in T PROVE k + 1 \in T
  <2>1. ASSUME NEW c \in Nat \ {0}, c + (k + 1) >= need PROVE Enough(c)
    <3>1. CASE c >= need
      BY <1>1, <3>1
    <3>2. CASE c < need
      <4>1. 2 * c \in Nat \ {0} /\ 2 * c + k >= need
        BY <2>1
      <4>2. Enough(2 * c)
        BY <1>3, <4>1
      <4> QED BY <1>1, <3>2, <4>2
    <3> QED BY <3>1, <3>2
  <2> QED BY <2>1
<1>4. T = Nat
  <2> HIDE DEF T
  <2>1. T \in SUBSET Nat
    BY DEF T
  <2> QED BY <1>2, <1>3, <2>1, Induction
<1>5. \A c \in Nat \ {0} : c + need >= need
  OBVIOUS
<1> QED BY <1>4, <1>5

USE GetAssumption

\* growbuf_append leaves room for the NUL after the bytes.
LEMMA GrownSuffices ==
  ASSUME NEW cap \in Nat, NEW size \in Nat
  PROVE  GetGrown(cap, size) \in Nat /\ size < GetGrown(cap, size)
<1> DEFINE from == IF cap = 0 THEN GetFirstCap ELSE 2 * cap
           need == size + 1
           loop == CHOOSE f : Turns(f, need)
<1>1. from \in Nat \ {0} /\ need \in Nat
  <2>1. GetFirstCap \in Nat \ {0}
    BY DEF GetAssumption
  <2>2. cap # 0 => 2 * cap \in Nat \ {0}
    OBVIOUS
  <2> QED BY <2>1, <2>2
<1>2. Doubled(cap, need) = loop[from]
  BY DEF Doubled, Turns
<1> HIDE DEF from
<1>3. Turns(loop, need)
  BY <1>1, LoopEnds
<1>4. loop[from] \in Nat /\ need <= loop[from]
  <2> HIDE DEF loop, need
  <2> QED BY <1>1, <1>3, LoopSuffices
<1> QED BY <1>2, <1>4 DEF GetGrown

-----------------------------------------------------------------------------
(***************************************************************************)
(* The inductive invariant: a part for what a thread does by itself, one   *)
(* for the handles and one for their options.                              *)
(***************************************************************************)
Steps == {"check", "url", "options", "transfer", "release", "free", "return"}
Answers == {"none", "invalid", "memory", "limit", "transport", "ok"}
HeaderLines == Seq(Nat \X Nat)
Memory == {"frame", "url", "slist", "body", "lines"}

\* A call; what holds of the capacity of its buffer comes later (HasRoom).
IsCall(c) ==
  c \in [pc : Steps, req : GetRequests, h : Handles \cup {"none"}, cached : BOOLEAN,
         param : BOOLEAN, hop : Nat, lines : HeaderLines, got : HeaderLines, body : Nat,
         cap : {c.cap}, sent : Nat, lost : BOOLEAN, answer : Answers]

CallInv(c) == c = GetIdle \/ IsCall(c)

\* What a call with this state has allocated.
MemInv(c, m) ==
  /\ c.pc = "idle" => m = {}
  /\ c.pc \in {"check", "url"} => m = {"frame"}
  /\ c.pc \in {"options", "transfer", "release", "free"} => "frame" \in m /\ m \subseteq Memory
  /\ c.pc = "return" => m \subseteq {"frame", "body", "lines"}
  /\ c.pc = "return" /\ c.answer # "ok" => m = {"frame"}

\* Header lines were kept in the order they came in, the last one so far being the nth.
Ordered(s, n) ==
  \A i \in 1..Len(s) : s[i][2] <= n /\ \A j \in 1..Len(s) : i < j => s[i][2] < s[j][2]

\* What has come of a response.
ResponseInv(c) ==
  /\ c.pc \in {"check", "url", "options", "transfer", "release"} =>
       Ordered(c.lines, Len(c.got)) /\ (c.lost = FALSE => c.lines = c.got)
  /\ c.pc \in {"check", "url", "options", "transfer"} => c.body = c.sent /\ c.sent <= c.req.max
  /\ c.pc \in {"check", "url"} => c.lost = FALSE
  /\ c.pc \in {"options", "transfer"} => c.param = c.req.param \/ c.lost = TRUE
  /\ c.pc = "release" /\ c.answer = "ok" => c.body = c.sent /\ c.sent <= c.req.max
  /\ c.pc = "release" /\ c.answer = "limit" => c.sent > c.req.max

Local(c, m) == CallInv(c) /\ MemInv(c, m) /\ ResponseInv(c)

LocalInv == \A t \in Threads : Local(fetch[t], mem[t])

\* A handle is its thread's or in use by a call.
Uses(t, h) == cache[t] = h \/ (HasHandle(t) /\ fetch[t].h = h)

HandleInv ==
  /\ cache \in [Threads -> Handles \cup {"none"}]
  /\ handle \in [Handles -> {"unused", "live"}]
  /\ \A h \in Handles : handle[h] = "live" <=> \E t \in Threads : Uses(t, h)
  /\ \A t, u \in Threads : \A h \in Handles : Uses(t, h) /\ Uses(u, h) => t = u
  /\ \A t \in Threads : HasHandle(t) =>
       fetch[t].h \in Handles /\ (fetch[t].cached = TRUE <=> cache[t] = fetch[t].h)

\* The options of a handle are those of the call that uses it, or there are none.
HasSet(t, h) == fetch[t].pc \in {"transfer", "release"} /\ fetch[t].h = h
OptionsOf(t, h) == HasSet(t, h) /\ opts[h].of = t /\ opts[h].points \subseteq mem[t]

Sends(o, c) ==
  /\ o.ua = c.req.ua /\ o.follow = c.req.follow /\ o.max = c.req.max /\ o.lines = Lines(c.req)
  /\ (o.auth = "basic") = (c.req.auth = "basic")
  /\ o.param = c.param

OptsInv ==
  /\ DOMAIN opts = Handles
  /\ \A h \in Handles : opts[h] = Defaults \/ \E t \in Threads : OptionsOf(t, h)
  /\ \A t \in Threads : GetAt(t, "transfer") => Sends(opts[fetch[t].h], fetch[t])

Inv ==
  /\ DOMAIN fetch = Threads /\ DOMAIN mem = Threads
  /\ LocalInv /\ HandleInv /\ OptsInv

-----------------------------------------------------------------------------
(***************************************************************************)
(* A thread by itself.                                                     *)
(***************************************************************************)
\* Only thread t has taken a step.
Only(t) ==
  /\ DOMAIN fetch' = Threads /\ DOMAIN mem' = Threads
  /\ \A u \in Threads \ {t} : fetch'[u] = fetch[u] /\ mem'[u] = mem[u]

LEMMA LocalStep ==
  ASSUME Inv, NEW t \in Threads, Only(t), Local(fetch'[t], mem'[t])
  PROVE  LocalInv'
BY DEF Inv, LocalInv, Only

LEMMA CallFacts ==
  ASSUME Inv, NEW t \in Threads
  PROVE  /\ CallInv(fetch[t]) /\ MemInv(fetch[t], mem[t]) /\ ResponseInv(fetch[t])
         /\ fetch[t].pc # "idle" => IsCall(fetch[t])
BY DEF Inv, LocalInv, Local, CallInv, GetIdle

\* A step of thread t keeps its call as it has to be and leaves the others' alone.
Keeps(t) == Only(t) /\ Local(fetch'[t], mem'[t])

LEMMA GetKeeps ==
  ASSUME Inv, NEW t \in Threads, Get(t)
  PROVE  Keeps(t)
<1>1. PICK r \in GetRequests : fetch' = [fetch EXCEPT ![t] = Begun(r)]
  BY DEF Get
<1>2. Only(t) /\ fetch'[t] = Begun(r) /\ mem'[t] = {"frame"}
  BY <1>1 DEF Get, Only, Inv
<1>3. <<>> \in HeaderLines /\ Len(<<>>) = 0 /\ r.max \in Nat
  BY DEF HeaderLines
<1>4. IsCall(Begun(r))
  BY <1>3 DEF IsCall, Begun, Steps, Answers
<1>5. ResponseInv(Begun(r))
  BY <1>3 DEF ResponseInv, Begun, Ordered
<1>6. MemInv(Begun(r), {"frame"})
  BY DEF MemInv, Begun
<1> QED BY <1>2, <1>4, <1>5, <1>6 DEF Keeps, Local, CallInv

\* The call goes on to a later step and nothing else of it changes but its handle, or
\* ends without one.
LEMMA CheckKeeps ==
  ASSUME Inv, NEW t \in Threads, Rejected(t) \/ Reuse(t) \/ NewHandle(t) \/ NoHandle(t)
  PROVE  Keeps(t)
<1>1. GetAt(t, "check") /\ mem' = mem
  BY DEF Rejected, Reuse, NewHandle, NoHandle
<1>2. IsCall(fetch[t]) /\ MemInv(fetch[t], mem[t]) /\ ResponseInv(fetch[t])
  BY <1>1, CallFacts DEF GetAt
<1>3. \/ \E a \in {"invalid", "memory"} : fetch' = [fetch EXCEPT ![t].pc = "return", ![t].answer = a]
      \/ \E h \in Handles, k \in BOOLEAN :
           fetch' = [fetch EXCEPT ![t].pc = "url", ![t].h = h, ![t].cached = k]
  <2>1. cache[t] \in Handles \cup {"none"}
    BY DEF Inv, HandleInv
  <2> QED BY <2>1 DEF Rejected, Reuse, NewHandle, NoHandle
<1>4. Only(t) /\ mem'[t] = {"frame"}
  BY <1>1, <1>2, <1>3 DEF Only, Inv, MemInv, GetAt
<1>5. CASE \E a \in {"invalid", "memory"} : fetch' = [fetch EXCEPT ![t].pc = "return", ![t].answer = a]
  <2>1. PICK a \in {"invalid", "memory"} : fetch'[t] = [fetch[t] EXCEPT !.pc = "return", !.answer = a]
    BY <1>5 DEF Inv
  <2>2. IsCall(fetch'[t]) /\ fetch'[t].pc = "return"
    BY <1>2, <2>1 DEF IsCall, Steps, Answers
  <2> QED BY <1>4, <2>2 DEF Keeps, Local, CallInv, MemInv, ResponseInv
<1>6. CASE \E h \in Handles, k \in BOOLEAN :
             fetch' = [fetch EXCEPT ![t].pc = "url", ![t].h = h, ![t].cached = k]
  <2>1. PICK h \in Handles, k \in BOOLEAN :
          fetch'[t] = [fetch[t] EXCEPT !.pc = "url", !.h = h, !.cached = k]
    BY <1>6 DEF Inv
  <2>2. IsCall(fetch'[t])
    BY <1>2, <2>1, ZenonT(60) DEF IsCall, Steps
  <2>3. /\ fetch'[t].pc = "url" /\ fetch'[t].req = fetch[t].req
        /\ fetch'[t].lines = fetch[t].lines /\ fetch'[t].got = fetch[t].got /\ fetch'[t].lost = fetch[t].lost
        /\ fetch'[t].body = fetch[t].body /\ fetch'[t].sent = fetch[t].sent
    BY <1>2, <2>1 DEF IsCall
  <2>4. ResponseInv(fetch'[t])
    BY <1>1, <1>2, <2>3 DEF ResponseInv, GetAt
  <2> QED BY <1>4, <2>2, <2>3, <2>4 DEF Keeps, Local, CallInv, MemInv
<1> QED BY <1>3, <1>5, <1>6

LEMMA UrlKeeps ==
  ASSUME Inv, NEW t \in Threads, BuildUrl(t) \/ NoUrl(t)
  PROVE  Keeps(t)
<1>1. GetAt(t, "url") /\ IsCall(fetch[t]) /\ MemInv(fetch[t], mem[t]) /\ ResponseInv(fetch[t])
  BY CallFacts DEF BuildUrl, NoUrl, GetAt
<1>2. mem[t] = {"frame"}
  BY <1>1 DEF MemInv, GetAt
<1>3. CASE BuildUrl(t)
  <2>1. PICK whole \in BOOLEAN :
          fetch' = [fetch EXCEPT ![t].pc = "options", ![t].param = whole, ![t].lost = whole # Asks(t).param]
    <3>1. Asks(t).param \in BOOLEAN
      BY <1>1 DEF IsCall, Asks
    <3> QED BY <1>3, <3>1 DEF BuildUrl
  <2>2. /\ Only(t) /\ mem'[t] = {"frame", "url"}
        /\ fetch'[t] = [fetch[t] EXCEPT !.pc = "options", !.param = whole, !.lost = whole # fetch[t].req.param]
    BY <1>2, <1>3, <2>1 DEF BuildUrl, Only, Inv, Asks
  <2>3. (whole # fetch[t].req.param) \in BOOLEAN
    OBVIOUS
  <2>4. /\ IsCall(fetch'[t]) /\ fetch'[t].pc = "options" /\ fetch'[t].req = fetch[t].req
        /\ fetch'[t].lines = fetch[t].lines /\ fetch'[t].got = fetch[t].got
        /\ fetch'[t].body = fetch[t].body /\ fetch'[t].sent = fetch[t].sent
        /\ fetch'[t].param = whole /\ fetch'[t].lost = (whole # fetch[t].req.param)
    BY <1>1, <2>2, <2>3, ZenonT(60) DEF IsCall, Steps
  <2>5. fetch[t].lines = fetch[t].got /\ Ordered(fetch[t].lines, Len(fetch[t].got))
        /\ fetch[t].body = fetch[t].sent /\ fetch[t].sent <= fetch[t].req.max
    BY <1>1 DEF ResponseInv, GetAt
  <2>6. fetch'[t].param = fetch[t].req.param \/ fetch'[t].lost = TRUE
    BY <2>4
  <2>7. ResponseInv(fetch'[t])
    BY <2>4, <2>5, <2>6 DEF ResponseInv
  <2> QED BY <2>2, <2>4, <2>7 DEF Keeps, Local, CallInv, MemInv, Memory
<1>4. CASE NoUrl(t)
  <2>1. /\ Only(t) /\ mem'[t] = {"frame"}
        /\ fetch'[t] = [fetch[t] EXCEPT !.pc = "release", !.answer = "memory"]
    BY <1>2, <1>4 DEF NoUrl, Only, Inv
  <2>2. /\ IsCall(fetch'[t]) /\ fetch'[t].pc = "release" /\ fetch'[t].answer = "memory"
        /\ fetch'[t].lines = fetch[t].lines /\ fetch'[t].got = fetch[t].got /\ fetch'[t].lost = fetch[t].lost
    BY <1>1, <2>1 DEF IsCall, Steps, Answers
  <2>3. ResponseInv(fetch'[t])
    BY <1>1, <2>2 DEF ResponseInv, GetAt
  <2> QED BY <2>1, <2>2, <2>3 DEF Keeps, Local, CallInv, MemInv, Memory
<1> QED BY <1>3, <1>4

LEMMA OptionsKeeps ==
  ASSUME Inv, NEW t \in Threads, SetOptions(t) \/ SetOptionsNoMemory(t)
  PROVE  Keeps(t)
<1>1. GetAt(t, "options") /\ IsCall(fetch[t]) /\ MemInv(fetch[t], mem[t]) /\ ResponseInv(fetch[t])
  BY CallFacts DEF SetOptions, SetOptionsNoMemory, GetAt
<1>2. Only(t) /\ "frame" \in mem'[t] /\ mem'[t] \subseteq Memory
  <2>1. "frame" \in mem[t] /\ mem[t] \subseteq Memory
    BY <1>1 DEF MemInv, GetAt
  <2>2. mem'[t] \in {mem[t], mem[t] \cup {"slist"}} /\ DOMAIN mem' = Threads
        /\ \A u \in Threads \ {t} : mem'[u] = mem[u]
    <3>1. \/ mem' = mem
          \/ mem' = [mem EXCEPT ![t] = @ \cup {}]
          \/ mem' = [mem EXCEPT ![t] = @ \cup {"slist"}]
      BY DEF SetOptions, SetOptionsNoMemory
    <3> QED BY <3>1 DEF Inv
  <2>3. DOMAIN fetch' = Threads /\ \A u \in Threads \ {t} : fetch'[u] = fetch[u]
    BY DEF SetOptions, SetOptionsNoMemory, Inv
  <2> QED BY <2>1, <2>2, <2>3 DEF Only, Memory
<1>3. CASE SetOptions(t)
  <2>1. fetch'[t] = [fetch[t] EXCEPT !.pc = "transfer"]
    BY <1>3 DEF SetOptions, Inv
  <2>2. /\ IsCall(fetch'[t]) /\ fetch'[t].pc = "transfer" /\ fetch'[t].req = fetch[t].req
        /\ fetch'[t].lines = fetch[t].lines /\ fetch'[t].got = fetch[t].got /\ fetch'[t].lost = fetch[t].lost
        /\ fetch'[t].body = fetch[t].body /\ fetch'[t].sent = fetch[t].sent
        /\ fetch'[t].param = fetch[t].param
    BY <1>1, <2>1 DEF IsCall, Steps
  <2>3. ResponseInv(fetch'[t])
    BY <1>1, <2>2 DEF ResponseInv, GetAt
  <2> QED BY <1>2, <2>2, <2>3 DEF Keeps, Local, CallInv, MemInv
<1>4. CASE SetOptionsNoMemory(t)
  <2>1. fetch'[t] = [fetch[t] EXCEPT !.pc = "release", !.answer = "memory"]
    BY <1>4 DEF SetOptionsNoMemory, Inv
  <2>2. /\ IsCall(fetch'[t]) /\ fetch'[t].pc = "release" /\ fetch'[t].answer = "memory"
        /\ fetch'[t].lines = fetch[t].lines /\ fetch'[t].got = fetch[t].got /\ fetch'[t].lost = fetch[t].lost
    BY <1>1, <2>1 DEF IsCall, Steps, Answers
  <2>3. ResponseInv(fetch'[t])
    BY <1>1, <2>2 DEF ResponseInv, GetAt
  <2> QED BY <1>2, <2>2, <2>3 DEF Keeps, Local, CallInv, MemInv
<1> QED BY <1>3, <1>4

\* A line more, whether it is kept or not, leaves the lines in order.
LEMMA OrderedAppend ==
  ASSUME NEW s \in HeaderLines, NEW n \in Nat, Ordered(s, n), NEW hop \in Nat
  PROVE  /\ Ordered(s, n + 1)
         /\ Append(s, <<hop, n + 1>>) \in HeaderLines
         /\ Ordered(Append(s, <<hop, n + 1>>), n + 1)
<1> DEFINE line == <<hop, n + 1>>
           a == Append(s, line)
           k == Len(s)
<1>1. line \in Nat \X Nat /\ line[2] = n + 1 /\ k \in Nat
  BY DEF HeaderLines
<1>2. \A i \in 1..k : s[i] \in Nat \X Nat /\ s[i][2] \in Nat
  <2>1. \A i \in 1..k : s[i] \in Nat \X Nat
    BY DEF HeaderLines
  <2> QED BY <2>1
<1>3. a \in HeaderLines /\ Len(a) = k + 1 /\ a[k + 1] = line /\ \A i \in 1..k : a[i] = s[i]
  BY <1>1 DEF HeaderLines
<1>4. Ordered(s, n + 1)
  BY <1>2 DEF Ordered
<1> HIDE DEF a, k, line
<1>5. \A i \in 1..k : s[i][2] <= n /\ \A j \in 1..k : i < j => s[i][2] < s[j][2]
  BY DEF Ordered, k
<1>6. \A i \in 1..(k + 1) : i \in 1..k \/ i = k + 1
  BY <1>1
<1>7. \A i \in 1..(k + 1) : a[i][2] <= n + 1
  BY <1>1, <1>2, <1>3, <1>5, <1>6
<1>8. \A i, j \in 1..(k + 1) : i < j => a[i][2] < a[j][2]
  <2> SUFFICES ASSUME NEW i \in 1..(k + 1), NEW j \in 1..(k + 1), i < j
               PROVE  a[i][2] < a[j][2]
    OBVIOUS
  <2>1. i \in 1..k
    BY <1>1
  <2>2. CASE j = k + 1
    BY <1>1, <1>2, <1>3, <1>5, <2>1, <2>2
  <2>3. CASE j \in 1..k
    BY <1>3, <1>5, <2>1, <2>3
  <2> QED BY <1>6, <2>2, <2>3
<1>9. Ordered(a, n + 1)
  BY <1>3, <1>7, <1>8 DEF Ordered
<1> QED BY <1>3, <1>4, <1>9 DEF a, line

LEMMA HeaderKeeps ==
  ASSUME Inv, NEW t \in Threads, HeaderLine(t)
  PROVE  Keeps(t)
<1> DEFINE c == fetch[t]
           n == Len(c.got)
           line == <<c.hop, n + 1>>
<1>1. GetAt(t, "transfer") /\ IsCall(c) /\ MemInv(c, mem[t]) /\ ResponseInv(c)
  BY CallFacts DEF HeaderLine, GetAt
<1>2. PICK kept \in BOOLEAN :
        /\ fetch' = [fetch EXCEPT ![t].got = Append(@, line),
                                ![t].lines = IF kept THEN Append(@, line) ELSE @,
                                ![t].lost = @ \/ ~kept]
        /\ mem' = IF kept THEN [mem EXCEPT ![t] = @ \cup {"lines"}] ELSE mem
  BY DEF HeaderLine
<1>3. Only(t) /\ mem'[t] \in {mem[t], mem[t] \cup {"lines"}}
  BY <1>2 DEF Only, Inv
<1>4. fetch'[t] = [c EXCEPT !.got = Append(@, line), !.lines = IF kept THEN Append(@, line) ELSE @,
                           !.lost = @ \/ ~kept]
  BY <1>2 DEF Inv
<1>5. /\ c.lines \in HeaderLines /\ c.got \in HeaderLines /\ c.hop \in Nat /\ n \in Nat
      /\ Ordered(c.lines, n) /\ c.lost \in BOOLEAN
  BY <1>1 DEF IsCall, ResponseInv, GetAt, HeaderLines
<1>6. /\ Ordered(c.lines, n + 1) /\ Ordered(Append(c.lines, line), n + 1)
      /\ Append(c.lines, line) \in HeaderLines
  BY <1>5, OrderedAppend
<1>7. Append(c.got, line) \in HeaderLines /\ Len(Append(c.got, line)) = n + 1
  BY <1>5 DEF HeaderLines
<1>8. c.lost = FALSE => c.lines = c.got
  BY <1>1 DEF ResponseInv, GetAt
<1> HIDE DEF line
<1>9. CASE kept = TRUE
  <2>1. fetch'[t] = [c EXCEPT !.got = Append(@, line), !.lines = Append(@, line), !.lost = @]
    BY <1>4, <1>5, <1>9
  <2>2. /\ IsCall(fetch'[t]) /\ fetch'[t].pc = c.pc /\ fetch'[t].req = c.req
        /\ fetch'[t].lines = Append(c.lines, line) /\ fetch'[t].got = Append(c.got, line)
        /\ fetch'[t].lost = c.lost
        /\ fetch'[t].body = c.body /\ fetch'[t].sent = c.sent /\ fetch'[t].param = c.param
    BY <1>1, <1>6, <1>7, <2>1, ZenonT(60) DEF IsCall
  <2>3. ResponseInv(fetch'[t])
    BY <1>1, <1>6, <1>7, <1>8, <2>2 DEF ResponseInv, GetAt
  <2> QED BY <1>1, <1>3, <2>2, <2>3 DEF Keeps, Local, CallInv, MemInv, Memory, GetAt
<1>10. CASE kept = FALSE
  <2>1. fetch'[t] = [c EXCEPT !.got = Append(@, line), !.lines = @, !.lost = TRUE]
    BY <1>4, <1>5, <1>10
  <2>2. /\ IsCall(fetch'[t]) /\ fetch'[t].pc = c.pc /\ fetch'[t].req = c.req
        /\ fetch'[t].lines = c.lines /\ fetch'[t].got = Append(c.got, line)
        /\ fetch'[t].lost = TRUE
        /\ fetch'[t].body = c.body /\ fetch'[t].sent = c.sent /\ fetch'[t].param = c.param
    BY <1>1, <1>7, <2>1, ZenonT(60) DEF IsCall
  <2>3. ResponseInv(fetch'[t])
    BY <1>1, <1>6, <1>7, <2>2 DEF ResponseInv, GetAt
  <2> QED BY <1>1, <1>3, <2>2, <2>3 DEF Keeps, Local, CallInv, MemInv, Memory, GetAt
<1> QED BY <1>9, <1>10

\* A piece of the body, or what ends a transfer.  The limit is the request's.
LEMMA BodyKeeps ==
  ASSUME Inv, NEW t \in Threads,
         Redirect(t) \/ BodyPiece(t) \/ BodyTooBig(t) \/ TransferFails(t) \/ TransferDone(t)
  PROVE  Keeps(t)
<1> DEFINE c == fetch[t]
           max == opts[c.h].max
<1>1. GetAt(t, "transfer")
  BY DEF Redirect, BodyPiece, BodyTooBig, TransferFails, TransferDone
<1>2. IsCall(c) /\ MemInv(c, mem[t]) /\ ResponseInv(c)
  BY <1>1, CallFacts DEF GetAt
<1>3. max = c.req.max /\ max \in Nat
  BY <1>1, <1>2 DEF Inv, OptsInv, Sends, IsCall
<1>4. Only(t) /\ mem'[t] \in {mem[t], mem[t] \cup {"body"}}
  BY DEF Redirect, BodyPiece, BodyTooBig, TransferFails, TransferDone, Only, Inv
<1>5. "frame" \in mem'[t] /\ mem'[t] \subseteq Memory
  BY <1>1, <1>2, <1>4 DEF MemInv, Memory, GetAt
<1>6. c.body \in Nat /\ c.body = c.sent /\ c.sent <= c.req.max
  BY <1>1, <1>2 DEF ResponseInv, GetAt, IsCall
<1> HIDE DEF max
<1>7. CASE Redirect(t)
  <2>1. fetch'[t] = [c EXCEPT !.hop = @ + 1]
    BY <1>7 DEF Redirect, Inv
  <2>2. c.hop + 1 \in Nat
    BY <1>2 DEF IsCall
  <2>3. IsCall(fetch'[t])
    BY <1>2, <2>1, <2>2 DEF IsCall
  <2>4. /\ fetch'[t].pc = c.pc /\ fetch'[t].req = c.req /\ fetch'[t].param = c.param
        /\ fetch'[t].lines = c.lines /\ fetch'[t].got = c.got /\ fetch'[t].lost = c.lost
        /\ fetch'[t].body = c.body /\ fetch'[t].sent = c.sent
    BY <1>2, <2>1 DEF IsCall
  <2>5. ResponseInv(fetch'[t])
    BY <1>1, <1>2, <2>4 DEF ResponseInv, GetAt
  <2> QED BY <1>1, <1>4, <1>5, <2>3, <2>4, <2>5 DEF Keeps, Local, CallInv, MemInv, GetAt
<1>8. CASE BodyPiece(t)
  <2>1. PICK n \in Chunks : Fits(max, c.body, n)
                            /\ fetch'[t] = [c EXCEPT !.sent = @ + n, !.body = @ + n,
                                                    !.cap = GetGrown(@, c.body + n)]
    BY <1>8 DEF BodyPiece, Inv, max
  <2>2. n \in Nat /\ c.sent + n \in Nat /\ c.body + n = c.sent + n /\ c.sent + n <= c.req.max
    BY <1>3, <1>6, <2>1 DEF Fits
  <2> DEFINE cap == GetGrown(c.cap, c.body + n)
             b == c.body + n
  <2>3. fetch'[t] = [c EXCEPT !.sent = b, !.body = b, !.cap = cap] /\ b \in Nat /\ b <= c.req.max
    <3>1. fetch'[t] = [c EXCEPT !.sent = c.sent + n, !.body = c.body + n, !.cap = cap]
      BY <2>1
    <3> QED BY <1>6, <2>2, <3>1
  <2> HIDE DEF cap, b
  <2>4. IsCall(fetch'[t])
    BY <1>2, <2>3 DEF IsCall
  <2>5. /\ fetch'[t].pc = c.pc /\ fetch'[t].req = c.req /\ fetch'[t].param = c.param
        /\ fetch'[t].lines = c.lines /\ fetch'[t].got = c.got /\ fetch'[t].lost = c.lost
        /\ fetch'[t].body = b /\ fetch'[t].sent = b
    BY <1>2, <2>3 DEF IsCall
  <2>6. ResponseInv(fetch'[t])
    BY <1>1, <1>2, <2>3, <2>5 DEF ResponseInv, GetAt
  <2> QED BY <1>1, <1>4, <1>5, <2>4, <2>5, <2>6 DEF Keeps, Local, CallInv, MemInv, GetAt
<1>9. CASE BodyTooBig(t) \/ TransferFails(t) \/ TransferDone(t)
  <2>1. \E a \in {"limit", "transport", "ok"}, s \in Nat :
          /\ fetch'[t] = [c EXCEPT !.pc = "release", !.answer = a, !.sent = s]
          /\ a = "ok" => s = c.sent
          /\ a = "limit" => s > c.req.max
    <3>1. CASE BodyTooBig(t)
      <4>1. PICK n \in Chunks : /\ ~Fits(max, c.body, n)
                                /\ fetch'[t] = [c EXCEPT !.pc = "release", !.answer = "limit",
                                                        !.sent = @ + n]
        BY <3>1 DEF BodyTooBig, Inv, max
      <4>2. c.sent + n \in Nat /\ c.sent + n > c.req.max
        BY <1>3, <1>6, <4>1 DEF Fits
      <4> QED BY <4>1, <4>2
    <3>2. CASE TransferFails(t)
      <4>1. \/ fetch'[t] = [c EXCEPT !.pc = "release", !.answer = "limit", !.sent = max + 1]
            \/ fetch'[t] = [c EXCEPT !.pc = "release", !.answer = "transport"]
        BY <3>2 DEF TransferFails, Inv, max
      <4>2. max + 1 \in Nat /\ max + 1 > c.req.max
        BY <1>3
      <4>3. [c EXCEPT !.pc = "release", !.answer = "transport"]
              = [c EXCEPT !.pc = "release", !.answer = "transport", !.sent = c.sent]
        BY <1>2 DEF IsCall
      <4> QED BY <1>6, <4>1, <4>2, <4>3
    <3>3. CASE TransferDone(t)
      <4>1. fetch'[t] = [c EXCEPT !.pc = "release", !.answer = "ok"]
        BY <3>3 DEF TransferDone, Inv
      <4>2. [c EXCEPT !.pc = "release", !.answer = "ok"]
              = [c EXCEPT !.pc = "release", !.answer = "ok", !.sent = c.sent]
        BY <1>2 DEF IsCall
      <4> QED BY <1>6, <4>1, <4>2
    <3> QED BY <1>9, <3>1, <3>2, <3>3
  <2>2. PICK a \in {"limit", "transport", "ok"}, s \in Nat :
          /\ fetch'[t] = [c EXCEPT !.pc = "release", !.answer = a, !.sent = s]
          /\ a = "ok" => s = c.sent
          /\ a = "limit" => s > c.req.max
    BY <2>1
  <2>3. IsCall(fetch'[t])
    BY <1>2, <2>2, ZenonT(60) DEF IsCall, Steps, Answers
  <2>4. /\ fetch'[t].pc = "release" /\ fetch'[t].answer = a /\ fetch'[t].req = c.req
        /\ fetch'[t].lines = c.lines /\ fetch'[t].got = c.got /\ fetch'[t].lost = c.lost
        /\ fetch'[t].body = c.body /\ fetch'[t].sent = s
    BY <1>2, <2>2 DEF IsCall
  <2>5. ResponseInv(fetch'[t])
    BY <1>1, <1>2, <1>6, <2>2, <2>4 DEF ResponseInv, GetAt
  <2> QED BY <1>4, <1>5, <2>3, <2>4, <2>5 DEF Keeps, Local, CallInv, MemInv
<1> QED BY <1>7, <1>8, <1>9

\* done: the handle is given back, then the memory of the request.
LEMMA DoneKeeps ==
  ASSUME Inv, NEW t \in Threads, Release(t) \/ Free(t) \/ Return(t)
  PROVE  Keeps(t)
<1>1. IsCall(fetch[t]) /\ MemInv(fetch[t], mem[t])
  BY CallFacts DEF Release, Free, Return, GetAt
<1>2. Only(t)
  BY DEF Release, Free, Return, Only, Inv
<1>3. CASE Release(t)
  <2>1. fetch'[t] = [Begun(fetch[t].req) EXCEPT !.pc = "free", !.answer = fetch[t].answer]
    BY <1>3 DEF Release, Inv
  <2>2. mem'[t] = mem[t] /\ "frame" \in mem[t] /\ mem[t] \subseteq Memory
    BY <1>1, <1>3 DEF Release, MemInv, GetAt
  <2>3. <<>> \in HeaderLines
    BY DEF HeaderLines
  <2> DEFINE r == fetch[t].req
             a == fetch[t].answer
  <2>4. r \in GetRequests /\ a \in Answers
    BY <1>1 DEF IsCall
  <2> HIDE DEF r, a
  <2>5. fetch'[t] = [pc |-> "free", req |-> r, h |-> "none", cached |-> FALSE, param |-> FALSE,
                    hop |-> 0, lines |-> <<>>, got |-> <<>>, body |-> 0, cap |-> 0, sent |-> 0,
                    lost |-> FALSE, answer |-> a]
    BY <2>1 DEF Begun, r, a
  <2>6. IsCall(fetch'[t]) /\ fetch'[t].pc = "free"
    BY <2>3, <2>4, <2>5 DEF IsCall, Steps
  <2> QED BY <1>2, <2>2, <2>6 DEF Keeps, Local, CallInv, MemInv, ResponseInv
<1>4. CASE Free(t)
  <2>1. fetch'[t] = [fetch[t] EXCEPT !.pc = "return"]
    BY <1>4 DEF Free, Inv
  <2>2. mem'[t] = IF fetch[t].answer = "ok" THEN mem[t] \ {"url", "slist"} ELSE {"frame"}
    BY <1>4 DEF Free, Inv
  <2>3. mem[t] \subseteq Memory
    BY <1>1, <1>4 DEF Free, MemInv, GetAt
  <2>4. IsCall(fetch'[t]) /\ fetch'[t].pc = "return" /\ fetch'[t].answer = fetch[t].answer
    BY <1>1, <2>1 DEF IsCall, Steps
  <2>5. MemInv(fetch'[t], mem'[t])
    BY <2>2, <2>3, <2>4 DEF MemInv, Memory
  <2> QED BY <1>2, <2>4, <2>5 DEF Keeps, Local, CallInv, ResponseInv
<1>5. CASE Return(t)
  <2>1. fetch'[t] = GetIdle /\ mem'[t] = {}
    BY <1>5 DEF Return, Inv
  <2>2. GetIdle.pc = "idle"
    BY DEF GetIdle
  <2> QED BY <1>2, <2>1, <2>2 DEF Keeps, Local, CallInv, MemInv, ResponseInv
<1> QED BY <1>3, <1>4, <1>5

-----------------------------------------------------------------------------
(***************************************************************************)
(* The handles.                                                            *)
(***************************************************************************)
\* What leaves it as it is which handle a thread uses.
LEMMA SameUse ==
  ASSUME Inv, NEW t \in Threads, Only(t), UNCHANGED <<cache, handle>>,
         HasHandle(t)' = HasHandle(t),
         HasHandle(t) => fetch'[t].h = fetch[t].h /\ fetch'[t].cached = fetch[t].cached
  PROVE  HandleInv'
<1>1. \A u \in Threads : /\ HasHandle(u)' = HasHandle(u)
                         /\ HasHandle(u) => fetch'[u].h = fetch[u].h /\ fetch'[u].cached = fetch[u].cached
  BY DEF Only, HasHandle
<1>2. \A u \in Threads : \A h \in Handles : Uses(u, h)' = Uses(u, h)
  BY <1>1 DEF Uses
<1> QED BY <1>1, <1>2 DEF Inv, HandleInv

LEMMA ReuseKeepsHandles ==
  ASSUME Inv, NEW t \in Threads, Reuse(t)
  PROVE  HandleInv'
<1>1. HandleInv /\ GetAt(t, "check") /\ cache[t] \in Handles /\ UNCHANGED <<cache, handle>>
  BY DEF Inv, HandleInv, Reuse
<1>2. IsCall(fetch[t])
  BY <1>1, CallFacts DEF GetAt
<1>3. /\ fetch'[t].pc = "url" /\ fetch'[t].h = cache[t] /\ fetch'[t].cached = TRUE
      /\ \A u \in Threads \ {t} : fetch'[u] = fetch[u]
  BY <1>2 DEF Reuse, Inv, IsCall
<1>4. ~HasHandle(t) /\ HasHandle(t)' /\ \A u \in Threads \ {t} : HasHandle(u)' = HasHandle(u)
  BY <1>1, <1>3 DEF HasHandle, GetAt
<1>5. \A u \in Threads : \A h \in Handles : Uses(u, h)' <=> Uses(u, h)
  BY <1>1, <1>3, <1>4 DEF Uses
<1>6. \A u \in Threads : HasHandle(u)' =>
        fetch'[u].h \in Handles /\ (fetch'[u].cached = TRUE <=> cache'[u] = fetch'[u].h)
  BY <1>1, <1>3, <1>4 DEF HandleInv
<1> QED BY <1>1, <1>5, <1>6 DEF HandleInv

LEMMA NewHandleKeepsHandles ==
  ASSUME Inv, NEW t \in Threads, NewHandle(t)
  PROVE  HandleInv'
<1>1. HandleInv /\ GetAt(t, "check") /\ cache[t] = "none"
  BY DEF Inv, NewHandle
<1>2. PICK h \in Handles, kept \in BOOLEAN :
        /\ handle[h] = "unused" /\ handle' = [handle EXCEPT ![h] = "live"]
        /\ cache' = IF kept THEN [cache EXCEPT ![t] = h] ELSE cache
        /\ fetch' = [fetch EXCEPT ![t].pc = "url", ![t].h = h, ![t].cached = kept]
  BY DEF NewHandle
<1>3. IsCall(fetch[t])
  BY <1>1, CallFacts DEF GetAt
<1>4. /\ fetch'[t].pc = "url" /\ fetch'[t].h = h /\ fetch'[t].cached = kept
      /\ \A u \in Threads \ {t} : fetch'[u] = fetch[u]
  BY <1>2, <1>3 DEF Inv, IsCall
<1>5. /\ cache' \in [Threads -> Handles \cup {"none"}]
      /\ cache'[t] = (IF kept THEN h ELSE "none") /\ \A u \in Threads \ {t} : cache'[u] = cache[u]
      /\ handle' \in [Handles -> {"unused", "live"}] /\ handle'[h] = "live"
      /\ \A g \in Handles \ {h} : handle'[g] = handle[g]
  BY <1>1, <1>2 DEF HandleInv
<1>6. ~HasHandle(t) /\ HasHandle(t)' /\ \A u \in Threads \ {t} : HasHandle(u)' = HasHandle(u)
  BY <1>1, <1>4 DEF HasHandle, GetAt
<1>7. \A u \in Threads : ~Uses(u, h)
  BY <1>1, <1>2 DEF HandleInv
<1>8. /\ Uses(t, h)' /\ \A g \in Handles \ {h} : ~Uses(t, g) /\ ~Uses(t, g)'
      /\ \A u \in Threads \ {t} : \A g \in Handles : Uses(u, g)' <=> Uses(u, g)
  BY <1>1, <1>4, <1>5, <1>6 DEF Uses
<1>9. \A g \in Handles : handle'[g] = "live" <=> \E u \in Threads : Uses(u, g)'
  BY <1>1, <1>5, <1>7, <1>8 DEF HandleInv
<1>10. \A u, v \in Threads : \A g \in Handles : Uses(u, g)' /\ Uses(v, g)' => u = v
  BY <1>1, <1>7, <1>8 DEF HandleInv
<1>11. \A u \in Threads : HasHandle(u)' =>
         fetch'[u].h \in Handles /\ (fetch'[u].cached = TRUE <=> cache'[u] = fetch'[u].h)
  <2>1. kept = TRUE \/ kept = FALSE
    OBVIOUS
  <2>2. fetch'[t].cached = TRUE <=> cache'[t] = fetch'[t].h
    BY <1>4, <1>5, <2>1
  <2> QED BY <1>1, <1>4, <1>5, <1>6, <2>2 DEF HandleInv
<1> QED BY <1>5, <1>9, <1>10, <1>11 DEF HandleInv

LEMMA ReleaseKeepsHandles ==
  ASSUME Inv, NEW t \in Threads, Release(t)
  PROVE  HandleInv'
<1>0. HandleInv /\ GetAt(t, "release") /\ HasHandle(t) /\ cache' = cache
  BY DEF Inv, Release, HasHandle, GetAt
<1> PICK h \in Handles : h = fetch[t].h
  BY <1>0 DEF HandleInv
<1>1. /\ HandleInv /\ GetAt(t, "release") /\ HasHandle(t) /\ cache' = cache
      /\ fetch[t].cached = TRUE <=> cache[t] = h
  BY <1>0 DEF HandleInv
<1>2. IsCall(fetch[t]) /\ fetch[t].cached \in BOOLEAN
  BY <1>1, CallFacts DEF GetAt, IsCall
<1>3. fetch'[t].pc = "free" /\ \A u \in Threads \ {t} : fetch'[u] = fetch[u]
  BY DEF Release, Inv, Begun
<1>4. ~HasHandle(t)' /\ \A u \in Threads \ {t} : HasHandle(u)' = HasHandle(u)
  BY <1>3 DEF HasHandle
<1>5. Uses(t, h) /\ handle[h] = "live" /\ \A u \in Threads \ {t} : ~Uses(u, h)
  BY <1>1 DEF HandleInv, Uses
<1>6. handle' = IF fetch[t].cached THEN handle ELSE [handle EXCEPT ![h] = "unused"]
  BY <1>5 DEF Release, Cleaned
<1>7. \A u \in Threads \ {t} : \A g \in Handles : Uses(u, g)' <=> Uses(u, g)
  BY <1>1, <1>3, <1>4 DEF Uses
<1>8. \A g \in Handles \ {h} : Uses(t, g)' <=> Uses(t, g)
  BY <1>1, <1>4 DEF Uses
<1>9. \A u \in Threads : HasHandle(u)' =>
        fetch'[u].h \in Handles /\ (fetch'[u].cached = TRUE <=> cache'[u] = fetch'[u].h)
  BY <1>1, <1>3, <1>4 DEF HandleInv
<1>10. CASE fetch[t].cached = TRUE
  <2>1. handle' = handle /\ Uses(t, h)'
    BY <1>1, <1>6, <1>10 DEF Uses
  <2>2. \A u \in Threads : \A g \in Handles : Uses(u, g)' <=> Uses(u, g)
    BY <1>5, <1>7, <1>8, <2>1
  <2> QED BY <1>1, <1>9, <2>1, <2>2 DEF HandleInv
<1>11. CASE fetch[t].cached = FALSE
  <2>1. handle' = [handle EXCEPT ![h] = "unused"] /\ ~Uses(t, h)'
    BY <1>1, <1>4, <1>6, <1>11 DEF Uses
  <2>2. /\ handle' \in [Handles -> {"unused", "live"}] /\ handle'[h] = "unused"
        /\ \A g \in Handles \ {h} : handle'[g] = handle[g]
    BY <1>1, <2>1 DEF HandleInv
  <2>3. \A g \in Handles : handle'[g] = "live" <=> \E u \in Threads : Uses(u, g)'
    BY <1>1, <1>5, <1>7, <1>8, <2>1, <2>2 DEF HandleInv
  <2>4. \A u, v \in Threads : \A g \in Handles : Uses(u, g)' /\ Uses(v, g)' => u = v
    BY <1>1, <1>5, <1>7, <1>8, <2>1 DEF HandleInv
  <2> QED BY <1>1, <1>9, <2>2, <2>3, <2>4 DEF HandleInv
<1> QED BY <1>2, <1>10, <1>11

LEMMA EndKeepsHandles ==
  ASSUME Inv, NEW t \in Threads, ThreadEnds(t)
  PROVE  HandleInv'
<1> DEFINE h == cache[t]
<1>1. HandleInv /\ GetAt(t, "idle") /\ h \in Handles /\ fetch' = fetch
      /\ cache' = [cache EXCEPT ![t] = "none"]
  BY DEF Inv, HandleInv, ThreadEnds
<1>2. ~HasHandle(t) /\ \A u \in Threads : HasHandle(u)' = HasHandle(u)
  BY <1>1 DEF HasHandle, GetAt
<1>3. Uses(t, h) /\ handle[h] = "live" /\ \A u \in Threads \ {t} : ~Uses(u, h)
  BY <1>1 DEF HandleInv, Uses
<1>4. handle' = [handle EXCEPT ![h] = "unused"]
  BY <1>3 DEF ThreadEnds, Cleaned
<1> HIDE DEF h
<1>5. /\ cache' \in [Threads -> Handles \cup {"none"}]
      /\ cache'[t] = "none" /\ \A u \in Threads \ {t} : cache'[u] = cache[u]
      /\ handle' \in [Handles -> {"unused", "live"}] /\ handle'[h] = "unused"
      /\ \A g \in Handles \ {h} : handle'[g] = handle[g]
  BY <1>1, <1>4 DEF HandleInv
<1>6. \A u \in Threads \ {t} : \A g \in Handles : Uses(u, g)' <=> Uses(u, g)
  BY <1>1, <1>2, <1>5 DEF Uses
<1>7. \A g \in Handles : ~Uses(t, g)' /\ (g # h => ~Uses(t, g))
  BY <1>1, <1>2, <1>5 DEF Uses, h
<1>8. \A g \in Handles : handle'[g] = "live" <=> \E u \in Threads : Uses(u, g)'
  BY <1>1, <1>3, <1>5, <1>6, <1>7 DEF HandleInv
<1>9. \A u, v \in Threads : \A g \in Handles : Uses(u, g)' /\ Uses(v, g)' => u = v
  BY <1>1, <1>3, <1>6, <1>7 DEF HandleInv
<1>10. \A u \in Threads : HasHandle(u)' =>
         fetch'[u].h \in Handles /\ (fetch'[u].cached = TRUE <=> cache'[u] = fetch'[u].h)
  BY <1>1, <1>2, <1>5 DEF HandleInv
<1> QED BY <1>5, <1>8, <1>9, <1>10 DEF HandleInv

-----------------------------------------------------------------------------
(***************************************************************************)
(* The options.                                                            *)
(***************************************************************************)
LEMMA SameOptions ==
  ASSUME Inv, NEW t \in Threads, Only(t), opts' = opts,
         fetch[t].pc \in {"transfer", "release"} =>
           /\ fetch'[t].pc \in {"transfer", "release"} /\ fetch'[t].h = fetch[t].h
           /\ mem[t] \subseteq mem'[t],
         fetch'[t].pc = "transfer" =>
           /\ fetch[t].pc = "transfer" /\ fetch'[t].h = fetch[t].h
           /\ fetch'[t].req = fetch[t].req /\ fetch'[t].param = fetch[t].param
  PROVE  OptsInv'
<1>1. DOMAIN opts = Handles /\ OptsInv
  BY DEF Inv, OptsInv
<1>2. ASSUME NEW h \in Handles, NEW u \in Threads, OptionsOf(u, h)
      PROVE  OptionsOf(u, h)'
  <2>1. CASE u = t
    BY <1>2, <2>1 DEF OptionsOf, HasSet
  <2>2. CASE u # t
    BY <1>2, <2>2 DEF OptionsOf, HasSet, Only
  <2> QED BY <2>1, <2>2
<1>3. ASSUME NEW u \in Threads, GetAt(u, "transfer")'
      PROVE  Sends(opts'[fetch'[u].h], fetch'[u])
  <2>1. CASE u = t
    <3>1. Sends(opts[fetch[t].h], fetch[t])
      BY <1>1, <1>3, <2>1 DEF OptsInv, GetAt
    <3> QED BY <1>3, <2>1, <3>1 DEF Sends, GetAt
  <2>2. CASE u # t
    BY <1>1, <1>3, <2>2 DEF OptsInv, GetAt, Only
  <2> QED BY <2>1, <2>2
<1> QED BY <1>1, <1>2, <1>3 DEF OptsInv

\* Only the options of a handle change that thread t uses.
LEMMA OthersOptions ==
  ASSUME Inv, NEW t \in Threads, Only(t), NEW g \in Handles, Uses(t, g), NEW o,
         opts' = [opts EXCEPT ![g] = o],
         fetch[t].pc \in {"transfer", "release"} => fetch[t].h = g
  PROVE  /\ DOMAIN opts' = Handles /\ opts'[g] = o
         /\ \A h \in Handles \ {g} : opts'[h] = Defaults \/ \E u \in Threads : OptionsOf(u, h)'
         /\ \A u \in Threads \ {t} : GetAt(u, "transfer")' => Sends(opts'[fetch'[u].h], fetch'[u])
<1>1. OptsInv /\ HandleInv /\ DOMAIN opts = Handles
  BY DEF Inv, OptsInv
<1>2. DOMAIN opts' = Handles /\ opts'[g] = o /\ \A h \in Handles \ {g} : opts'[h] = opts[h]
  BY <1>1
<1>3. ASSUME NEW h \in Handles \ {g}, NEW u \in Threads, OptionsOf(u, h)
      PROVE  OptionsOf(u, h)'
  <2>1. u # t
    BY <1>3 DEF OptionsOf, HasSet
  <2> QED BY <1>2, <1>3, <2>1 DEF OptionsOf, HasSet, Only
<1>4. ASSUME NEW u \in Threads \ {t}, GetAt(u, "transfer")'
      PROVE  Sends(opts'[fetch'[u].h], fetch'[u])
  <2>1. fetch'[u] = fetch[u] /\ GetAt(u, "transfer") /\ HasHandle(u)
    BY <1>4 DEF Only, GetAt, HasHandle
  <2>2. fetch[u].h \in Handles /\ Uses(u, fetch[u].h)
    BY <1>1, <2>1 DEF HandleInv, Uses
  <2>3. fetch[u].h # g
    BY <1>1, <2>2 DEF HandleInv
  <2> QED BY <1>1, <1>2, <2>1, <2>2, <2>3 DEF OptsInv
<1> QED BY <1>1, <1>2, <1>3, <1>4 DEF OptsInv

\* Before its options are set a handle has none of an earlier request.
LEMMA Fresh ==
  ASSUME Inv, NEW t \in Threads, GetAt(t, "options")
  PROVE  fetch[t].h \in Handles /\ Uses(t, fetch[t].h) /\ opts[fetch[t].h] = Defaults
<1>1. OptsInv /\ HandleInv
  BY DEF Inv
<1>2. fetch[t].h \in Handles /\ Uses(t, fetch[t].h)
  BY <1>1 DEF HandleInv, HasHandle, GetAt, Uses
<1>3. ASSUME NEW u \in Threads PROVE ~OptionsOf(u, fetch[t].h)
  <2>1. CASE u = t
    BY <2>1 DEF OptionsOf, HasSet, GetAt
  <2>2. CASE u # t
    BY <1>1, <1>2, <2>2 DEF HandleInv, OptionsOf, HasSet, Uses, HasHandle
  <2> QED BY <2>1, <2>2
<1> QED BY <1>1, <1>2, <1>3 DEF OptsInv

\* What is set is what the request asks for.
LEMMA SetGives ==
  ASSUME Inv, NEW t \in Threads, GetAt(t, "options"), NEW lines, lines \in {{}, Lines(Asks(t))},
         SetUpTo(t, lines)
  PROVE  \E o : /\ opts' = [opts EXCEPT ![fetch[t].h] = o] /\ o.of = t
                /\ o.points = {"frame"} \cup IF lines # {} THEN {"slist"} ELSE {}
                /\ lines = Lines(Asks(t)) => Sends(o, fetch[t])
<1> DEFINE c == fetch[t]
           r == c.req
           L == Lines(r)
           o == WithOptions(Defaults, t, lines)
<1>1. c.h \in Handles /\ opts[c.h] = Defaults /\ DOMAIN opts = Handles
  BY Fresh DEF Inv, OptsInv
<1>2. opts' = [opts EXCEPT ![c.h] = o]
  BY <1>1 DEF SetUpTo
<1>3. r.ua \in BOOLEAN
  BY CallFacts DEF IsCall, GetAt
<1>4. /\ o.of = t /\ o.follow = r.follow /\ o.max = r.max /\ o.param = c.param
      /\ o.points = {"frame"} \cup IF lines # {} /\ lines = L THEN {"slist"} ELSE {}
      /\ o.auth = IF r.auth = "basic" /\ lines = L THEN "basic" ELSE "none"
      /\ o.lines = IF lines # {} /\ lines = L THEN lines ELSE {}
  BY DEF Defaults, WithOptions, Asks
<1>5. o.ua = r.ua
  BY <1>3 DEF Defaults, WithOptions, Asks
<1> HIDE DEF o
<1>6. lines = L => Sends(o, c)
  BY <1>4, <1>5 DEF Sends
<1>7. lines # {} => lines = L
  BY DEF Asks
<1> QED BY <1>2, <1>4, <1>6, <1>7 DEF Asks

LEMMA SetKeepsOptions ==
  ASSUME Inv, NEW t \in Threads, Keeps(t), SetOptions(t) \/ SetOptionsNoMemory(t)
  PROVE  OptsInv'
<1>1. /\ GetAt(t, "options") /\ IsCall(fetch[t]) /\ fetch'[t].pc \in {"transfer", "release"}
      /\ fetch'[t].h = fetch[t].h /\ fetch'[t].req = fetch[t].req /\ fetch'[t].param = fetch[t].param
  <2>1. GetAt(t, "options")
    BY DEF SetOptions, SetOptionsNoMemory
  <2>2. IsCall(fetch[t])
    BY <2>1, CallFacts DEF GetAt
  <2>3. \/ fetch'[t] = [fetch[t] EXCEPT !.pc = "transfer"]
        \/ fetch'[t] = [fetch[t] EXCEPT !.pc = "release", !.answer = "memory"]
    BY DEF SetOptions, SetOptionsNoMemory, Inv
  <2> QED BY <2>1, <2>2, <2>3 DEF IsCall
<1>2. PICK g \in Handles : g = fetch[t].h /\ Uses(t, g) /\ opts[g] = Defaults
  BY <1>1, Fresh
<1>3. Only(t) /\ "frame" \in mem'[t]
  BY <1>1 DEF Keeps, Local, MemInv
<1>4. PICK o : /\ opts' = [opts EXCEPT ![g] = o] /\ o.of = t /\ o.points \subseteq mem'[t]
               /\ fetch'[t].pc = "transfer" => Sends(o, fetch[t])
  <2>1. CASE SetOptions(t)
    <3> DEFINE L == Lines(Asks(t))
    <3>1. PICK o : /\ opts' = [opts EXCEPT ![g] = o] /\ o.of = t
                   /\ o.points = {"frame"} \cup IF L # {} THEN {"slist"} ELSE {}
                   /\ Sends(o, fetch[t])
      BY <1>1, <1>2, <2>1, SetGives DEF SetOptions
    <3>2. L # {} => "slist" \in mem'[t]
      BY <2>1 DEF SetOptions, Inv
    <3> QED BY <1>3, <3>1, <3>2
  <2>2. CASE SetOptionsNoMemory(t)
    <3>1. PICK o : /\ opts' = [opts EXCEPT ![g] = o] /\ o.of = t /\ o.points = {"frame"}
      <4>1. SetUpTo(t, {})
        BY <2>2 DEF SetOptionsNoMemory
      <4> QED BY <1>1, <1>2, <4>1, SetGives
    <3>2. fetch'[t].pc = "release"
      BY <1>1, <2>2 DEF SetOptionsNoMemory, Inv, IsCall
    <3> QED BY <1>3, <3>1, <3>2
  <2> QED BY <2>1, <2>2
<1>5. /\ DOMAIN opts' = Handles /\ opts'[g] = o
      /\ \A h \in Handles \ {g} : opts'[h] = Defaults \/ \E u \in Threads : OptionsOf(u, h)'
      /\ \A u \in Threads \ {t} : GetAt(u, "transfer")' => Sends(opts'[fetch'[u].h], fetch'[u])
  BY <1>1, <1>2, <1>3, <1>4, OthersOptions DEF GetAt
<1>6. OptionsOf(t, g)'
  BY <1>1, <1>2, <1>4, <1>5 DEF OptionsOf, HasSet
<1>7. GetAt(t, "transfer")' => Sends(opts'[fetch'[t].h], fetch'[t])
  BY <1>1, <1>2, <1>4, <1>5 DEF GetAt, Sends
<1> QED BY <1>5, <1>6, <1>7 DEF OptsInv

LEMMA ReleaseKeepsOptions ==
  ASSUME Inv, NEW t \in Threads, Only(t), Release(t) \/ ThreadEnds(t)
  PROVE  OptsInv'
<1>1. \E g \in Handles :
        /\ Uses(t, g) /\ opts' = [opts EXCEPT ![g] = Defaults]
        /\ fetch[t].pc \in {"transfer", "release"} => fetch[t].h = g
  <2>1. CASE Release(t)
    BY <2>1 DEF Release, Inv, HandleInv, HasHandle, Uses, GetAt
  <2>2. CASE ThreadEnds(t)
    BY <2>2 DEF ThreadEnds, Inv, HandleInv, Uses, GetAt
  <2> QED BY <2>1, <2>2
<1>2. PICK g \in Handles :
        /\ Uses(t, g) /\ opts' = [opts EXCEPT ![g] = Defaults]
        /\ fetch[t].pc \in {"transfer", "release"} => fetch[t].h = g
  BY <1>1
<1>3. /\ DOMAIN opts' = Handles /\ opts'[g] = Defaults
      /\ \A h \in Handles \ {g} : opts'[h] = Defaults \/ \E u \in Threads : OptionsOf(u, h)'
      /\ \A u \in Threads \ {t} : GetAt(u, "transfer")' => Sends(opts'[fetch'[u].h], fetch'[u])
  BY <1>2, OthersOptions
<1>4. ~GetAt(t, "transfer")'
  BY ZenonT(60) DEF Release, ThreadEnds, Begun, GetAt, Inv
<1> QED BY <1>3, <1>4 DEF OptsInv

-----------------------------------------------------------------------------
(***************************************************************************)
(* The invariant is one.                                                   *)
(***************************************************************************)
LEMMA InitInv == GetInit => Inv
<1> SUFFICES ASSUME GetInit PROVE Inv
  OBVIOUS
<1>1. /\ DOMAIN fetch = Threads /\ DOMAIN mem = Threads /\ DOMAIN opts = Handles
      /\ \A t \in Threads : fetch[t] = GetIdle /\ mem[t] = {} /\ cache[t] = "none"
      /\ \A h \in Handles : handle[h] = "unused" /\ opts[h] = Defaults
  BY DEF GetInit
<1>2. GetIdle.pc = "idle"
  BY DEF GetIdle
<1>3. LocalInv
  BY <1>1, <1>2 DEF LocalInv, Local, CallInv, MemInv, ResponseInv
<1>4. \A t \in Threads : ~HasHandle(t) /\ \A h \in Handles : ~Uses(t, h)
  BY <1>1, <1>2 DEF HasHandle, Uses
<1>5. HandleInv
  BY <1>1, <1>4 DEF HandleInv, GetInit
<1>6. OptsInv
  BY <1>1, <1>2 DEF OptsInv, GetAt
<1> QED BY <1>1, <1>3, <1>5, <1>6 DEF Inv

LEMMA StepKeepsInv ==
  ASSUME Inv, NEW t \in Threads, Get(t) \/ Perform(t) \/ Return(t) \/ ThreadEnds(t)
  PROVE  Inv'
<1> SUFFICES LocalInv' /\ Only(t) /\ HandleInv' /\ OptsInv'
  BY DEF Inv, Only
<1>1. CASE Get(t) \/ Rejected(t) \/ NoHandle(t) \/ Free(t) \/ Return(t)
  <2>1. Keeps(t)
    BY <1>1, GetKeeps, CheckKeeps, DoneKeeps
  <2>2. /\ fetch[t].pc \in {"idle", "check", "free", "return"}
        /\ fetch'[t].pc \in {"idle", "check", "return"} /\ UNCHANGED <<cache, handle, opts>>
    <3>1. GetAt(t, "check") \/ GetAt(t, "free") => IsCall(fetch[t])
      BY CallFacts DEF GetAt
    <3> QED BY <1>1, <3>1 DEF Get, Rejected, NoHandle, Free, Return, GetAt, Inv, Begun, GetIdle, IsCall
  <2>3. HasHandle(t)' = HasHandle(t) /\ ~HasHandle(t)
    BY <2>2 DEF HasHandle
  <2> QED BY <2>1, <2>2, <2>3, LocalStep, SameUse, SameOptions DEF Keeps
<1>2. CASE Reuse(t) \/ NewHandle(t)
  <2>1. Keeps(t)
    BY <1>2, CheckKeeps
  <2>2. HandleInv'
    BY <1>2, ReuseKeepsHandles, NewHandleKeepsHandles
  <2>3. fetch[t].pc = "check" /\ fetch'[t].pc = "url" /\ opts' = opts
    <3>1. GetAt(t, "check") /\ IsCall(fetch[t])
      BY <1>2, CallFacts DEF Reuse, NewHandle, GetAt
    <3>2. CASE Reuse(t)
      <4>1. fetch'[t] = [fetch[t] EXCEPT !.pc = "url", !.h = cache[t], !.cached = TRUE] /\ opts' = opts
        BY <3>2 DEF Reuse, Inv
      <4> QED BY <3>1, <4>1 DEF GetAt, IsCall
    <3>3. CASE NewHandle(t)
      <4>1. PICK h \in Handles, kept \in BOOLEAN :
              fetch' = [fetch EXCEPT ![t].pc = "url", ![t].h = h, ![t].cached = kept]
        BY <3>3 DEF NewHandle
      <4>2. fetch'[t] = [fetch[t] EXCEPT !.pc = "url", !.h = h, !.cached = kept] /\ opts' = opts
        BY <3>3, <4>1 DEF NewHandle, Inv
      <4> QED BY <3>1, <4>2 DEF GetAt, IsCall
    <3> QED BY <1>2, <3>2, <3>3
  <2> QED BY <2>1, <2>2, <2>3, LocalStep, SameOptions DEF Keeps
<1>3. CASE BuildUrl(t) \/ NoUrl(t) \/ Transfer(t)
  <2>1. Keeps(t)
    BY <1>3, UrlKeeps, HeaderKeeps, BodyKeeps DEF Transfer
  <2>2. fetch[t].pc \in {"url", "transfer"} /\ IsCall(fetch[t]) /\ UNCHANGED <<cache, handle, opts>>
    <3>1. fetch[t].pc \in {"url", "transfer"} /\ UNCHANGED <<cache, handle, opts>>
      BY <1>3 DEF BuildUrl, NoUrl, Transfer, HeaderLine, Redirect, BodyPiece, BodyTooBig,
                  TransferFails, TransferDone, GetAt
    <3> QED BY <3>1, CallFacts
  <2>3. /\ fetch'[t].pc \in {"options", "transfer", "release"}
        /\ fetch'[t].pc \in {"options", "transfer"} \/ fetch[t].pc = "url" \/ fetch'[t].pc = "release"
        /\ fetch[t].pc = "transfer" => fetch'[t].pc \in {"transfer", "release"} /\ mem[t] \subseteq mem'[t]
        /\ fetch'[t].pc = "transfer" => fetch[t].pc = "transfer" /\ fetch'[t].param = fetch[t].param
        /\ fetch'[t].h = fetch[t].h /\ fetch'[t].cached = fetch[t].cached /\ fetch'[t].req = fetch[t].req
    <3>1. CASE BuildUrl(t) \/ NoUrl(t)
      <4>1. fetch[t].pc = "url"
        BY <3>1 DEF BuildUrl, NoUrl, GetAt
      <4>2. CASE BuildUrl(t)
        <5>1. PICK w \in {Asks(t).param} \cup (IF NoMemory THEN {FALSE} ELSE {}) :
                fetch' = [fetch EXCEPT ![t].pc = "options", ![t].param = w,
                                     ![t].lost = w # Asks(t).param]
          BY <4>2 DEF BuildUrl
        <5> DEFINE l == w # Asks(t).param
        <5>2. fetch'[t] = [fetch[t] EXCEPT !.pc = "options", !.param = w, !.lost = l]
          BY <5>1 DEF Inv
        <5> HIDE DEF l
        <5> QED BY <2>2, <4>1, <5>2 DEF IsCall
      <4>3. CASE NoUrl(t)
        <5>1. fetch'[t] = [fetch[t] EXCEPT !.pc = "release", !.answer = "memory"]
          BY <4>3 DEF NoUrl, Inv
        <5> QED BY <2>2, <4>1, <5>1 DEF IsCall
      <4> QED BY <3>1, <4>2, <4>3
    <3>2. CASE HeaderLine(t)
      BY <2>2, <3>2 DEF HeaderLine, Inv, IsCall, GetAt
    <3>3. CASE Redirect(t) \/ BodyPiece(t) \/ BodyTooBig(t) \/ TransferFails(t) \/ TransferDone(t)
      <4>1. fetch[t].pc = "transfer" /\ mem[t] \subseteq mem'[t]
        BY <3>3, ZenonT(60) DEF Redirect, BodyPiece, BodyTooBig, TransferFails, TransferDone, Inv, GetAt
      <4>2. CASE Redirect(t) \/ BodyPiece(t)
        <5>1. fetch'[t].pc = fetch[t].pc /\ fetch'[t].h = fetch[t].h /\ fetch'[t].cached = fetch[t].cached
              /\ fetch'[t].req = fetch[t].req /\ fetch'[t].param = fetch[t].param
          <6>1. CASE Redirect(t)
            BY <2>2, <6>1 DEF Redirect, Inv, IsCall
          <6>2. CASE BodyPiece(t)
            <7>1. PICK n \in Chunks : fetch' = [fetch EXCEPT ![t].sent = @ + n, ![t].body = @ + n,
                                                          ![t].cap = GetGrown(@, fetch[t].body + n)]
              BY <6>2 DEF BodyPiece
            <7> DEFINE b == fetch[t].body + n
                       k == GetGrown(fetch[t].cap, b)
            <7>2. fetch'[t] = [fetch[t] EXCEPT !.sent = @ + n, !.body = b, !.cap = k]
              BY <7>1 DEF Inv
            <7> HIDE DEF b, k
            <7> QED BY <2>2, <7>2 DEF IsCall
          <6> QED BY <4>2, <6>1, <6>2
        <5> QED BY <4>1, <5>1
      <4>3. CASE BodyTooBig(t) \/ TransferFails(t) \/ TransferDone(t)
        <5>1. fetch'[t].pc = "release" /\ fetch'[t].h = fetch[t].h /\ fetch'[t].cached = fetch[t].cached
              /\ fetch'[t].req = fetch[t].req
          BY <2>2, <4>3 DEF BodyTooBig, TransferFails, TransferDone, Inv, IsCall
        <5> QED BY <4>1, <5>1
      <4> QED BY <3>3, <4>2, <4>3
    <3> QED BY <1>3, <3>1, <3>2, <3>3 DEF Transfer
  <2>4. HasHandle(t)' = HasHandle(t)
    BY <2>2, <2>3 DEF HasHandle
  <2> QED BY <2>1, <2>2, <2>3, <2>4, LocalStep, SameUse, SameOptions DEF Keeps
<1>4. CASE SetOptions(t) \/ SetOptionsNoMemory(t)
  <2>1. Keeps(t)
    BY <1>4, OptionsKeeps
  <2>2. OptsInv'
    BY <1>4, <2>1, SetKeepsOptions
  <2>3. /\ fetch[t].pc = "options" /\ IsCall(fetch[t]) /\ UNCHANGED <<cache, handle>>
        /\ \/ fetch'[t] = [fetch[t] EXCEPT !.pc = "transfer"]
           \/ fetch'[t] = [fetch[t] EXCEPT !.pc = "release", !.answer = "memory"]
    BY <1>4, CallFacts DEF SetOptions, SetOptionsNoMemory, GetAt, Inv
  <2>4. HasHandle(t)' = HasHandle(t) /\ fetch'[t].h = fetch[t].h /\ fetch'[t].cached = fetch[t].cached
    <3>1. /\ fetch'[t].pc \in {"transfer", "release"}
          /\ fetch'[t].h = fetch[t].h /\ fetch'[t].cached = fetch[t].cached
      BY <2>3, ZenonT(60) DEF IsCall
    <3> QED BY <2>3, <3>1 DEF HasHandle
  <2> QED BY <2>1, <2>2, <2>3, <2>4, LocalStep, SameUse DEF Keeps
<1>5. CASE Release(t)
  BY <1>5, DoneKeeps, LocalStep, ReleaseKeepsHandles, ReleaseKeepsOptions DEF Keeps
<1>6. CASE ThreadEnds(t)
  <2>1. UNCHANGED <<fetch, mem>>
    BY <1>6 DEF ThreadEnds
  <2>2. Only(t) /\ LocalInv'
    BY <2>1 DEF Only, Inv, LocalInv
  <2> QED BY <1>6, <2>2, EndKeepsHandles, ReleaseKeepsOptions
<1> QED BY <1>1, <1>2, <1>3, <1>4, <1>5, <1>6 DEF Perform

LEMMA InvCorrect == GetSpec => []Inv
<1>1. Inv /\ UNCHANGED getVars => Inv'
  BY DEF Inv, LocalInv, HandleInv, OptsInv, getVars, Uses, HasHandle, OptionsOf, HasSet, GetAt
<1>2. Inv /\ [GetNext]_getVars => Inv'
  BY <1>1, StepKeepsInv DEF GetNext
<1> QED BY <1>2, InitInv, PTL DEF GetSpec

-----------------------------------------------------------------------------
\* However many threads run requests, start and end, each handle is used by one of
\* them at a time and cleaned up once (thread_handle, release_handle, handle_free).
THEOREM HandleExclusiveCorrect == GetSpec => []HandleExclusive
<1>1. Inv => HandleExclusive
  <2> SUFFICES ASSUME Inv PROVE HandleExclusive
    OBVIOUS
  <2>1. HandleInv
    BY DEF Inv
  <2>2. \A t \in Threads : HasHandle(t) => fetch[t].h \in Handles /\ Uses(t, fetch[t].h)
    BY <2>1 DEF HandleInv, Uses
  <2>3. \A t \in Threads : HasHandle(t) => handle[fetch[t].h] = "live"
    BY <2>1, <2>2 DEF HandleInv
  <2>4. ASSUME NEW t \in Threads, NEW u \in Threads, t # u, HasHandle(t)
        PROVE  cache[u] # fetch[t].h /\ (HasHandle(u) => fetch[u].h # fetch[t].h)
    <3>1. ~Uses(u, fetch[t].h)
      BY <2>1, <2>2, <2>4 DEF HandleInv
    <3> QED BY <3>1 DEF Uses
  <2>5. \A h \in Handles : handle[h] # "twice"
    BY <2>1 DEF HandleInv
  <2> QED BY <2>3, <2>4, <2>5 DEF HandleExclusive
<1> QED BY <1>1, InvCorrect, PTL

\* No option of a handle points to memory of a request that has been freed
\* (release_handle before the frees of pl_curl_get_perform).
THEOREM NoStalePointerCorrect == GetSpec => []NoStalePointer
<1>1. Inv => NoStalePointer
  BY DEF Inv, OptsInv, OptionsOf, Defaults, NoStalePointer
<1> QED BY <1>1, InvCorrect, PTL

\* A request is sent with its own options, be there as many requests of the thread
\* before as there may (curl_easy_reset in release_handle).
THEOREM SentAsAskedCorrect == GetSpec => []SentAsAsked
<1>1. Inv => SentAsAsked
  <2> SUFFICES ASSUME Inv, NEW t \in Threads, GetAt(t, "transfer")
               PROVE  LET o == opts[fetch[t].h]
                          r == Asks(t)
                      IN  /\ o.ua = r.ua /\ o.follow = r.follow /\ o.max = r.max /\ o.lines = Lines(r)
                          /\ (o.auth = "basic") = (r.auth = "basic")
                          /\ o.param # r.param => fetch[t].lost
    BY DEF SentAsAsked
  <2>1. Sends(opts[fetch[t].h], fetch[t])
    BY DEF Inv, OptsInv
  <2>2. fetch[t].param = fetch[t].req.param \/ fetch[t].lost = TRUE
    BY CallFacts DEF ResponseInv, GetAt
  <2> QED BY <2>1, <2>2 DEF Sends, Asks
<1> QED BY <1>1, InvCorrect, PTL

\* What the caller gets is the whole body and the header lines in order, and
\* "exceeds the limit" is said of bodies that do, for any number of pieces
\* (body_write_cb, header_write_cb, pl_curl_get_perform).
THEOREM ResponseFaithfulCorrect == GetSpec => []ResponseFaithful
<1>1. Inv => ResponseFaithful
  <2> SUFFICES ASSUME Inv, NEW t \in Threads, GetAt(t, "release")
               PROVE  /\ fetch[t].answer = "ok" => fetch[t].body = fetch[t].sent /\ fetch[t].sent <= Asks(t).max
                      /\ fetch[t].answer = "ok" /\ ~fetch[t].lost => fetch[t].lines = fetch[t].got
                      /\ IsInjective(fetch[t].lines)
                      /\ \A i, j \in 1..Len(fetch[t].lines) : i < j => fetch[t].lines[i][2] < fetch[t].lines[j][2]
                      /\ fetch[t].answer = "limit" => fetch[t].sent > Asks(t).max
    BY DEF ResponseFaithful
  <2> DEFINE s == fetch[t].lines
  <2>1. IsCall(fetch[t]) /\ ResponseInv(fetch[t])
    BY CallFacts DEF GetAt
  <2>2. s \in HeaderLines /\ fetch[t].lost \in BOOLEAN
    BY <2>1 DEF IsCall
  <2>3. Ordered(s, Len(fetch[t].got)) /\ (fetch[t].lost = FALSE => s = fetch[t].got)
    BY <2>1 DEF ResponseInv, GetAt
  <2>4. \A i, j \in 1..Len(s) : i < j => s[i][2] < s[j][2]
    BY <2>3 DEF Ordered
  <2>5. IsInjective(s)
    <3>1. DOMAIN s = 1..Len(s) /\ Len(s) \in Nat /\ \A i \in 1..Len(s) : s[i] \in Nat \X Nat
      BY <2>2 DEF HeaderLines
    <3>2. \A i \in 1..Len(s) : s[i][2] \in Nat
      BY <3>1
    <3> HIDE DEF s
    <3>3. ASSUME NEW i \in 1..Len(s), NEW j \in 1..Len(s), s[i] = s[j] PROVE i = j
      <4>1. ~(i < j) /\ ~(j < i)
        BY <2>4, <3>2, <3>3
      <4> QED BY <3>1, <4>1
    <3> QED BY <3>1, <3>3 DEF IsInjective
  <2>6. /\ fetch[t].answer = "ok" => fetch[t].body = fetch[t].sent /\ fetch[t].sent <= Asks(t).max
        /\ fetch[t].answer = "limit" => fetch[t].sent > Asks(t).max
    BY <2>1 DEF ResponseInv, GetAt, Asks
  <2> QED BY <2>2, <2>3, <2>4, <2>5, <2>6
<1> QED BY <1>1, InvCorrect, PTL

\* No handle and no memory of a request is lost, whichever step of it failed.
THEOREM NothingLeakedCorrect == GetSpec => []NothingLeaked
<1>1. Inv => NothingLeaked
  <2> SUFFICES ASSUME Inv PROVE NothingLeaked
    OBVIOUS
  <2>1. \A h \in Handles : handle[h] = "live" =>
          \E t \in Threads : cache[t] = h \/ (HasHandle(t) /\ fetch[t].h = h)
    BY DEF Inv, HandleInv, Uses
  <2>2. \A t \in Threads : MemInv(fetch[t], mem[t])
    BY CallFacts
  <2> QED BY <2>1, <2>2 DEF NothingLeaked, MemInv, InCall, GetAt
<1> QED BY <1>1, InvCorrect, PTL

-----------------------------------------------------------------------------
(***************************************************************************)
(* Types, and the room the bytes of a body have.                           *)
(***************************************************************************)
HasRoom(c) == c.pc # "idle" => c.cap \in Nat /\ (c.body > 0 => c.body < c.cap)

RoomInv ==
  /\ key \in {"unset", "ok", "failed"}
  /\ \A h \in Handles : opts[h].points \subseteq {"frame", "slist"}
  /\ \A t \in Threads : HasRoom(fetch[t])

LEMMA KeyKept ==
  ASSUME RoomInv, NEW t \in Threads, Get(t) \/ Perform(t) \/ Return(t) \/ ThreadEnds(t)
  PROVE  key' \in {"unset", "ok", "failed"}
<1>1. key \in {"unset", "ok", "failed"}
  BY DEF RoomInv
<1>2. UNCHANGED key \/ NewHandle(t) \/ NoHandle(t)
  BY DEF Get, Perform, Return, ThreadEnds, Rejected, Reuse, BuildUrl, NoUrl, SetOptions,
         SetOptionsNoMemory, Transfer, HeaderLine, Redirect, BodyPiece, BodyTooBig, TransferFails,
         TransferDone, Release, Free
<1>3. CASE NewHandle(t)
  BY <1>1, <1>3 DEF NewHandle
<1>4. CASE NoHandle(t)
  BY <1>1, <1>4 DEF NoHandle
<1> QED BY <1>1, <1>2, <1>3, <1>4

LEMMA PointsKept ==
  ASSUME Inv, RoomInv, NEW t \in Threads, Get(t) \/ Perform(t) \/ Return(t) \/ ThreadEnds(t)
  PROVE  \A h \in Handles : opts'[h].points \subseteq {"frame", "slist"}
<1>1. DOMAIN opts = Handles /\ \A h \in Handles : opts[h].points \subseteq {"frame", "slist"}
  BY DEF Inv, OptsInv, RoomInv
<1>2. \/ UNCHANGED opts
      \/ SetOptions(t) \/ SetOptionsNoMemory(t)
      \/ \E h : opts' = [opts EXCEPT ![h] = Defaults]
  BY DEF Get, Perform, Return, ThreadEnds, Rejected, Reuse, NewHandle, NoHandle, BuildUrl, NoUrl,
         Transfer, HeaderLine, Redirect, BodyPiece, BodyTooBig, TransferFails, TransferDone,
         Release, Free
<1>3. CASE SetOptions(t) \/ SetOptionsNoMemory(t)
  <2>1. GetAt(t, "options")
    BY <1>3 DEF SetOptions, SetOptionsNoMemory
  <2>2. PICK lines \in {{}, Lines(Asks(t))} : SetUpTo(t, lines)
    BY <1>3 DEF SetOptions, SetOptionsNoMemory
  <2>3. PICK o : /\ opts' = [opts EXCEPT ![fetch[t].h] = o]
                 /\ o.points = {"frame"} \cup IF lines # {} THEN {"slist"} ELSE {}
    BY <2>1, <2>2, SetGives
  <2>4. \A h \in Handles : opts'[h] \in {opts[h], o}
    BY <1>1, <2>3
  <2> QED BY <1>1, <2>3, <2>4
<1>4. ASSUME NEW h, opts' = [opts EXCEPT ![h] = Defaults]
      PROVE  \A k \in Handles : opts'[k].points \subseteq {"frame", "slist"}
  <2>1. Defaults.points = {}
    BY DEF Defaults
  <2> QED BY <1>1, <1>4, <2>1
<1> QED BY <1>1, <1>2, <1>3, <1>4

LEMMA RoomKept ==
  ASSUME Inv, RoomInv, NEW t \in Threads, Get(t) \/ Perform(t) \/ Return(t) \/ ThreadEnds(t)
  PROVE  \A u \in Threads : HasRoom(fetch'[u])
<1> DEFINE c == fetch[t]
<1>1. DOMAIN fetch = Threads /\ \A u \in Threads : HasRoom(fetch[u])
  BY DEF Inv, RoomInv
<1>2. HasRoom(GetIdle)
  BY DEF HasRoom, GetIdle
<1>3. \A r : HasRoom(Begun(r))
  BY DEF HasRoom, Begun
<1>4. CASE Get(t) \/ Return(t) \/ ThreadEnds(t)
  <2>1. UNCHANGED fetch \/ \E d : HasRoom(d) /\ fetch' = [fetch EXCEPT ![t] = d]
    BY <1>2, <1>3, <1>4 DEF Get, Return, ThreadEnds
  <2> QED BY <1>1, <2>1
<1>5. CASE BodyPiece(t)
  <2>1. IsCall(c)
    BY <1>5, CallFacts DEF BodyPiece, GetAt
  <2>2. c.body \in Nat /\ c.cap \in Nat
    BY <1>1, <1>5, <2>1 DEF IsCall, BodyPiece, GetAt, HasRoom
  <2>3. PICK n \in Chunks : fetch' = [fetch EXCEPT ![t].sent = @ + n, ![t].body = @ + n,
                                                 ![t].cap = GetGrown(@, c.body + n)]
    BY <1>5 DEF BodyPiece
  <2>4. n \in Nat /\ c.body + n \in Nat
    BY <2>2 DEF GetAssumption
  <2> DEFINE b == c.body + n
             k == GetGrown(c.cap, b)
  <2>5. k \in Nat /\ b < k
    BY <2>2, <2>4, GrownSuffices
  <2>6. fetch' = [fetch EXCEPT ![t] = [c EXCEPT !.sent = @ + n, !.body = b, !.cap = k]]
    BY <1>1, <2>3
  <2> HIDE DEF b, k
  <2>7. fetch'[t].body = b /\ fetch'[t].cap = k /\ \A u \in Threads \ {t} : fetch'[u] = fetch[u]
    BY <1>1, <2>1, <2>6 DEF IsCall
  <2> QED BY <1>1, <2>5, <2>7 DEF HasRoom
<1>6. CASE Perform(t) /\ ~BodyPiece(t)
  <2>1. GetAt(t, "check") \/ GetAt(t, "url") \/ GetAt(t, "options") \/ GetAt(t, "transfer") \/ GetAt(t, "release")
        \/ GetAt(t, "free")
    BY <1>6 DEF Perform, Rejected, Reuse, NewHandle, NoHandle, BuildUrl, NoUrl, SetOptions,
                SetOptionsNoMemory, Transfer, HeaderLine, Redirect, BodyTooBig, TransferFails,
                TransferDone, Release, Free
  <2>2. IsCall(c) /\ c.pc # "idle" /\ c.cap \in Nat /\ (c.body > 0 => c.body < c.cap)
    BY <1>1, <2>1, CallFacts DEF GetAt, HasRoom
  <2>5. IsCall(c)
    BY <2>2
  <2>3. \A u \in Threads \ {t} : fetch'[u] = fetch[u]
    BY <1>1, <1>6 DEF Perform, Rejected, Reuse, NewHandle, NoHandle, BuildUrl, NoUrl, SetOptions,
                SetOptionsNoMemory, Transfer, HeaderLine, Redirect, BodyTooBig, TransferFails,
                TransferDone, Release, Free
  <2>4. \/ fetch'[t].cap = c.cap /\ fetch'[t].body = c.body
        \/ fetch'[t].cap = 0 /\ fetch'[t].body = 0
    <3>1. CASE Rejected(t)
      <4>1. fetch'[t] = [c EXCEPT !.pc = "return", !.answer = "invalid"]
        BY <1>1, <3>1 DEF Rejected
      <4> QED BY <2>5, <4>1 DEF IsCall
    <3>2. CASE Reuse(t)
      <4>1. fetch'[t] = [c EXCEPT !.pc = "url", !.h = cache[t], !.cached = TRUE]
        BY <1>1, <3>2 DEF Reuse
      <4> QED BY <2>5, <4>1 DEF IsCall
    <3>3. CASE NewHandle(t)
      <4>1. PICK h \in Handles, k \in BOOLEAN :
              fetch' = [fetch EXCEPT ![t].pc = "url", ![t].h = h, ![t].cached = k]
        BY <3>3 DEF NewHandle
      <4>2. fetch'[t] = [c EXCEPT !.pc = "url", !.h = h, !.cached = k]
        BY <1>1, <4>1
      <4> QED BY <2>5, <4>2 DEF IsCall
    <3>4. CASE NoHandle(t)
      <4>1. fetch'[t] = [c EXCEPT !.pc = "return", !.answer = "memory"]
        BY <1>1, <3>4 DEF NoHandle
      <4> QED BY <2>5, <4>1 DEF IsCall
    <3>5. CASE BuildUrl(t)
      <4>1. \E p : fetch'[t] = [c EXCEPT !.pc = "options", !.param = p, !.lost = p # Asks(t).param]
        BY <1>1, <3>5 DEF BuildUrl
      <4> QED BY <2>5, <4>1 DEF IsCall
    <3>6. CASE NoUrl(t)
      <4>1. fetch'[t] = [c EXCEPT !.pc = "release", !.answer = "memory"]
        BY <1>1, <3>6 DEF NoUrl
      <4> QED BY <2>5, <4>1 DEF IsCall
    <3>7. CASE SetOptions(t)
      <4>1. fetch'[t] = [c EXCEPT !.pc = "transfer"]
        BY <1>1, <3>7 DEF SetOptions
      <4> QED BY <2>5, <4>1 DEF IsCall
    <3>8. CASE SetOptionsNoMemory(t)
      <4>1. fetch'[t] = [c EXCEPT !.pc = "release", !.answer = "memory"]
        BY <1>1, <3>8 DEF SetOptionsNoMemory
      <4> QED BY <2>5, <4>1 DEF IsCall
    <3>9. CASE Free(t)
      <4>1. fetch'[t] = [c EXCEPT !.pc = "return"]
        BY <1>1, <3>9 DEF Free
      <4> QED BY <2>5, <4>1 DEF IsCall
    <3>10. CASE HeaderLine(t)
      <4> DEFINE line == <<c.hop, Len(c.got) + 1>>
      <4>1. PICK k \in BOOLEAN :
              fetch' = [fetch EXCEPT ![t].got = Append(@, line),
                                   ![t].lines = IF k THEN Append(@, line) ELSE @,
                                   ![t].lost = @ \/ ~k]
        BY <3>10 DEF HeaderLine
      <4>2. fetch'[t] = [c EXCEPT !.got = Append(@, line),
                                 !.lines = IF k THEN Append(@, line) ELSE @,
                                 !.lost = @ \/ ~k]
        BY <1>1, <4>1
      <4> QED BY <2>5, <4>2 DEF IsCall
    <3>11. CASE Redirect(t)
      <4>1. fetch'[t] = [c EXCEPT !.hop = @ + 1]
        BY <1>1, <3>11 DEF Redirect
      <4> QED BY <2>5, <4>1 DEF IsCall
    <3>12. CASE BodyTooBig(t)
      <4>1. \E n : fetch'[t] = [c EXCEPT !.pc = "release", !.answer = "limit", !.sent = n]
        BY <1>1, <3>12 DEF BodyTooBig
      <4> QED BY <2>5, <4>1 DEF IsCall
    <3>13. CASE TransferFails(t)
      <4>1. \/ \E n : fetch'[t] = [c EXCEPT !.pc = "release", !.answer = "limit",
                                                   !.sent = n]
            \/ fetch'[t] = [c EXCEPT !.pc = "release", !.answer = "transport"]
        BY <1>1, <3>13 DEF TransferFails
      <4> QED BY <2>5, <4>1 DEF IsCall
    <3>14. CASE TransferDone(t)
      <4>1. fetch'[t] = [c EXCEPT !.pc = "release", !.answer = "ok"]
        BY <1>1, <3>14 DEF TransferDone
      <4> QED BY <2>5, <4>1 DEF IsCall
    <3>15. CASE Release(t)
      BY <1>1, <3>15 DEF Release, Begun
    <3> QED BY <1>6, <3>1, <3>2, <3>3, <3>4, <3>5, <3>6, <3>7, <3>8, <3>9, <3>10, <3>11, <3>12,
               <3>13, <3>14, <3>15 DEF Perform, Transfer
  <2> QED BY <1>1, <2>2, <2>3, <2>4 DEF HasRoom
<1> QED BY <1>4, <1>5, <1>6

LEMMA RoomCorrect == GetSpec => []RoomInv
<1>1. GetInit => RoomInv
  BY DEF GetInit, RoomInv, HasRoom, GetIdle, Defaults
<1>2. Inv /\ RoomInv /\ [GetNext]_getVars => RoomInv'
  <2> SUFFICES ASSUME Inv, RoomInv, [GetNext]_getVars PROVE RoomInv'
    OBVIOUS
  <2>1. CASE UNCHANGED getVars
    BY <2>1 DEF getVars, RoomInv
  <2>2. CASE GetNext
    <3>1. PICK t \in Threads : Get(t) \/ Perform(t) \/ Return(t) \/ ThreadEnds(t)
      BY <2>2 DEF GetNext
    <3> QED BY <3>1, KeyKept, PointsKept, RoomKept DEF RoomInv
  <2> QED BY <2>1, <2>2
<1> QED BY <1>1, <1>2, InvCorrect, PTL DEF GetSpec

\* Types of the variables; and the bytes of a body and the NUL after them fit the
\* buffer, however often growbuf_append has doubled its capacity.
THEOREM TypeCorrect == GetSpec => []GetTypeOK
<1>1. Inv /\ RoomInv => GetTypeOK
  <2> SUFFICES ASSUME Inv, RoomInv PROVE GetTypeOK
    OBVIOUS
  <2>1. key \in {"unset", "ok", "failed"} /\ \A h \in Handles : opts[h].points \subseteq {"frame", "slist"}
    BY DEF RoomInv
  <2>2. cache \in [Threads -> Handles \cup {"none"}] /\ handle \in [Handles -> {"unused", "live", "twice"}]
    BY DEF Inv, HandleInv
  <2>3. ASSUME NEW t \in Threads PROVE mem[t] \subseteq Memory
    <3>1. CallInv(fetch[t]) /\ MemInv(fetch[t], mem[t])
      BY CallFacts
    <3>2. fetch[t].pc = "idle" \/ fetch[t].pc \in Steps
      BY <3>1 DEF CallInv, IsCall, GetIdle
    <3> QED BY <3>1, <3>2 DEF MemInv, Steps, Memory
  <2>4. \A t \in Threads : InCall(t) /\ fetch[t].body > 0 => fetch[t].body < fetch[t].cap
    BY DEF RoomInv, HasRoom, InCall
  <2> QED BY <2>1, <2>2, <2>3, <2>4 DEF GetTypeOK, Memory
<1> QED BY <1>1, InvCorrect, RoomCorrect, PTL

=============================================================================
