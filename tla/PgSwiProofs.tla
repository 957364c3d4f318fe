----------------------------- MODULE PgSwiProofs -----------------------------
(***************************************************************************)
(* Proofs about PgSwi for every value of its constants, for programs that  *)
(* do not share handles between threads: nothing is used after it is       *)
(* freed, nothing is lost, between calls no handle refers to a finished    *)
(* connection, and the bridge implements the contract of both bridges.     *)
(***************************************************************************)
EXTENDS PgSwi, SequenceTheorems, TLAPS

USE PgAssumption

-----------------------------------------------------------------------------
(***************************************************************************)
(* The inductive invariant: the handles, who holds them, the calls, the    *)
(* results.                                                                *)
(***************************************************************************)
States == {"unused", "open", "bad", "finished", "collected", "twice"}
Open2 == {"open", "bad"}
Closes == {"ok", "failed"}

\* A handle whose structure is there, and a connection that is in the structure of one.
Live(h) == blob[h] \in Addrs
Reached(c) == \E h \in Handles : Live(h) /\ Dbx(h) = c

HeapTypes ==
  /\ conn \in [Conns -> States]
  /\ mem \in [Addrs -> Conns \cup {"null"}] /\ alloc \subseteq Addrs
  /\ blob \in [Handles -> Addrs \cup {"unused", "released"}]

Apart ==
  \A g, h \in Handles : g # h /\ Live(g) /\ Live(h) =>
    blob[g] # blob[h] /\ (Dbx(h) # "null" => Dbx(g) # Dbx(h))

ConnInv(c) ==
  /\ conn[c] # "twice"
  /\ conn[c] \in Open2 => Reached(c)
  /\ Reached(c) => conn[c] \in Open2 \cup {"finished"}

HeapInv ==
  /\ HeapTypes /\ Apart
  /\ \A h \in Handles : Live(h) => blob[h] \in alloc
  /\ \A a \in alloc : \E h \in Handles : blob[h] = a
  /\ \A c \in Conns : ConnInv(c)

HeldInv ==
  /\ held \in [Threads -> SUBSET Handles]
  /\ \A t \in Threads : \A h \in held[t] : Live(h)
  /\ \A t, u \in Threads : \A h \in Handles : h \in held[t] /\ h \in held[u] => t = u

\* The handle of a call is held, and its connection is as far as the call is.
CallOf(t) ==
  /\ call[t] \in Calls
  /\ call[t].pc = "idle" => call[t].handle = "none"
  /\ call[t].pc # "idle" => call[t].handle \in held[t] /\ Dbx(call[t].handle) # "null"
  /\ call[t].pc \in {"query", "disconnect", "exec"} => conn[Dbx(call[t].handle)] \in Open2
  /\ call[t].pc \in {"exec", "ok", "failed"} => call[t].conn = Dbx(call[t].handle)
  /\ call[t].pc \in Closes => conn[Dbx(call[t].handle)] = "finished"

CallInv == call \in [Threads -> Calls] /\ \A t \in Threads : CallOf(t)

\* A handle of a finished connection is being disconnected.
Closing(h) == \E t \in Threads : call[t].handle = h /\ call[t].pc \in Closes
DanglingInv == \A h \in Handles : Live(h) /\ Dbx(h) # "null" => conn[Dbx(h)] \in Open2 \/ Closing(h)

\* Every choice point has a result of its own, and every result a choice point.
Cursors == {k \in [result : Results, rows : 1..MaxRows, at : Nat] : k.at \in 1..(k.rows - 1)}
ResInv ==
  /\ res \in [Results -> {"unused", "live", "cleared"}]
  /\ cursors \in [Threads -> Seq(Cursors)]
  /\ \A t \in Threads : \A i \in 1..Len(cursors[t]) : res[cursors[t][i].result] = "live"
  /\ \A t, u \in Threads : \A i \in 1..Len(cursors[t]), j \in 1..Len(cursors[u]) :
       cursors[t][i].result = cursors[u][j].result => t = u /\ i = j
  /\ \A r \in Results : res[r] = "live" =>
       \E t \in Threads : \E i \in 1..Len(cursors[t]) : cursors[t][i].result = r

GivenInv == given \in [Handles -> Conns \cup {"none"}]

ThreadsInv == HeldInv /\ CallInv /\ DanglingInv
Inv == HeapInv /\ ThreadsInv /\ ResInv /\ GivenInv

-----------------------------------------------------------------------------
(***************************************************************************)
(* The results.                                                            *)
(***************************************************************************)
LEMMA SameResults ==
  ASSUME ResInv, UNCHANGED <<res, cursors>>
  PROVE  ResInv'
BY DEF ResInv

\* The cursors of a thread, its top one and those below it.
LEMMA TopFacts ==
  ASSUME ResInv, NEW t \in Threads, cursors[t] # <<>>
  PROVE  /\ Len(cursors[t]) \in Nat \ {0} /\ Len(cursors[t]) \in 1..Len(cursors[t])
         /\ Top(t) = cursors[t][Len(cursors[t])] /\ Top(t) \in Cursors
         /\ Top(t).result \in Results /\ res[Top(t).result] = "live"
         /\ Below(t) \in Seq(Cursors) /\ Len(Below(t)) = Len(cursors[t]) - 1
         /\ \A i \in 1..(Len(cursors[t]) - 1) : i \in 1..Len(cursors[t]) /\ Below(t)[i] = cursors[t][i]
<1>1. cursors[t] \in Seq(Cursors)
  BY DEF ResInv
<1>2. Len(cursors[t]) \in Nat \ {0}
  BY <1>1
<1>3. /\ Top(t) = cursors[t][Len(cursors[t])] /\ Top(t) \in Cursors
      /\ Top(t).result \in Results /\ res[Top(t).result] = "live"
  BY <1>1, <1>2 DEF Top, ResInv, Cursors
<1>4. /\ Below(t) \in Seq(Cursors) /\ Len(Below(t)) = Len(cursors[t]) - 1
      /\ \A i \in 1..(Len(cursors[t]) - 1) : Below(t)[i] = cursors[t][i]
  BY <1>1, <1>2 DEF Below
<1> QED BY <1>2, <1>3, <1>4

\* The last choice point goes, and its result is cleared: the rows are used up, a
\* cut or an error.
LEMMA PopKeeps ==
  ASSUME ResInv, NEW t \in Threads, cursors[t] # <<>>,
         res' = [res EXCEPT ![Top(t).result] = Cleared(Top(t).result)],
         cursors' = [cursors EXCEPT ![t] = Below(t)]
  PROVE  ResInv'
<1> DEFINE n == Len(cursors[t])
           r == Top(t).result
<1>1. /\ n \in Nat \ {0} /\ n \in 1..n /\ Top(t) = cursors[t][n] /\ r \in Results /\ res[r] = "live"
      /\ Below(t) \in Seq(Cursors) /\ Len(Below(t)) = n - 1
      /\ \A i \in 1..(n - 1) : i \in 1..n /\ Below(t)[i] = cursors[t][i]
  BY TopFacts
<1>2. res' = [res EXCEPT ![r] = "cleared"]
  BY <1>1 DEF Cleared
<1> HIDE DEF n, r
<1>3. /\ res' \in [Results -> {"unused", "live", "cleared"}] /\ res'[r] = "cleared"
      /\ \A q \in Results \ {r} : res'[q] = res[q]
  BY <1>1, <1>2 DEF ResInv
<1>4. /\ cursors' \in [Threads -> Seq(Cursors)] /\ Len(cursors'[t]) = n - 1
      /\ \A i \in 1..(n - 1) : i \in 1..n /\ i # n /\ cursors'[t][i] = cursors[t][i]
      /\ \A u \in Threads \ {t} : cursors'[u] = cursors[u]
  BY <1>1 DEF ResInv
<1>5. \A u \in Threads : \A i \in 1..Len(cursors'[u]) :
        /\ i \in 1..Len(cursors[u]) /\ cursors'[u][i] = cursors[u][i]
        /\ ~(u = t /\ i = n)
  BY <1>4 DEF n
<1>6. \A u \in Threads : \A i \in 1..Len(cursors[u]) :
        /\ cursors[u][i].result \in Results /\ res[cursors[u][i].result] = "live"
        /\ cursors[u][i].result = r => u = t /\ i = n
  <2>1. \A u \in Threads : \A i \in 1..Len(cursors[u]) : cursors[u][i] \in Cursors
    BY DEF ResInv
  <2>2. cursors[t][n].result = r
    BY <1>1 DEF r
  <2>3. \A u \in Threads : \A i \in 1..Len(cursors[u]) : cursors[u][i].result = r => u = t /\ i = n
    BY <1>1, <2>2 DEF ResInv, n
  <2> QED BY <2>1, <2>3 DEF ResInv, Cursors
<1>7. \A u \in Threads : \A i \in 1..Len(cursors'[u]) : res'[cursors'[u][i].result] = "live"
  BY <1>3, <1>5, <1>6
<1>8. \A u, v \in Threads : \A i \in 1..Len(cursors'[u]), j \in 1..Len(cursors'[v]) :
        cursors'[u][i].result = cursors'[v][j].result => u = v /\ i = j
  BY <1>5 DEF ResInv
<1>9. ASSUME NEW q \in Results, res'[q] = "live"
      PROVE  \E u \in Threads : \E i \in 1..Len(cursors'[u]) : cursors'[u][i].result = q
  <2>1. q # r /\ res[q] = "live"
    BY <1>3, <1>9
  <2> PICK u \in Threads : \E i \in 1..Len(cursors[u]) : cursors[u][i].result = q
    BY <2>1 DEF ResInv
  <2>2. PICK i \in 1..Len(cursors[u]) : cursors[u][i].result = q
    OBVIOUS
  <2>3. ~(u = t /\ i = n)
    BY <1>1, <2>1, <2>2 DEF r
  <2>4. i \in 1..Len(cursors'[u]) /\ cursors'[u][i] = cursors[u][i]
    <3>1. CASE u = t
      <4>1. i \in 1..(n - 1)
        BY <1>1, <2>2, <2>3, <3>1 DEF n
      <4> QED BY <1>4, <3>1, <4>1
    <3>2. CASE u # t
      BY <1>4, <3>2
    <3> QED BY <3>1, <3>2
  <2> QED BY <2>2, <2>4
<1> QED BY <1>3, <1>4, <1>7, <1>8, <1>9 DEF ResInv

\* A choice point of a new result.
LEMMA PushKeeps ==
  ASSUME ResInv, NEW t \in Threads, NEW r \in Results, NEW m \in 1..MaxRows,
         res[r] = "unused", 1 < m,
         res' = [res EXCEPT ![r] = "live"],
         cursors' = [cursors EXCEPT ![t] = Append(@, [result |-> r, rows |-> m, at |-> 1])]
  PROVE  ResInv'
<1> PICK k : k = [result |-> r, rows |-> m, at |-> 1]
  OBVIOUS
<1>1. k \in Cursors /\ k.result = r
  BY DEF Cursors
<1>2. cursors' = [cursors EXCEPT ![t] = Append(cursors[t], k)]
  OBVIOUS
<1>3. /\ res' \in [Results -> {"unused", "live", "cleared"}] /\ res'[r] = "live"
      /\ \A q \in Results \ {r} : res'[q] = res[q]
  BY DEF ResInv
<1>4. PICK n : n = Len(cursors[t])
  OBVIOUS
<1>5. cursors[t] \in Seq(Cursors) /\ n \in Nat
  BY <1>4 DEF ResInv
<1>6. /\ cursors' \in [Threads -> Seq(Cursors)] /\ Len(cursors'[t]) = n + 1 /\ cursors'[t][n + 1] = k
      /\ \A i \in 1..n : cursors'[t][i] = cursors[t][i]
      /\ \A u \in Threads \ {t} : cursors'[u] = cursors[u]
  <2>1. Append(cursors[t], k) \in Seq(Cursors) /\ Len(Append(cursors[t], k)) = n + 1
    BY <1>1, <1>4, <1>5
  <2>2. Append(cursors[t], k)[n + 1] = k /\ \A i \in 1..n : Append(cursors[t], k)[i] = cursors[t][i]
    BY <1>1, <1>4, <1>5
  <2> PICK below : below = Append(cursors[t], k)
    OBVIOUS
  <2>3. cursors' = [cursors EXCEPT ![t] = below]
    BY <1>2
  <2>4. cursors \in [Threads -> Seq(Cursors)]
    BY DEF ResInv
  <2>5. cursors'[t] = below /\ \A u \in Threads \ {t} : cursors'[u] = cursors[u]
    BY <2>3, <2>4
  <2>6. cursors' \in [Threads -> Seq(Cursors)]
    BY <2>1, <2>3, <2>4
  <2> QED BY <2>1, <2>2, <2>5, <2>6
<1>7. \A u \in Threads : \A i \in 1..Len(cursors'[u]) :
        \/ u = t /\ i = n + 1 /\ cursors'[u][i] = k
        \/ i \in 1..Len(cursors[u]) /\ cursors'[u][i] = cursors[u][i]
  <2> TAKE u \in Threads
  <2> TAKE i \in 1..Len(cursors'[u])
  <2>1. CASE u = t
    <3>1. i = n + 1 \/ i \in 1..n
      BY <1>5, <1>6, <2>1
    <3> QED BY <1>4, <1>6, <2>1, <3>1
  <2>2. CASE u # t
    BY <1>6, <2>2
  <2> QED BY <2>1, <2>2
<1>8. \A u \in Threads : \A i \in 1..Len(cursors[u]) :
        /\ cursors[u][i].result \in Results \ {r}
        /\ res[cursors[u][i].result] = "live"
  <2>1. \A u \in Threads : \A i \in 1..Len(cursors[u]) : cursors[u][i] \in Cursors
    BY DEF ResInv
  <2> QED BY <2>1 DEF ResInv, Cursors
<1>9. \A u \in Threads : \A i \in 1..Len(cursors[u]) :
        i \in 1..Len(cursors'[u]) /\ cursors'[u][i] = cursors[u][i]
  BY <1>4, <1>5, <1>6
<1>10. \A u \in Threads : \A i \in 1..Len(cursors'[u]) : res'[cursors'[u][i].result] = "live"
  BY <1>1, <1>3, <1>7, <1>8
<1>11. \A u, v \in Threads : \A i \in 1..Len(cursors'[u]), j \in 1..Len(cursors'[v]) :
         cursors'[u][i].result = cursors'[v][j].result => u = v /\ i = j
  BY <1>1, <1>7, <1>8 DEF ResInv
<1>12. ASSUME NEW q \in Results, res'[q] = "live"
       PROVE  \E u \in Threads : \E i \in 1..Len(cursors'[u]) : cursors'[u][i].result = q
  <2>1. CASE q = r
    <3>1. n + 1 \in 1..Len(cursors'[t])
      BY <1>5, <1>6
    <3> QED BY <1>1, <1>6, <2>1, <3>1
  <2>2. CASE q # r
    <3> PICK u \in Threads : \E i \in 1..Len(cursors[u]) : cursors[u][i].result = q
      BY <1>3, <1>12, <2>2 DEF ResInv
    <3>1. PICK i \in 1..Len(cursors[u]) : cursors[u][i].result = q
      OBVIOUS
    <3> QED BY <1>9, <3>1
  <2> QED BY <2>1, <2>2
<1> QED BY <1>3, <1>6, <1>10, <1>11, <1>12 DEF ResInv

\* The last choice point is left for a later row.
LEMMA AdvanceKeeps ==
  ASSUME ResInv, NEW t \in Threads, cursors[t] # <<>>,
         ~IsLast(Top(t).at + 1, Top(t).rows), UNCHANGED res,
         cursors' = [cursors EXCEPT ![t] = Append(Below(t), [Top(t) EXCEPT !.at = @ + 1])]
  PROVE  ResInv'
<1> PICK k : k = [Top(t) EXCEPT !.at = @ + 1]
  OBVIOUS
<1> PICK n : n = Len(cursors[t])
  OBVIOUS
<1>1. /\ n \in Nat \ {0} /\ n \in 1..n /\ Top(t) = cursors[t][n] /\ Top(t) \in Cursors
      /\ res[Top(t).result] = "live"
      /\ Below(t) \in Seq(Cursors) /\ Len(Below(t)) = n - 1
      /\ \A i \in 1..(n - 1) : i \in 1..n /\ Below(t)[i] = cursors[t][i]
  BY TopFacts
<1>2. k.result = Top(t).result /\ k \in Cursors
  <2>1. Top(t) \in [result : Results, rows : 1..MaxRows, at : Nat] /\ Top(t).at \in 1..(Top(t).rows - 1)
    BY <1>1 DEF Cursors
  <2>2. /\ k.result = Top(t).result /\ k.rows = Top(t).rows /\ k.at = Top(t).at + 1
        /\ k \in [result : Results, rows : 1..MaxRows, at : Nat]
    BY <2>1
  <2>3. k.at \in 1..(k.rows - 1)
    BY <2>1, <2>2 DEF IsLast
  <2> QED BY <2>2, <2>3 DEF Cursors
<1>3. res[k.result] = "live"
  BY <1>1, <1>2
<1>4. cursors' = [cursors EXCEPT ![t] = Append(Below(t), k)]
  OBVIOUS
<1>5. /\ Append(Below(t), k) \in Seq(Cursors) /\ Len(Append(Below(t), k)) = n
      /\ Append(Below(t), k)[n] = k
      /\ \A i \in 1..(n - 1) : Append(Below(t), k)[i] = Below(t)[i]
  BY <1>1, <1>2
<1>6. /\ cursors' \in [Threads -> Seq(Cursors)] /\ Len(cursors'[t]) = n /\ cursors'[t][n] = k
      /\ \A i \in 1..(n - 1) : cursors'[t][i] = cursors[t][i]
      /\ \A u \in Threads \ {t} : cursors'[u] = cursors[u]
  BY <1>1, <1>4, <1>5 DEF ResInv
<1>7. \A u \in Threads : Len(cursors'[u]) = Len(cursors[u])
  BY <1>6
<1>8. \A u \in Threads : \A i \in 1..Len(cursors[u]) :
        /\ cursors'[u][i].result = cursors[u][i].result
        /\ cursors'[u][i] = k \/ cursors'[u][i] = cursors[u][i]
  <2> TAKE u \in Threads
  <2> TAKE i \in 1..Len(cursors[u])
  <2>1. CASE u = t
    <3>1. i = n \/ i \in 1..(n - 1)
      BY <1>1, <2>1
    <3> QED BY <1>1, <1>2, <1>6, <2>1, <3>1
  <2>2. CASE u # t
    BY <1>6, <2>2
  <2> QED BY <2>1, <2>2
<1>9. \A u \in Threads : \A i \in 1..Len(cursors'[u]) : res'[cursors'[u][i].result] = "live"
  BY <1>7, <1>8 DEF ResInv
<1>10. \A u, v \in Threads : \A i \in 1..Len(cursors'[u]), j \in 1..Len(cursors'[v]) :
         cursors'[u][i].result = cursors'[v][j].result => u = v /\ i = j
  BY <1>7, <1>8 DEF ResInv
<1>11. \A r \in Results : res'[r] = "live" =>
         \E u \in Threads : \E i \in 1..Len(cursors'[u]) : cursors'[u][i].result = r
  <2> SUFFICES ASSUME NEW r \in Results, res[r] = "live"
               PROVE  \E u \in Threads : \E i \in 1..Len(cursors'[u]) : cursors'[u][i].result = r
    OBVIOUS
  <2> PICK u \in Threads : \E i \in 1..Len(cursors[u]) : cursors[u][i].result = r
    BY DEF ResInv
  <2> PICK i \in 1..Len(cursors[u]) : cursors[u][i].result = r
    OBVIOUS
  <2> QED BY <1>7, <1>8
<1>12. res' \in [Results -> {"unused", "live", "cleared"}]
  BY DEF ResInv
<1> QED BY <1>6, <1>9, <1>10, <1>11, <1>12 DEF ResInv

\* A result that is cleared at once.
LEMMA ClearedAtOnce ==
  ASSUME ResInv, NEW r \in Results, res[r] = "unused",
         res' = [res EXCEPT ![r] = "cleared"], UNCHANGED cursors
  PROVE  ResInv'
<1>1. /\ res' \in [Results -> {"unused", "live", "cleared"}] /\ res'[r] = "cleared"
      /\ \A q \in Results \ {r} : res'[q] = res[q]
  BY DEF ResInv
<1>2. \A u \in Threads : \A i \in 1..Len(cursors[u]) :
        cursors[u][i].result \in Results /\ res[cursors[u][i].result] = "live"
  <2>1. \A u \in Threads : \A i \in 1..Len(cursors[u]) : cursors[u][i] \in Cursors
    BY DEF ResInv
  <2> QED BY <2>1 DEF ResInv, Cursors
<1> QED BY <1>1, <1>2 DEF ResInv

LEMMA ResultsKept ==
  ASSUME ResInv, Next
  PROVE  ResInv'
<1>1. CASE UNCHANGED <<res, cursors>>
  BY <1>1, SameResults
<1>2. CASE \E t \in Threads : FirstRow(t)
  <2> PICK t \in Threads : FirstRow(t)
    BY <1>2
  <2>1. PICK r \in Results, n \in 1..MaxRows :
          /\ res[r] = "unused"
          /\ IF IsLast(1, n)
             THEN res' = [res EXCEPT ![r] = "cleared"] /\ UNCHANGED cursors
             ELSE /\ res' = [res EXCEPT ![r] = "live"]
                  /\ cursors' = [cursors EXCEPT ![t] = Append(@, [result |-> r, rows |-> n, at |-> 1])]
    BY DEF FirstRow
  <2>2. CASE IsLast(1, n)
    BY <2>1, <2>2, ClearedAtOnce
  <2>3. CASE ~IsLast(1, n)
    BY <2>1, <2>3, PushKeeps DEF IsLast
  <2> QED BY <2>2, <2>3
<1>3. CASE \E t \in Threads : NextRow(t)
  <2> PICK t \in Threads : NextRow(t)
    BY <1>3
  <2>1. cursors[t] # <<>>
    BY DEF NextRow
  <2>2. CASE IsLast(Top(t).at + 1, Top(t).rows)
    BY <2>1, <2>2, PopKeeps DEF NextRow
  <2>3. CASE ~IsLast(Top(t).at + 1, Top(t).rows)
    BY <2>1, <2>3, AdvanceKeeps DEF NextRow
  <2> QED BY <2>2, <2>3
<1>4. CASE \E t \in Threads : NextRowFails(t) \/ Prune(t)
  BY <1>4, PopKeeps DEF NextRowFails, Prune
<1>5. ASSUME NEW t \in Threads, Thread(t)
      PROVE  UNCHANGED <<res, cursors>> \/ FirstRow(t) \/ NextRow(t) \/ NextRowFails(t) \/ Prune(t)
  BY <1>5 DEF Thread, Connect, ConnectFails, ConnectNoMemory, ConnectLost, Query, QueryRefused, Disconnect,
     DisconnectAgain, Forget, Pass, Finish, Disconnected, QueryInvalid, Exec, NotConnected, ExecFails,
     ExecDone, NoRows
<1>6. ASSUME ~\E t \in Threads : Thread(t)
      PROVE  UNCHANGED <<res, cursors>>
  BY <1>6 DEF Next, Release, GoesBad
<1> QED BY <1>1, <1>2, <1>3, <1>4, <1>5, <1>6

-----------------------------------------------------------------------------
(***************************************************************************)
(* The handles.                                                            *)
(***************************************************************************)
LEMMA LiveFacts ==
  ASSUME HeapInv, NEW h \in Handles, Live(h)
  PROVE  /\ blob[h] \in Addrs /\ blob[h] \in alloc /\ Dbx(h) = mem[blob[h]] /\ Dbx(h) \in Conns \cup {"null"}
         /\ Dbx(h) # "null" => Dbx(h) \in Conns /\ Reached(Dbx(h)) /\ conn[Dbx(h)] \in Open2 \cup {"finished"}
BY DEF HeapInv, HeapTypes, Live, Dbx, Reached, ConnInv

\* A step leaves the handle of a call as it is, but for its connection going bad.
Kept(h) ==
  /\ Live(h)' /\ Dbx(h)' = Dbx(h)
  /\ Dbx(h) # "null" =>
       /\ conn[Dbx(h)] \in Open2 => conn'[Dbx(h)] \in Open2
       /\ conn[Dbx(h)] = "finished" => conn'[Dbx(h)] = "finished"

LEMMA SameHeap ==
  ASSUME HeapInv, UNCHANGED <<conn, mem, alloc, blob>>
  PROVE  HeapInv' /\ \A h \in Handles : Live(h) => Kept(h)
BY DEF HeapInv, HeapTypes, Apart, ConnInv, Reached, Live, Dbx, Kept

\* A connection that no handle refers to.
LEMMA FreshConn ==
  ASSUME HeapInv, NEW c \in Conns, conn[c] = "unused"
  PROVE  \A h \in Handles : Live(h) => Dbx(h) # c
BY DEF HeapInv, ConnInv, Reached, Open2

\* Connect and ConnectLost.
LEMMA NewHandle ==
  ASSUME HeapInv, NEW c \in Conns, NEW a \in Addrs, NEW h \in Handles,
         conn[c] = "unused", a \notin alloc, blob[h] = "unused",
         conn' = [conn EXCEPT ![c] = "open"],
         mem' = [mem EXCEPT ![a] = c], alloc' = alloc \cup {a},
         blob' = [blob EXCEPT ![h] = a]
  PROVE  /\ HeapInv' /\ ~Live(h) /\ Live(h)' /\ Dbx(h)' = c /\ conn'[c] = "open"
         /\ \A g \in Handles : Live(g) => g # h /\ Kept(g)
         /\ \A g \in Handles : Live(g)' => g = h \/ Live(g)
<1>1. HeapTypes /\ Apart
  BY DEF HeapInv
<1>2. /\ conn' \in [Conns -> States] /\ conn'[c] = "open" /\ \A d \in Conns \ {c} : conn'[d] = conn[d]
      /\ mem' \in [Addrs -> Conns \cup {"null"}] /\ mem'[a] = c /\ \A b \in Addrs \ {a} : mem'[b] = mem[b]
      /\ blob' \in [Handles -> Addrs \cup {"unused", "released"}] /\ blob'[h] = a
      /\ \A g \in Handles \ {h} : blob'[g] = blob[g]
      /\ alloc' \subseteq Addrs
  BY <1>1 DEF HeapTypes, States
<1>3. ~Live(h) /\ Live(h)' /\ Dbx(h)' = c
  BY <1>2 DEF Live, Dbx, PgAssumption
<1>4. \A g \in Handles : Live(g) =>
        /\ g # h /\ blob[g] # a /\ blob'[g] = blob[g] /\ Live(g)' /\ Dbx(g)' = Dbx(g) /\ Dbx(g) # c
        /\ Dbx(g) \in Conns \cup {"null"}
  <2> SUFFICES ASSUME NEW g \in Handles, Live(g)
               PROVE  /\ g # h /\ blob[g] # a /\ blob'[g] = blob[g] /\ Live(g)' /\ Dbx(g)' = Dbx(g) /\ Dbx(g) # c
                      /\ Dbx(g) \in Conns \cup {"null"}
    OBVIOUS
  <2>1. blob[g] \in Addrs /\ blob[g] \in alloc /\ Dbx(g) \in Conns \cup {"null"} /\ Dbx(g) # c
    BY LiveFacts, FreshConn
  <2>2. g # h /\ blob[g] # a
    BY <1>3, <2>1
  <2>3. blob'[g] = blob[g] /\ mem'[blob[g]] = mem[blob[g]]
    BY <1>2, <2>1, <2>2
  <2> QED BY <2>1, <2>2, <2>3 DEF Live, Dbx
<1>5. \A g \in Handles : Live(g)' => g = h \/ (Live(g) /\ g # h)
  BY <1>2 DEF Live
<1>6. \A g \in Handles : Live(g) => Kept(g)
  BY <1>2, <1>4 DEF Kept
<1>7. Apart'
  <2> SUFFICES ASSUME NEW f \in Handles, NEW g \in Handles, f # g, Live(f)', Live(g)'
               PROVE  blob'[f] # blob'[g] /\ (Dbx(g)' # "null" => Dbx(f)' # Dbx(g)')
    BY DEF Apart
  <2>1. CASE f # h /\ g # h
    BY <1>1, <1>4, <1>5, <2>1 DEF Apart
  <2>2. CASE f = h
    BY <1>2, <1>3, <1>4, <1>5, <2>2
  <2>3. CASE g = h
    BY <1>2, <1>3, <1>4, <1>5, <2>3
  <2> QED BY <2>1, <2>2, <2>3
<1>8. \A d \in Conns \ {c} : Reached(d)' <=> Reached(d)
  BY <1>3, <1>4, <1>5 DEF Reached
<1>9. Reached(c)'
  BY <1>3 DEF Reached
<1>10. \A d \in Conns : ConnInv(d)'
  <2> SUFFICES ASSUME NEW d \in Conns PROVE ConnInv(d)'
    OBVIOUS
  <2>1. CASE d = c
    BY <1>2, <1>9, <2>1 DEF ConnInv, Open2
  <2>2. CASE d # c
    BY <1>2, <1>8, <2>2 DEF ConnInv, HeapInv
  <2> QED BY <2>1, <2>2
<1>11. \A g \in Handles : Live(g)' => blob'[g] \in alloc'
  BY <1>2, <1>4, <1>5, LiveFacts
<1>12. \A b \in alloc' : \E g \in Handles : blob'[g] = b
  <2> SUFFICES ASSUME NEW b \in alloc, b # a PROVE \E g \in Handles : blob'[g] = b
    BY <1>2
  <2> PICK g \in Handles : blob[g] = b
    BY DEF HeapInv
  <2> QED BY <1>1, <1>4 DEF Live, HeapTypes
<1>13. HeapTypes'
  BY <1>2 DEF HeapTypes
<1> QED BY <1>2, <1>3, <1>4, <1>5, <1>6, <1>7, <1>10, <1>11, <1>12, <1>13 DEF HeapInv

\* A connection that no handle refers to is finished at once, or one of a handle
\* that stays goes bad or is finished.
LEMMA ConnMoves ==
  ASSUME HeapInv, NEW c \in Conns, NEW to \in Open2 \cup {"finished"},
         ~Reached(c) => to = "finished",
         conn[c] = "unused" => to = "finished",
         conn' = [conn EXCEPT ![c] = to], UNCHANGED <<mem, alloc, blob>>
  PROVE  /\ HeapInv' /\ conn'[c] = to
         /\ \A h \in Handles : (Live(h)' <=> Live(h)) /\ Dbx(h)' = Dbx(h)
         /\ \A h \in Handles : Live(h) /\ (Dbx(h) = c => to \in Open2 /\ conn[c] \in Open2) => Kept(h)
<1>1. HeapTypes
  BY DEF HeapInv
<1>2. /\ conn' \in [Conns -> States] /\ conn'[c] = to /\ \A d \in Conns \ {c} : conn'[d] = conn[d]
  BY <1>1 DEF HeapTypes, States, Open2
<1>3. \A h \in Handles : (Live(h)' <=> Live(h)) /\ Dbx(h)' = Dbx(h)
  BY DEF Live, Dbx
<1>4. \A d \in Conns : Reached(d)' <=> Reached(d)
  BY <1>3 DEF Reached
<1>5. \A d \in Conns : ConnInv(d)'
  BY <1>2, <1>4 DEF ConnInv, HeapInv, Open2
<1>6. HeapTypes' /\ Apart'
  BY <1>1, <1>2, <1>3 DEF HeapTypes, HeapInv, Apart
<1>7. HeapInv'
  BY <1>3, <1>5, <1>6 DEF HeapInv
<1>8. \A h \in Handles : Live(h) /\ (Dbx(h) = c => to \in Open2 /\ conn[c] \in Open2) => Kept(h)
  <2> SUFFICES ASSUME NEW h \in Handles, Live(h), Dbx(h) = c => to \in Open2 /\ conn[c] \in Open2
               PROVE  Kept(h)
    OBVIOUS
  <2>1. Dbx(h) # "null" => Dbx(h) \in Conns
    BY LiveFacts
  <2> QED BY <1>2, <1>3, <2>1 DEF Kept, Open2
<1> QED BY <1>2, <1>3, <1>7, <1>8

\* The structure of a handle is emptied: its connection was finished.
LEMMA Emptied ==
  ASSUME HeapInv, NEW h \in Handles, Live(h), Dbx(h) \in Conns, conn[Dbx(h)] = "finished",
         mem' = [mem EXCEPT ![blob[h]] = "null"], UNCHANGED <<conn, alloc, blob>>
  PROVE  /\ HeapInv' /\ Live(h)' /\ Dbx(h)' = "null"
         /\ \A g \in Handles \ {h} : Live(g) => Kept(g)
         /\ \A g \in Handles : Live(g)' => Live(g)
<1>1. HeapTypes /\ Apart /\ blob[h] \in Addrs
  BY DEF HeapInv, Live
<1>2. /\ mem' \in [Addrs -> Conns \cup {"null"}] /\ mem'[blob[h]] = "null"
      /\ \A b \in Addrs \ {blob[h]} : mem'[b] = mem[b]
  BY <1>1 DEF HeapTypes
<1>3. \A g \in Handles : Live(g)' <=> Live(g)
  BY DEF Live
<1>4. Live(h)' /\ Dbx(h)' = "null"
  BY <1>2, <1>3 DEF Dbx
<1>5. \A g \in Handles \ {h} : Live(g) => Dbx(g)' = Dbx(g) /\ (Dbx(g) # "null" => Dbx(g) # Dbx(h))
  <2> SUFFICES ASSUME NEW g \in Handles \ {h}, Live(g)
               PROVE  Dbx(g)' = Dbx(g) /\ (Dbx(g) # "null" => Dbx(g) # Dbx(h))
    OBVIOUS
  <2>1. blob[g] # blob[h] /\ (Dbx(g) # "null" => Dbx(g) # Dbx(h)) /\ blob[g] \in Addrs
    BY <1>1 DEF Apart, Live
  <2> QED BY <1>2, <2>1 DEF Dbx
<1>6. \A g \in Handles \ {h} : Live(g) => Kept(g)
  BY <1>3, <1>5 DEF Kept
<1>7. \A d \in Conns : /\ d = Dbx(h) => ~Reached(d)'
                       /\ d # Dbx(h) => (Reached(d)' <=> Reached(d))
  <2> TAKE d \in Conns
  <2>1. d # "null"
    BY DEF PgAssumption
  <2>2. ASSUME d = Dbx(h) PROVE ~Reached(d)'
    BY <1>3, <1>4, <1>5, <2>1, <2>2 DEF Reached
  <2>3. ASSUME d # Dbx(h) PROVE Reached(d)' <=> Reached(d)
    BY <1>3, <1>4, <1>5, <2>1, <2>3 DEF Reached
  <2> QED BY <2>2, <2>3
<1>8. \A d \in Conns : ConnInv(d)'
  BY <1>7 DEF ConnInv, HeapInv, Open2
<1>9. HeapTypes' /\ Apart'
  BY <1>1, <1>2, <1>3, <1>4, <1>5 DEF HeapTypes, Apart
<1>10. HeapInv'
  BY <1>3, <1>8, <1>9 DEF HeapInv
<1> QED BY <1>3, <1>4, <1>6, <1>10

\* release_pgsql_connection of a handle that is not being disconnected.
LEMMA ReleaseKeeps ==
  ASSUME HeapInv, NEW h \in Handles, Release(h),
         Dbx(h) # "null" => conn[Dbx(h)] \in Open2
  PROVE  /\ HeapInv' /\ \A g \in Handles \ {h} : Live(g) => Kept(g)
         /\ \A g \in Handles : Live(g)' => Live(g) /\ g # h
<1>1. HeapTypes /\ Apart /\ Live(h) /\ blob[h] \in Addrs
  BY DEF HeapInv, Live, Release
<1>2. /\ blob' \in [Handles -> Addrs \cup {"unused", "released"}] /\ blob'[h] = "released"
      /\ \A g \in Handles \ {h} : blob'[g] = blob[g]
      /\ alloc' = alloc \ {blob[h]} /\ mem' = mem
  BY <1>1 DEF HeapTypes, Release
<1>3. /\ conn' \in [Conns -> States]
      /\ \A d \in Conns : d # Dbx(h) => conn'[d] = conn[d]
      /\ Dbx(h) # "null" => conn'[Dbx(h)] = "collected"
  <2>1. conn \in [Conns -> States] /\ (Dbx(h) # "null" => Dbx(h) \in Conns)
    BY <1>1, LiveFacts DEF HeapTypes
  <2>2. CASE Dbx(h) = "null"
    BY <2>1, <2>2 DEF Release
  <2>3. CASE Dbx(h) # "null"
    <3>1. conn' = [conn EXCEPT ![Dbx(h)] = "collected"]
      BY <2>3 DEF Release, Finished, Open2
    <3> QED BY <2>1, <2>3, <3>1 DEF States
  <2> QED BY <2>2, <2>3
<1>4. ~Live(h)' /\ \A g \in Handles \ {h} : Live(g)' <=> Live(g)
  BY <1>2 DEF Live, PgAssumption
<1>5. \A g \in Handles \ {h} : Live(g) =>
        blob[g] # blob[h] /\ Dbx(g)' = Dbx(g) /\ (Dbx(g) # "null" => Dbx(g) # Dbx(h) /\ Dbx(g) \in Conns)
  <2> SUFFICES ASSUME NEW g \in Handles \ {h}, Live(g)
               PROVE  blob[g] # blob[h] /\ Dbx(g)' = Dbx(g)
                      /\ (Dbx(g) # "null" => Dbx(g) # Dbx(h) /\ Dbx(g) \in Conns)
    OBVIOUS
  <2>1. blob[g] # blob[h] /\ (Dbx(g) # "null" => Dbx(g) # Dbx(h))
    BY <1>1 DEF Apart
  <2>2. Dbx(g) # "null" => Dbx(g) \in Conns
    BY LiveFacts
  <2>3. Dbx(g)' = Dbx(g)
    BY <1>2 DEF Dbx
  <2> QED BY <2>1, <2>2, <2>3
<1>6. \A g \in Handles \ {h} : Live(g) => Kept(g)
  BY <1>3, <1>4, <1>5 DEF Kept
<1>7. \A d \in Conns : /\ d = Dbx(h) => ~Reached(d)'
                       /\ d # Dbx(h) => (Reached(d)' <=> Reached(d))
  <2> TAKE d \in Conns
  <2>1. d # "null"
    BY DEF PgAssumption
  <2>2. ASSUME d = Dbx(h) PROVE ~Reached(d)'
    BY <1>4, <1>5, <2>1, <2>2 DEF Reached
  <2>3. ASSUME d # Dbx(h) PROVE Reached(d)' <=> Reached(d)
    BY <1>4, <1>5, <2>3 DEF Reached
  <2> QED BY <2>2, <2>3
<1>8. \A d \in Conns : ConnInv(d)'
  <2> SUFFICES ASSUME NEW d \in Conns PROVE ConnInv(d)'
    OBVIOUS
  <2>1. d # "null"
    BY DEF PgAssumption
  <2>2. CASE d = Dbx(h)
    BY <1>3, <1>7, <2>1, <2>2 DEF ConnInv, Open2
  <2>3. CASE d # Dbx(h)
    BY <1>3, <1>7, <2>3 DEF ConnInv, HeapInv
  <2> QED BY <2>2, <2>3
<1>9. HeapTypes'
  BY <1>1, <1>2, <1>3 DEF HeapTypes
<1>10. Apart'
  BY <1>1, <1>2, <1>4, <1>5 DEF Apart
<1>11. \A g \in Handles : Live(g)' => blob'[g] \in alloc'
  BY <1>2, <1>4, <1>5, LiveFacts
<1>12. \A b \in alloc' : \E g \in Handles : blob'[g] = b
  <2> SUFFICES ASSUME NEW b \in alloc, b # blob[h] PROVE \E g \in Handles : blob'[g] = b
    BY <1>2
  <2> PICK g \in Handles : blob[g] = b
    BY DEF HeapInv
  <2> QED BY <1>2
<1> QED BY <1>4, <1>6, <1>8, <1>9, <1>10, <1>11, <1>12 DEF HeapInv

-----------------------------------------------------------------------------
(***************************************************************************)
(* The threads: what they hold and the calls they are in.                  *)
(***************************************************************************)
LEMMA IdleCall == Idle \in Calls
BY DEF Idle, Calls

\* The handle of a call is live, and no other thread has it.
LEMMA InCall ==
  ASSUME HeapInv, ThreadsInv, NEW t \in Threads, call[t].pc # "idle"
  PROVE  /\ call[t].handle \in Handles /\ call[t].handle \in held[t] /\ Live(call[t].handle)
         /\ Dbx(call[t].handle) \in Conns /\ Dbx(call[t].handle) # "null"
         /\ \A u \in Threads \ {t} : call[u].handle # call[t].handle /\ call[t].handle \notin held[u]
<1>1. \A u \in Threads : /\ call[u].pc = "idle" => call[u].handle = "none"
                         /\ call[u].pc # "idle" => call[u].handle \in held[u] /\ Dbx(call[u].handle) # "null"
  BY DEF ThreadsInv, CallInv, CallOf
<1>2. \A u \in Threads : held[u] \subseteq Handles
  BY DEF ThreadsInv, HeldInv
<1>3. call[t].handle \in Handles /\ call[t].handle \in held[t] /\ Dbx(call[t].handle) # "null"
  BY <1>1, <1>2
<1>4. Live(call[t].handle)
  BY <1>3 DEF ThreadsInv, HeldInv
<1>5. Dbx(call[t].handle) \in Conns
  BY <1>3, <1>4, LiveFacts
<1>6. \A u \in Threads \ {t} : call[t].handle \notin held[u]
  BY <1>3 DEF ThreadsInv, HeldInv
<1>7. \A u \in Threads \ {t} : call[u].handle # call[t].handle
  BY <1>1, <1>3, <1>6 DEF PgAssumption
<1> QED BY <1>3, <1>4, <1>5, <1>6, <1>7

LEMMA CallKept ==
  ASSUME HeapInv, ThreadsInv, NEW u \in Threads, call'[u] = call[u],
         call[u].pc # "idle" => call[u].handle \in held'[u] /\ Kept(call[u].handle)
  PROVE  CallOf(u)'
<1>1. CallOf(u)
  BY DEF ThreadsInv, CallInv
<1>2. CASE call[u].pc = "idle"
  BY <1>1, <1>2 DEF CallOf, Closes
<1>3. CASE call[u].pc # "idle"
  <2> PICK h : h = call[u].handle
    OBVIOUS
  <2>1. call[u] \in Calls /\ call'[u] \in Calls
    BY <1>1 DEF CallOf
  <2>2. h \in held'[u] /\ Dbx(h)' = Dbx(h) /\ Dbx(h) # "null" /\ Kept(h)
    BY <1>1, <1>3 DEF CallOf, Kept
  <2>3. call'[u].pc \in {"query", "disconnect", "exec"} => conn'[Dbx(h)] \in Open2
    BY <1>1, <2>2 DEF CallOf, Kept
  <2>4. call'[u].pc \in {"exec", "ok", "failed"} => call'[u].conn = Dbx(h)
    BY <1>1, <2>2 DEF CallOf
  <2>5. call'[u].pc \in Closes => conn'[Dbx(h)] = "finished"
    BY <1>1, <2>2 DEF CallOf, Kept
  <2>6. call'[u].handle = h /\ call'[u].pc # "idle"
    BY <1>3
  <2> QED BY <2>1, <2>2, <2>3, <2>4, <2>5, <2>6 DEF CallOf
<1> QED BY <1>2, <1>3

\* A call that ends, or one that starts or goes on, while the handles stay.
LEMMA CallMoves ==
  ASSUME HeapInv, ThreadsInv, NEW t \in Threads,
         UNCHANGED <<conn, mem, alloc, blob, held>>,
         call[t].pc \notin Closes \/ call'[t] = call[t], CallOf(t)',
         call' \in [Threads -> Calls], \A u \in Threads \ {t} : call'[u] = call[u]
  PROVE  HeapInv' /\ ThreadsInv'
<1>1. HeapInv' /\ \A h \in Handles : Live(h) => Kept(h)
  BY SameHeap
<1>2. \A u \in Threads \ {t} : CallOf(u)'
  BY <1>1, CallKept, InCall
<1>3. CallInv'
  BY <1>2 DEF CallInv
<1>4. \A h \in Handles : (Live(h)' <=> Live(h)) /\ Dbx(h)' = Dbx(h)
  BY DEF Live, Dbx
<1>5. HeldInv'
  BY <1>4 DEF ThreadsInv, HeldInv
<1>6. \A h \in Handles : Closing(h) => Closing(h)'
  BY DEF Closing
<1>7. DanglingInv'
  BY <1>4, <1>6 DEF ThreadsInv, DanglingInv
<1> QED BY <1>1, <1>3, <1>5, <1>7 DEF ThreadsInv

LEMMA ReturnKeeps ==
  ASSUME HeapInv, ThreadsInv, NEW t \in Threads,
         UNCHANGED <<conn, mem, alloc, blob, held>>,
         call[t].pc \notin Closes, call' = [call EXCEPT ![t] = Idle]
  PROVE  HeapInv' /\ ThreadsInv'
<1>1. call' \in [Threads -> Calls] /\ call'[t] = Idle /\ \A u \in Threads \ {t} : call'[u] = call[u]
  BY IdleCall DEF ThreadsInv, CallInv
<1>2. CallOf(t)'
  BY <1>1 DEF CallOf, Idle, Calls, Closes
<1> QED BY <1>1, <1>2, CallMoves

\* Steps that change neither the handles nor the calls.
LEMMA QuietKeeps ==
  ASSUME HeapInv, ThreadsInv, UNCHANGED <<conn, mem, alloc, blob, held, call>>
  PROVE  HeapInv' /\ ThreadsInv'
<1>1. HeapInv' /\ \A h \in Handles : Live(h) => Kept(h)
  BY SameHeap
<1>2. \A u \in Threads : CallOf(u)'
  BY <1>1, CallKept, InCall
<1>3. \A h \in Handles : (Live(h)' <=> Live(h)) /\ Dbx(h)' = Dbx(h)
  BY DEF Live, Dbx
<1>4. HeldInv'
  BY <1>3 DEF ThreadsInv, HeldInv
<1>5. DanglingInv'
  BY <1>3 DEF ThreadsInv, DanglingInv, Closing
<1> QED BY <1>1, <1>2, <1>4, <1>5 DEF ThreadsInv, CallInv

\* Steps that change what a thread holds and no call.
LEMMA HeldMoves ==
  ASSUME HeapInv, ThreadsInv, UNCHANGED <<conn, mem, alloc, blob, call>>, HeldInv',
         \A u \in Threads : call[u].pc # "idle" => call[u].handle \in held'[u]
  PROVE  HeapInv' /\ ThreadsInv'
<1>1. HeapInv' /\ \A h \in Handles : Live(h) => Kept(h)
  BY SameHeap
<1>2. \A u \in Threads : CallOf(u)'
  BY <1>1, CallKept, InCall
<1>3. \A h \in Handles : (Live(h)' <=> Live(h)) /\ Dbx(h)' = Dbx(h)
  BY DEF Live, Dbx
<1>4. DanglingInv'
  BY <1>3 DEF ThreadsInv, DanglingInv, Closing
<1> QED BY <1>1, <1>2, <1>4 DEF ThreadsInv, CallInv

LEMMA ForgetKeeps ==
  ASSUME HeapInv, ThreadsInv, NEW t \in Threads, NEW h \in Handles, Forget(t, h)
  PROVE  HeapInv' /\ ThreadsInv'
<1>1. /\ UNCHANGED <<conn, mem, alloc, blob, call>> /\ call[t].pc = "idle"
      /\ held' = [held EXCEPT ![t] = held[t] \ {h}]
  BY DEF Forget, heap, IsIdle
<1>2. held \in [Threads -> SUBSET Handles]
  BY DEF ThreadsInv, HeldInv
<1>3. /\ held' \in [Threads -> SUBSET Handles] /\ held'[t] \subseteq held[t]
      /\ \A u \in Threads \ {t} : held'[u] = held[u]
  BY <1>1, <1>2
<1>4. \A u \in Threads : held'[u] \subseteq held[u]
  BY <1>3
<1>5. \A g \in Handles : Live(g)' <=> Live(g)
  BY <1>1 DEF Live
<1>6. HeldInv'
  BY <1>3, <1>4, <1>5 DEF ThreadsInv, HeldInv
<1>7. \A u \in Threads : call[u].pc # "idle" => call[u].handle \in held'[u]
  BY <1>1, <1>3, InCall
<1> QED BY <1>1, <1>6, <1>7, HeldMoves

LEMMA PassKeeps ==
  ASSUME ~Shared, HeapInv, ThreadsInv, NEW t \in Threads, NEW u \in Threads, NEW h \in Handles, Pass(t, u, h)
  PROVE  HeapInv' /\ ThreadsInv'
<1>1. /\ UNCHANGED <<conn, mem, alloc, blob, call>> /\ call[t].pc = "idle" /\ t # u /\ h \in held[t]
      /\ held' = [held EXCEPT ![u] = held[u] \cup {h}, ![t] = held[t] \ {h}]
  BY DEF Pass, heap, IsIdle
<1>2. held \in [Threads -> SUBSET Handles]
  BY DEF ThreadsInv, HeldInv
<1>3. /\ held' \in [Threads -> SUBSET Handles] /\ held'[t] = held[t] \ {h} /\ held'[u] = held[u] \cup {h}
      /\ \A v \in Threads \ {t, u} : held'[v] = held[v]
  BY <1>1, <1>2
<1>4. \A v \in Threads \ {t} : h \notin held[v]
  BY <1>1 DEF ThreadsInv, HeldInv
<1>5. \A v \in Threads : \A g \in Handles :
        /\ g # h => (g \in held'[v] <=> g \in held[v])
        /\ h \in held'[v] <=> v = u
  BY <1>1, <1>3, <1>4
<1>6. \A g \in Handles : Live(g)' <=> Live(g)
  BY <1>1 DEF Live
<1>7. \A v \in Threads : \A g \in held'[v] : Live(g)'
  BY <1>1, <1>3, <1>5, <1>6 DEF ThreadsInv, HeldInv
<1>8. \A v, w \in Threads : \A g \in Handles : g \in held'[v] /\ g \in held'[w] => v = w
  BY <1>5 DEF ThreadsInv, HeldInv
<1>9. HeldInv'
  BY <1>3, <1>7, <1>8 DEF HeldInv
<1>10. \A v \in Threads : call[v].pc # "idle" => call[v].handle \in held'[v]
  BY <1>1, <1>3, InCall
<1> QED BY <1>1, <1>9, <1>10, HeldMoves

-----------------------------------------------------------------------------
(***************************************************************************)
(* Steps that change the handles.                                          *)
(***************************************************************************)
\* No call changes, and every handle in use stays.
LEMMA HeapMoves ==
  ASSUME HeapInv, ThreadsInv, HeapInv', UNCHANGED call, HeldInv',
         \A u \in Threads : held[u] \subseteq held'[u],
         \A u \in Threads : \A h \in held[u] : Kept(h),
         \A h \in Handles : Live(h)' /\ Dbx(h)' # "null" =>
           \/ conn'[Dbx(h)'] \in Open2
           \/ Live(h) /\ Dbx(h)' = Dbx(h) /\ conn'[Dbx(h)] = conn[Dbx(h)]
  PROVE  ThreadsInv'
<1>1. \A u \in Threads : CallOf(u)'
  BY CallKept, InCall
<1>2. \A h \in Handles : Closing(h)' <=> Closing(h)
  BY DEF Closing
<1>3. ASSUME NEW h \in Handles, Live(h)', Dbx(h)' # "null"
      PROVE  conn'[Dbx(h)'] \in Open2 \/ Closing(h)'
  <2>1. CASE conn'[Dbx(h)'] \in Open2
    BY <2>1
  <2>2. CASE Live(h) /\ Dbx(h)' = Dbx(h) /\ conn'[Dbx(h)] = conn[Dbx(h)]
    BY <1>2, <1>3, <2>2 DEF ThreadsInv, DanglingInv
  <2> QED BY <1>3, <2>1, <2>2
<1>4. DanglingInv'
  BY <1>3 DEF DanglingInv
<1> QED BY <1>1, <1>4 DEF ThreadsInv, CallInv

LEMMA ConnectKeeps ==
  ASSUME HeapInv, ThreadsInv, NEW t \in Threads, Connect(t) \/ ConnectLost(t)
  PROVE  HeapInv' /\ ThreadsInv'
<1> PICK c \in Conns, a \in Addrs, h \in Handles :
      /\ conn[c] = "unused" /\ a \notin alloc /\ blob[h] = "unused"
      /\ conn' = [conn EXCEPT ![c] = "open"]
      /\ mem' = [mem EXCEPT ![a] = c] /\ alloc' = alloc \cup {a}
      /\ blob' = [blob EXCEPT ![h] = a]
      /\ held' = [held EXCEPT ![t] = held[t] \cup {h}] \/ held' = held
  BY DEF Connect, ConnectLost
<1>1. UNCHANGED call
  BY DEF Connect, ConnectLost
<1>2. /\ HeapInv' /\ ~Live(h) /\ Live(h)' /\ Dbx(h)' = c /\ conn'[c] = "open"
      /\ \A g \in Handles : Live(g) => g # h /\ Kept(g)
      /\ \A g \in Handles : Live(g)' => g = h \/ Live(g)
  BY NewHandle
<1>3. held \in [Threads -> SUBSET Handles] /\ \A u \in Threads : \A g \in held[u] : g \in Handles /\ Live(g)
  BY DEF ThreadsInv, HeldInv
<1>4. /\ held' \in [Threads -> SUBSET Handles]
      /\ \A u \in Threads : held[u] \subseteq held'[u] /\ (u # t => held'[u] = held[u])
      /\ \A g \in held'[t] : g \in held[t] \/ g = h
  BY <1>3
<1>5. \A u \in Threads : \A g \in held'[u] : Live(g)'
  BY <1>2, <1>3, <1>4 DEF Kept
<1>6. \A u, v \in Threads : \A g \in Handles : g \in held'[u] /\ g \in held'[v] => u = v
  <2> SUFFICES ASSUME NEW u \in Threads, NEW v \in Threads, NEW g \in Handles,
                      g \in held'[u], g \in held'[v], u # v
               PROVE  FALSE
    OBVIOUS
  <2>1. CASE g = h
    BY <1>2, <1>3, <1>4, <2>1
  <2>2. CASE g # h
    <3>1. g \in held[u] /\ g \in held[v]
      BY <1>4, <2>2
    <3> QED BY <3>1 DEF ThreadsInv, HeldInv
  <2> QED BY <2>1, <2>2
<1>7. HeldInv'
  BY <1>4, <1>5, <1>6 DEF HeldInv
<1>8. ASSUME NEW g \in Handles, Live(g)', Dbx(g)' # "null"
      PROVE  \/ conn'[Dbx(g)'] \in Open2
             \/ Live(g) /\ Dbx(g)' = Dbx(g) /\ conn'[Dbx(g)] = conn[Dbx(g)]
  <2>1. CASE g = h
    BY <1>2, <2>1 DEF Open2
  <2>2. CASE g # h
    <3>1. Live(g) /\ Dbx(g)' = Dbx(g)
      BY <1>2, <1>8, <2>2 DEF Kept
    <3>2. Dbx(g) \in Conns /\ Dbx(g) # c
      BY <1>8, <3>1, LiveFacts, FreshConn
    <3> QED BY <3>1, <3>2 DEF HeapInv, HeapTypes
  <2> QED BY <2>1, <2>2
<1> QED BY <1>1, <1>2, <1>3, <1>4, <1>7, <1>8, HeapMoves

LEMMA NoMemoryKeeps ==
  ASSUME HeapInv, ThreadsInv, NEW t \in Threads, ConnectNoMemory(t)
  PROVE  HeapInv' /\ ThreadsInv'
<1> PICK c \in Conns : conn[c] = "unused" /\ conn' = [conn EXCEPT ![c] = "finished"]
  BY DEF ConnectNoMemory
<1>1. UNCHANGED <<mem, alloc, blob, held, call>>
  BY DEF ConnectNoMemory, heap
<1>2. \A h \in Handles : Live(h) => Dbx(h) # c
  BY FreshConn
<1>3. /\ HeapInv' /\ \A h \in Handles : (Live(h)' <=> Live(h)) /\ Dbx(h)' = Dbx(h)
      /\ \A h \in Handles : Live(h) => Kept(h)
  BY <1>1, <1>2, ConnMoves
<1>4. HeldInv' /\ \A u \in Threads : \A h \in held[u] : h \in Handles /\ Live(h)
  BY <1>1, <1>3 DEF ThreadsInv, HeldInv
<1>5. ASSUME NEW g \in Handles, Live(g)', Dbx(g)' # "null"
      PROVE  Live(g) /\ Dbx(g)' = Dbx(g) /\ conn'[Dbx(g)] = conn[Dbx(g)]
  <2>1. Live(g) /\ Dbx(g)' = Dbx(g) /\ Dbx(g) # c /\ Dbx(g) \in Conns
    BY <1>2, <1>3, <1>5, LiveFacts
  <2> QED BY <2>1 DEF HeapInv, HeapTypes
<1> QED BY <1>1, <1>3, <1>4, <1>5, HeapMoves

LEMMA GoesBadKeeps ==
  ASSUME HeapInv, ThreadsInv, NEW c \in Conns, GoesBad(c)
  PROVE  HeapInv' /\ ThreadsInv'
<1>1. /\ UNCHANGED <<mem, alloc, blob, held, call>>
      /\ conn[c] = "open" /\ conn' = [conn EXCEPT ![c] = "bad"]
  BY DEF GoesBad, heap
<1>2. Reached(c)
  BY <1>1 DEF HeapInv, ConnInv, Open2
<1>3. /\ HeapInv' /\ \A h \in Handles : (Live(h)' <=> Live(h)) /\ Dbx(h)' = Dbx(h)
      /\ \A h \in Handles : Live(h) => Kept(h)
      /\ conn'[c] = "bad"
  BY <1>1, <1>2, ConnMoves DEF Open2
<1>4. HeldInv' /\ \A u \in Threads : \A h \in held[u] : h \in Handles /\ Live(h)
  BY <1>1, <1>3 DEF ThreadsInv, HeldInv
<1>5. ASSUME NEW g \in Handles, Live(g)', Dbx(g)' # "null"
      PROVE  \/ conn'[Dbx(g)'] \in Open2
             \/ Live(g) /\ Dbx(g)' = Dbx(g) /\ conn'[Dbx(g)] = conn[Dbx(g)]
  <2>1. Live(g) /\ Dbx(g)' = Dbx(g) /\ Dbx(g) \in Conns
    BY <1>3, <1>5, LiveFacts
  <2>2. CASE Dbx(g) = c
    BY <1>3, <2>1, <2>2 DEF Open2
  <2>3. CASE Dbx(g) # c
    BY <1>1, <2>1, <2>3 DEF HeapInv, HeapTypes
  <2> QED BY <2>2, <2>3
<1> QED BY <1>1, <1>3, <1>4, <1>5, HeapMoves

LEMMA FinishKeeps ==
  ASSUME HeapInv, ThreadsInv, NEW t \in Threads, Finish(t)
  PROVE  HeapInv' /\ ThreadsInv'
<1> PICK h : h = call[t].handle
  OBVIOUS
<1> PICK c : c = Dbx(h)
  OBVIOUS
<1>1. /\ call[t].pc = "disconnect" /\ UNCHANGED <<mem, alloc, blob, held>>
  BY DEF Finish, heap
<1>2. /\ h \in Handles /\ h \in held[t] /\ Live(h) /\ c \in Conns /\ c # "null"
      /\ \A u \in Threads \ {t} : call[u].handle # h /\ h \notin held[u]
  BY <1>1, InCall
<1>3. conn[c] \in Open2 /\ call[t] \in Calls
  BY <1>1 DEF ThreadsInv, CallInv, CallOf
<1>4. conn' = [conn EXCEPT ![c] = "finished"]
  BY <1>2, <1>3 DEF Finish, Finished, Open2
<1>5. PICK end \in Closes : call' = [call EXCEPT ![t].conn = c, ![t].pc = end]
  BY DEF Finish, Closes
<1>6. Reached(c)
  BY <1>2 DEF Reached
<1>7. /\ HeapInv' /\ conn'[c] = "finished"
      /\ \A g \in Handles : (Live(g)' <=> Live(g)) /\ Dbx(g)' = Dbx(g)
      /\ \A g \in Handles : Live(g) /\ Dbx(g) # c => Kept(g)
  BY <1>1, <1>2, <1>3, <1>4, <1>6, ConnMoves DEF Open2
<1>8. \A g \in Handles \ {h} : Live(g) => Dbx(g) # c
  BY <1>2 DEF HeapInv, Apart
<1>9. HeldInv'
  BY <1>1, <1>7 DEF ThreadsInv, HeldInv
<1>10. /\ call' \in [Threads -> Calls] /\ \A u \in Threads \ {t} : call'[u] = call[u]
       /\ call'[t] \in Calls /\ call'[t].handle = h /\ call'[t].conn = c /\ call'[t].pc = end
  <2>1. call \in [Threads -> Calls]
    BY DEF ThreadsInv, CallInv
  <2>2. call'[t] = [call[t] EXCEPT !.conn = c, !.pc = end]
    BY <1>5, <2>1
  <2>3. call'[t] \in Calls /\ call'[t].handle = h /\ call'[t].conn = c /\ call'[t].pc = end
    BY <1>2, <1>3, <2>2 DEF Calls, Closes
  <2> QED BY <1>5, <2>1, <2>3
<1>11. CallOf(t)'
  <2>1. h \in held'[t] /\ Dbx(h)' = c
    BY <1>1, <1>2, <1>7
  <2> QED BY <1>2, <1>7, <1>10, <2>1 DEF CallOf, Closes
<1>12. \A u \in Threads \ {t} : CallOf(u)'
  <2> SUFFICES ASSUME NEW u \in Threads \ {t} PROVE CallOf(u)'
    OBVIOUS
  <2>1. call[u].pc # "idle" => call[u].handle \in held'[u] /\ Kept(call[u].handle)
    BY <1>1, <1>2, <1>7, <1>8, InCall
  <2> QED BY <1>10, <2>1, CallKept
<1>13. ASSUME NEW g \in Handles, Live(g)', Dbx(g)' # "null"
       PROVE  conn'[Dbx(g)'] \in Open2 \/ Closing(g)'
  <2>1. CASE g = h
    BY <1>10, <2>1 DEF Closing
  <2>2. CASE g # h
    <3>1. Live(g) /\ Dbx(g)' = Dbx(g) /\ Dbx(g) \in Conns \ {c}
      BY <1>7, <1>8, <1>13, <2>2, LiveFacts
    <3>2. conn'[Dbx(g)] = conn[Dbx(g)]
      BY <1>4, <3>1 DEF HeapInv, HeapTypes
    <3>3. conn[Dbx(g)] \in Open2 \/ Closing(g)
      BY <1>13, <3>1 DEF ThreadsInv, DanglingInv
    <3>4. ASSUME Closing(g) PROVE Closing(g)'
      BY <1>10, <2>2, <3>4 DEF Closing
    <3> QED BY <3>1, <3>2, <3>3, <3>4
  <2> QED BY <2>1, <2>2
<1>14. DanglingInv'
  BY <1>13 DEF DanglingInv
<1> QED BY <1>7, <1>9, <1>10, <1>11, <1>12, <1>14 DEF ThreadsInv, CallInv

LEMMA DisconnectedKeeps ==
  ASSUME HeapInv, ThreadsInv, NEW t \in Threads, Disconnected(t)
  PROVE  HeapInv' /\ ThreadsInv'
<1> PICK h : h = call[t].handle
  OBVIOUS
<1>1. /\ call[t].pc \in Closes /\ UNCHANGED <<conn, alloc, blob, held>>
      /\ mem' = [mem EXCEPT ![blob[h]] = "null"] /\ call' = [call EXCEPT ![t] = Idle]
  BY DEF Disconnected, Closes, Return
<1>2. /\ h \in Handles /\ h \in held[t] /\ Live(h) /\ Dbx(h) \in Conns
      /\ \A u \in Threads \ {t} : call[u].handle # h /\ h \notin held[u]
  BY <1>1, InCall DEF Closes
<1>3. conn[Dbx(h)] = "finished"
  BY <1>1 DEF ThreadsInv, CallInv, CallOf
<1>4. /\ HeapInv' /\ Live(h)' /\ Dbx(h)' = "null"
      /\ \A g \in Handles \ {h} : Live(g) => Kept(g)
      /\ \A g \in Handles : Live(g)' => Live(g)
  BY <1>1, <1>2, <1>3, Emptied
<1>5. call' \in [Threads -> Calls] /\ call'[t] = Idle /\ \A u \in Threads \ {t} : call'[u] = call[u]
  BY <1>1, IdleCall DEF ThreadsInv, CallInv
<1>6. HeldInv'
  <2>1. \A u \in Threads : \A g \in held[u] : Live(g)'
    BY <1>4 DEF ThreadsInv, HeldInv, Kept
  <2> QED BY <1>1, <2>1 DEF ThreadsInv, HeldInv
<1>7. CallOf(t)'
  BY <1>5 DEF CallOf, Idle, Calls, Closes
<1>8. \A u \in Threads \ {t} : CallOf(u)'
  <2> SUFFICES ASSUME NEW u \in Threads \ {t} PROVE CallOf(u)'
    OBVIOUS
  <2>1. call[u].pc # "idle" => call[u].handle \in held'[u] /\ Kept(call[u].handle)
    BY <1>1, <1>2, <1>4, InCall
  <2> QED BY <1>5, <2>1, CallKept
<1>9. ASSUME NEW g \in Handles, Live(g)', Dbx(g)' # "null"
      PROVE  conn'[Dbx(g)'] \in Open2 \/ Closing(g)'
  <2>1. g # h /\ Live(g) /\ Dbx(g)' = Dbx(g)
    BY <1>4, <1>9 DEF Kept
  <2>2. conn[Dbx(g)] \in Open2 \/ Closing(g)
    BY <1>9, <2>1 DEF ThreadsInv, DanglingInv
  <2>3. ASSUME Closing(g) PROVE Closing(g)'
    BY <1>5, <2>1, <2>3 DEF Closing
  <2> QED BY <1>1, <2>1, <2>2, <2>3
<1>10. DanglingInv'
  BY <1>9 DEF DanglingInv
<1> QED BY <1>4, <1>5, <1>6, <1>7, <1>8, <1>10 DEF ThreadsInv, CallInv

LEMMA CollectedKeeps ==
  ASSUME HeapInv, ThreadsInv, NEW h \in Handles, Release(h)
  PROVE  HeapInv' /\ ThreadsInv'
<1>1. /\ Live(h) /\ UNCHANGED <<held, call>>
      /\ \A t \in Threads : h \notin held[t] /\ call[t].handle # h
  BY DEF Release, Live, Unreachable
<1>2. Dbx(h) # "null" => conn[Dbx(h)] \in Open2
  BY <1>1 DEF ThreadsInv, DanglingInv, Closing
<1>3. /\ HeapInv' /\ \A g \in Handles \ {h} : Live(g) => Kept(g)
      /\ \A g \in Handles : Live(g)' => Live(g) /\ g # h
  BY <1>2, ReleaseKeeps
<1>4. \A u \in Threads : \A g \in held[u] : g \in Handles /\ Kept(g)
  BY <1>1, <1>3 DEF ThreadsInv, HeldInv
<1>5. HeldInv'
  BY <1>1, <1>4 DEF ThreadsInv, HeldInv, Kept
<1>6. ASSUME NEW g \in Handles, Live(g)', Dbx(g)' # "null"
      PROVE  \/ conn'[Dbx(g)'] \in Open2
             \/ Live(g) /\ Dbx(g)' = Dbx(g) /\ conn'[Dbx(g)] = conn[Dbx(g)]
  <2>1. Live(g) /\ g # h /\ Kept(g) /\ Dbx(g)' = Dbx(g)
    BY <1>3, <1>6 DEF Kept
  <2>2. Dbx(g) \in Conns /\ Dbx(g) # Dbx(h)
    BY <1>1, <1>6, <2>1, LiveFacts DEF HeapInv, Apart
  <2>3. conn'[Dbx(g)] = conn[Dbx(g)]
    <3>1. CASE Dbx(h) = "null"
      BY <3>1 DEF Release
    <3>2. CASE Dbx(h) # "null"
      <4>1. PICK v : conn' = [conn EXCEPT ![Dbx(h)] = v]
        BY <3>2 DEF Release
      <4> QED BY <2>2, <4>1 DEF HeapInv, HeapTypes
    <3> QED BY <3>1, <3>2
  <2> QED BY <2>1, <2>3
<1> QED BY <1>1, <1>3, <1>4, <1>5, <1>6, HeapMoves

-----------------------------------------------------------------------------
(***************************************************************************)
(* Every step, and what follows.                                           *)
(***************************************************************************)
LEMMA EnterKeeps ==
  ASSUME HeapInv, ThreadsInv, NEW t \in Threads, NEW h \in Handles, Query(t, h) \/ Disconnect(t, h)
  PROVE  HeapInv' /\ ThreadsInv'
<1>1. /\ UNCHANGED <<conn, mem, alloc, blob, held>> /\ call[t].pc = "idle" /\ h \in held[t] /\ Dbx(h) # "null"
  BY DEF Query, Disconnect, heap, IsIdle
<1>2. PICK pc \in {"query", "disconnect"} : call' = [call EXCEPT ![t] = [pc |-> pc, handle |-> h, conn |-> "none"]]
  BY DEF Query, Disconnect, Enter
<1>3. /\ call' \in [Threads -> Calls] /\ \A u \in Threads \ {t} : call'[u] = call[u]
      /\ call'[t] = [pc |-> pc, handle |-> h, conn |-> "none"]
  <2> PICK k : k = [pc |-> pc, handle |-> h, conn |-> "none"]
    OBVIOUS
  <2>1. k \in Calls
    BY DEF Calls
  <2>2. call' = [call EXCEPT ![t] = k] /\ call \in [Threads -> Calls]
    BY <1>2 DEF ThreadsInv, CallInv
  <2> QED BY <2>1, <2>2
<1>4. call'[t] \in Calls /\ call'[t].pc = pc /\ call'[t].handle = h
  BY <1>3 DEF Calls
<1>5. Live(h)
  BY <1>1 DEF ThreadsInv, HeldInv
<1>6. ~Closing(h)
  <2> SUFFICES ASSUME NEW u \in Threads, call[u].handle = h, call[u].pc \in Closes PROVE FALSE
    BY DEF Closing
  <2> QED BY <1>1, InCall DEF Closes
<1>7. conn[Dbx(h)] \in Open2
  BY <1>1, <1>5, <1>6 DEF ThreadsInv, DanglingInv
<1>8. Dbx(h)' = Dbx(h)
  BY <1>1 DEF Dbx
<1>9. CallOf(t)'
  BY <1>1, <1>4, <1>7, <1>8 DEF CallOf, Closes
<1> QED BY <1>1, <1>3, <1>9, CallMoves DEF Closes

LEMMA ExecKeeps ==
  ASSUME HeapInv, ThreadsInv, NEW t \in Threads, Exec(t)
  PROVE  HeapInv' /\ ThreadsInv'
<1> PICK h : h = call[t].handle
  OBVIOUS
<1>1. /\ UNCHANGED <<conn, mem, alloc, blob, held>> /\ call[t].pc = "query"
      /\ call' = [call EXCEPT ![t].pc = "exec", ![t].conn = Dbx(h)]
  BY DEF Exec, heap
<1>2. /\ h \in Handles /\ h \in held[t] /\ Dbx(h) # "null" /\ Dbx(h) \in Conns
  BY <1>1, InCall
<1>3. conn[Dbx(h)] \in Open2 /\ call[t] \in Calls /\ call \in [Threads -> Calls]
  BY <1>1 DEF ThreadsInv, CallInv, CallOf
<1>4. /\ call' \in [Threads -> Calls] /\ \A u \in Threads \ {t} : call'[u] = call[u]
      /\ call'[t] = [call[t] EXCEPT !.pc = "exec", !.conn = Dbx(h)]
  <2> PICK k : k = [call[t] EXCEPT !.pc = "exec", !.conn = Dbx(h)]
    OBVIOUS
  <2>1. k \in Calls
    BY <1>2, <1>3 DEF Calls
  <2>2. call' = [call EXCEPT ![t] = k]
    BY <1>1, <1>3
  <2> QED BY <1>3, <2>1, <2>2
<1>5. call'[t] \in Calls /\ call'[t].pc = "exec" /\ call'[t].handle = h /\ call'[t].conn = Dbx(h)
  BY <1>2, <1>3, <1>4 DEF Calls
<1>6. Dbx(h)' = Dbx(h)
  BY <1>1 DEF Dbx
<1>7. CallOf(t)'
  BY <1>1, <1>2, <1>3, <1>5, <1>6 DEF CallOf, Closes
<1> QED BY <1>1, <1>4, <1>7, CallMoves DEF Closes

LEMMA ThreadKeeps ==
  ASSUME ~Shared, HeapInv, ThreadsInv, NEW t \in Threads, Thread(t)
  PROVE  HeapInv' /\ ThreadsInv'
<1>1. CASE Connect(t) \/ ConnectLost(t)
  BY <1>1, ConnectKeeps
<1>2. CASE ConnectNoMemory(t)
  BY <1>2, NoMemoryKeeps
<1>3. CASE \E h \in Handles : Query(t, h) \/ Disconnect(t, h)
  BY <1>3, EnterKeeps
<1>4. CASE \E h \in Handles : QueryRefused(t, h) \/ DisconnectAgain(t, h)
  <2>1. UNCHANGED <<conn, mem, alloc, blob, held, call>>
    BY <1>4 DEF QueryRefused, DisconnectAgain, heap
  <2> QED BY <2>1, QuietKeeps
<1>5. CASE \E h \in Handles : Forget(t, h)
  BY <1>5, ForgetKeeps
<1>6. CASE \E h \in Handles, u \in Threads : Pass(t, u, h)
  BY <1>6, PassKeeps
<1>7. CASE Finish(t)
  BY <1>7, FinishKeeps
<1>8. CASE Disconnected(t)
  BY <1>8, DisconnectedKeeps
<1>9. CASE Exec(t)
  BY <1>9, ExecKeeps
<1>10. CASE QueryInvalid(t) \/ NotConnected(t) \/ ExecFails(t) \/ ExecDone(t) \/ NoRows(t) \/ FirstRow(t)
  <2>1. /\ UNCHANGED <<conn, mem, alloc, blob, held>> /\ call[t].pc \in {"query", "exec"}
        /\ call' = [call EXCEPT ![t] = Idle]
    BY <1>10 DEF QueryInvalid, NotConnected, ExecFails, ExecDone, NoRows, FirstRow, Return, heap
  <2> QED BY <2>1, ReturnKeeps DEF Closes
<1>11. CASE ConnectFails(t) \/ NextRow(t) \/ NextRowFails(t) \/ Prune(t)
  <2>1. UNCHANGED <<conn, mem, alloc, blob, held, call>>
    BY <1>11 DEF ConnectFails, NextRow, NextRowFails, Prune, heap
  <2> QED BY <2>1, QuietKeeps
<1> QED BY <1>1, <1>2, <1>3, <1>4, <1>5, <1>6, <1>7, <1>8, <1>9, <1>10, <1>11 DEF Thread

LEMMA HandlesKept ==
  ASSUME ~Shared, HeapInv, ThreadsInv, Next
  PROVE  HeapInv' /\ ThreadsInv'
<1>1. CASE \E t \in Threads : Thread(t)
  BY <1>1, ThreadKeeps
<1>2. CASE \E h \in Handles : Release(h)
  BY <1>2, CollectedKeeps
<1>3. CASE \E c \in Conns : GoesBad(c)
  BY <1>3, GoesBadKeeps
<1> QED BY <1>1, <1>2, <1>3 DEF Next

LEMMA GivenKept ==
  ASSUME GivenInv, Next
  PROVE  GivenInv'
<1>1. CASE \E t \in Threads : Connect(t)
  <2> PICK c \in Conns, h \in Handles : given' = [given EXCEPT ![h] = c]
    BY <1>1 DEF Connect
  <2> QED BY DEF GivenInv
<1>2. CASE UNCHANGED given
  BY <1>2 DEF GivenInv
<1>3. ASSUME NEW t \in Threads, Thread(t)
      PROVE  UNCHANGED given \/ Connect(t)
  BY <1>3 DEF Thread, ConnectFails, ConnectNoMemory, ConnectLost, Query, QueryRefused, Disconnect,
     DisconnectAgain, Forget, Pass, Finish, Disconnected, QueryInvalid, Exec, NotConnected, ExecFails,
     ExecDone, NoRows, FirstRow, NextRow, NextRowFails, Prune
<1>4. ASSUME ~\E t \in Threads : Thread(t)
      PROVE  UNCHANGED given
  BY <1>4 DEF Next, Release, GoesBad
<1> QED BY <1>1, <1>2, <1>3, <1>4

LEMMA InitInv == Init => Inv
<1> SUFFICES ASSUME Init PROVE Inv
  OBVIOUS
<1>1. \A h \in Handles : ~Live(h)
  BY DEF Init, Live, PgAssumption
<1>2. HeapInv
  <2>1. HeapTypes
    BY DEF Init, HeapTypes, States
  <2>2. \A c \in Conns : ConnInv(c)
    BY <1>1 DEF Init, ConnInv, Reached, Open2
  <2> QED BY <1>1, <2>1, <2>2 DEF Init, HeapInv, Apart
<1>3. HeldInv
  BY DEF Init, HeldInv
<1>4. CallInv
  <2>1. call \in [Threads -> Calls] /\ \A t \in Threads : call[t] = Idle
    BY IdleCall DEF Init
  <2> QED BY <2>1 DEF CallInv, CallOf, Idle, Calls, Closes
<1>5. DanglingInv
  BY <1>1 DEF DanglingInv
<1>6. ResInv
  <2>1. <<>> \in Seq(Cursors) /\ Len(<<>>) = 0
    OBVIOUS
  <2>2. \A t \in Threads : cursors[t] = <<>>
    BY DEF Init
  <2>3. cursors \in [Threads -> Seq(Cursors)]
    BY <2>1 DEF Init
  <2> QED BY <2>1, <2>2, <2>3 DEF Init, ResInv
<1>7. GivenInv
  BY DEF Init, GivenInv
<1> QED BY <1>2, <1>3, <1>4, <1>5, <1>6, <1>7 DEF Inv, ThreadsInv

LEMMA StepInv == ASSUME ~Shared PROVE Inv /\ [Next]_vars => Inv'
<1> SUFFICES ASSUME Inv, [Next]_vars PROVE Inv'
  OBVIOUS
<1>1. CASE Next
  BY <1>1, HandlesKept, ResultsKept, GivenKept DEF Inv
<1>2. CASE UNCHANGED vars
  <2>1. UNCHANGED <<conn, mem, alloc, blob, held, call>> /\ UNCHANGED <<res, cursors>> /\ UNCHANGED given
    BY <1>2 DEF vars, heap
  <2>2. GivenInv'
    BY <2>1 DEF Inv, GivenInv
  <2> QED BY <2>1, <2>2, QuietKeeps, SameResults DEF Inv
<1> QED BY <1>1, <1>2

LEMMA InvCorrect == ASSUME ~Shared PROVE Spec => []Inv
<1> QED BY InitInv, StepInv, PTL DEF Spec

\* The variables keep their types, whatever the numbers of threads, handles,
\* connections and addresses.
THEOREM TypeCorrect == ASSUME ~Shared PROVE Spec => []TypeOK
<1>1. Inv => TypeOK
  <2> SUFFICES ASSUME Inv PROVE TypeOK
    OBVIOUS
  <2>1. call \in [Threads -> Calls]
    BY DEF Inv, ThreadsInv, CallInv
  <2>2. \A t \in Threads : \A i \in 1..Len(cursors[t]) :
          /\ cursors[t][i].result \in Results /\ cursors[t][i].rows <= MaxRows
          /\ cursors[t][i].at \in 1..(cursors[t][i].rows - 1)
    <3>1. \A t \in Threads : \A i \in 1..Len(cursors[t]) : cursors[t][i] \in Cursors
      BY DEF Inv, ResInv
    <3> QED BY <3>1 DEF Cursors, PgAssumption
  <2>3. res \in [Results -> {"unused", "live", "cleared", "twice"}]
    BY DEF Inv, ResInv
  <2> QED BY <2>1, <2>2, <2>3 DEF Inv, HeapInv, HeapTypes, States, ThreadsInv, HeldInv, GivenInv, TypeOK
<1> QED BY <1>1, InvCorrect, PTL

\* swi-pgsql.c uses no structure, connection or result that was freed, and frees
\* none twice, if threads do not share handles.
THEOREM NoFreedUseCorrect == ASSUME ~Shared PROVE Spec => []NoFreedUse
<1>1. Inv => NoFreedUse
  <2> SUFFICES ASSUME Inv PROVE NoFreedUse
    OBVIOUS
  <2>1. ASSUME NEW t \in Threads, call[t].handle # "none"
        PROVE  blob[call[t].handle] \in alloc
    <3>1. call[t].pc # "idle"
      BY <2>1 DEF Inv, ThreadsInv, CallInv, CallOf
    <3> QED BY <3>1, InCall, LiveFacts DEF Inv
  <2>2. UseDetected
    <3> SUFFICES ASSUME NEW t \in Threads, call[t].pc = "exec"
                 PROVE  conn[call[t].conn] \in {"open", "bad"}
      BY DEF UseDetected
    <3> QED BY DEF Inv, ThreadsInv, CallInv, CallOf, Open2
  <2>3. \A c \in Conns : conn[c] # "twice"
    BY DEF Inv, HeapInv, ConnInv
  <2>4. \A r \in Results : res[r] # "twice"
    BY DEF Inv, ResInv
  <2> QED BY <2>1, <2>2, <2>3, <2>4 DEF NoFreedUse
<1> QED BY <1>1, InvCorrect, PTL

\* An open connection, an allocated structure and a result that is not cleared
\* can still be reached: disconnect, the collector or a cut will free them.
THEOREM NothingLostCorrect == ASSUME ~Shared PROVE Spec => []NothingLost
<1>1. Inv => NothingLost
  <2> SUFFICES ASSUME Inv PROVE NothingLost
    OBVIOUS
  <2>1. \A c \in Conns : conn[c] \in {"open", "bad"} => \E h \in Handles : blob[h] \in alloc /\ Dbx(h) = c
    BY DEF Inv, HeapInv, ConnInv, Reached, Open2
  <2>2. \A a \in alloc : \E h \in Handles : blob[h] = a
    BY DEF Inv, HeapInv
  <2>3. \A g, h \in Handles : g # h /\ {blob[g], blob[h]} \subseteq alloc => blob[g] # blob[h]
    BY DEF Inv, HeapInv, HeapTypes, Apart, Live
  <2>4. \A r \in Results : res[r] = "live" =>
          \E t \in Threads : \E i \in 1..Len(cursors[t]) : cursors[t][i].result = r
    BY DEF Inv, ResInv
  <2> QED BY <2>1, <2>2, <2>3, <2>4 DEF NothingLost
<1> QED BY <1>1, InvCorrect, PTL

\* Between calls no handle refers to a finished connection, also where the
\* connection had gone bad before pl_pgsql_disconnect/1 finished it.
THEOREM NoDanglingCorrect == ASSUME ~Shared PROVE Spec => []NoDangling
<1>1. Inv => NoDangling
  BY DEF Inv, HeapInv, HeapTypes, ThreadsInv, DanglingInv, Live, Closing, Closes, Open2, NoDangling
<1> QED BY <1>1, InvCorrect, PTL

-----------------------------------------------------------------------------
(***************************************************************************)
(* The contract.  GivenExact ties what a handle was made for to what its   *)
(* structure holds; every step of the bridge is one of the contract's, or  *)
(* none of it.                                                             *)
(***************************************************************************)
\* A handle a program has was made for a connection of its own; its structure holds
\* that connection or, once that is finished, none.
GivenExact ==
  /\ \A h \in Handles : blob[h] = "unused" => given[h] = "none"
  /\ \A t \in Threads : \A h \in held[t] : given[h] # "none"
  /\ \A g, h \in Handles : given[g] = given[h] /\ given[g] # "none" => g = h
  /\ \A h \in Handles : given[h] # "none" => conn[given[h]] # "unused"
  /\ \A g, h \in Handles : Live(h) /\ Dbx(h) # "null" /\ given[g] = Dbx(h) => g = h
  /\ \A h \in Handles : Live(h) /\ given[h] # "none" =>
       Dbx(h) = given[h] \/ (Dbx(h) = "null" /\ conn[given[h]] = "finished")

\* Steps that give no handle out: no connection becomes new, a finished one stays so,
\* and structures are only emptied, or hold a connection nobody was given.
LEMMA ExactKept ==
  ASSUME GivenInv, GivenExact, UNCHANGED given,
         \A h \in Handles : blob'[h] = "unused" => blob[h] = "unused",
         \A t \in Threads : \A h \in held'[t] : \E u \in Threads : h \in held[u],
         \A c \in Conns : conn[c] # "unused" => conn'[c] # "unused",
         \A c \in Conns : conn[c] = "finished" => conn'[c] = "finished",
         \A h \in Handles : Live(h)' =>
           \/ Live(h) /\ Dbx(h)' = Dbx(h)
           \/ Live(h) /\ Dbx(h)' = "null" /\ (given[h] # "none" => conn'[given[h]] = "finished")
           \/ given[h] = "none" /\ \A g \in Handles : given[g] # Dbx(h)'
  PROVE  GivenExact'
<1>1. \A h \in Handles : given[h] # "none" => given[h] \in Conns
  BY DEF GivenInv
<1>2. \A h \in Handles : blob'[h] = "unused" => given'[h] = "none"
  BY DEF GivenExact
<1>3. \A t \in Threads : \A h \in held'[t] : given'[h] # "none"
  BY DEF GivenExact
<1>4. \A g, h \in Handles : given'[g] = given'[h] /\ given'[g] # "none" => g = h
  BY DEF GivenExact
<1>5. \A h \in Handles : given'[h] # "none" => conn'[given'[h]] # "unused"
  BY <1>1 DEF GivenExact
<1>6. \A g, h \in Handles : Live(h)' /\ Dbx(h)' # "null" /\ given'[g] = Dbx(h)' => g = h
  BY DEF GivenExact
<1>7. \A h \in Handles : Live(h)' /\ given'[h] # "none" =>
        Dbx(h)' = given'[h] \/ (Dbx(h)' = "null" /\ conn'[given'[h]] = "finished")
  BY <1>1 DEF GivenExact
<1> QED BY <1>2, <1>3, <1>4, <1>5, <1>6, <1>7 DEF GivenExact

\* A connection that is new belongs to no handle.
LEMMA NotGiven ==
  ASSUME Inv, GivenExact, NEW c \in Conns, conn[c] = "unused"
  PROVE  (\A h \in Handles : given[h] # c) /\ \A h \in Handles : Live(h) => Dbx(h) # c
<1>1. HeapInv
  BY DEF Inv
<1>2. c # "none"
  OBVIOUS
<1> QED BY <1>1, <1>2, FreshConn DEF GivenExact

LEMMA ConnectExact ==
  ASSUME Inv, GivenExact, NEW t \in Threads, Connect(t)
  PROVE  GivenExact'
<1>1. PICK c \in Conns, a \in Addrs, h \in Handles :
        /\ conn[c] = "unused" /\ a \notin alloc /\ blob[h] = "unused"
        /\ conn' = [conn EXCEPT ![c] = "open"]
        /\ mem' = [mem EXCEPT ![a] = c] /\ alloc' = alloc \cup {a}
        /\ blob' = [blob EXCEPT ![h] = a]
        /\ held' = [held EXCEPT ![t] = held[t] \cup {h}]
        /\ given' = [given EXCEPT ![h] = c]
  BY DEF Connect
<1>2. /\ Live(h)' /\ Dbx(h)' = c /\ conn'[c] = "open"
      /\ \A g \in Handles : Live(g) => g # h /\ Kept(g)
      /\ \A g \in Handles : Live(g)' => g = h \/ Live(g)
  BY <1>1, NewHandle DEF Inv
<1>3. /\ given'[h] = c /\ given[h] = "none" /\ c # "none"
      /\ \A g \in Handles \ {h} : given'[g] = given[g]
      /\ \A g \in Handles : given[g] # c /\ (given[g] # "none" => given[g] \in Conns)
  BY <1>1, NotGiven DEF Inv, GivenInv, GivenExact
<1>4. /\ \A d \in Conns \ {c} : conn'[d] = conn[d]
      /\ \A g \in Handles \ {h} : blob'[g] = blob[g]
      /\ blob'[h] = a /\ a # "unused"
  BY <1>1 DEF Inv, HeapInv, HeapTypes
<1>5. \A g \in Handles : Live(g) => Dbx(g) # c /\ Dbx(g)' = Dbx(g)
  BY <1>1, <1>2, NotGiven DEF Kept
<1>6. \A g \in Handles : blob'[g] = "unused" => given'[g] = "none"
  BY <1>3, <1>4 DEF GivenExact
<1>7. \A u \in Threads : \A g \in held'[u] : given'[g] # "none"
  <2>1. held \in [Threads -> SUBSET Handles]
    BY DEF Inv, ThreadsInv, HeldInv
  <2>2. \A u \in Threads : \A g \in held'[u] : g = h \/ (g \in held[u] /\ g \in Handles)
    BY <1>1, <2>1
  <2> QED BY <1>3, <2>2 DEF GivenExact
<1>8. \A f, g \in Handles : given'[f] = given'[g] /\ given'[f] # "none" => f = g
  BY <1>3 DEF GivenExact
<1>9. \A g \in Handles : given'[g] # "none" => conn'[given'[g]] # "unused"
  BY <1>2, <1>3, <1>4 DEF GivenExact
<1>10. \A f, g \in Handles : Live(g)' /\ Dbx(g)' # "null" /\ given'[f] = Dbx(g)' => f = g
  BY <1>2, <1>3, <1>5 DEF GivenExact
<1>11. \A g \in Handles : Live(g)' /\ given'[g] # "none" =>
         Dbx(g)' = given'[g] \/ (Dbx(g)' = "null" /\ conn'[given'[g]] = "finished")
  <2> SUFFICES ASSUME NEW g \in Handles, Live(g)', given'[g] # "none", g # h
               PROVE  Dbx(g)' = given'[g] \/ (Dbx(g)' = "null" /\ conn'[given'[g]] = "finished")
    BY <1>2, <1>3
  <2>1. Live(g) /\ Dbx(g)' = Dbx(g) /\ given'[g] = given[g] /\ given[g] \in Conns \ {c}
    BY <1>2, <1>3, <1>5
  <2> QED BY <1>4, <2>1 DEF GivenExact
<1> QED BY <1>6, <1>7, <1>8, <1>9, <1>10, <1>11 DEF GivenExact

\* A finished connection stays so, and none becomes new.
Onward(c) == (conn[c] # "unused" => conn'[c] # "unused") /\ (conn[c] = "finished" => conn'[c] = "finished")

LEMMA LostExact ==
  ASSUME Inv, GivenExact, NEW t \in Threads, ConnectLost(t)
  PROVE  GivenExact'
<1>1. PICK c \in Conns, a \in Addrs, h \in Handles :
        /\ conn[c] = "unused" /\ a \notin alloc /\ blob[h] = "unused"
        /\ conn' = [conn EXCEPT ![c] = "open"]
        /\ mem' = [mem EXCEPT ![a] = c] /\ alloc' = alloc \cup {a}
        /\ blob' = [blob EXCEPT ![h] = a]
  BY DEF ConnectLost
<1>2. UNCHANGED <<held, given>>
  BY DEF ConnectLost
<1>3. /\ Dbx(h)' = c
      /\ \A g \in Handles : Live(g) => Kept(g)
      /\ \A g \in Handles : Live(g)' => g = h \/ Live(g)
  BY <1>1, NewHandle DEF Inv
<1>4. given[h] = "none" /\ \A g \in Handles : given[g] # c
  BY <1>1, NotGiven DEF GivenExact
<1>5. \A d \in Conns : Onward(d)
  BY <1>1 DEF Inv, HeapInv, HeapTypes, Onward
<1>6. \A g \in Handles : blob'[g] = "unused" => blob[g] = "unused"
  BY <1>1 DEF Inv, HeapInv, HeapTypes
<1>7. \A g \in Handles : Live(g)' => \/ Live(g) /\ Dbx(g)' = Dbx(g)
                                     \/ given[g] = "none" /\ \A f \in Handles : given[f] # Dbx(g)'
  BY <1>3, <1>4 DEF Kept
<1> QED BY <1>2, <1>5, <1>6, <1>7, ExactKept DEF Inv, Onward

\* Steps that leave the structures as they are.
LEMMA HeapStaysExact ==
  ASSUME Inv, GivenExact, UNCHANGED <<mem, alloc, blob, given>>,
         \A t \in Threads : \A h \in held'[t] : \E u \in Threads : h \in held[u],
         \A c \in Conns : Onward(c)
  PROVE  GivenExact'
<1>1. \A h \in Handles : (Live(h)' <=> Live(h)) /\ Dbx(h)' = Dbx(h)
  BY DEF Live, Dbx
<1> QED BY <1>1, ExactKept DEF Inv, Onward

LEMMA ConnExact ==
  ASSUME Inv, GivenExact, UNCHANGED <<mem, alloc, blob, given, held>>,
         NEW c \in Conns, NEW to \in {"bad", "finished"}, conn' = [conn EXCEPT ![c] = to],
         conn[c] = "finished" => to = "finished"
  PROVE  GivenExact'
<1>1. \A d \in Conns : Onward(d)
  BY DEF Inv, HeapInv, HeapTypes, Onward
<1> QED BY <1>1, HeapStaysExact

\* What is known of the handle of a disconnect whose connection is finished.
LEMMA ClosingFacts ==
  ASSUME Inv, GivenExact, NEW t \in Threads, call[t].pc \in Closes
  PROVE  /\ call[t].handle \in Handles /\ Live(call[t].handle) /\ call[t].handle \in held[t]
         /\ given[call[t].handle] \in Conns /\ Dbx(call[t].handle) = given[call[t].handle]
         /\ call[t].conn = given[call[t].handle]
         /\ conn[given[call[t].handle]] = "finished"
<1> PICK h : h = call[t].handle
  OBVIOUS
<1>1. h \in Handles /\ Live(h) /\ h \in held[t] /\ Dbx(h) # "null"
  BY InCall DEF Closes, Inv
<1>2. given[h] # "none" /\ given[h] \in Conns
  BY <1>1 DEF GivenExact, Inv, GivenInv
<1>3. Dbx(h) = given[h]
  BY <1>1, <1>2 DEF GivenExact
<1>4. call[t].conn = Dbx(h) /\ conn[Dbx(h)] = "finished"
  BY DEF Inv, ThreadsInv, CallInv, CallOf, Closes
<1> QED BY <1>1, <1>2, <1>3, <1>4

LEMMA DisconnectedExact ==
  ASSUME Inv, GivenExact, NEW t \in Threads, Disconnected(t)
  PROVE  GivenExact'
<1> PICK h : h = call[t].handle
  OBVIOUS
<1>1. /\ call[t].pc \in Closes /\ UNCHANGED <<conn, alloc, blob, held, given>>
      /\ mem' = [mem EXCEPT ![blob[h]] = "null"]
  BY DEF Disconnected, Closes
<1>2. /\ h \in Handles /\ Live(h) /\ given[h] \in Conns /\ Dbx(h) = given[h] /\ conn[given[h]] = "finished"
  BY <1>1, ClosingFacts
<1>3. /\ Dbx(h)' = "null"
      /\ \A g \in Handles \ {h} : Live(g) => Kept(g)
      /\ \A g \in Handles : Live(g)' => Live(g)
  BY <1>1, <1>2, Emptied DEF Inv
<1>4. \A g \in Handles : Live(g)' => \/ Live(g) /\ Dbx(g)' = Dbx(g)
                                     \/ Live(g) /\ Dbx(g)' = "null" /\ conn'[given[g]] = "finished"
  BY <1>1, <1>2, <1>3 DEF Kept
<1> QED BY <1>1, <1>4, ExactKept DEF Inv

\* The collector takes a handle nobody is disconnecting.
LEMMA ReleaseFacts ==
  ASSUME Inv, NEW h \in Handles, Release(h)
  PROVE  /\ Live(h) /\ UNCHANGED <<mem, held, call, res, cursors, given, reply>>
         /\ \A t \in Threads : h \notin held[t] /\ call[t].handle # h
         /\ Dbx(h) = "null" => conn' = conn
         /\ Dbx(h) # "null" => /\ Dbx(h) \in Conns /\ conn[Dbx(h)] \in Open2
                               /\ conn' = [conn EXCEPT ![Dbx(h)] = "collected"]
         /\ \A g \in Handles \ {h} : Live(g) => Kept(g)
         /\ \A g \in Handles : Live(g)' => Live(g) /\ g # h
<1>1. /\ Live(h) /\ UNCHANGED <<mem, held, call, res, cursors, given, reply>>
      /\ \A t \in Threads : h \notin held[t] /\ call[t].handle # h
  BY DEF Release, Live, Unreachable
<1>2. Dbx(h) # "null" => conn[Dbx(h)] \in Open2
  BY <1>1 DEF Inv, ThreadsInv, DanglingInv, Closing
<1>3. /\ \A g \in Handles \ {h} : Live(g) => Kept(g)
      /\ \A g \in Handles : Live(g)' => Live(g) /\ g # h
  BY <1>2, ReleaseKeeps DEF Inv
<1>4. Dbx(h) # "null" => Dbx(h) \in Conns
  BY <1>1, LiveFacts DEF Inv
<1>5. Dbx(h) # "null" => conn' = [conn EXCEPT ![Dbx(h)] = "collected"]
  BY <1>2 DEF Release, Finished, Open2
<1>6. Dbx(h) = "null" => conn' = conn
  BY DEF Release
<1> QED BY <1>1, <1>2, <1>3, <1>4, <1>5, <1>6

LEMMA ReleaseExact ==
  ASSUME Inv, GivenExact, NEW h \in Handles, Release(h)
  PROVE  GivenExact'
<1>1. \A c \in Conns : Onward(c)
  BY ReleaseFacts DEF Onward, Open2, Inv, HeapInv, HeapTypes
<1>2. \A g \in Handles : Live(g)' => Live(g) /\ Dbx(g)' = Dbx(g)
  BY ReleaseFacts DEF Kept
<1>3. \A g \in Handles : blob'[g] = "unused" => blob[g] = "unused"
  BY DEF Release, Inv, HeapInv, HeapTypes
<1>4. \A u \in Threads : held'[u] = held[u]
  BY ReleaseFacts
<1>5. UNCHANGED given
  BY ReleaseFacts
<1> QED BY <1>1, <1>2, <1>3, <1>4, <1>5, ExactKept DEF Inv, Onward

LEMMA ThreadExact ==
  ASSUME ~Shared, Inv, GivenExact, NEW t \in Threads, Thread(t)
  PROVE  GivenExact'
<1>1. CASE Connect(t)
  BY <1>1, ConnectExact
<1>2. CASE ConnectLost(t)
  BY <1>2, LostExact
<1>3. CASE ConnectNoMemory(t)
  <2>1. PICK c \in Conns : conn[c] = "unused" /\ conn' = [conn EXCEPT ![c] = "finished"]
    BY <1>3 DEF ConnectNoMemory
  <2>2. UNCHANGED <<mem, alloc, blob, given, held>>
    BY <1>3 DEF ConnectNoMemory, heap
  <2> QED BY <2>1, <2>2, ConnExact
<1>4. CASE \E h \in Handles : Forget(t, h)
  <2>1. PICK h \in Handles : held' = [held EXCEPT ![t] = held[t] \ {h}]
    BY <1>4 DEF Forget
  <2>2. UNCHANGED <<conn, mem, alloc, blob, given>>
    BY <1>4 DEF Forget, heap
  <2>3. \A u \in Threads : held'[u] \subseteq held[u]
    BY <2>1 DEF Inv, ThreadsInv, HeldInv
  <2> QED BY <2>2, <2>3, HeapStaysExact DEF Onward
<1>5. CASE \E h \in Handles, u \in Threads : Pass(t, u, h)
  <2>1. PICK h \in Handles, u \in Threads :
          /\ t # u /\ h \in held[t] /\ held' = [held EXCEPT ![u] = held[u] \cup {h}, ![t] = held[t] \ {h}]
    BY <1>5 DEF Pass
  <2>2. UNCHANGED <<conn, mem, alloc, blob, given>>
    BY <1>5 DEF Pass, heap
  <2>3. held \in [Threads -> SUBSET Handles]
    BY DEF Inv, ThreadsInv, HeldInv
  <2>4. \A v \in Threads : held'[v] \subseteq held[v] \cup {h}
    BY <2>1, <2>3
  <2>5. \A v \in Threads : \A g \in held'[v] : \E w \in Threads : g \in held[w]
    BY <2>1, <2>4
  <2> QED BY <2>2, <2>5, HeapStaysExact DEF Onward
<1>6. CASE Finish(t)
  <2> PICK h : h = call[t].handle
    OBVIOUS
  <2>1. call[t].pc = "disconnect" /\ UNCHANGED <<mem, alloc, blob, given, held>>
    BY <1>6 DEF Finish, heap
  <2>2. Dbx(h) \in Conns /\ Dbx(h) # "null"
    BY <2>1, InCall DEF Inv
  <2>3. conn[Dbx(h)] \in Open2
    BY <2>1 DEF Inv, ThreadsInv, CallInv, CallOf
  <2>4. conn' = [conn EXCEPT ![Dbx(h)] = "finished"]
    BY <1>6, <2>2, <2>3 DEF Finish, Finished, Open2
  <2> QED BY <2>1, <2>2, <2>4, ConnExact
<1>7. CASE Disconnected(t)
  BY <1>7, DisconnectedExact
<1>8. CASE UNCHANGED <<conn, mem, alloc, blob, given, held>>
  BY <1>8, HeapStaysExact DEF Onward
<1> QED BY <1>1, <1>2, <1>3, <1>4, <1>5, <1>6, <1>7, <1>8 DEF Thread, ConnectFails, Query, QueryRefused,
        Disconnect, DisconnectAgain, QueryInvalid, Exec, NotConnected, ExecFails, ExecDone, NoRows, FirstRow,
        NextRow, NextRowFails, Prune, heap

LEMMA StepExact ==
  ASSUME ~Shared, Inv, GivenExact, [Next]_vars
  PROVE  GivenExact'
<1>1. CASE \E t \in Threads : Thread(t)
  BY <1>1, ThreadExact
<1>2. CASE \E h \in Handles : Release(h)
  BY <1>2, ReleaseExact
<1>3. CASE \E c \in Conns : GoesBad(c)
  <2>1. PICK c \in Conns : conn[c] = "open" /\ conn' = [conn EXCEPT ![c] = "bad"]
    BY <1>3 DEF GoesBad
  <2>2. UNCHANGED <<mem, alloc, blob, given, held>>
    BY <1>3 DEF GoesBad, heap
  <2> QED BY <2>1, <2>2, ConnExact
<1>4. CASE UNCHANGED vars
  BY <1>4, HeapStaysExact DEF Onward, vars, heap
<1> QED BY <1>1, <1>2, <1>3, <1>4 DEF Next

-----------------------------------------------------------------------------
(***************************************************************************)
(* What a program sees of a connection.                                    *)
(***************************************************************************)
LEMMA StateDef ==
  ASSUME NEW c \in Conns
  PROVE  StateOf[c] = IF conn[c] = "unused" THEN "unused"
                      ELSE IF ~Known(c) THEN "closed"
                      ELSE IF conn[c] \in {"open", "bad"} \/ BeingClosed(c) THEN "open"
                      ELSE IF conn[c] = "collected" THEN "collected"
                      ELSE "closed"
BY DEF StateOf

\* What is seen of a handle: its connection is open as long as the structure holds it.
LEMMA Seen ==
  ASSUME Inv, GivenExact, NEW t \in Threads, NEW h \in held[t]
  PROVE  /\ h \in Handles /\ Live(h) /\ given[h] \in Conns
         /\ Dbx(h) # "null" => Dbx(h) = given[h] /\ StateOf[given[h]] = "open"
         /\ Dbx(h) = "null" => StateOf[given[h]] = "closed"
<1>1. h \in Handles /\ Live(h)
  BY DEF Inv, ThreadsInv, HeldInv
<1>2. given[h] # "none" /\ given[h] \in Conns
  BY <1>1 DEF GivenExact, Inv, GivenInv
<1>3. Known(given[h]) /\ conn[given[h]] # "unused"
  BY <1>1, <1>2 DEF GivenExact, Known
<1>4. CASE Dbx(h) # "null"
  <2>1. Dbx(h) = given[h]
    BY <1>1, <1>2, <1>4 DEF GivenExact
  <2>2. conn[given[h]] \in Open2 \/ Closing(h)
    BY <1>1, <1>4, <2>1 DEF Inv, ThreadsInv, DanglingInv
  <2>3. Closing(h) => BeingClosed(given[h])
    BY ClosingFacts DEF Closing, BeingClosed, Closes
  <2>4. StateOf[given[h]] = "open"
    BY <1>2, <1>3, <2>2, <2>3, StateDef DEF Open2
  <2> QED BY <1>1, <1>2, <1>4, <2>1, <2>4
<1>5. CASE Dbx(h) = "null"
  <2>1. conn[given[h]] = "finished"
    BY <1>1, <1>2, <1>5 DEF GivenExact
  <2>2. ~BeingClosed(given[h])
    <3> SUFFICES ASSUME NEW u \in Threads, call[u].conn = given[h], call[u].pc \in Closes PROVE FALSE
      BY DEF BeingClosed, Closes
    <3> PICK g : g = call[u].handle
      OBVIOUS
    <3>1. g \in Handles /\ given[g] = given[h] /\ Dbx(g) = given[g]
      BY ClosingFacts
    <3>2. g = h
      BY <1>1, <1>2, <3>1 DEF GivenExact
    <3> QED BY <1>2, <1>5, <3>1, <3>2
  <2>3. StateOf[given[h]] = "closed"
    BY <1>2, <1>3, <2>1, <2>2, StateDef
  <2> QED BY <1>1, <1>2, <1>5, <2>3
<1> QED BY <1>4, <1>5

\* A program sees no change of a connection.
LEMMA StateStays ==
  ASSUME UNCHANGED given, NEW c \in Conns,
         conn'[c] = conn[c] \/ {conn[c], conn'[c]} \subseteq Open2,
         BeingClosed(c)' <=> BeingClosed(c)
  PROVE  StateOf'[c] = StateOf[c]
<1>1. Known(c)' <=> Known(c)
  BY DEF Known
<1> QED BY <1>1 DEF StateOf, Open2

\* Steps that change no connection, and end no disconnect.
LEMMA StatesStay ==
  ASSUME Inv, UNCHANGED <<conn, given>>, NEW t \in Threads,
         call[t].pc \notin Closes, call'[t].pc \notin Closes,
         \A u \in Threads \ {t} : call'[u] = call[u]
  PROVE  StateOf' = StateOf
<1>1. \A c \in Conns : BeingClosed(c)' <=> BeingClosed(c)
  BY DEF BeingClosed, Closes
<1>2. \A c \in Conns : StateOf'[c] = StateOf[c]
  BY <1>1, StateStays
<1> QED BY <1>2 DEF StateOf

LEMMA SameStates ==
  ASSUME UNCHANGED <<conn, given, call>>
  PROVE  StateOf' = StateOf
BY DEF StateOf, Known, BeingClosed

\* What is seen of one connection changes.
LEMMA StateMoves ==
  ASSUME NEW c \in Conns, NEW s, StateOf'[c] = s, \A d \in Conns \ {c} : StateOf'[d] = StateOf[d]
  PROVE  StateOf' = [StateOf EXCEPT ![c] = s]
<1>1. \A d \in Conns : StateOf'[d] = [StateOf EXCEPT ![c] = s][d]
  BY DEF StateOf
<1> QED BY <1>1 DEF StateOf

-----------------------------------------------------------------------------
(***************************************************************************)
(* What a program sees of its choice points.                               *)
(***************************************************************************)
Row(k) == [rows |-> k.rows, at |-> k.at]
RowsOf(q) == [i \in 1..Len(q) |-> Row(q[i])]

LEMMA CursorsDef == CursorsOf = [t \in Threads |-> RowsOf(cursors[t])]
BY DEF CursorsOf, RowsOf, Row

LEMMA RowsOfType ==
  ASSUME NEW q \in Seq(Cursors)
  PROVE  /\ RowsOf(q) \in Seq([rows : Nat, at : Nat]) /\ Len(RowsOf(q)) = Len(q)
         /\ \A i \in 1..Len(q) : RowsOf(q)[i] = Row(q[i])
<1>1. \A i \in 1..Len(q) : Row(q[i]) \in [rows : Nat, at : Nat]
  <2> TAKE i \in 1..Len(q)
  <2>1. q[i] \in Cursors
    OBVIOUS
  <2> QED BY <2>1 DEF Cursors, Row, PgAssumption
<1> QED BY <1>1 DEF RowsOf

LEMMA AppendSeen ==
  ASSUME NEW q \in Seq(Cursors), NEW k \in Cursors
  PROVE  RowsOf(Append(q, k)) = Append(RowsOf(q), Row(k))
<1> DEFINE Rows == [rows : Nat, at : Nat]
<1> PICK p : p = Append(q, k)
  OBVIOUS
<1>1. /\ p \in Seq(Cursors) /\ Len(p) = Len(q) + 1
      /\ \A i \in 1..Len(p) : p[i] = IF i <= Len(q) THEN q[i] ELSE k
  OBVIOUS
<1> PICK w : w = RowsOf(q)
  OBVIOUS
<1> PICK x : x = Row(k)
  OBVIOUS
<1> PICK v : v = RowsOf(p)
  OBVIOUS
<1>2. w \in Seq(Rows) /\ Len(w) = Len(q) /\ \A i \in 1..Len(q) : w[i] = Row(q[i])
  BY RowsOfType
<1>3. v \in Seq(Rows) /\ Len(v) = Len(p) /\ \A i \in 1..Len(p) : v[i] = Row(p[i])
  BY <1>1, RowsOfType
<1>4. x \in Rows
  BY DEF Row, Cursors, PgAssumption
<1> HIDE DEF Rows
<1> PICK f : f = Append(w, x)
  OBVIOUS
<1>5. /\ f \in Seq(Rows) /\ Len(f) = Len(w) + 1
      /\ \A i \in 1..(Len(w) + 1) : f[i] = IF i <= Len(w) THEN w[i] ELSE x
  BY <1>2, <1>4
<1>6. Len(v) = Len(f) /\ \A i \in 1..Len(v) : v[i] = f[i]
  BY <1>1, <1>2, <1>3, <1>5
<1>7. v = f
  BY <1>3, <1>5, <1>6, SeqEqual
<1> QED BY <1>7

LEMMA BelowSeen ==
  ASSUME NEW q \in Seq(Cursors), q # <<>>
  PROVE  RowsOf(SubSeq(q, 1, Len(q) - 1)) = SubSeq(RowsOf(q), 1, Len(q) - 1)
<1> DEFINE Rows == [rows : Nat, at : Nat]
<1> PICK p : p = SubSeq(q, 1, Len(q) - 1)
  OBVIOUS
<1>1. /\ Len(q) \in Nat \ {0} /\ p \in Seq(Cursors) /\ Len(p) = Len(q) - 1
      /\ \A i \in 1..Len(p) : p[i] = q[i] /\ i \in 1..Len(q)
  <2>1. Len(q) \in Nat \ {0}
    OBVIOUS
  <2>2. /\ p \in Seq(Cursors) /\ Len(p) = Len(q) - 1
        /\ \A i \in 1..(Len(q) - 1) : p[i] = q[i]
    <3> PICK m : m = Len(q) - 1
      OBVIOUS
    <3>1. m \in Int /\ 1 \in Int /\ m - 1 + 1 = m /\ (1 > m => m = 0) /\ \A i \in 1..m : q[i] \in Cursors
      BY <2>1
    <3>2. /\ SubSeq(q, 1, m) \in Seq(Cursors) /\ Len(SubSeq(q, 1, m)) = IF 1 <= m THEN m - 1 + 1 ELSE 0
          /\ \A i \in 1..(m - 1 + 1) : SubSeq(q, 1, m)[i] = q[1 + i - 1]
      BY <3>1, SubSeqProperties
    <3>3. Len(p) = m /\ p \in Seq(Cursors) /\ \A i \in 1..m : p[i] = q[1 + i - 1]
      BY <3>1, <3>2
    <3>4. \A i \in 1..m : 1 + i - 1 = i
      BY <3>1
    <3> QED BY <3>3, <3>4
  <2> QED BY <2>1, <2>2
<1> PICK w : w = RowsOf(q)
  OBVIOUS
<1> PICK v : v = RowsOf(p)
  OBVIOUS
<1>2. w \in Seq(Rows) /\ Len(w) = Len(q) /\ \A i \in 1..Len(q) : w[i] = Row(q[i])
  BY RowsOfType
<1>3. v \in Seq(Rows) /\ Len(v) = Len(p) /\ \A i \in 1..Len(p) : v[i] = Row(p[i])
  BY <1>1, RowsOfType
<1> HIDE DEF Rows
<1> PICK f : f = SubSeq(w, 1, Len(w) - 1)
  OBVIOUS
<1>4. /\ f \in Seq(Rows) /\ Len(f) = Len(w) - 1
      /\ \A i \in 1..(Len(w) - 1) : f[i] = w[i]
  BY <1>1, <1>2
<1>5. Len(v) = Len(f) /\ \A i \in 1..Len(v) : v[i] = f[i]
  BY <1>1, <1>2, <1>3, <1>4
<1>6. v = f
  BY <1>3, <1>4, <1>5, SeqEqual
<1> QED BY <1>2, <1>6

\* The choice points of a thread change.
LEMMA RowsMove ==
  ASSUME ResInv, NEW t \in Threads, NEW q, cursors' = [cursors EXCEPT ![t] = q]
  PROVE  CursorsOf' = [CursorsOf EXCEPT ![t] = RowsOf(q)]
<1>1. cursors'[t] = q /\ \A u \in Threads \ {t} : cursors'[u] = cursors[u]
  BY DEF ResInv
<1>2. CursorsOf' = [u \in Threads |-> RowsOf(cursors'[u])]
  BY DEF CursorsOf, RowsOf, Row
<1>3. \A u \in Threads : RowsOf(cursors'[u]) = IF u = t THEN RowsOf(q) ELSE CursorsOf[u]
  <2>1. \A u \in Threads : CursorsOf[u] = RowsOf(cursors[u])
    BY CursorsDef
  <2> QED BY <1>1, <2>1
<1> HIDE DEF CursorsOf
<1> QED BY <1>2, <1>3, CursorsDef

\* The latest query, and those below it, as a program sees them.
LEMMA TopSeen ==
  ASSUME ResInv, NEW t \in Threads, cursors[t] # <<>>
  PROVE  /\ CursorsOf[t] # <<>> /\ CursorsOf[t] = RowsOf(cursors[t])
         /\ CursorsOf[t][Len(CursorsOf[t])] = Row(Top(t))
         /\ RowsOf(Below(t)) = SubSeq(CursorsOf[t], 1, Len(CursorsOf[t]) - 1)
<1> PICK q : q = cursors[t]
  OBVIOUS
<1>1. q \in Seq(Cursors) /\ q # <<>> /\ Len(q) \in 1..Len(q)
  BY TopFacts DEF ResInv
<1> PICK w : w = RowsOf(q)
  OBVIOUS
<1>2. Len(w) = Len(q) /\ (\A i \in 1..Len(q) : w[i] = Row(q[i])) /\ CursorsOf[t] = w
  BY <1>1, RowsOfType, CursorsDef
<1>3. w[Len(w)] = Row(q[Len(q)]) /\ w # <<>>
  BY <1>1, <1>2
<1>4. RowsOf(SubSeq(q, 1, Len(q) - 1)) = SubSeq(w, 1, Len(w) - 1)
  BY <1>1, <1>2, BelowSeen
<1> QED BY <1>2, <1>3, <1>4 DEF Top, Below

LEMMA PushSeen ==
  ASSUME ResInv, NEW t \in Threads, NEW r \in Results, NEW n \in 1..MaxRows, n # 1,
         cursors' = [cursors EXCEPT ![t] = Append(cursors[t], [result |-> r, rows |-> n, at |-> 1])]
  PROVE  CursorsOf' = [CursorsOf EXCEPT ![t] = Append(CursorsOf[t], [rows |-> n, at |-> 1])]
<1> PICK k : k = [result |-> r, rows |-> n, at |-> 1]
  OBVIOUS
<1>1. k \in Cursors /\ Row(k) = [rows |-> n, at |-> 1]
  BY DEF Cursors, Row
<1>2. cursors[t] \in Seq(Cursors)
  BY DEF ResInv
<1>3. RowsOf(Append(cursors[t], k)) = Append(RowsOf(cursors[t]), Row(k))
  BY <1>1, <1>2, AppendSeen
<1>4. CursorsOf[t] = RowsOf(cursors[t])
  BY CursorsDef
<1> QED BY <1>1, <1>3, <1>4, RowsMove

\* What an answer changes: nothing else that a program sees.
LEMMA Answered ==
  ASSUME NEW t \in Threads, NEW what, Tell(t, what), UNCHANGED given, StateOf' = StateOf
  PROVE  UNCHANGED <<given, StateOf>> /\ Contract!Tell(t, what)
BY DEF Tell, Contract!Tell

LEMMA ConnectSeen ==
  ASSUME Inv, GivenExact, NEW t \in Threads, Connect(t)
  PROVE  Contract!Next
<1>1. PICK c \in Conns, h \in Handles :
        /\ conn[c] = "unused" /\ blob[h] = "unused" /\ conn' = [conn EXCEPT ![c] = "open"]
        /\ given' = [given EXCEPT ![h] = c] /\ Tell(t, <<"connected", h>>)
  BY DEF Connect
<1>2. UNCHANGED <<call, cursors>>
  BY DEF Connect
<1>3. given[h] = "none" /\ given'[h] = c /\ \A g \in Handles \ {h} : given'[g] = given[g]
  BY <1>1 DEF GivenExact, Inv, GivenInv
<1>4. conn'[c] = "open" /\ \A d \in Conns \ {c} : conn'[d] = conn[d]
  BY <1>1 DEF Inv, HeapInv, HeapTypes
<1>5. /\ Known(c)' /\ \A d \in Conns \ {c} : d # "none" /\ (Known(d)' <=> Known(d))
  BY <1>3 DEF Known
<1>6. \A d \in Conns : BeingClosed(d)' <=> BeingClosed(d)
  BY <1>2 DEF BeingClosed
<1>7. StateOf[c] = "unused" /\ StateOf'[c] = "open"
  BY <1>1, <1>4, <1>5 DEF StateOf
<1>8. \A d \in Conns \ {c} : StateOf'[d] = StateOf[d]
  BY <1>4, <1>5, <1>6 DEF StateOf
<1>9. StateOf' = [StateOf EXCEPT ![c] = "open"]
  BY <1>7, <1>8, StateMoves
<1>10. UNCHANGED CursorsOf
  BY <1>2 DEF CursorsOf
<1>11. Contract!Connect(t, h, c)
  BY <1>1, <1>3, <1>7, <1>9, <1>10 DEF Contract!Connect, Contract!Tell, Tell
<1> QED BY <1>11 DEF Contract!Next

\* Also the connection of a handle that was lost is one nobody sees.
LEMMA ConnectFailsSeen ==
  ASSUME Inv, GivenExact, NEW t \in Threads, ConnectNoMemory(t) \/ ConnectLost(t)
  PROVE  Contract!Next
<1>1. PICK c \in Conns : conn[c] = "unused" /\ \E to \in {"open", "finished"} : conn' = [conn EXCEPT ![c] = to]
  BY DEF ConnectNoMemory, ConnectLost
<1>2. UNCHANGED <<given, call, cursors>> /\ Tell(t, <<"error">>)
  BY DEF ConnectNoMemory, ConnectLost
<1>3. ~Known(c) /\ ~Known(c)'
  BY <1>1, <1>2, NotGiven DEF Known
<1>4. conn'[c] # "unused" /\ \A d \in Conns \ {c} : conn'[d] = conn[d]
  BY <1>1 DEF Inv, HeapInv, HeapTypes
<1>5. StateOf[c] = "unused" /\ StateOf'[c] = "closed"
  BY <1>1, <1>3, <1>4 DEF StateOf
<1>6. \A d \in Conns \ {c} : StateOf'[d] = StateOf[d]
  <2>1. \A d \in Conns : BeingClosed(d)' <=> BeingClosed(d)
    BY <1>2 DEF BeingClosed
  <2> QED BY <1>2, <1>4, <2>1, StateStays
<1>7. StateOf' = [StateOf EXCEPT ![c] = "closed"]
  BY <1>5, <1>6, StateMoves
<1>8. Contract!ConnectFails(t)
  BY <1>2, <1>5, <1>7 DEF Contract!ConnectFails, Contract!Tell, Tell, CursorsOf
<1> QED BY <1>8 DEF Contract!Next

LEMMA FailedSeen ==
  ASSUME NEW t \in Threads, Tell(t, <<"error">>) \/ Tell(t, <<"false">>),
         UNCHANGED <<given, cursors>>, StateOf' = StateOf
  PROVE  Contract!Next
<1>1. Contract!Failed(t)
  BY DEF Contract!Failed, Contract!Tell, Tell, CursorsOf
<1> QED BY <1>1 DEF Contract!Next

\* A handle that was disconnected is refused; disconnecting it again fails.
LEMMA RefusedSeen ==
  ASSUME Inv, GivenExact, NEW t \in Threads, NEW h \in Handles, QueryRefused(t, h) \/ DisconnectAgain(t, h)
  PROVE  Contract!Next
<1>1. h \in held[t] /\ Dbx(h) = "null" /\ UNCHANGED <<conn, given, call, cursors>>
  BY DEF QueryRefused, DisconnectAgain
<1>2. given[h] \in Conns /\ StateOf[given[h]] = "closed"
  BY <1>1, Seen
<1>3. StateOf' = StateOf /\ CursorsOf' = CursorsOf
  BY <1>1, SameStates DEF CursorsOf
<1>4. CASE QueryRefused(t, h)
  <2>1. Contract!Refused(t, h)
    BY <1>1, <1>2, <1>3, <1>4 DEF QueryRefused, Contract!Refused, Contract!Tell, Tell
  <2> QED BY <2>1 DEF Contract!Next
<1>5. CASE DisconnectAgain(t, h)
  <2>1. Contract!Disconnect(t, h)
    BY <1>1, <1>2, <1>3, <1>5 DEF DisconnectAgain, Contract!Disconnect, Contract!Tell, Tell
  <2> QED BY <2>1 DEF Contract!Next
<1> QED BY <1>4, <1>5

\* A query that is under way is on an open connection, that of its handle.
LEMMA QuerySeen ==
  ASSUME Inv, GivenExact, NEW t \in Threads, ExecDone(t) \/ FirstRow(t)
  PROVE  Contract!Next
<1> PICK h : h = call[t].handle
  OBVIOUS
<1>1. /\ call[t].pc = "exec" /\ UNCHANGED <<conn, given>>
      /\ call' = [call EXCEPT ![t] = Idle]
  BY DEF ExecDone, FirstRow, Return
<1>2. h \in held[t] /\ h \in Handles /\ Dbx(h) # "null" /\ call[t].conn = Dbx(h)
  BY <1>1, InCall DEF Inv, ThreadsInv, CallInv, CallOf
<1>3. given[h] \in Conns /\ Dbx(h) = given[h] /\ StateOf[given[h]] = "open"
  BY <1>2, Seen
<1>4. StateOf' = StateOf
  <2>1. call'[t] = Idle /\ \A u \in Threads \ {t} : call'[u] = call[u]
    BY <1>1 DEF Inv, ThreadsInv, CallInv
  <2> QED BY <1>1, <2>1, StatesStay DEF Closes, Idle
<1>5. CASE ExecDone(t)
  <2>1. Tell(t, <<"done", given[h]>>) /\ UNCHANGED CursorsOf
    BY <1>2, <1>3, <1>5 DEF ExecDone, Return, CursorsOf
  <2>2. Contract!Served(t, h)
    BY <1>1, <1>3, <1>4, <2>1 DEF Contract!Served, Contract!Tell, Tell
  <2> QED BY <1>2, <2>2 DEF Contract!Next
<1>6. CASE FirstRow(t)
  <2>1. PICK n \in 1..MaxRows : \E r \in Results :
          /\ Tell(t, <<"row", 1, n>>)
          /\ IF IsLast(1, n) THEN UNCHANGED cursors
             ELSE cursors' = [cursors EXCEPT ![t] = Append(cursors[t], [result |-> r, rows |-> n, at |-> 1])]
    BY <1>6 DEF FirstRow, Return
  <2>2. PICK r \in Results :
          IF n = 1 THEN UNCHANGED cursors
          ELSE cursors' = [cursors EXCEPT ![t] = Append(cursors[t], [result |-> r, rows |-> n, at |-> 1])]
    BY <2>1 DEF IsLast
  <2>3. CursorsOf' = [CursorsOf EXCEPT ![t] =
                        IF n = 1 THEN CursorsOf[t] ELSE Append(CursorsOf[t], [rows |-> n, at |-> 1])]
    <3>1. CASE n = 1
      BY <2>2, <3>1 DEF CursorsOf
    <3>2. CASE n # 1
      BY <2>2, <3>2, PushSeen DEF Inv
    <3> QED BY <3>1, <3>2
  <2>4. Contract!FirstRow(t, h)
    BY <1>1, <1>3, <1>4, <2>1, <2>3 DEF Contract!FirstRow, Contract!Tell, Tell
  <2> QED BY <1>2, <2>4 DEF Contract!Next
<1> QED BY <1>5, <1>6

\* The next row of the latest query.
LEMMA RowSeen ==
  ASSUME NEW t \in Threads, NEW top, NEW rest, UNCHANGED given, StateOf' = StateOf,
         CursorsOf[t] # <<>>, CursorsOf[t][Len(CursorsOf[t])] = Row(top),
         rest = SubSeq(CursorsOf[t], 1, Len(CursorsOf[t]) - 1),
         Tell(t, <<"row", top.at + 1, top.rows>>),
         CursorsOf' = [CursorsOf EXCEPT ![t] = IF top.at + 1 = top.rows THEN rest
                                               ELSE Append(rest, [Row(top) EXCEPT !.at = top.at + 1])]
  PROVE  Contract!Next
<1>1. Row(top).at = top.at /\ Row(top).rows = top.rows
  BY DEF Row
<1>2. Contract!NextRow(t)
  BY <1>1 DEF Contract!NextRow, Contract!Tell, Tell
<1> QED BY <1>2 DEF Contract!Next

\* Backtracking, a cut or an error, with the connection open or not.
LEMMA RowsSeen ==
  ASSUME Inv, NEW t \in Threads, NextRow(t) \/ Prune(t) \/ NextRowFails(t)
  PROVE  Contract!Next
<1>1. cursors[t] # <<>> /\ UNCHANGED <<conn, given, call>> /\ ResInv
  BY DEF NextRow, Prune, NextRowFails, Inv
<1>2. StateOf' = StateOf
  BY <1>1, SameStates
<1>3. /\ CursorsOf[t] # <<>> /\ CursorsOf[t][Len(CursorsOf[t])] = Row(Top(t))
      /\ RowsOf(Below(t)) = SubSeq(CursorsOf[t], 1, Len(CursorsOf[t]) - 1)
  BY <1>1, TopSeen
<1>4. CASE NextRow(t)
  <2> PICK top : top = Top(t)
    OBVIOUS
  <2> PICK rest : rest = SubSeq(CursorsOf[t], 1, Len(CursorsOf[t]) - 1)
    OBVIOUS
  <2>1. top \in Cursors /\ top.rows \in Nat /\ top.at \in Nat /\ top.at + 1 <= top.rows
    <3>1. top \in Cursors
      BY <1>1, TopFacts
    <3> QED BY <3>1 DEF Cursors, PgAssumption
  <2>2. CASE top.at + 1 = top.rows
    <3>1. cursors' = [cursors EXCEPT ![t] = Below(t)]
      BY <1>4, <2>1, <2>2 DEF NextRow, IsLast
    <3>2. CursorsOf' = [CursorsOf EXCEPT ![t] = rest]
      BY <1>1, <1>3, <3>1, RowsMove
    <3> QED BY <1>1, <1>2, <1>3, <1>4, <2>2, <3>2, RowSeen DEF NextRow
  <2>3. CASE top.at + 1 # top.rows
    <3> PICK k : k = [top EXCEPT !.at = top.at + 1]
      OBVIOUS
    <3>1. cursors' = [cursors EXCEPT ![t] = Append(Below(t), k)]
      BY <1>4, <2>1, <2>3 DEF NextRow, IsLast
    <3>2. k \in Cursors /\ Row(k) = [Row(top) EXCEPT !.at = top.at + 1]
      BY <2>1, <2>3 DEF Cursors, Row, PgAssumption
    <3>3. Below(t) \in Seq(Cursors)
      BY <1>1, TopFacts
    <3>4. RowsOf(Append(Below(t), k)) = Append(rest, Row(k))
      BY <1>3, <3>2, <3>3, AppendSeen
    <3>5. CursorsOf' = [CursorsOf EXCEPT ![t] = Append(rest, [Row(top) EXCEPT !.at = top.at + 1])]
      <4>1. CursorsOf' = [CursorsOf EXCEPT ![t] = RowsOf(Append(Below(t), k))]
        BY <1>1, <3>1, RowsMove
      <4> QED BY <3>2, <3>4, <4>1
    <3> QED BY <1>1, <1>2, <1>3, <1>4, <2>3, <3>5, RowSeen DEF NextRow
  <2> QED BY <2>2, <2>3
<1>5. CASE Prune(t) \/ NextRowFails(t)
  <2>1. cursors' = [cursors EXCEPT ![t] = Below(t)] /\ (Tell(t, <<"cut">>) \/ Tell(t, <<"error">>))
    BY <1>5 DEF Prune, NextRowFails
  <2>2. CursorsOf' = [CursorsOf EXCEPT ![t] = SubSeq(CursorsOf[t], 1, Len(CursorsOf[t]) - 1)]
    BY <1>1, <1>3, <2>1, RowsMove
  <2>3. Contract!Cut(t)
    BY <1>1, <1>2, <1>3, <2>1, <2>2 DEF Contract!Cut, Contract!Tell, Tell
  <2> QED BY <2>3 DEF Contract!Next
<1> QED BY <1>4, <1>5

\* The connection of a call that ends is closed for its program, once the call returns.
LEMMA DisconnectedSeen ==
  ASSUME Inv, GivenExact, NEW t \in Threads, Disconnected(t)
  PROVE  Contract!Next
<1> PICK h : h = call[t].handle
  OBVIOUS
<1> PICK c : c = given[h]
  OBVIOUS
<1>1. /\ call[t].pc \in Closes /\ UNCHANGED <<conn, given, cursors>> /\ call' = [call EXCEPT ![t] = Idle]
      /\ Tell(t, <<"disconnected", h>>) \/ Tell(t, <<"error">>)
  BY DEF Disconnected, Closes, Return
<1>2. /\ h \in Handles /\ h \in held[t] /\ c \in Conns /\ c # "none" /\ c # "null"
      /\ Dbx(h) = c /\ call[t].conn = c /\ conn[c] = "finished"
  BY <1>1, ClosingFacts
<1>3. call'[t] = Idle /\ \A u \in Threads \ {t} : call'[u] = call[u]
  BY <1>1 DEF Inv, ThreadsInv, CallInv
<1>4. StateOf[c] = "open"
  BY <1>2, Seen
<1>5. ~BeingClosed(c)'
  <2> SUFFICES ASSUME NEW u \in Threads, call'[u].conn = c, call'[u].pc \in Closes PROVE FALSE
    BY DEF BeingClosed, Closes
  <2>1. u # t /\ call[u].conn = c /\ call[u].pc \in Closes
    BY <1>3 DEF Idle, Closes
  <2> PICK g : g = call[u].handle
    OBVIOUS
  <2>2. g \in Handles /\ given[g] = c /\ g \in held[u]
    BY <2>1, ClosingFacts
  <2>3. g = h
    BY <1>2, <2>2 DEF GivenExact
  <2> QED BY <1>2, <2>1, <2>2, <2>3 DEF Inv, ThreadsInv, HeldInv
<1>6. StateOf'[c] = "closed"
  BY <1>1, <1>2, <1>5 DEF StateOf, Known
<1>7. \A d \in Conns \ {c} : StateOf'[d] = StateOf[d]
  <2>1. \A d \in Conns \ {c} : d # "none" /\ (BeingClosed(d)' <=> BeingClosed(d))
    BY <1>2, <1>3 DEF BeingClosed, Idle
  <2> QED BY <1>1, <2>1, StateStays
<1>8. StateOf' = [StateOf EXCEPT ![c] = "closed"]
  BY <1>2, <1>6, <1>7, StateMoves
<1>9. UNCHANGED CursorsOf
  BY <1>1 DEF CursorsOf
<1>10. Contract!Disconnect(t, h)
  BY <1>1, <1>2, <1>4, <1>8, <1>9 DEF Contract!Disconnect, Contract!Tell, Tell
<1> QED BY <1>2, <1>10 DEF Contract!Next

\* PQfinish has run, but the program does not know yet.
LEMMA FinishSeen ==
  ASSUME Inv, GivenExact, NEW t \in Threads, Finish(t)
  PROVE  UNCHANGED Contract!vars
<1> PICK h : h = call[t].handle
  OBVIOUS
<1> PICK c : c = given[h]
  OBVIOUS
<1>1. call[t].pc = "disconnect" /\ UNCHANGED <<given, cursors, reply>>
  BY DEF Finish
<1>2. h \in Handles /\ h \in held[t] /\ Dbx(h) # "null"
  BY <1>1, InCall DEF Inv
<1>3. c \in Conns /\ c # "none" /\ c # "null" /\ Dbx(h) = c /\ StateOf[c] = "open"
  BY <1>2, Seen
<1>4. conn[c] \in Open2 /\ call[t] \in Calls
  BY <1>1, <1>3 DEF Inv, ThreadsInv, CallInv, CallOf
<1>5. conn' = [conn EXCEPT ![c] = "finished"]
  BY <1>3, <1>4 DEF Finish, Finished, Open2
<1>6. PICK end \in Closes : call' = [call EXCEPT ![t].conn = c, ![t].pc = end]
  BY <1>3 DEF Finish, Closes
<1>7. /\ \A u \in Threads \ {t} : call'[u] = call[u]
      /\ call'[t].conn = c /\ call'[t].pc = end
  <2>1. call \in [Threads -> Calls]
    BY DEF Inv, ThreadsInv, CallInv
  <2>2. call'[t] = [call[t] EXCEPT !.conn = c, !.pc = end] /\ \A u \in Threads \ {t} : call'[u] = call[u]
    BY <1>6, <2>1
  <2> QED BY <1>4, <2>2 DEF Calls
<1>8. conn'[c] = "finished" /\ \A d \in Conns \ {c} : conn'[d] = conn[d]
  BY <1>3, <1>5 DEF Inv, HeapInv, HeapTypes
<1>9. Known(c)' /\ BeingClosed(c)'
  BY <1>1, <1>2, <1>7 DEF Known, BeingClosed, Closes
<1>10. StateOf'[c] = "open"
  BY <1>3, <1>8, <1>9 DEF StateOf
<1>11. \A d \in Conns \ {c} : StateOf'[d] = StateOf[d]
  <2>1. \A d \in Conns \ {c} : BeingClosed(d)' <=> BeingClosed(d)
    BY <1>1, <1>7 DEF BeingClosed, Closes
  <2> QED BY <1>1, <1>8, <2>1, StateStays
<1>12. StateOf' = StateOf
  BY <1>3, <1>10, <1>11 DEF StateOf
<1> QED BY <1>1, <1>12 DEF Contract!vars, CursorsOf

\* The collector closes the connection of a handle; that of a handle which was lost
\* no program has seen.
LEMMA ReleaseSeen ==
  ASSUME Inv, GivenExact, NEW h \in Handles, Release(h)
  PROVE  [Contract!Next]_(Contract!vars)
<1> PICK c : c = Dbx(h)
  OBVIOUS
<1>1. /\ Live(h) /\ UNCHANGED <<held, call, res, cursors, given, reply>>
      /\ \A t \in Threads : h \notin held[t] /\ call[t].handle # h
      /\ c = "null" => conn' = conn
      /\ c # "null" => c \in Conns /\ conn[c] \in Open2 /\ conn' = [conn EXCEPT ![c] = "collected"]
  BY ReleaseFacts
<1>2. UNCHANGED CursorsOf
  BY <1>1 DEF CursorsOf
<1>3. \A d \in Conns : (Known(d)' <=> Known(d)) /\ (BeingClosed(d)' <=> BeingClosed(d))
  BY <1>1 DEF Known, BeingClosed
<1>4. CASE c = "null"
  BY <1>1, <1>2, <1>4, SameStates DEF Contract!vars
<1>5. CASE c # "null"
  <2>1. c \in Conns /\ conn[c] \in Open2 /\ conn'[c] = "collected" /\ \A d \in Conns \ {c} : conn'[d] = conn[d]
    BY <1>1, <1>5 DEF Inv, HeapInv, HeapTypes
  <2>2. \A d \in Conns \ {c} : StateOf'[d] = StateOf[d]
    BY <1>1, <1>3, <2>1, StateStays
  <2>3. ~BeingClosed(c)
    <3> SUFFICES ASSUME NEW u \in Threads, call[u].conn = c, call[u].pc \in Closes PROVE FALSE
      BY DEF BeingClosed, Closes
    <3>1. conn[c] = "finished"
      BY ClosingFacts
    <3> QED BY <2>1, <3>1 DEF Open2
  <2>4. CASE Known(c)
    <3>1. StateOf[c] = "open" /\ StateOf'[c] = "collected"
      BY <1>3, <2>1, <2>3, <2>4 DEF StateOf, Open2
    <3>2. StateOf' = [StateOf EXCEPT ![c] = "collected"]
      BY <2>1, <2>2, <3>1, StateMoves
    <3>3. Contract!Collect(c)
      BY <1>1, <1>2, <3>1, <3>2 DEF Contract!Collect
    <3> QED BY <2>1, <3>3 DEF Contract!Next
  <2>5. CASE ~Known(c)
    <3>1. StateOf[c] = "closed" /\ StateOf'[c] = "closed"
      BY <1>3, <2>1, <2>5 DEF StateOf, Open2
    <3>2. StateOf' = StateOf
      BY <2>1, <2>2, <3>1 DEF StateOf
    <3> QED BY <1>1, <1>2, <3>2 DEF Contract!vars
  <2> QED BY <2>4, <2>5
<1> QED BY <1>4, <1>5

LEMMA GoesBadSeen ==
  ASSUME Inv, NEW c \in Conns, GoesBad(c)
  PROVE  UNCHANGED Contract!vars
<1>1. conn[c] = "open" /\ conn' = [conn EXCEPT ![c] = "bad"] /\ UNCHANGED <<call, cursors, given, reply>>
  BY DEF GoesBad
<1>2. \A d \in Conns : conn'[d] = conn[d] \/ {conn[d], conn'[d]} \subseteq Open2
  BY <1>1 DEF Inv, HeapInv, HeapTypes, Open2
<1>3. \A d \in Conns : BeingClosed(d)' <=> BeingClosed(d)
  BY <1>1 DEF BeingClosed
<1>4. \A d \in Conns : StateOf'[d] = StateOf[d]
  BY <1>1, <1>2, <1>3, StateStays
<1>5. StateOf' = StateOf
  BY <1>4 DEF StateOf
<1> QED BY <1>1, <1>5 DEF Contract!vars, CursorsOf

\* A call starts or goes on, and handles are passed on or forgotten.
LEMMA UnseenStep ==
  ASSUME Inv, NEW t \in Threads, NEW h \in Handles, NEW u \in Threads,
         Query(t, h) \/ Disconnect(t, h) \/ Exec(t) \/ Forget(t, h) \/ Pass(t, u, h)
  PROVE  UNCHANGED Contract!vars
<1>1. UNCHANGED <<conn, given, cursors, reply>>
  BY DEF Query, Disconnect, Exec, Forget, Pass
<1>2. StateOf' = StateOf
  <2>1. CASE Forget(t, h) \/ Pass(t, u, h)
    BY <2>1, SameStates DEF Forget, Pass
  <2>2. CASE Query(t, h) \/ Disconnect(t, h) \/ Exec(t)
    <3>1. call \in [Threads -> Calls] /\ call[t] \in Calls
      BY DEF Inv, ThreadsInv, CallInv
    <3>2. call[t].pc \notin Closes /\ \A v \in Threads \ {t} : call'[v] = call[v]
      BY <2>2, <3>1 DEF Query, Disconnect, Exec, Enter, IsIdle, Closes
    <3>3. call'[t].pc \notin Closes
      <4>1. CASE Query(t, h) \/ Disconnect(t, h)
        BY <3>1, <4>1 DEF Query, Disconnect, Enter, Closes
      <4>2. CASE Exec(t)
        <5>1. PICK d : call' = [call EXCEPT ![t].pc = "exec", ![t].conn = d]
          BY <4>2 DEF Exec
        <5>2. call'[t] = [call[t] EXCEPT !.pc = "exec", !.conn = d]
          BY <3>1, <5>1
        <5> QED BY <3>1, <5>2 DEF Calls, Closes
      <4> QED BY <2>2, <4>1, <4>2
    <3> QED BY <1>1, <3>2, <3>3, StatesStay
  <2> QED BY <2>1, <2>2
<1> QED BY <1>1, <1>2 DEF Contract!vars, CursorsOf

\* Calls that end without an effect, with an error or failing.
LEMMA NothingDone ==
  ASSUME Inv, NEW t \in Threads,
         ConnectFails(t) \/ QueryInvalid(t) \/ NotConnected(t) \/ ExecFails(t) \/ NoRows(t)
  PROVE  Contract!Next
<1>1. UNCHANGED <<conn, given, cursors>> /\ (Tell(t, <<"error">>) \/ Tell(t, <<"false">>))
  BY DEF ConnectFails, QueryInvalid, NotConnected, ExecFails, NoRows, Return
<1>2. StateOf' = StateOf
  <2>1. CASE ConnectFails(t)
    BY <2>1, SameStates DEF ConnectFails
  <2>2. CASE QueryInvalid(t) \/ NotConnected(t) \/ ExecFails(t) \/ NoRows(t)
    <3>1. call[t].pc \notin Closes /\ call' = [call EXCEPT ![t] = Idle]
      BY <2>2 DEF QueryInvalid, NotConnected, ExecFails, NoRows, Return, Closes
    <3>2. call'[t] = Idle /\ \A v \in Threads \ {t} : call'[v] = call[v]
      BY <3>1 DEF Inv, ThreadsInv, CallInv
    <3> QED BY <1>1, <3>1, <3>2, StatesStay DEF Idle, Closes
  <2> QED BY <2>1, <2>2
<1> QED BY <1>1, <1>2, FailedSeen

LEMMA ThreadSeen ==
  ASSUME Inv, GivenExact, NEW t \in Threads, Thread(t)
  PROVE  [Contract!Next]_(Contract!vars)
<1>1. CASE Connect(t) \/ ConnectNoMemory(t) \/ ConnectLost(t)
  BY <1>1, ConnectSeen, ConnectFailsSeen
<1>2. CASE ConnectFails(t) \/ QueryInvalid(t) \/ NotConnected(t) \/ ExecFails(t) \/ NoRows(t)
  BY <1>2, NothingDone
<1>3. CASE \E h \in Handles : QueryRefused(t, h) \/ DisconnectAgain(t, h)
  BY <1>3, RefusedSeen
<1>4. CASE \E h \in Handles : Query(t, h) \/ Disconnect(t, h) \/ Forget(t, h)
  BY <1>4, UnseenStep
<1>5. CASE \E h \in Handles, u \in Threads : Pass(t, u, h)
  BY <1>5, UnseenStep
<1>6. CASE Exec(t)
  <2>1. call[t].handle \in Handles
    BY <1>6, InCall DEF Exec, Inv
  <2> QED BY <1>6, <2>1, UnseenStep
<1>7. CASE Finish(t)
  BY <1>7, FinishSeen
<1>8. CASE Disconnected(t)
  BY <1>8, DisconnectedSeen
<1>9. CASE ExecDone(t) \/ FirstRow(t)
  BY <1>9, QuerySeen
<1>10. CASE NextRow(t) \/ NextRowFails(t) \/ Prune(t)
  BY <1>10, RowsSeen
<1> QED BY <1>1, <1>2, <1>3, <1>4, <1>5, <1>6, <1>7, <1>8, <1>9, <1>10 DEF Thread

\* The SWI-Prolog bridge, with threads, memory that runs out, connections that go bad
\* and the collector, implements the contract both bridges share
\* (pl_postgresql/README.md), if threads do not share handles.
THEOREM ContractCorrect == ASSUME ~Shared PROVE Spec => ContractSpec
<1>1. Init => Contract!Init
  <2> SUFFICES ASSUME Init PROVE Contract!Init
    OBVIOUS
  <2>1. StateOf = [c \in Conns |-> "unused"]
    BY DEF Init, StateOf
  <2>2. CursorsOf = [t \in Threads |-> <<>>]
    <3>1. \A t \in Threads : cursors[t] = <<>>
      BY DEF Init
    <3>2. RowsOf(<<>>) = <<>>
      <4> PICK e : e = <<>>
        OBVIOUS
      <4>1. e \in Seq(Cursors) /\ Len(e) = 0
        OBVIOUS
      <4>2. RowsOf(e) \in Seq([rows : Nat, at : Nat]) /\ Len(RowsOf(e)) = 0
        BY <4>1, RowsOfType
      <4> QED BY <4>2, EmptySeq
    <3> QED BY <3>1, <3>2, CursorsDef
  <2> QED BY <2>1, <2>2 DEF Init, Contract!Init
<1>2. Init => GivenExact
  BY DEF Init, GivenExact, Live, PgAssumption
<1>3. Inv /\ GivenExact /\ [Next]_vars => GivenExact'
  BY StepExact
<1>4. Inv /\ GivenExact /\ [Next]_vars => [Contract!Next]_(Contract!vars)
  <2> SUFFICES ASSUME Inv, GivenExact, [Next]_vars PROVE [Contract!Next]_(Contract!vars)
    OBVIOUS
  <2>1. CASE UNCHANGED vars
    <3>1. UNCHANGED <<conn, given, call, cursors, reply>>
      BY <2>1 DEF vars
    <3> QED BY <3>1, SameStates DEF Contract!vars, CursorsOf
  <2>2. CASE Next
    BY <2>2, ThreadSeen, ReleaseSeen, GoesBadSeen DEF Next
  <2> QED BY <2>1, <2>2
<1>5. Inv /\ GivenExact /\ [Next]_vars => [Contract!Step]_(Contract!vars)
  BY <1>4 DEF Contract!Step
<1> QED BY <1>1, <1>2, <1>3, <1>5, InvCorrect, PTL DEF Spec, ContractSpec, Contract!Spec

=============================================================================
