----------------------------- MODULE PgGpProofs -----------------------------
(***************************************************************************)
(* Proofs about PgGp for every value of its constants: handles are exact   *)
(* at any number of connections, and the GNU Prolog bridge implements the  *)
(* contract of both bridges.                                               *)
(***************************************************************************)
EXTENDS PgGp, SequenceTheorems, TLAPS

USE GpAssumption

-----------------------------------------------------------------------------
\* A connection was made for each handle, and what is not in use of the table
\* lies within its capacity.
GivenInv ==
  /\ Len(pgGiven) = Len(table)
  /\ \A i \in 1..Len(table) : pgConn[pgGiven[i]] # "unused"

RoomInv == Len(table) <= cap /\ cap <= room

Inv == PgTypeOK /\ RoomInv /\ GivenInv /\ HandlesExact

States == {"unused", "open", "bad", "finished", "twice"}
Cursors == [rows : 1..PgMaxRows, at : 1..PgMaxRows]

LEMMA Facts ==
  ASSUME Inv
  PROVE  /\ pgConn \in [PgConns -> States] /\ table \in Seq(PgConns \cup {"null"}) /\ pgGiven \in Seq(PgConns)
         /\ cap \in Nat /\ room \in Nat /\ pgCursors \in Seq(Cursors)
         /\ Len(table) \in Nat /\ Len(pgGiven) = Len(table)
         /\ \A i \in 1..Len(table) :
              /\ table[i] \in PgConns \cup {"null"} /\ pgGiven[i] \in PgConns
              /\ pgConn[pgGiven[i]] # "unused"
              /\ table[i] # "null" => table[i] = pgGiven[i] /\ pgConn[table[i]] \in {"open", "bad"}
              /\ table[i] = "null" => pgConn[pgGiven[i]] = "finished"
<1>1. /\ pgConn \in [PgConns -> States] /\ table \in Seq(PgConns \cup {"null"}) /\ pgGiven \in Seq(PgConns)
      /\ cap \in Nat /\ room \in Nat /\ pgCursors \in Seq(Cursors)
  BY DEF Inv, PgTypeOK, States, Cursors
<1>2. Len(table) \in Nat /\ Len(pgGiven) = Len(table)
  BY <1>1 DEF Inv, GivenInv
<1>3. ASSUME NEW i \in 1..Len(table)
      PROVE  /\ table[i] \in PgConns \cup {"null"} /\ pgGiven[i] \in PgConns
             /\ pgConn[pgGiven[i]] # "unused"
             /\ table[i] # "null" => table[i] = pgGiven[i] /\ pgConn[table[i]] \in {"open", "bad"}
             /\ table[i] = "null" => pgConn[pgGiven[i]] = "finished"
  <2>1. table[i] \in PgConns \cup {"null"} /\ pgGiven[i] \in PgConns /\ pgConn[pgGiven[i]] # "unused"
    BY <1>1, <1>2, <1>3 DEF Inv, GivenInv
  <2>2. table[i] # "null" => table[i] = pgGiven[i] /\ pgConn[table[i]] \in {"open", "bad"}
    BY <1>3, <2>1 DEF Inv, HandlesExact, Handle
  <2>3. ASSUME table[i] = "null" PROVE pgConn[pgGiven[i]] = "finished"
    <3>1. \A j \in 1..Len(table) : table[j] # pgGiven[i]
      BY <1>3, <2>1, <2>3 DEF Inv, HandlesExact, Handle
    <3>2. pgConn[pgGiven[i]] \notin {"open", "bad", "twice", "unused"}
      BY <2>1, <3>1 DEF Inv, HandlesExact, Handle
    <3> QED BY <1>1, <2>1, <3>2 DEF States
  <2> QED BY <2>1, <2>2, <2>3
<1> QED BY <1>1, <1>2, <1>3

-----------------------------------------------------------------------------
LEMMA GrownRoom ==
  ASSUME Inv
  PROVE  Grown \in Nat /\ (Full => Len(table) + 1 <= Grown)
BY Facts DEF Full, Grown, Inv, RoomInv

LEMMA ConnectKeeps ==
  ASSUME Inv, PgConnect
  PROVE  Inv'
<1>1. PICK c \in PgConns : /\ pgConn[c] = "unused" /\ pgConn' = [pgConn EXCEPT ![c] = "open"]
                         /\ Alloc(c) /\ pgCursors' = pgCursors
  BY DEF PgConnect
<1> DEFINE n == Len(table)
<1>2. table' = Append(table, c) /\ pgGiven' = Append(pgGiven, c)
  BY <1>1 DEF Alloc
<1>3. /\ Len(table') = n + 1 /\ Len(pgGiven') = n + 1 /\ n \in Nat
      /\ table' \in Seq(PgConns \cup {"null"}) /\ pgGiven' \in Seq(PgConns)
      /\ table'[n + 1] = c /\ pgGiven'[n + 1] = c
      /\ \A i \in 1..n : table'[i] = table[i] /\ pgGiven'[i] = pgGiven[i]
  BY <1>2, Facts
<1>4. pgConn' \in [PgConns -> States] /\ pgConn'[c] = "open" /\ \A d \in PgConns \ {c} : pgConn'[d] = pgConn[d]
  BY <1>1, Facts DEF States
<1>5. \A i \in 1..n : pgGiven[i] \in PgConns \ {c} /\ pgConn[pgGiven[i]] # "unused" /\ table[i] # c
  <2> TAKE i \in 1..n
  <2>1. /\ pgGiven[i] \in PgConns /\ pgGiven[i] # c /\ pgConn[pgGiven[i]] # "unused"
        /\ table[i] = c => table[i] = pgGiven[i]
    BY <1>1, Facts
  <2> QED BY <2>1
<1>6. cap' \in Nat /\ room' \in Nat /\ n + 1 <= cap' /\ cap' <= room'
  <2>1. CASE Full
    BY <1>1, <2>1, GrownRoom DEF Alloc
  <2>2. CASE ~Full
    BY <1>1, <2>2, Facts DEF Alloc, Full, Inv, RoomInv
  <2> QED BY <2>1, <2>2
<1> \A i \in 1..(n + 1) : i \in 1..n \/ i = n + 1
  BY <1>3
<1> HIDE DEF n
<1>7. PgTypeOK'
  BY <1>1, <1>3, <1>4, <1>6 DEF Inv, PgTypeOK, States
<1>8. GivenInv'
  <2>1. \A i \in 1..(n + 1) : pgConn'[pgGiven'[i]] # "unused"
    BY <1>3, <1>4, <1>5
  <2> QED BY <1>3, <2>1 DEF GivenInv
<1>9. HandlesExact'
  <2>1. \A i \in 1..(n + 1) : table'[i] # "null" => table'[i] = pgGiven'[i]
    BY <1>3, Facts DEF n
  <2>2. \A i, j \in 1..(n + 1) : i # j => pgGiven'[i] # pgGiven'[j]
    BY <1>3, <1>5 DEF Inv, HandlesExact, Handle, n
  <2>3. \A d \in PgConns : /\ pgConn'[d] \in {"open", "bad"} <=> \E i \in 1..(n + 1) : table'[i] = d
                         /\ pgConn'[d] # "twice"
    <3> TAKE d \in PgConns
    <3>1. CASE d = c
      BY <1>3, <1>4, <3>1
    <3>2. CASE d # c
      <4>1. pgConn'[d] = pgConn[d]
        BY <1>4, <3>2
      <4>2. (\E i \in 1..(n + 1) : table'[i] = d) <=> (\E i \in 1..n : table[i] = d)
        BY <1>3, <3>2
      <4> QED BY <4>1, <4>2 DEF Inv, HandlesExact, Handle, n
    <3> QED BY <3>1, <3>2
  <2> QED BY <1>3, <2>1, <2>2, <2>3 DEF HandlesExact, Handle
<1> QED BY <1>3, <1>6, <1>7, <1>8, <1>9 DEF Inv, RoomInv

LEMMA ConnectNoMemoryKeeps ==
  ASSUME Inv, PgConnectNoMemory
  PROVE  Inv'
<1>1. PICK c \in PgConns : pgConn[c] = "unused" /\ pgConn' = [pgConn EXCEPT ![c] = "finished"]
  BY DEF PgConnectNoMemory
<1>2. UNCHANGED <<table, cap, room, pgCursors, pgGiven>>
  BY DEF PgConnectNoMemory
<1>3. pgConn' \in [PgConns -> States] /\ pgConn'[c] = "finished" /\ \A d \in PgConns \ {c} : pgConn'[d] = pgConn[d]
  BY <1>1, Facts DEF States
<1>4. \A i \in 1..Len(table) : pgGiven[i] \in PgConns /\ pgGiven[i] # c /\ table[i] # c
  <2> TAKE i \in 1..Len(table)
  <2>1. pgGiven[i] \in PgConns /\ pgGiven[i] # c /\ (table[i] = c => table[i] = pgGiven[i])
    BY <1>1, Facts
  <2> QED BY <2>1
<1>5. PgTypeOK' /\ RoomInv'
  BY <1>2, <1>3 DEF Inv, PgTypeOK, RoomInv, States
<1>6. GivenInv'
  BY <1>2, <1>3, <1>4 DEF Inv, GivenInv
<1>7. HandlesExact'
  BY <1>2, <1>3, <1>4 DEF Inv, HandlesExact, Handle
<1> QED BY <1>5, <1>6, <1>7 DEF Inv

LEMMA DisconnectKeeps ==
  ASSUME Inv, NEW i \in Handle, PgDisconnect(i)
  PROVE  Inv'
<1> DEFINE c == table[i]
<1>1. i \in 1..Len(table) /\ c \in PgConns /\ c = pgGiven[i] /\ pgConn[c] \in {"open", "bad"}
  BY Facts DEF PgDisconnect, Handle
<1>2. /\ pgConn' = [pgConn EXCEPT ![c] = "finished"]
      /\ table' = [table EXCEPT ![i] = "null"]
      /\ UNCHANGED <<cap, room, pgCursors, pgGiven>>
  BY <1>1 DEF PgDisconnect, PgFinished
<1> HIDE DEF c
<1>3. pgConn' \in [PgConns -> States] /\ pgConn'[c] = "finished" /\ \A d \in PgConns \ {c} : pgConn'[d] = pgConn[d]
  BY <1>1, <1>2, Facts DEF States
<1>4. /\ table' \in Seq(PgConns \cup {"null"}) /\ Len(table') = Len(table)
      /\ table'[i] = "null" /\ \A j \in 1..Len(table) : j # i => table'[j] = table[j]
  BY <1>1, <1>2, Facts
<1>5. \A j \in 1..Len(table) : j # i => table[j] # c /\ pgGiven[j] \in PgConns /\ pgGiven[j] # c
  <2> SUFFICES ASSUME NEW j \in 1..Len(table), j # i
               PROVE  table[j] # c /\ pgGiven[j] \in PgConns /\ pgGiven[j] # c
    OBVIOUS
  <2>1. pgGiven[j] # c
    BY <1>1 DEF Inv, HandlesExact, Handle
  <2> QED BY <1>1, <2>1, Facts
<1>6. PgTypeOK' /\ RoomInv'
  BY <1>2, <1>3, <1>4 DEF Inv, PgTypeOK, RoomInv, States
<1>7. GivenInv'
  BY <1>1, <1>2, <1>3, <1>4, <1>5 DEF Inv, GivenInv
<1>8. HandlesExact'
  <2>1. \A j \in 1..Len(table) : table'[j] # "null" => table'[j] = pgGiven[j]
    BY <1>4, Facts
  <2>2. \A d \in PgConns : /\ pgConn'[d] \in {"open", "bad"} <=> \E j \in 1..Len(table) : table'[j] = d
                         /\ pgConn'[d] # "twice"
    <3> TAKE d \in PgConns
    <3>1. CASE d = c
      BY <1>1, <1>3, <1>4, <1>5, <3>1
    <3>2. CASE d # c
      <4>1. pgConn'[d] = pgConn[d]
        BY <1>3, <3>2
      <4>2. (\E j \in 1..Len(table) : table'[j] = d) <=> (\E j \in 1..Len(table) : table[j] = d)
        BY <1>1, <1>4, <3>2 DEF c
      <4> QED BY <4>1, <4>2 DEF Inv, HandlesExact, Handle
    <3> QED BY <3>1, <3>2
  <2> QED BY <1>2, <1>4, <2>1, <2>2 DEF Inv, HandlesExact, Handle
<1> QED BY <1>6, <1>7, <1>8 DEF Inv

LEMMA GoesBadKeeps ==
  ASSUME Inv, NEW c \in PgConns, PgGoesBad(c)
  PROVE  Inv'
<1>1. pgConn[c] = "open" /\ pgConn' = [pgConn EXCEPT ![c] = "bad"] /\ UNCHANGED <<table, cap, room, pgCursors, pgGiven>>
  BY DEF PgGoesBad
<1>2. pgConn' \in [PgConns -> States] /\ pgConn'[c] = "bad" /\ \A d \in PgConns \ {c} : pgConn'[d] = pgConn[d]
  BY <1>1, Facts DEF States
<1>3. PgTypeOK' /\ RoomInv'
  BY <1>1, <1>2 DEF Inv, PgTypeOK, RoomInv, States
<1>4. GivenInv' /\ HandlesExact'
  BY <1>1, <1>2, Facts DEF Inv, GivenInv, HandlesExact, Handle
<1> QED BY <1>3, <1>4 DEF Inv

-----------------------------------------------------------------------------
\* The choice points: the latest one, and what is below it.
LEMMA CursorFacts ==
  ASSUME Inv, pgCursors # <<>>
  PROVE  /\ PgTop \in Cursors /\ PgTop.at < PgTop.rows /\ PgBelow \in Seq(Cursors)
         /\ \A i \in 1..Len(PgBelow) : PgBelow[i].at < PgBelow[i].rows
<1>1. pgCursors \in Seq(Cursors) /\ Len(pgCursors) \in 1..Len(pgCursors)
  BY Facts
<1>2. \A i \in 1..Len(pgCursors) : pgCursors[i] \in Cursors /\ pgCursors[i].at < pgCursors[i].rows
  BY <1>1 DEF Inv, PgTypeOK
<1>3. Len(pgCursors) \in Nat \ {0}
  BY <1>1
<1>4. /\ PgBelow \in Seq(Cursors)
      /\ Len(PgBelow) = Len(pgCursors) - 1
      /\ \A i \in 1..Len(PgBelow) : PgBelow[i] = pgCursors[i]
  <2>1. 1 \in Int /\ Len(pgCursors) - 1 \in Int /\ \A i \in 1..(Len(pgCursors) - 1) : pgCursors[i] \in Cursors
    BY <1>2, <1>3
  <2>2. /\ PgBelow \in Seq(Cursors)
        /\ Len(PgBelow) = IF 1 <= Len(pgCursors) - 1 THEN Len(pgCursors) - 1 - 1 + 1 ELSE 0
        /\ \A i \in 1..(Len(pgCursors) - 1 - 1 + 1) : PgBelow[i] = pgCursors[1 + i - 1]
    BY <2>1, SubSeqProperties DEF PgBelow
  <2>3. Len(PgBelow) = Len(pgCursors) - 1
    <3>1. ASSUME NEW n \in Nat \ {0}
          PROVE  (IF 1 <= n - 1 THEN n - 1 - 1 + 1 ELSE 0) = n - 1
      OBVIOUS
    <3> QED BY <1>3, <2>2, <3>1
  <2>4. \A i \in 1..Len(PgBelow) : i \in 1..(Len(pgCursors) - 1 - 1 + 1) /\ 1 + i - 1 = i
    BY <1>3, <2>3
  <2> QED BY <2>2, <2>3, <2>4
<1>5. ASSUME NEW i \in 1..Len(PgBelow) PROVE PgBelow[i].at < PgBelow[i].rows
  <2>1. i \in 1..Len(pgCursors)
    BY <1>3, <1>4
  <2> QED BY <1>2, <1>4, <2>1
<1>6. PgTop \in Cursors /\ PgTop.at < PgTop.rows
  BY <1>1, <1>2 DEF PgTop
<1> QED BY <1>4, <1>5, <1>6

\* A new place on top of valid choice points.
LEMMA PushCursor ==
  ASSUME NEW s \in Seq(Cursors), \A i \in 1..Len(s) : s[i].at < s[i].rows,
         NEW k \in Cursors, k.at < k.rows
  PROVE  /\ Append(s, k) \in Seq(Cursors)
         /\ \A i \in 1..Len(Append(s, k)) : Append(s, k)[i].at < Append(s, k)[i].rows
OBVIOUS

\* A step that touches the choice points only.
LEMMA CursorStep ==
  ASSUME Inv, UNCHANGED <<pgConn, table, cap, room, pgGiven>>,
         pgCursors' \in Seq(Cursors), \A i \in 1..Len(pgCursors') : pgCursors'[i].at < pgCursors'[i].rows
  PROVE  Inv'
BY DEF Inv, PgTypeOK, RoomInv, GivenInv, HandlesExact, Handle, Cursors

LEMMA RowSteps ==
  ASSUME Inv, PgNextRow \/ Cut \/ \E i \in Handle : PgFirstRow(i)
  PROVE  Inv'
<1>1. UNCHANGED <<pgConn, table, cap, room, pgGiven>>
  BY DEF PgNextRow, Cut, PgFirstRow
<1>2. CASE PgNextRow
  <2>1. pgCursors # <<>> /\ pgCursors' = IF PgTop.at + 1 = PgTop.rows THEN PgBelow
                                   ELSE Append(PgBelow, [PgTop EXCEPT !.at = @ + 1])
    BY <1>2 DEF PgNextRow
  <2> DEFINE top == PgTop
             next == [top EXCEPT !.at = top.at + 1]
  <2>2. top \in Cursors /\ top.at < top.rows
    BY <2>1, CursorFacts
  <2> HIDE DEF top
  <2>3. top.at + 1 # top.rows => next \in Cursors /\ next.at < next.rows
    BY <2>2 DEF Cursors
  <2> HIDE DEF next
  <2>4. CASE top.at + 1 = top.rows
    BY <1>1, <2>1, <2>4, CursorFacts, CursorStep DEF top
  <2>5. CASE top.at + 1 # top.rows
    <3>1. pgCursors' = Append(PgBelow, next)
      BY <2>1, <2>5 DEF top, next
    <3> QED BY <1>1, <2>1, <2>3, <2>5, <3>1, CursorFacts, PushCursor, CursorStep
  <2> QED BY <2>4, <2>5
<1>3. CASE Cut
  BY <1>1, <1>3, CursorFacts, CursorStep DEF Cut
<1>4. CASE \E i \in Handle : PgFirstRow(i)
  <2>1. PICK n \in 1..PgMaxRows :
          pgCursors' = IF n = 1 THEN pgCursors ELSE Append(pgCursors, [rows |-> n, at |-> 1])
    BY <1>4 DEF PgFirstRow
  <2>2. pgCursors \in Seq(Cursors) /\ \A i \in 1..Len(pgCursors) : pgCursors[i].at < pgCursors[i].rows
    BY Facts DEF Inv, PgTypeOK
  <2> DEFINE k == [rows |-> n, at |-> 1]
  <2>3. n # 1 => k \in Cursors /\ k.at < k.rows
    BY DEF Cursors
  <2> HIDE DEF k
  <2>4. CASE n = 1
    BY <1>1, <2>1, <2>2, <2>4, CursorStep
  <2>5. CASE n # 1
    <3>1. pgCursors' = Append(pgCursors, k)
      BY <2>1, <2>5 DEF k
    <3> QED BY <1>1, <2>2, <2>3, <2>5, <3>1, PushCursor, CursorStep
  <2> QED BY <2>4, <2>5
<1> QED BY <1>2, <1>3, <1>4

\* All other calls answer and change nothing.
LEMMA AnswerKeeps ==
  ASSUME Inv, UNCHANGED <<pgConn, table, cap, room, pgCursors, pgGiven>>
  PROVE  Inv'
BY DEF Inv, PgTypeOK, RoomInv, GivenInv, HandlesExact, Handle

-----------------------------------------------------------------------------
LEMMA InvCorrect == PgSpec => []Inv
<1>1. PgInit => Inv
  <2> SUFFICES ASSUME PgInit PROVE Inv
    OBVIOUS
  <2>1. /\ pgConn = [c \in PgConns |-> "unused"] /\ table = <<>> /\ cap = 0 /\ room = 0
        /\ pgCursors = <<>> /\ pgGiven = <<>>
    BY DEF PgInit
  <2>2. table \in Seq(PgConns \cup {"null"}) /\ pgGiven \in Seq(PgConns) /\ pgCursors \in Seq(Cursors)
    BY <2>1
  <2>3. PgTypeOK
    BY <2>1, <2>2 DEF PgTypeOK, Cursors
  <2>4. RoomInv /\ GivenInv /\ HandlesExact
    BY <2>1 DEF RoomInv, GivenInv, HandlesExact, Handle
  <2> QED BY <2>3, <2>4 DEF Inv
<1>2. Inv /\ [PgNext]_pgVars => Inv'
  <2> SUFFICES ASSUME Inv, [PgNext]_pgVars PROVE Inv'
    OBVIOUS
  <2>1. CASE UNCHANGED pgVars
    BY <2>1, AnswerKeeps DEF pgVars
  <2>2. CASE PgConnectFails \/ NotIssued
    BY <2>2, AnswerKeeps DEF PgConnectFails, NotIssued, PgAnswer
  <2>3. CASE \E i \in Handle : OnHandle(i)
    <3>1. PICK i \in Handle : OnHandle(i)
      BY <2>3
    <3>2. CASE PgDisconnect(i)
      BY <3>2, DisconnectKeeps
    <3>3. CASE PgFirstRow(i)
      BY <3>3, RowSteps
    <3>4. CASE PgDisconnectAgain(i) \/ Refused(i) \/ QueryFails(i) \/ Served(i) \/ PgNoRows(i)
      BY <3>4, AnswerKeeps DEF PgDisconnectAgain, Refused, QueryFails, Served, PgNoRows, PgAnswer
    <3> QED BY <3>1, <3>2, <3>3, <3>4 DEF OnHandle
  <2>4. CASE PgNextRow \/ Cut
    BY <2>4, RowSteps
  <2> QED BY <2>1, <2>2, <2>3, <2>4, ConnectKeeps, ConnectNoMemoryKeeps, GoesBadKeeps DEF PgNext
<1> QED BY <1>1, <1>2, PTL DEF PgSpec

\* Types: in particular a place of the table holds NULL or a connection, and a choice
\* point that is kept has a row left (gp-pgsql-c.c, the non-deterministic query).
THEOREM TypeCorrect == PgSpec => []PgTypeOK
<1>1. Inv => PgTypeOK
  BY DEF Inv
<1> QED BY <1>1, InvCorrect, PTL

\* The table of GNU Prolog handles is never written behind what realloc has given
\* it (gp_pgsql_table_alloc), for any first capacity and any number of handles.
THEOREM TableCorrect == PgSpec => []WithinTable
<1>1. Inv => WithinTable
  BY Facts DEF Inv, RoomInv, WithinTable
<1> QED BY <1>1, InvCorrect, PTL

\* A handle of GNU Prolog reaches the connection it was made for or none, and a
\* connection is open exactly as long as its handle reaches it (gp-pgsql-c.c:
\* "a handle is never reused for a different PGconn").
THEOREM HandlesCorrect == PgSpec => []HandlesExact
<1>1. Inv => HandlesExact
  BY DEF Inv
<1> QED BY <1>1, InvCorrect, PTL

-----------------------------------------------------------------------------
(***************************************************************************)
(* The contract.  GivenOf, StateOf, ReplyOf and CursorsOf are what a       *)
(* program sees; every step of the bridge is one of the contract's, or     *)
(* none of it.                                                             *)
(***************************************************************************)
\* What is seen of a handle: the connection it was made for, and whether it is
\* still open.
LEMMA Seen ==
  ASSUME Inv, NEW i \in Handle, Len(table) <= MaxHandles
  PROVE  /\ i \in 1..MaxHandles /\ GivenOf[i] = pgGiven[i] /\ pgGiven[i] \in PgConns
         /\ table[i] # "null" => table[i] = pgGiven[i] /\ PgStateOf[pgGiven[i]] = "open"
         /\ table[i] = "null" => PgStateOf[pgGiven[i]] = "closed"
<1>1. i \in 1..Len(table) /\ i \in 1..MaxHandles /\ i <= Len(pgGiven)
  BY Facts DEF Handle
<1>2. GivenOf[i] = pgGiven[i] /\ pgGiven[i] \in PgConns
  BY <1>1, Facts DEF GivenOf
<1>3. table[i] # "null" => table[i] = pgGiven[i] /\ pgConn[pgGiven[i]] \in {"open", "bad"}
  BY <1>1, Facts
<1>4. table[i] = "null" => pgConn[pgGiven[i]] = "finished"
  BY <1>1, Facts
<1> QED BY <1>1, <1>2, <1>3, <1>4 DEF PgStateOf

\* A program is told something.
LEMMA Told ==
  ASSUME NEW what, pgReply' = what
  PROVE  ReplyOf' = [ReplyOf EXCEPT !["gp"] = what]
BY DEF ReplyOf

LEMMA AnswerSeen ==
  ASSUME NEW what, PgAnswer(what)
  PROVE  UNCHANGED <<GivenOf, PgStateOf, PgCursorsOf>> /\ PgPromise!Tell("gp", what)
BY Told DEF PgAnswer, GivenOf, PgStateOf, PgCursorsOf, PgPromise!Tell

\* A connection changes its state and no handle is given out.
LEMMA StateSeen ==
  ASSUME Inv, NEW c \in PgConns, NEW s \in States, pgConn' = [pgConn EXCEPT ![c] = s]
  PROVE  PgStateOf' = [PgStateOf EXCEPT ![c] = CASE s = "unused"          -> "unused"
                                             [] s \in {"open", "bad"} -> "open"
                                             [] OTHER                 -> "closed"]
<1>1. pgConn' \in [PgConns -> States] /\ pgConn'[c] = s /\ \A d \in PgConns \ {c} : pgConn'[d] = pgConn[d]
  BY Facts DEF States
<1> QED BY <1>1 DEF PgStateOf

LEMMA ConnectSeen ==
  ASSUME Inv, PgConnect
  PROVE  PgPromise!Next
<1>1. PICK c \in PgConns : /\ pgConn[c] = "unused" /\ pgConn' = [pgConn EXCEPT ![c] = "open"]
                         /\ Alloc(c) /\ pgCursors' = pgCursors
  BY DEF PgConnect
<1> DEFINE h == Len(table) + 1
<1>2. /\ h \in 1..MaxHandles /\ h = Len(pgGiven) + 1
      /\ pgGiven' = Append(pgGiven, c) /\ pgReply' = <<"connected", h>>
  BY <1>1, Facts DEF PgConnect, Alloc
<1> HIDE DEF h
<1>3. /\ Len(pgGiven') = h /\ pgGiven'[h] = c /\ Len(pgGiven) \in Nat
      /\ \A i \in 1..Len(pgGiven) : pgGiven'[i] = pgGiven[i]
  BY <1>2, Facts
<1>4. GivenOf[h] = "none" /\ GivenOf' = [GivenOf EXCEPT ![h] = c]
  <2>1. GivenOf[h] = "none"
    BY <1>2, <1>3 DEF GivenOf
  <2>2. \A i \in 1..MaxHandles : (IF i <= Len(pgGiven') THEN pgGiven'[i] ELSE "none")
                               = IF i = h THEN c ELSE IF i <= Len(pgGiven) THEN pgGiven[i] ELSE "none"
    BY <1>2, <1>3
  <2> QED BY <1>2, <2>1, <2>2 DEF GivenOf
<1>5. PgStateOf[c] = "unused" /\ PgStateOf' = [PgStateOf EXCEPT ![c] = "open"]
  BY <1>1, StateSeen DEF PgStateOf, States
<1>6. PgPromise!Tell("gp", <<"connected", h>>) /\ UNCHANGED PgCursorsOf
  BY <1>1, <1>2, Told DEF PgPromise!Tell, PgCursorsOf
<1>7. PgPromise!Connect("gp", h, c)
  BY <1>4, <1>5, <1>6 DEF PgPromise!Connect
<1> QED BY <1>2, <1>7 DEF PgPromise!Next

LEMMA ConnectNoMemorySeen ==
  ASSUME Inv, PgConnectNoMemory
  PROVE  PgPromise!Next
<1>1. PICK c \in PgConns : pgConn[c] = "unused" /\ pgConn' = [pgConn EXCEPT ![c] = "finished"]
  BY DEF PgConnectNoMemory
<1>2. UNCHANGED <<GivenOf, PgCursorsOf>> /\ PgPromise!Tell("gp", <<"error">>)
  BY Told DEF PgConnectNoMemory, GivenOf, PgCursorsOf, PgPromise!Tell
<1>3. PgStateOf[c] = "unused" /\ PgStateOf' = [PgStateOf EXCEPT ![c] = "closed"]
  BY <1>1, StateSeen DEF PgStateOf, States
<1>4. PgPromise!ConnectFails("gp")
  BY <1>2, <1>3 DEF PgPromise!ConnectFails
<1> QED BY <1>4 DEF PgPromise!Next

LEMMA FailedSeen ==
  ASSUME PgAnswer(<<"error">>) \/ PgAnswer(<<"false">>)
  PROVE  PgPromise!Next
<1>1. PgPromise!Failed("gp")
  BY AnswerSeen DEF PgPromise!Failed
<1> QED BY <1>1 DEF PgPromise!Next

LEMMA DisconnectSeen ==
  ASSUME Inv, Len(table) <= MaxHandles, NEW i \in Handle, PgDisconnect(i)
  PROVE  PgPromise!Next
<1>1. /\ i \in 1..MaxHandles /\ GivenOf[i] = pgGiven[i] /\ pgGiven[i] \in PgConns
      /\ table[i] = pgGiven[i] /\ PgStateOf[pgGiven[i]] = "open"
  BY Seen DEF PgDisconnect
<1>2. pgConn[table[i]] \in {"open", "bad"}
  BY Facts DEF PgDisconnect, Handle
<1>3. pgConn' = [pgConn EXCEPT ![pgGiven[i]] = "finished"]
  BY <1>1, <1>2 DEF PgDisconnect, PgFinished
<1>4. PgStateOf' = [PgStateOf EXCEPT ![pgGiven[i]] = "closed"]
  BY <1>1, <1>3, StateSeen DEF States
<1>5. UNCHANGED <<GivenOf, PgCursorsOf>>
  BY DEF PgDisconnect, GivenOf, PgCursorsOf
<1>6. PgPromise!Tell("gp", <<"disconnected", i>>) \/ PgPromise!Tell("gp", <<"error">>)
  BY Told DEF PgDisconnect, PgPromise!Tell
<1>7. PgPromise!Disconnect("gp", i)
  BY <1>1, <1>4, <1>5, <1>6 DEF PgPromise!Disconnect
<1> QED BY <1>1, <1>7 DEF PgPromise!Next

LEMMA OnHandleSeen ==
  ASSUME Inv, Len(table) <= MaxHandles, NEW i \in Handle, OnHandle(i)
  PROVE  PgPromise!Next
<1> DEFINE c == pgGiven[i]
<1>1. /\ i \in 1..MaxHandles /\ GivenOf[i] = c /\ c \in PgConns
      /\ table[i] # "null" => table[i] = c /\ PgStateOf[c] = "open"
      /\ table[i] = "null" => PgStateOf[c] = "closed"
  BY Seen
<1> HIDE DEF c
<1>2. CASE PgDisconnect(i)
  BY <1>2, DisconnectSeen
<1>3. CASE PgDisconnectAgain(i)
  <2>1. PgPromise!Disconnect("gp", i)
    BY <1>1, <1>3, AnswerSeen DEF PgDisconnectAgain, PgPromise!Disconnect
  <2> QED BY <1>1, <2>1 DEF PgPromise!Next
<1>4. CASE Refused(i)
  <2>1. PgPromise!Refused("gp", i)
    BY <1>1, <1>4, AnswerSeen DEF Refused, PgPromise!Refused
  <2> QED BY <1>1, <2>1 DEF PgPromise!Next
<1>5. CASE QueryFails(i) \/ PgNoRows(i)
  BY <1>5, FailedSeen DEF QueryFails, PgNoRows
<1>6. CASE Served(i)
  <2>1. PgPromise!Served("gp", i)
    BY <1>1, <1>6, AnswerSeen DEF Served, Runs, PgPromise!Served
  <2> QED BY <1>1, <2>1 DEF PgPromise!Next
<1>7. CASE PgFirstRow(i)
  <2>1. PICK n \in 1..PgMaxRows :
          /\ pgReply' = <<"row", 1, n>>
          /\ pgCursors' = IF n = 1 THEN pgCursors ELSE Append(pgCursors, [rows |-> n, at |-> 1])
    BY <1>7 DEF PgFirstRow
  <2>2. UNCHANGED <<GivenOf, PgStateOf>>
    BY <1>7 DEF PgFirstRow, GivenOf, PgStateOf
  <2>3. PgCursorsOf' = [PgCursorsOf EXCEPT !["gp"] =
                        IF n = 1 THEN @ ELSE Append(@, [rows |-> n, at |-> 1])]
    BY <2>1 DEF PgCursorsOf
  <2>4. PgPromise!Tell("gp", <<"row", 1, n>>)
    BY <2>1, Told DEF PgPromise!Tell
  <2>5. PgPromise!FirstRow("gp", i)
    BY <1>1, <1>7, <2>2, <2>3, <2>4 DEF PgFirstRow, Runs, PgPromise!FirstRow
  <2> QED BY <1>1, <2>5 DEF PgPromise!Next
<1> QED BY <1>2, <1>3, <1>4, <1>5, <1>6, <1>7 DEF OnHandle

LEMMA RowsSeen ==
  ASSUME PgNextRow \/ Cut
  PROVE  PgPromise!Next
<1>1. UNCHANGED <<GivenOf, PgStateOf>> /\ PgCursorsOf["gp"] = pgCursors /\ pgCursors # <<>>
  BY DEF PgNextRow, Cut, GivenOf, PgStateOf, PgCursorsOf
<1>2. CASE PgNextRow
  <2>1. PgCursorsOf' = [PgCursorsOf EXCEPT !["gp"] =
          IF PgTop.at + 1 = PgTop.rows THEN PgBelow ELSE Append(PgBelow, [PgTop EXCEPT !.at = @ + 1])]
    BY <1>2 DEF PgNextRow, PgCursorsOf
  <2>2. PgPromise!Tell("gp", <<"row", PgTop.at + 1, PgTop.rows>>)
    BY <1>2, Told DEF PgNextRow, PgPromise!Tell
  <2>3. PgPromise!NextRow("gp")
    BY <1>1, <2>1, <2>2 DEF PgPromise!NextRow, PgTop, PgBelow
  <2> QED BY <2>3 DEF PgPromise!Next
<1>3. CASE Cut
  <2>1. PgCursorsOf' = [PgCursorsOf EXCEPT !["gp"] = SubSeq(@, 1, Len(@) - 1)]
    BY <1>3 DEF Cut, PgCursorsOf, PgBelow
  <2>2. PgPromise!Tell("gp", <<"cut">>)
    BY <1>3, Told DEF Cut, PgPromise!Tell
  <2>3. PgPromise!Cut("gp")
    BY <1>1, <2>1, <2>2 DEF PgPromise!Cut
  <2> QED BY <2>3 DEF PgPromise!Next
<1> QED BY <1>2, <1>3

LEMMA GoesBadSeen ==
  ASSUME Inv, NEW c \in PgConns, PgGoesBad(c)
  PROVE  UNCHANGED PgPromise!vars
<1>1. PgStateOf' = PgStateOf
  <2>1. PgStateOf' = [PgStateOf EXCEPT ![c] = "open"] /\ PgStateOf[c] = "open"
    BY StateSeen DEF PgGoesBad, States, PgStateOf
  <2> QED BY <2>1 DEF PgStateOf
<1> QED BY <1>1 DEF PgGoesBad, GivenOf, ReplyOf, PgCursorsOf, PgPromise!vars

\* The GNU Prolog bridge implements the contract both bridges share
\* (pl_postgresql/README.md), for any number of handles, connections and rows.
THEOREM ContractCorrect == PgSpec => PgContractSpec
<1> DEFINE Bounded == Len(table) <= MaxHandles
<1>1. PgInit => PgPromise!Init
  BY DEF PgInit, PgPromise!Init, GivenOf, PgStateOf, ReplyOf, PgCursorsOf
<1>2. PgInit => Bounded
  BY DEF PgInit
<1>3. Inv /\ Bounded /\ [PgNext]_pgVars => Bounded'
  <2> SUFFICES ASSUME Inv, Bounded, [PgNext]_pgVars PROVE Bounded'
    OBVIOUS
  <2>1. CASE PgConnect
    <3>1. PICK c \in PgConns : table' = Append(table, c)
      BY <2>1 DEF PgConnect, Alloc
    <3> QED BY <2>1, <3>1, Facts DEF PgConnect
  <2>2. CASE \E i \in Handle : PgDisconnect(i)
    <3>1. PICK i \in Handle : table' = [table EXCEPT ![i] = "null"]
      BY <2>2 DEF PgDisconnect
    <3> QED BY <3>1, Facts DEF Handle
  <2>3. CASE UNCHANGED table
    BY <2>3
  <2> QED BY <2>1, <2>2, <2>3 DEF PgNext, OnHandle, pgVars, PgConnectNoMemory, PgConnectFails, NotIssued, PgAnswer,
             PgDisconnectAgain, Refused, QueryFails, Served, PgNoRows, PgFirstRow, PgNextRow, Cut, PgGoesBad
<1>4. Inv /\ Bounded /\ [PgNext]_pgVars => [PgPromise!Next]_(PgPromise!vars)
  <2> SUFFICES ASSUME Inv, Bounded, [PgNext]_pgVars PROVE [PgPromise!Next]_(PgPromise!vars)
    OBVIOUS
  <2>1. CASE UNCHANGED pgVars
    BY <2>1 DEF pgVars, GivenOf, PgStateOf, ReplyOf, PgCursorsOf, PgPromise!vars
  <2>2. CASE PgNext
    <3>1. CASE \E c \in PgConns : PgGoesBad(c)
      BY <3>1, GoesBadSeen
    <3>2. CASE PgConnectFails \/ NotIssued
      BY <3>2, FailedSeen DEF PgConnectFails, NotIssued
    <3>3. CASE \E i \in Handle : OnHandle(i)
      BY <3>3, OnHandleSeen
    <3> QED BY <2>2, <3>1, <3>2, <3>3, ConnectSeen, ConnectNoMemorySeen, RowsSeen DEF PgNext
  <2> QED BY <2>1, <2>2
<1>5. Inv /\ Bounded /\ [PgNext]_pgVars => [PgPromise!Step]_(PgPromise!vars)
  BY <1>4 DEF PgPromise!Step
<1> QED BY <1>1, <1>2, <1>3, <1>5, InvCorrect, PTL DEF PgSpec, PgContractSpec, PgPromise!Spec

=============================================================================
