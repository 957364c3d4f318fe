----------------------------- MODULE JsonProofs -----------------------------
(***************************************************************************)
(* Proofs about JsonGrammar and Json for every value of their constants:   *)
(* whatever texts are decoded, what is read of them is what they denote,   *)
(* and is written as a text that is read as the same term.                 *)
(***************************************************************************)
EXTENDS Json, LibraryProofs


(***************************************************************************)
(* JSON texts and positions in them                                        *)
(***************************************************************************)
Json == Seq(Nat)
Places(t) == 1..(Len(t) + 1)

LEMMA TextIs ==
  ASSUME NEW t \in Json
  PROVE  Len(t) \in Nat /\ t \in [1..Len(t) -> Nat] /\ \A i \in 1..Len(t) : t[i] \in Nat
BY DEF Json

LEMMA CodeIs ==
  ASSUME NEW t \in Json, NEW i \in Nat \ {0}
  PROVE  /\ CodeAt(t, i) \in Nat \cup {-1}
         /\ CodeAt(t, i) # -1 <=> i <= Len(t)
         /\ i <= Len(t) => CodeAt(t, i) = t[i] /\ t[i] \in Nat
<1>1. PICK n \in Nat : n = Len(t) /\ \A j \in 1..n : t[j] \in Nat
  BY TextIs
<1>2. CASE i <= n
  BY <1>1, <1>2 DEF CodeAt
<1>3. CASE ~(i <= n)
  BY <1>1, <1>3 DEF CodeAt
<1> QED BY <1>1, <1>2, <1>3

IsPast(t, i, skipped, k) ==
  /\ k \in i..(Len(t) + 1)
  /\ CodeAt(t, k) \notin skipped /\ \A j \in i..(k - 1) : t[j] \in skipped

LEMMA PastIs ==
  ASSUME NEW t \in Json, NEW i \in Places(t), NEW skipped \in SUBSET Nat
  PROVE  IsPast(t, i, skipped, PastAll(t, i, skipped))
<1>1. PICK n \in Nat : n = Len(t)
  BY TextIs
<1>2. i \in 1..(n + 1)
  BY <1>1 DEF Places
<1> DEFINE T == {k \in Nat : k \in i..(n + 1) /\ CodeAt(t, k) \notin skipped}
<1>3. n + 1 \in T
  <2>1. CodeAt(t, n + 1) = -1
    BY <1>1, CodeIs
  <2> QED BY <1>2, <2>1
<1>4. PICK k \in T : \A j \in T : k <= j
  <2> HIDE DEF T
  <2>1. T \in SUBSET Nat
    BY DEF T
  <2> QED BY <1>3, <2>1, Least
<1>5. ASSUME NEW j \in i..(k - 1) PROVE t[j] \in skipped
  <2>1. j \in Nat \ {0} /\ j \in 1..n /\ j \notin T
    BY <1>2, <1>4
  <2>2. CodeAt(t, j) \in skipped
    BY <1>2, <1>4, <2>1
  <2> QED BY <1>1, <2>1, <2>2, CodeIs
<1>6. k \in i..(Len(t) + 1) /\ CodeAt(t, k) \notin skipped
  BY <1>1, <1>4
<1> QED BY <1>5, <1>6 DEF IsPast, PastAll

LEMMA PastOnly ==
  ASSUME NEW t \in Json, NEW i \in Places(t), NEW skipped \in SUBSET Nat, NEW k,
         IsPast(t, i, skipped, k)
  PROVE  PastAll(t, i, skipped) = k
<1>1. PICK n \in Nat : n = Len(t) /\ i \in 1..(n + 1)
  BY TextIs DEF Places
<1>2. PICK h \in i..(n + 1) : h = PastAll(t, i, skipped) /\ IsPast(t, i, skipped, h)
  BY <1>1, PastIs DEF IsPast
<1>3. k \in i..(n + 1)
  BY <1>1 DEF IsPast
<1>4. \A j \in i..n : CodeAt(t, j) = t[j]
  BY <1>1, CodeIs
<1>5. ~(h < k)
  <2> SUFFICES ASSUME h < k PROVE FALSE
    OBVIOUS
  <2>1. h \in i..(k - 1) /\ h \in i..n
    BY <1>1, <1>2, <1>3
  <2> QED BY <1>2, <1>4, <2>1 DEF IsPast
<1>6. ~(k < h)
  <2> SUFFICES ASSUME k < h PROVE FALSE
    OBVIOUS
  <2>1. k \in i..(h - 1) /\ k \in i..n
    BY <1>1, <1>2, <1>3
  <2> QED BY <1>2, <1>4, <2>1 DEF IsPast
<1> QED BY <1>1, <1>2, <1>3, <1>5, <1>6

\* Where there is none of them nothing is skipped.
LEMMA NothingSkipped ==
  ASSUME NEW t \in Json, NEW i \in Places(t), NEW skipped \in SUBSET Nat,
         CodeAt(t, i) \notin skipped
  PROVE  PastAll(t, i, skipped) = i
<1>1. i \in i..(Len(t) + 1) /\ i..(i - 1) = {}
  BY TextIs DEF Places
<1> QED BY <1>1, PastOnly DEF IsPast

LEMMA SkipWsIs ==
  ASSUME NEW t \in Json, NEW i \in Places(t)
  PROVE  /\ SkipWs(t, i) \in Places(t) /\ SkipWs(t, i) >= i
         /\ CodeAt(t, i) \notin {32, 9, 10, 13} => SkipWs(t, i) = i
<1>1. {32, 9, 10, 13} \in SUBSET Nat
  OBVIOUS
<1>2. IsPast(t, i, {32, 9, 10, 13}, SkipWs(t, i))
  BY <1>1, PastIs DEF SkipWs
<1>3. SkipWs(t, i) \in i..(Len(t) + 1) /\ Len(t) \in Nat /\ i \in Nat \ {0}
  BY <1>2, TextIs DEF IsPast, Places
<1> QED BY <1>1, <1>3, NothingSkipped DEF SkipWs, Places

-----------------------------------------------------------------------------
(***************************************************************************)
(* Characters                                                              *)
(***************************************************************************)
LEMMA HexIs ==
  ASSUME NEW c \in Nat \cup {-1}
  PROVE  /\ HexVal(c) \in (0..15) \cup {-1}
         /\ c = -1 => HexVal(c) = -1
BY DEF HexVal, IsDigit

LEMMA EscapedIs ==
  ASSUME NEW t \in Json, NEW i \in Nat \ {0}
  PROVE  /\ Escaped(t, i) \in Nat \cup {-1}
         /\ Escaped(t, i) >= 0 => i + 5 <= Len(t)
<1> DEFINE h == [k \in 1..4 |-> HexVal(CodeAt(t, i + 1 + k))]
<1>1. PICK n \in Nat : n = Len(t)
  BY TextIs
<1>2. \A k \in 1..4 : h[k] \in (0..15) \cup {-1} /\ (h[k] # -1 => i + 1 + k <= n)
  <2> SUFFICES ASSUME NEW k \in 1..4
               PROVE  h[k] \in (0..15) \cup {-1} /\ (h[k] # -1 => i + 1 + k <= n)
    OBVIOUS
  <2>1. i + 1 + k \in Nat \ {0} /\ h[k] = HexVal(CodeAt(t, i + 1 + k))
    OBVIOUS
  <2>2. CodeAt(t, i + 1 + k) \in Nat \cup {-1} /\ (CodeAt(t, i + 1 + k) # -1 => i + 1 + k <= n)
    BY <1>1, <2>1, CodeIs
  <2> HIDE DEF h
  <2> QED BY <2>1, <2>2, HexIs
<1>3. Escaped(t, i) = IF CodeAt(t, i) # 92 \/ CodeAt(t, i + 1) # 117 \/ \E k \in 1..4 : h[k] < 0 THEN -1
                      ELSE ((h[1] * 16 + h[2]) * 16 + h[3]) * 16 + h[4]
  BY DEF Escaped
<1> HIDE DEF h
<1>4. CASE \E k \in 1..4 : h[k] < 0
  BY <1>3, <1>4
<1>5. CASE ~\E k \in 1..4 : h[k] < 0
  <2> \A k \in 1..4 : h[k] \in 0..15
    BY <1>2, <1>5
  <2>1. PICK a \in 0..15, b \in 0..15, c \in 0..15, d \in 0..15 :
          a = h[1] /\ b = h[2] /\ c = h[3] /\ d = h[4]
    <3>1. h[1] \in 0..15 /\ h[2] \in 0..15 /\ h[3] \in 0..15 /\ h[4] \in 0..15
      OBVIOUS
    <3> QED BY <3>1, Zenon
  <2>2. Escaped(t, i) \in {-1, ((a * 16 + b) * 16 + c) * 16 + d}
    BY <1>3, <1>5, <2>1
  <2>3. ((a * 16 + b) * 16 + c) * 16 + d \in Nat
    BY SMT
  <2>4. i + 5 <= n
    <3>1. h[4] # -1 /\ i + 1 + 4 <= n
      BY <1>2, <1>5
    <3> QED BY <3>1
  <2> QED BY <1>1, <2>2, <2>3, <2>4
<1> QED BY <1>4, <1>5

LEMMA CodePointIs ==
  ASSUME NEW p, NEW cp \in Nat
  PROVE  CodePoint(p, cp) \in Json /\ (cp < 128 => CodePoint(p, cp) = <<cp>>)
<1>1. PICK a \in Nat, b \in Nat, c \in Nat, d \in Nat, e \in Nat, f \in Nat :
        /\ a = 192 + cp \div 64 /\ b = 128 + (cp % 64) /\ c = 224 + cp \div 4096
        /\ d = 128 + ((cp \div 64) % 64) /\ e = 240 + cp \div 262144
        /\ f = 128 + ((cp \div 4096) % 64)
  BY SMT
<1>2. \A u \in Nat, v \in Nat, w \in Nat, x \in Nat :
        <<u>> \in Json /\ <<u, v>> \in Json /\ <<u, v, w>> \in Json /\ <<u, v, w, x>> \in Json
  BY DEF Json
<1>3. \/ CodePoint(p, cp) = <<cp>>
      \/ cp >= 128 /\ CodePoint(p, cp) \in {<<a, b>>, <<c, d, b>>, <<e, f, d, b>>}
  BY <1>1, SMT DEF CodePoint
<1>4. CASE CodePoint(p, cp) = <<cp>>
  BY <1>2, <1>4 DEF Json
<1>5. CASE cp >= 128 /\ CodePoint(p, cp) \in {<<a, b>>, <<c, d, b>>, <<e, f, d, b>>}
  <2>1. <<a, b>> \in Json /\ <<c, d, b>> \in Json /\ <<e, f, d, b>> \in Json
    BY <1>2
  <2>2. ~(cp < 128)
    BY <1>5
  <2> QED BY <1>5, <2>1, <2>2, Zenon
<1> QED BY <1>3, <1>4, <1>5

\* A character is at least one code of the text.
IsRead(t, i, S, r) == r = <<r[1], r[2]>> /\ r[1] \in S /\ r[2] \in Places(t) /\ r[2] > i

LEMMA SurrogatesAre ==
  ASSUME NEW hi, NEW lo, IsHigh(hi), IsLow(lo)
  PROVE  Surrogates(hi, lo) \in Nat /\ lo \in Nat /\ hi \in Nat
BY SMT DEF IsHigh, IsLow, Surrogates

LEMMA JsCharIs ==
  ASSUME NEW t \in Json, NEW i \in Places(t), NEW p, NEW c \in JsChar(p, t, i)
  PROVE  IsRead(t, i, Json, c)
<1>1. PICK n \in Nat : n = Len(t) /\ i \in 1..(n + 1) /\ Places(t) = 1..(n + 1)
  BY TextIs DEF Places
<1> DEFINE hi == Escaped(t, i)
           lo == Escaped(t, i + 6)
           next == CodeAt(t, i + 1)
<1>2. i \in Nat \ {0} /\ i + 6 \in Nat \ {0} /\ i + 1 \in Nat \ {0}
  BY <1>1
<1>3. /\ hi \in Nat \cup {-1} /\ (hi >= 0 => i + 5 <= n)
      /\ lo \in Nat \cup {-1} /\ (lo >= 0 => i + 6 + 5 <= n)
      /\ next \in Nat \cup {-1} /\ (next # -1 => i + 1 <= n)
      /\ (CodeAt(t, i) # -1 => i <= n /\ t[i] \in Nat)
  BY <1>1, <1>2, EscapedIs, CodeIs
<1>4. /\ CodeAt(t, i) \notin {34, -1}
      /\ \/ c = <<<<t[i]>>, i + 1>>
         \/ \E e \in DOMAIN Unescape \cap {next} : c = <<<<Unescape[e]>>, i + 2>>
         \/ IsHigh(hi) /\ IsLow(lo) /\ c = <<CodePoint(p, Surrogates(hi, lo)), i + 12>>
         \/ ~(hi < 0) /\ c = <<CodePoint(p, hi), i + 6>>
  BY DEF JsChar
<1> HIDE DEF hi, lo, next
<1>5. CASE c = <<<<t[i]>>, i + 1>>
  <2>1. <<t[i]>> \in Json /\ i + 1 \in 1..(n + 1)
    BY <1>1, <1>3, <1>4 DEF Json
  <2> QED BY <1>1, <1>5, <2>1 DEF IsRead
<1>6. ASSUME NEW e \in DOMAIN Unescape \cap {next}, c = <<<<Unescape[e]>>, i + 2>>
      PROVE  IsRead(t, i, Json, c)
  <2>1. Unescape[e] \in Nat /\ e \in Nat /\ e = next
    BY <1>6 DEF Unescape
  <2>2. <<Unescape[e]>> \in Json /\ i + 2 \in 1..(n + 1)
    BY <1>1, <1>3, <2>1 DEF Json
  <2> QED BY <1>1, <1>6, <2>2 DEF IsRead
<1>7. CASE IsHigh(hi) /\ IsLow(lo) /\ c = <<CodePoint(p, Surrogates(hi, lo)), i + 12>>
  <2>1. Surrogates(hi, lo) \in Nat /\ lo \in Nat
    BY <1>7, SurrogatesAre
  <2>2. CodePoint(p, Surrogates(hi, lo)) \in Json
    BY <2>1, CodePointIs
  <2>3. i + 12 \in 1..(n + 1) /\ i + 12 > i
    BY <1>1, <1>3, <2>1
  <2> QED BY <1>1, <1>7, <2>2, <2>3 DEF IsRead
<1>8. CASE ~(hi < 0) /\ c = <<CodePoint(p, hi), i + 6>>
  <2>1. hi \in Nat /\ i + 6 \in 1..(n + 1) /\ i + 6 > i
    BY <1>1, <1>3, <1>8
  <2>2. CodePoint(p, hi) \in Json
    BY <2>1, CodePointIs
  <2> QED BY <1>1, <1>8, <2>1, <2>2 DEF IsRead
<1> QED BY <1>4, <1>5, <1>6, <1>7, <1>8

\* Induction from the end of a text, for the set of places that have a property.
LEMMA Backwards ==
  ASSUME NEW n \in Nat, NEW T,
         \A i \in 1..n : (\A j \in 1..n : j > i => j \in T) => i \in T
  PROVE  \A i \in 1..n : i \in T
<1> DEFINE K == {k \in Nat : \A i \in 1..n : i > n - k => i \in T}
<1>1. 0 \in K
  OBVIOUS
<1>2. ASSUME NEW k \in K PROVE k + 1 \in K
  <2> SUFFICES ASSUME NEW i \in 1..n, i > n - (k + 1) PROVE i \in T
    OBVIOUS
  <2>1. \A j \in 1..n : j > i => j \in T
    OBVIOUS
  <2> QED BY <2>1
<1>3. K = Nat
  <2> HIDE DEF K
  <2>1. K \in SUBSET Nat
    BY DEF K
  <2> QED BY <1>1, <1>2, <2>1, Induction
<1>4. n \in K
  BY <1>3
<1> QED BY <1>4

\* The recursive function of JsChars.
CharsAt(chars, p, t, i) ==
  IF JsChar(p, t, i) = {} THEN <<<<>>, i>>
  ELSE LET char == CHOOSE char \in JsChar(p, t, i) : TRUE
       IN  <<char[1] \o chars[char[2]][1], chars[char[2]][2]>>
IsChars(chars, p, t) == chars = [i \in Places(t) |-> CharsAt(chars, p, t, i)]

LEMMA CharsAtSame ==
  ASSUME NEW t \in Json, NEW p, NEW i \in Places(t), NEW f, NEW h,
         \A j \in Places(t) : j > i => f[j] = h[j]
  PROVE  CharsAt(f, p, t, i) = CharsAt(h, p, t, i)
<1>1. CASE JsChar(p, t, i) = {}
  BY <1>1 DEF CharsAt
<1>2. CASE JsChar(p, t, i) # {}
  <2> DEFINE char == CHOOSE char \in JsChar(p, t, i) : TRUE
  <2>1. char \in JsChar(p, t, i)
    BY <1>2
  <2> HIDE DEF char
  <2>2. char[2] \in Places(t) /\ char[2] > i
    BY <2>1, JsCharIs DEF IsRead
  <2>3. f[char[2]] = h[char[2]]
    BY <2>2
  <2> QED BY <2>3 DEF CharsAt, char
<1> QED BY <1>1, <1>2

LEMMA CharsExist ==
  ASSUME NEW t \in Json, NEW p
  PROVE  IsChars(JsChars(p, t), p, t)
<1>1. PICK n \in Nat : n = Len(t) /\ Places(t) = 1..(n + 1)
  BY TextIs DEF Places
<1> DEFINE Known(f, k) == \A i \in Places(t) : i > n + 1 - k => f[i] = CharsAt(f, p, t, i)
           T == {k \in Nat : \E f : Known(f, k)}
<1>2. 0 \in T
  BY <1>1
<1>3. ASSUME NEW k \in T PROVE k + 1 \in T
  <2>1. PICK f : Known(f, k)
    OBVIOUS
  <2> DEFINE h == [i \in Places(t) |-> CharsAt(f, p, t, i)]
  <2>2. ASSUME NEW i \in Places(t), i > n + 1 - (k + 1) PROVE h[i] = CharsAt(h, p, t, i)
    <3>1. \A j \in Places(t) : j > i => f[j] = h[j]
      BY <1>1, <2>1, <2>2
    <3>2. CharsAt(f, p, t, i) = CharsAt(h, p, t, i)
      <4> HIDE DEF h
      <4> QED BY <3>1, CharsAtSame
    <3> QED BY <3>2
  <2>3. Known(h, k + 1) /\ k + 1 \in Nat
    <3> HIDE DEF h
    <3> QED BY <2>2
  <2> HIDE DEF h
  <2> QED BY <2>3
<1>4. T = Nat
  <2> HIDE DEF T
  <2>1. T \in SUBSET Nat
    BY DEF T
  <2> QED BY <1>2, <1>3, <2>1, Induction
<1>5. PICK f : Known(f, n + 2)
  <2>1. n + 2 \in T
    <3> HIDE DEF T
    <3> QED BY <1>4
  <2> QED BY <2>1, Zenon
<1> DEFINE h == [i \in Places(t) |-> CharsAt(f, p, t, i)]
<1>6. \A i \in Places(t) : f[i] = h[i]
  BY <1>1, <1>5
<1>7. h = [i \in Places(t) |-> CharsAt(h, p, t, i)]
  <2>1. \A i \in Places(t) : CharsAt(f, p, t, i) = CharsAt(h, p, t, i)
    <3> HIDE DEF h
    <3> QED BY <1>6, CharsAtSame
  <2> QED BY <2>1
<1>8. JsChars(p, t) = CHOOSE chars : IsChars(chars, p, t)
  BY DEF JsChars, IsChars, CharsAt, Places
<1> HIDE DEF h
<1> QED BY <1>7, <1>8 DEF IsChars

\* What has been read from a position on may also be nothing.
Reads(t, i, S, r) == r = <<r[1], r[2]>> /\ r[1] \in S /\ r[2] \in Places(t) /\ r[2] >= i

LEMMA PairReads ==
  ASSUME NEW t, NEW i, NEW S, NEW a \in S, NEW b \in Places(t), b >= i
  PROVE  Reads(t, i, S, <<a, b>>)
BY DEF Reads

LEMMA JsCharsAre ==
  ASSUME NEW t \in Json, NEW p, NEW i \in Places(t)
  PROVE  /\ JsChars(p, t)[i] = CharsAt(JsChars(p, t), p, t, i)
         /\ Reads(t, i, Json, JsChars(p, t)[i])
<1>1. PICK n \in Nat : n = Len(t) /\ Places(t) = 1..(n + 1)
  BY TextIs DEF Places
<1>2. PICK f : f = JsChars(p, t)
  OBVIOUS
<1>3. \A j \in Places(t) : f[j] = CharsAt(f, p, t, j)
  BY <1>2, CharsExist DEF IsChars
<1> DEFINE T == {j \in Places(t) : Reads(t, j, Json, f[j])}
<1>4. ASSUME NEW j \in Places(t), \A l \in Places(t) : l > j => l \in T
      PROVE  j \in T
  <2>1. CASE JsChar(p, t, j) = {}
    <3>1. f[j] = <<<<>>, j>>
      BY <1>3, <2>1 DEF CharsAt
    <3>2. <<>> \in Json /\ j >= j
      BY <1>1 DEF Json
    <3> QED BY <3>1, <3>2, PairReads
  <2>2. CASE JsChar(p, t, j) # {}
    <3> DEFINE char == CHOOSE char \in JsChar(p, t, j) : TRUE
    <3>1. char \in JsChar(p, t, j)
      BY <2>2
    <3>2. f[j] = <<char[1] \o f[char[2]][1], f[char[2]][2]>>
      BY <1>3, <2>2 DEF CharsAt
    <3> HIDE DEF char
    <3>3. char[1] \in Json /\ char[2] \in Places(t) /\ char[2] > j
      BY <3>1, JsCharIs DEF IsRead
    <3>4. /\ f[char[2]][1] \in Json /\ f[char[2]][2] \in Places(t)
          /\ f[char[2]][2] >= char[2]
      BY <1>4, <3>3 DEF Reads
    <3>5. char[1] \o f[char[2]][1] \in Json
      BY <3>3, <3>4, ConcatProperties DEF Json
    <3>6. f[char[2]][2] \in Places(t) /\ f[char[2]][2] >= j
      <4>1. PICK a \in 1..(n + 1), b \in 1..(n + 1) : a = char[2] /\ b = f[a][2] /\ b >= a /\ a > j
        BY <1>1, <3>3, <3>4
      <4> QED BY <1>1, <4>1
    <3> QED BY <3>2, <3>5, <3>6, PairReads
  <2> QED BY <2>1, <2>2
<1>5. \A j \in 1..(n + 1) : j \in T
  <2> HIDE DEF T
  <2>1. \A j \in 1..(n + 1) : (\A l \in 1..(n + 1) : l > j => l \in T) => j \in T
    BY <1>1, <1>4
  <2> QED BY <2>1, Backwards
<1>6. Reads(t, i, Json, f[i])
  BY <1>1, <1>5
<1> QED BY <1>2, <1>3, <1>6

LEMMA JsStringIs ==
  ASSUME NEW t \in Json, NEW p, NEW i \in Places(t), NEW s \in JsString(p, t, i)
  PROVE  IsRead(t, i, Json, s)
<1>1. PICK n \in Nat : n = Len(t) /\ Places(t) = 1..(n + 1)
  BY TextIs DEF Places
<1>2. /\ CodeAt(t, i) = 34 /\ CodeAt(t, JsChars(p, t)[i + 1][2]) = 34
      /\ s = <<JsChars(p, t)[i + 1][1], JsChars(p, t)[i + 1][2] + 1>>
  BY DEF JsString
<1>3. i + 1 \in Places(t)
  BY <1>1, <1>2, CodeIs
<1>4. /\ JsChars(p, t)[i + 1][1] \in Json /\ JsChars(p, t)[i + 1][2] \in Places(t)
      /\ JsChars(p, t)[i + 1][2] >= i + 1
  BY <1>3, JsCharsAre DEF Reads
<1>5. PICK a \in 1..(n + 1) : a = JsChars(p, t)[i + 1][2]
  BY <1>1, <1>4
<1>6. a <= n
  BY <1>1, <1>2, <1>5, CodeIs
<1>7. a + 1 \in Places(t) /\ a + 1 > i
  BY <1>1, <1>3, <1>4, <1>5, <1>6
<1> QED BY <1>2, <1>4, <1>5, <1>7 DEF IsRead

(***************************************************************************)
(* Numbers                                                                 *)
(***************************************************************************)
\* Induction up to a number, for the set of the numbers that have a property.
LEMMA Upwards ==
  ASSUME NEW n \in Nat, NEW T,
         \A i \in 0..n : (\A j \in 0..n : j < i => j \in T) => i \in T
  PROVE  \A i \in 0..n : i \in T
<1> DEFINE K == {k \in Nat : \A i \in 0..n : i < k => i \in T}
<1>1. 0 \in K
  OBVIOUS
<1>2. ASSUME NEW k \in K PROVE k + 1 \in K
  <2> SUFFICES ASSUME NEW i \in 0..n, i < k + 1 PROVE i \in T
    OBVIOUS
  <2>1. \A j \in 0..n : j < i => j \in T
    OBVIOUS
  <2> QED BY <2>1
<1>3. K = Nat
  <2> HIDE DEF K
  <2>1. K \in SUBSET Nat
    BY DEF K
  <2> QED BY <1>1, <1>2, <2>1, Induction
<1>4. n + 1 \in K
  <2> HIDE DEF K
  <2> QED BY <1>3
<1> QED BY <1>4

LEMMA Tens ==
  ASSUME NEW a \in Nat
  PROVE  /\ a \div 10 \in Nat /\ a % 10 \in 0..9 /\ a = 10 * (a \div 10) + (a % 10)
         /\ a # 0 => a \div 10 < a
         /\ (10 * a) \div 10 = a /\ (10 * a) % 10 = 0
<1>1. a \div 10 \in Nat /\ a % 10 \in 0..9 /\ a = 10 * (a \div 10) + (a % 10)
  BY SMT
<1>2. a # 0 => a \div 10 < a
  BY SMT
<1>3. (10 * a) \div 10 = a
  BY SMT
<1>4. (10 * a) % 10 = 0
  BY SMT
<1> QED BY <1>1, <1>2, <1>3, <1>4

DigitCodes == Seq(48..57)

\* The recursive function of DigitsValue.
DigitsAt(value, digits, n) == IF n = 0 THEN 0 ELSE 10 * value[n - 1] + digits[n] - 48
IsValue(value, digits) == value = [n \in 0..Len(digits) |-> DigitsAt(value, digits, n)]

LEMMA ValueAtSame ==
  ASSUME NEW digits, NEW n \in Nat, NEW k \in 0..n, NEW f, NEW h,
         \A j \in 0..n : j < k => f[j] = h[j]
  PROVE  DigitsAt(f, digits, k) = DigitsAt(h, digits, k)
<1>1. CASE k = 0
  BY <1>1 DEF DigitsAt
<1>2. CASE k # 0
  <2>1. f[k - 1] = h[k - 1]
    BY <1>2
  <2> QED BY <1>2, <2>1 DEF DigitsAt
<1> QED BY <1>1, <1>2

LEMMA ValueExists ==
  ASSUME NEW digits \in DigitCodes
  PROVE  IsValue(CHOOSE f : IsValue(f, digits), digits)
<1>1. PICK n \in Nat : n = Len(digits)
  BY DEF DigitCodes
<1> DEFINE Known(f, k) == \A i \in 0..n : i < k => f[i] = DigitsAt(f, digits, i)
           T == {k \in Nat : \E f : Known(f, k)}
<1>2. 0 \in T
  OBVIOUS
<1>3. ASSUME NEW k \in T PROVE k + 1 \in T
  <2>1. PICK f : Known(f, k)
    OBVIOUS
  <2> DEFINE h == [i \in 0..n |-> DigitsAt(f, digits, i)]
  <2>2. ASSUME NEW i \in 0..n, i < k + 1 PROVE h[i] = DigitsAt(h, digits, i)
    <3>1. \A j \in 0..n : j < i => f[j] = h[j]
      BY <2>1, <2>2
    <3>2. DigitsAt(f, digits, i) = DigitsAt(h, digits, i)
      <4> HIDE DEF h
      <4> QED BY <3>1, ValueAtSame
    <3> QED BY <3>2
  <2>3. Known(h, k + 1) /\ k + 1 \in Nat
    <3> HIDE DEF h
    <3> QED BY <2>2
  <2> HIDE DEF h
  <2> QED BY <2>3
<1>4. T = Nat
  <2> HIDE DEF T
  <2>1. T \in SUBSET Nat
    BY DEF T
  <2> QED BY <1>2, <1>3, <2>1, Induction
<1>5. PICK f : Known(f, n + 1)
  <2>1. n + 1 \in T
    <3> HIDE DEF T
    <3> QED BY <1>4
  <2> QED BY <2>1, Zenon
<1> DEFINE h == [i \in 0..n |-> DigitsAt(f, digits, i)]
<1>6. \A i \in 0..n : f[i] = h[i]
  BY <1>5
<1>7. h = [i \in 0..n |-> DigitsAt(h, digits, i)]
  <2>1. \A i \in 0..n : DigitsAt(f, digits, i) = DigitsAt(h, digits, i)
    <3> HIDE DEF h
    <3> QED BY <1>6, ValueAtSame
  <2> QED BY <2>1
<1> HIDE DEF h
<1> QED BY <1>1, <1>7 DEF IsValue

\* The value of the digits up to each of them.
Values(value, digits, n) == \A k \in 0..n : value[k] \in Nat /\ value[k] = DigitsAt(value, digits, k)

LEMMA DigitsValueIs ==
  ASSUME NEW digits \in DigitCodes
  PROVE  \E value : Values(value, digits, Len(digits)) /\ DigitsValue(digits) = value[Len(digits)]
<1>1. PICK n \in Nat : n = Len(digits) /\ \A k \in 1..n : digits[k] \in 48..57
  BY DEF DigitCodes
<1>2. PICK value : value = CHOOSE f : IsValue(f, digits)
  OBVIOUS
<1>3. \A k \in 0..n : value[k] = DigitsAt(value, digits, k)
  <2>1. IsValue(value, digits)
    BY <1>2, ValueExists
  <2> QED BY <1>1, <2>1 DEF IsValue
<1>4. DigitsValue(digits) = value[n]
  BY <1>1, <1>2 DEF DigitsValue, IsValue, DigitsAt
<1> DEFINE T == {k \in 0..n : value[k] \in Nat}
<1>5. ASSUME NEW i \in 0..n, \A j \in 0..n : j < i => j \in T PROVE i \in T
  <2>1. CASE i = 0
    <3>1. value[i] = 0
      BY <1>3, <2>1 DEF DigitsAt
    <3> QED BY <3>1
  <2>2. CASE i # 0
    <3>1. i - 1 \in T /\ value[i] = 10 * value[i - 1] + digits[i] - 48 /\ digits[i] \in 48..57
      BY <1>1, <1>3, <1>5, <2>2 DEF DigitsAt
    <3>2. PICK a \in Nat : a = value[i - 1]
      BY <3>1
    <3> QED BY <3>1, <3>2
  <2> QED BY <2>1, <2>2
<1>6. \A k \in 0..n : k \in T
  <2> HIDE DEF T
  <2> QED BY <1>5, Upwards
<1>7. Values(value, digits, n)
  BY <1>3, <1>6 DEF Values
<1> QED BY <1>1, <1>4, <1>7

LEMMA SameValues ==
  ASSUME NEW n \in Nat, NEW a \in DigitCodes, NEW b \in DigitCodes, NEW f, NEW h,
         Values(f, a, n), Values(h, b, n), \A k \in 1..n : a[k] = b[k]
  PROVE  f[n] = h[n]
<1> DEFINE T == {k \in 0..n : f[k] = h[k]}
<1>1. ASSUME NEW i \in 0..n, \A j \in 0..n : j < i => j \in T PROVE i \in T
  <2>1. f[i] = DigitsAt(f, a, i) /\ h[i] = DigitsAt(h, b, i)
    BY DEF Values
  <2>2. CASE i = 0
    BY <2>1, <2>2 DEF DigitsAt
  <2>3. CASE i # 0
    <3>1. f[i - 1] = h[i - 1] /\ a[i] = b[i]
      BY <1>1, <2>3
    <3> QED BY <2>1, <2>3, <3>1 DEF DigitsAt
  <2> QED BY <2>2, <2>3
<1>2. \A k \in 0..n : k \in T
  <2> HIDE DEF T
  <2> QED BY <1>1, Upwards
<1> QED BY <1>2

LEMMA DigitsValueNat ==
  ASSUME NEW digits \in DigitCodes
  PROVE  DigitsValue(digits) \in Nat
<1>1. Len(digits) \in Nat
  BY DEF DigitCodes
<1> QED BY <1>1, DigitsValueIs DEF Values

\* A digit more.
LEMMA DigitsValueMore ==
  ASSUME NEW digits \in DigitCodes, NEW c \in 48..57
  PROVE  /\ digits \o <<c>> \in DigitCodes
         /\ DigitsValue(digits \o <<c>>) = 10 * DigitsValue(digits) + c - 48
<1>1. PICK n \in Nat : n = Len(digits)
  BY DEF DigitCodes
<1>2. PICK more : more = digits \o <<c>>
  OBVIOUS
<1>3. more \in DigitCodes /\ Len(more) = n + 1 /\ more[n + 1] = c /\ \A k \in 1..n : digits[k] = more[k]
  <2>1. <<c>> \in DigitCodes /\ Len(<<c>>) = 1
    BY DEF DigitCodes
  <2>2. more \in DigitCodes /\ Begins(digits, more) /\ Len(more) = n + 1
    BY <1>1, <1>2, <2>1, ConcatBegins DEF DigitCodes
  <2>3. more[n + 1] = c
    BY <1>1, <1>2, <2>1, ConcatProperties DEF DigitCodes
  <2> QED BY <1>1, <2>2, <2>3 DEF Begins
<1>4. PICK f : Values(f, digits, n) /\ DigitsValue(digits) = f[n]
  BY <1>1, DigitsValueIs
<1>5. PICK h : Values(h, more, n + 1) /\ DigitsValue(more) = h[n + 1]
  BY <1>3, DigitsValueIs
<1>6. Values(h, more, n)
  BY <1>5 DEF Values
<1>7. f[n] = h[n]
  BY <1>3, <1>4, <1>6, SameValues
<1>8. h[n + 1] = 10 * h[n] + c - 48
  <2>1. h[n + 1] = DigitsAt(h, more, n + 1)
    BY <1>5 DEF Values
  <2>2. n + 1 # 0 /\ (n + 1) - 1 = n
    OBVIOUS
  <2> QED BY <1>3, <2>1, <2>2 DEF DigitsAt
<1> QED BY <1>2, <1>3, <1>4, <1>5, <1>7, <1>8

LEMMA DigitsValueOne ==
  ASSUME NEW c \in 48..57
  PROVE  <<c>> \in DigitCodes /\ DigitsValue(<<c>>) = c - 48
<1>1. <<>> \in DigitCodes /\ Len(<<>>) = 0 /\ <<c>> \in DigitCodes /\ <<>> \o <<c>> = <<c>>
  BY ConcatEmptySeq DEF DigitCodes
<1>2. DigitsValue(<<>>) = 0
  <2>1. PICK f : Values(f, <<>>, 0) /\ DigitsValue(<<>>) = f[0]
    BY <1>1, DigitsValueIs
  <2> QED BY <2>1 DEF Values, DigitsAt
<1>3. DigitsValue(<<c>>) = 10 * DigitsValue(<<>>) + c - 48
  <2>1. DigitsValue(<<>> \o <<c>>) = 10 * DigitsValue(<<>>) + c - 48
    BY <1>1, DigitsValueMore
  <2> QED BY <1>1, <2>1
<1> QED BY <1>1, <1>2, <1>3

\* The recursive function of Shortened.
ShortAt(short, n) ==
  IF n = 0 \/ n % 10 # 0 THEN <<n, 0>> ELSE <<short[n \div 10][1], short[n \div 10][2] + 1>>
IsShort(short, m) == short = [n \in 0..m |-> ShortAt(short, n)]

LEMMA ShortAtSame ==
  ASSUME NEW m \in Nat, NEW k \in 0..m, NEW f, NEW h, \A j \in 0..m : j < k => f[j] = h[j]
  PROVE  ShortAt(f, k) = ShortAt(h, k)
<1>1. CASE k = 0 \/ k % 10 # 0
  BY <1>1 DEF ShortAt
<1>2. CASE ~(k = 0 \/ k % 10 # 0)
  <2>1. k \div 10 \in 0..m /\ k \div 10 < k
    BY <1>2, Tens
  <2>2. f[k \div 10] = h[k \div 10]
    BY <2>1
  <2> QED BY <1>2, <2>2 DEF ShortAt
<1> QED BY <1>1, <1>2

LEMMA ShortExists ==
  ASSUME NEW m \in Nat
  PROVE  IsShort(CHOOSE f : IsShort(f, m), m)
<1> DEFINE Known(f, k) == \A i \in 0..m : i < k => f[i] = ShortAt(f, i)
           T == {k \in Nat : \E f : Known(f, k)}
<1>2. 0 \in T
  OBVIOUS
<1>3. ASSUME NEW k \in T PROVE k + 1 \in T
  <2>1. PICK f : Known(f, k)
    OBVIOUS
  <2> DEFINE h == [i \in 0..m |-> ShortAt(f, i)]
  <2>2. ASSUME NEW i \in 0..m, i < k + 1 PROVE h[i] = ShortAt(h, i)
    <3>1. \A j \in 0..m : j < i => f[j] = h[j]
      BY <2>1, <2>2
    <3>2. ShortAt(f, i) = ShortAt(h, i)
      <4> HIDE DEF h
      <4> QED BY <3>1, ShortAtSame
    <3> QED BY <3>2
  <2>3. Known(h, k + 1) /\ k + 1 \in Nat
    <3> HIDE DEF h
    <3> QED BY <2>2
  <2> HIDE DEF h
  <2> QED BY <2>3
<1>4. T = Nat
  <2> HIDE DEF T
  <2>1. T \in SUBSET Nat
    BY DEF T
  <2> QED BY <1>2, <1>3, <2>1, Induction
<1>5. PICK f : Known(f, m + 1)
  <2>1. m + 1 \in T
    <3> HIDE DEF T
    <3> QED BY <1>4
  <2> QED BY <2>1, Zenon
<1> DEFINE h == [i \in 0..m |-> ShortAt(f, i)]
<1>6. \A i \in 0..m : f[i] = h[i]
  BY <1>5
<1>7. h = [i \in 0..m |-> ShortAt(h, i)]
  <2>1. \A i \in 0..m : ShortAt(f, i) = ShortAt(h, i)
    <3> HIDE DEF h
    <3> QED BY <1>6, ShortAtSame
  <2> QED BY <2>1
<1> HIDE DEF h
<1> QED BY <1>7 DEF IsShort

\* No zero at its end, but for 0 itself.
IsShortened(s) == s = <<s[1], s[2]>> /\ s[1] \in Nat /\ s[2] \in Nat /\ (s[1] # 0 => s[1] % 10 # 0)

LEMMA ShortenedIs ==
  ASSUME NEW m \in Nat
  PROVE  /\ IsShortened(Shortened(m))
         /\ m = 0 <=> Shortened(m)[1] = 0
<1>1. PICK short : short = CHOOSE f : IsShort(f, m)
  OBVIOUS
<1>2. \A k \in 0..m : short[k] = ShortAt(short, k)
  <2>1. IsShort(short, m)
    BY <1>1, ShortExists
  <2> QED BY <2>1 DEF IsShort
<1>3. Shortened(m) = short[m]
  BY <1>1 DEF Shortened, IsShort, ShortAt
<1> DEFINE T == {k \in 0..m : IsShortened(short[k]) /\ (k = 0 <=> short[k][1] = 0)}
<1>4. ASSUME NEW i \in 0..m, \A j \in 0..m : j < i => j \in T PROVE i \in T
  <2>1. CASE i = 0 \/ i % 10 # 0
    <3>1. short[i] = <<i, 0>>
      BY <1>2, <2>1 DEF ShortAt
    <3> QED BY <2>1, <3>1 DEF IsShortened
  <2>2. CASE ~(i = 0 \/ i % 10 # 0)
    <3>1. PICK j \in Nat : j = i \div 10 /\ j < i /\ j # 0
      BY <2>2, Tens
    <3>2. short[i] = <<short[j][1], short[j][2] + 1>>
      BY <1>2, <2>2, <3>1 DEF ShortAt
    <3>3. j \in T
      BY <1>4, <3>1
    <3>4. PICK a \in Nat, b \in Nat : a = short[j][1] /\ b = short[j][2] /\ (a # 0 => a % 10 # 0) /\ a # 0
      BY <3>1, <3>3 DEF IsShortened
    <3>5. short[i] = <<a, b + 1>>
      BY <3>2, <3>4
    <3> QED BY <2>2, <3>4, <3>5 DEF IsShortened
  <2> QED BY <2>1, <2>2
<1>5. \A k \in 0..m : k \in T
  <2> HIDE DEF T
  <2> QED BY <1>4, Upwards
<1>6. m \in T
  BY <1>5
<1> QED BY <1>3, <1>6

LEMMA ShortenedOnce ==
  ASSUME NEW a \in Nat, a % 10 # 0
  PROVE  Shortened(10 * a) = <<a, 1>>
<1>1. PICK m \in Nat : m = 10 * a
  OBVIOUS
<1>2. PICK short : short = CHOOSE f : IsShort(f, m)
  OBVIOUS
<1>3. \A k \in 0..m : short[k] = ShortAt(short, k)
  <2>1. IsShort(short, m)
    BY <1>2, ShortExists
  <2> QED BY <2>1 DEF IsShort
<1>4. Shortened(m) = short[m]
  BY <1>2 DEF Shortened, IsShort, ShortAt
<1>5. a # 0 /\ a \in 0..m /\ m \in 0..m /\ m # 0 /\ m % 10 = 0 /\ m \div 10 = a
  <2>1. m % 10 = 0 /\ m \div 10 = a
    BY <1>1, Tens
  <2>2. a # 0
    BY SMT
  <2> QED BY <1>1, <2>1, <2>2
<1>6. short[a] = <<a, 0>>
  <2>1. short[a] = ShortAt(short, a)
    BY <1>3, <1>5
  <2> QED BY <2>1 DEF ShortAt
<1>7. short[m] = <<short[a][1], short[a][2] + 1>>
  <2>1. short[m] = ShortAt(short, m)
    BY <1>3, <1>5
  <2> QED BY <1>5, <2>1 DEF ShortAt
<1>8. short[m] = <<a, 0 + 1>>
  BY <1>6, <1>7
<1> QED BY <1>1, <1>4, <1>8

LEMMA ShortenedZero == Shortened(0)[1] = 0
BY ShortenedIs

\* The recursive function of Decimal.
DecimalAt(digits, m) ==
  IF m < 10 THEN <<48 + m>> ELSE digits[m \div 10] \o <<48 + (m % 10)>>
IsDecimal(digits, n) == digits = [m \in 0..n |-> DecimalAt(digits, m)]

LEMMA DecimalAtSame ==
  ASSUME NEW m \in Nat, NEW k \in 0..m, NEW f, NEW h, \A j \in 0..m : j < k => f[j] = h[j]
  PROVE  DecimalAt(f, k) = DecimalAt(h, k)
<1>1. CASE k < 10
  BY <1>1 DEF DecimalAt
<1>2. CASE ~(k < 10)
  <2>1. k \div 10 \in 0..m /\ k \div 10 < k
    BY <1>2, Tens
  <2>2. f[k \div 10] = h[k \div 10]
    BY <2>1
  <2> QED BY <1>2, <2>2 DEF DecimalAt
<1> QED BY <1>1, <1>2

LEMMA DecimalExists ==
  ASSUME NEW m \in Nat
  PROVE  IsDecimal(CHOOSE f : IsDecimal(f, m), m)
<1> DEFINE Known(f, k) == \A i \in 0..m : i < k => f[i] = DecimalAt(f, i)
           T == {k \in Nat : \E f : Known(f, k)}
<1>2. 0 \in T
  OBVIOUS
<1>3. ASSUME NEW k \in T PROVE k + 1 \in T
  <2>1. PICK f : Known(f, k)
    OBVIOUS
  <2> DEFINE h == [i \in 0..m |-> DecimalAt(f, i)]
  <2>2. ASSUME NEW i \in 0..m, i < k + 1 PROVE h[i] = DecimalAt(h, i)
    <3>1. \A j \in 0..m : j < i => f[j] = h[j]
      BY <2>1, <2>2
    <3>2. DecimalAt(f, i) = DecimalAt(h, i)
      <4> HIDE DEF h
      <4> QED BY <3>1, DecimalAtSame
    <3> QED BY <3>2
  <2>3. Known(h, k + 1) /\ k + 1 \in Nat
    <3> HIDE DEF h
    <3> QED BY <2>2
  <2> HIDE DEF h
  <2> QED BY <2>3
<1>4. T = Nat
  <2> HIDE DEF T
  <2>1. T \in SUBSET Nat
    BY DEF T
  <2> QED BY <1>2, <1>3, <2>1, Induction
<1>5. PICK f : Known(f, m + 1)
  <2>1. m + 1 \in T
    <3> HIDE DEF T
    <3> QED BY <1>4
  <2> QED BY <2>1, Zenon
<1> DEFINE h == [i \in 0..m |-> DecimalAt(f, i)]
<1>6. \A i \in 0..m : f[i] = h[i]
  BY <1>5
<1>7. h = [i \in 0..m |-> DecimalAt(h, i)]
  <2>1. \A i \in 0..m : DecimalAt(f, i) = DecimalAt(h, i)
    <3> HIDE DEF h
    <3> QED BY <1>6, DecimalAtSame
  <2> QED BY <2>1
<1> HIDE DEF h
<1> QED BY <1>7 DEF IsDecimal

\* Digits, at least one, with the value.
Spells(digits, m) == digits \in DigitCodes /\ Len(digits) > 0 /\ DigitsValue(digits) = m

LEMMA DecimalIs ==
  ASSUME NEW m \in Nat
  PROVE  Spells(Decimal(m), m)
<1>1. PICK digits : digits = CHOOSE f : IsDecimal(f, m)
  OBVIOUS
<1>2. \A k \in 0..m : digits[k] = DecimalAt(digits, k)
  <2>1. IsDecimal(digits, m)
    BY <1>1, DecimalExists
  <2> QED BY <2>1 DEF IsDecimal
<1>3. Decimal(m) = digits[m]
  BY <1>1 DEF Decimal, IsDecimal, DecimalAt
<1> DEFINE T == {k \in 0..m : Spells(digits[k], k)}
<1>4. ASSUME NEW i \in 0..m, \A j \in 0..m : j < i => j \in T PROVE i \in T
  <2>1. CASE i < 10
    <3>1. digits[i] = <<48 + i>>
      BY <1>2, <2>1 DEF DecimalAt
    <3>2. PICK c \in 48..57 : c = 48 + i
      BY <2>1
    <3>3. <<c>> \in DigitCodes /\ DigitsValue(<<c>>) = i /\ Len(<<c>>) > 0
      BY <3>2, DigitsValueOne
    <3> QED BY <3>1, <3>2, <3>3 DEF Spells
  <2>2. CASE ~(i < 10)
    <3>1. PICK j \in Nat, c \in 48..57 : j = i \div 10 /\ j < i /\ c = 48 + (i % 10) /\ i = 10 * j + c - 48
      <4>1. i \div 10 \in Nat /\ i % 10 \in 0..9 /\ i = 10 * (i \div 10) + (i % 10) /\ i \div 10 < i
        BY <2>2, Tens
      <4>2. PICK j \in Nat, r \in 0..9 : j = i \div 10 /\ r = i % 10 /\ i = 10 * j + r /\ j < i
        BY <4>1
      <4>3. 48 + r \in 48..57 /\ i = 10 * j + (48 + r) - 48
        BY <4>2
      <4> QED BY <4>2, <4>3
    <3>2. digits[i] = digits[j] \o <<c>>
      BY <1>2, <2>2, <3>1 DEF DecimalAt
    <3>3. Spells(digits[j], j)
      BY <1>4, <3>1
    <3>4. PICK less \in DigitCodes : less = digits[j] /\ DigitsValue(less) = j
      BY <3>3 DEF Spells
    <3>5. less \o <<c>> \in DigitCodes /\ DigitsValue(less \o <<c>>) = i
      <4>1. less \o <<c>> \in DigitCodes /\ DigitsValue(less \o <<c>>) = 10 * DigitsValue(less) + c - 48
        BY DigitsValueMore
      <4> QED BY <3>1, <3>4, <4>1
    <3>6. Len(less \o <<c>>) > 0
      <4>1. <<c>> \in DigitCodes /\ Len(<<c>>) = 1
        BY DEF DigitCodes
      <4>2. Len(less \o <<c>>) = Len(less) + 1 /\ Len(less) \in Nat
        BY <4>1, ConcatProperties DEF DigitCodes
      <4> QED BY <4>2
    <3> QED BY <3>2, <3>4, <3>5, <3>6 DEF Spells
  <2> QED BY <2>1, <2>2
<1>5. \A k \in 0..m : k \in T
  <2> HIDE DEF T
  <2> QED BY <1>4, Upwards
<1> QED BY <1>3, <1>5

\* The numbers there are: in GNU Prolog integers have a greatest and a least one,
\* and the first part of a float does not end on a zero.
Normal(m, k) == \E a \in Nat : m \in {a, -a} /\ (IF a = 0 THEN k = 0 ELSE a % 10 # 0)
InRange(p, m) == \E a \in Nat : m \in {a, -a} /\ (p = "gnu" => a <= JsIntMax)
Ints(p) == {n \in {"int"} \X Int : InRange(p, n[2])}
Floats == {n \in {"float"} \X Int \X Int : Normal(n[2], n[3])}
NumbersIn(p) == Ints(p) \cup Floats

\* The atoms there are: in GNU Prolog '[]' is none.
AtomsIn(p) == {v \in {"atom"} \X Json : p = "gnu" => v[2] # <<91, 93>>}
LeavesIn(p) == AtomsIn(p) \cup NumbersIn(p)

LEMMA ListCodes ==
  ASSUME NEW w, w = <<91, 93>>
  PROVE  w[1] = 91 /\ Len(w) = 2
OBVIOUS

LEMMA AtomIn ==
  ASSUME NEW p, NEW s \in Json, p = "gnu" => s # <<91, 93>>
  PROVE  <<"atom", s>> \in AtomsIn(p)
BY DEF AtomsIn

LEMMA AtomOfIs ==
  ASSUME NEW p, NEW s \in Json
  PROVE  AtomOf(p, s) \in AtomsIn(p) \cup {<<"list", <<>>>>}
BY AtomIn DEF AtomOf

\* A piece of a text.
IsPiece(w, t, i, j) ==
  w \in Json /\ Len(w) = j - i + 1 /\ \A k \in 1..(j - i + 1) : w[k] = t[i + k - 1]

LEMMA PieceIs ==
  ASSUME NEW t \in Json, NEW i \in Nat \ {0}, NEW j \in Nat, j <= Len(t)
  PROVE  /\ SubSeq(t, i, j) \in Json
         /\ i <= j => IsPiece(SubSeq(t, i, j), t, i, j)
         /\ j < i => SubSeq(t, i, j) = <<>>
<1>1. PICK n \in Nat : n = Len(t) /\ \A k \in 1..n : t[k] \in Nat
  BY TextIs
<1>2. CASE i <= j
  <2>1. i \in 1..(Len(t) + 1) /\ j \in (i - 1)..Len(t)
    BY <1>1, <1>2
  <2> QED BY <1>2, <2>1, SubSeqProperties DEF Json, IsPiece
<1>3. CASE j < i
  <2>1. SubSeq(t, i, j) = <<>>
    BY <1>3, SubSeqEmpty DEF Json
  <2>2. <<>> \in Json
    BY DEF Json
  <2> QED BY <1>3, <2>1, <2>2
<1> QED BY <1>2, <1>3

\* A run of digits.
LEMMA DigitsEndIs ==
  ASSUME NEW t \in Json, NEW i \in Places(t)
  PROVE  /\ DigitsEnd(t, i) \in Places(t) /\ DigitsEnd(t, i) >= i
         /\ SubSeq(t, i, DigitsEnd(t, i) - 1) \in DigitCodes
<1>1. PICK n \in Nat : n = Len(t) /\ Places(t) = 1..(n + 1)
  BY TextIs DEF Places
<1>2. 48..57 \in SUBSET Nat
  OBVIOUS
<1>3. PICK e : e = DigitsEnd(t, i) /\ IsPast(t, i, 48..57, e)
  BY <1>2, PastIs DEF DigitsEnd
<1>4. e \in 1..(n + 1) /\ e >= i /\ \A j \in i..(e - 1) : t[j] \in 48..57
  BY <1>1, <1>3 DEF IsPast
<1>5. SubSeq(t, i, e - 1) \in DigitCodes
  <2>1. i \in Int /\ e - 1 \in Int
    BY <1>1, <1>4
  <2> QED BY <1>4, <2>1, SubSeqProperties DEF DigitCodes
<1> QED BY <1>1, <1>3, <1>4, <1>5

LEMMA FloatIs ==
  ASSUME NEW m \in Nat, NEW k \in Int
  PROVE  /\ Float(m, k) = <<"float", Float(m, k)[2], Float(m, k)[3]>>
         /\ Float(m, k)[2] \in Nat /\ Float(m, k)[3] \in Int
         /\ Normal(Float(m, k)[2], Float(m, k)[3])
<1>1. PICK a \in Nat, b \in Nat : a = Shortened(m)[1] /\ b = Shortened(m)[2]
                                /\ (a # 0 => a % 10 # 0) /\ (m = 0 <=> a = 0)
  BY ShortenedIs DEF IsShortened
<1>2. PICK e \in Int : e = IF m = 0 THEN 0 ELSE k + b
  OBVIOUS
<1>3. Float(m, k) = <<"float", a, e>>
  BY <1>1, <1>2 DEF Float
<1>4. Normal(a, e)
  BY <1>1, <1>2 DEF Normal
<1> QED BY <1>3, <1>4

LEMMA NumberCodesIs ==
  ASSUME NEW p, NEW neg \in BOOLEAN, NEW m \in Nat, NEW k \in Int, NEW int, NEW frac, NEW exp,
         neg = (Head(int) = 45), m = DigitsValue((IF neg THEN Tail(int) ELSE int) \o frac),
         k = Signed(exp) - Len(frac)
  PROVE  NumberCodes(p, int, frac, exp) \in NumbersIn(p) \cup {<<"error">>}
<1> DEFINE f == Float(m, k)
<1>1. PICK a \in Nat, e \in Int : f = <<"float", a, e>> /\ Normal(a, e)
  BY FloatIs
<1>2. NumberCodes(p, int, frac, exp) =
        IF p = "gnu" /\ frac = <<>> /\ (exp # <<>> \/ m > JsIntMax) THEN <<"error">>
        ELSE IF frac = <<>> /\ exp = <<>> THEN <<"int", IF neg THEN -m ELSE m>>
        ELSE <<"float", IF neg THEN -f[2] ELSE f[2], f[3]>>
  BY DEF NumberCodes
<1> HIDE DEF f
<1>3. CASE p = "gnu" /\ frac = <<>> /\ (exp # <<>> \/ m > JsIntMax)
  BY <1>2, <1>3
<1>4. CASE ~(p = "gnu" /\ frac = <<>> /\ (exp # <<>> \/ m > JsIntMax)) /\ frac = <<>> /\ exp = <<>>
  <2>1. PICK n \in Int : n = IF neg THEN -m ELSE m
    OBVIOUS
  <2>2. NumberCodes(p, int, frac, exp) = <<"int", n>>
    BY <1>2, <1>4, <2>1
  <2>3. InRange(p, n)
    <3>1. n \in {m, -m}
      BY <2>1
    <3>2. JsIntMax \in Nat
      BY JsAssumption
    <3>3. p = "gnu" => m <= JsIntMax
      BY <1>4, <3>2
    <3> QED BY <3>1, <3>3 DEF InRange
  <2>4. <<"int", n>> \in Ints(p)
    BY <2>3 DEF Ints
  <2> QED BY <2>2, <2>4 DEF NumbersIn
<1>5. CASE ~(p = "gnu" /\ frac = <<>> /\ (exp # <<>> \/ m > JsIntMax)) /\ ~(frac = <<>> /\ exp = <<>>)
  <2>1. PICK n \in Int : n = IF neg THEN -a ELSE a
    OBVIOUS
  <2>2. NumberCodes(p, int, frac, exp) = <<"float", n, e>>
    <3>1. f[2] = a /\ f[3] = e
      BY <1>1
    <3> QED BY <1>2, <1>5, <2>1, <3>1
  <2>3. Normal(n, e)
    BY <1>1, <2>1 DEF Normal
  <2>4. <<"float", n, e>> \in Floats
    BY <2>3 DEF Floats
  <2> QED BY <2>2, <2>4 DEF NumbersIn
<1> QED BY <1>3, <1>4, <1>5

\* Digits behind a sign or none.
IsSigned(w, signs) ==
  /\ w \in Json /\ Len(w) > 0
  /\ IF Head(w) \in signs THEN Tail(w) \in DigitCodes ELSE w \in DigitCodes

LEMMA UnsignedPlace ==
  ASSUME NEW t \in Json, NEW i \in Places(t), NEW signs \in SUBSET {43, 45}
  PROVE  Unsigned(t, i, signs) \in Places(t) /\ Unsigned(t, i, signs) \in {i, i + 1}
<1>1. PICK n \in Nat : n = Len(t) /\ Places(t) = 1..(n + 1)
  BY TextIs DEF Places
<1>2. CASE CodeAt(t, i) \in signs
  <2>1. CodeAt(t, i) # -1
    BY <1>2
  <2>2. i <= n
    BY <1>1, <2>1, CodeIs
  <2> QED BY <1>1, <1>2, <2>2 DEF Unsigned
<1>3. CASE CodeAt(t, i) \notin signs
  BY <1>3 DEF Unsigned
<1> QED BY <1>2, <1>3

LEMMA SignedPiece ==
  ASSUME NEW t \in Json, NEW i \in Places(t), NEW signs \in SUBSET {43, 45}, NEW d, NEW e,
         d = Unsigned(t, i, signs), e = DigitsEnd(t, d), e # d
  PROVE  /\ e \in Places(t) /\ e > i
         /\ IsSigned(SubSeq(t, i, e - 1), signs)
<1>1. PICK n \in Nat : n = Len(t) /\ Places(t) = 1..(n + 1)
  BY TextIs DEF Places
<1>2. d \in Places(t) /\ d \in {i, i + 1}
  BY UnsignedPlace
<1>3. e \in Places(t) /\ e >= d /\ SubSeq(t, d, e - 1) \in DigitCodes
  BY <1>2, DigitsEndIs
<1>4. PICK z \in Nat : z = e - 1 /\ i \in Nat \ {0} /\ z <= n /\ d <= z /\ i <= z /\ e > i /\ d \in Nat \ {0}
  BY <1>1, <1>2, <1>3
<1>5. PICK w : w = SubSeq(t, i, z)
  OBVIOUS
<1>9. IsPiece(w, t, i, z)
  BY <1>1, <1>4, <1>5, PieceIs
<1>10. w \in Json /\ Len(w) = z - i + 1 /\ \A k \in 1..(z - i + 1) : w[k] = t[i + k - 1]
  BY <1>9 DEF IsPiece
<1>6. w[1] = t[i] /\ CodeAt(t, i) = t[i] /\ Len(w) > 0 /\ w # <<>> /\ Head(w) = w[1]
  <2>1. 1 \in 1..(z - i + 1) /\ i + 1 - 1 = i /\ i <= n /\ Len(w) > 0
    BY <1>1, <1>4, <1>10
  <2>2. w[1] = t[i]
    BY <1>10, <2>1
  <2>3. w # <<>>
    BY <2>1
  <2>4. Head(w) = w[1]
    BY <1>10, <2>3 DEF Json
  <2> QED BY <1>1, <1>4, <2>1, <2>2, <2>3, <2>4, CodeIs
<1>7. CASE CodeAt(t, i) \in signs
  <2>1. d = i + 1 /\ Head(w) \in signs
    BY <1>6, <1>7 DEF Unsigned
  <2>2. PICK u : u = Tail(w)
    OBVIOUS
  <2>7. u \in Json /\ Len(u) = Len(w) - 1 /\ \A k \in 1..Len(u) : u[k] = w[k + 1]
    BY <1>10, <1>6, <2>2, HeadTailProperties DEF Json
  <2>8. Len(u) = z - d + 1
    <3>1. Len(w) = z - i + 1 /\ Len(u) = Len(w) - 1 /\ i \in Nat /\ d = i + 1
      BY <1>4, <1>10, <2>1, <2>7
    <3> QED BY <3>1
  <2>3. PICK x : x = SubSeq(t, d, z)
    OBVIOUS
  <2>9. IsPiece(x, t, d, z)
    BY <1>1, <1>4, <2>3, PieceIs
  <2>10. x \in Json /\ Len(x) = z - d + 1 /\ \A k \in 1..(z - d + 1) : x[k] = t[d + k - 1]
    BY <2>9 DEF IsPiece
  <2>4. ASSUME NEW k \in 1..(z - d + 1) PROVE u[k] = x[k]
    <3>1. k + 1 \in 1..(z - i + 1) /\ i + (k + 1) - 1 = d + k - 1
      BY <1>4, <2>1
    <3>2. w[k + 1] = t[i + (k + 1) - 1]
      BY <1>10, <3>1
    <3> QED BY <2>7, <2>8, <2>10, <3>1, <3>2
  <2>5. u = x
    BY <2>4, <2>7, <2>8, <2>10, SeqEqual DEF Json
  <2>6. Tail(w) \in DigitCodes
    BY <1>3, <1>4, <2>2, <2>3, <2>5
  <2> QED BY <1>3, <1>4, <1>5, <1>6, <1>10, <2>1, <2>6 DEF IsSigned
<1>8. CASE CodeAt(t, i) \notin signs
  <2>1. d = i /\ Head(w) \notin signs /\ w \in DigitCodes
    BY <1>3, <1>4, <1>5, <1>6, <1>10, <1>8 DEF Unsigned
  <2> QED BY <1>3, <1>4, <1>5, <1>6, <1>10, <2>1 DEF IsSigned
<1> QED BY <1>7, <1>8

LEMMA DigitHead ==
  ASSUME NEW w \in DigitCodes, Len(w) > 0
  PROVE  Head(w) \in 48..57 /\ w # <<>>
<1>1. w # <<>>
  OBVIOUS
<1> QED BY <1>1, HeadTailProperties DEF DigitCodes

LEMMA SignedIs ==
  ASSUME NEW w, w = <<>> \/ IsSigned(w, {43, 45})
  PROVE  Signed(w) \in Int
<1>1. CASE w = <<>>
  BY <1>1 DEF Signed
<1>2. CASE IsSigned(w, {43, 45})
  <2>0. w # <<>>
    BY <1>2 DEF IsSigned
  <2>1. CASE Head(w) \in {43, 45}
    <3>1. DigitsValue(Tail(w)) \in Nat
      BY <1>2, <2>1, DigitsValueNat DEF IsSigned
    <3> QED BY <2>0, <2>1, <3>1 DEF Signed
  <2>2. CASE Head(w) \notin {43, 45}
    <3>1. DigitsValue(w) \in Nat
      BY <1>2, <2>2, DigitsValueNat DEF IsSigned
    <3> QED BY <2>0, <2>2, <3>1 DEF Signed
  <2> QED BY <2>1, <2>2
<1> QED BY <1>1, <1>2

LEMMA NumberCodesSigned ==
  ASSUME NEW p, NEW int, IsSigned(int, {45}), NEW frac \in DigitCodes,
         NEW exp, exp = <<>> \/ IsSigned(exp, {43, 45})
  PROVE  NumberCodes(p, int, frac, exp) \in NumbersIn(p) \cup {<<"error">>}
<1>1. PICK neg \in BOOLEAN : neg = (Head(int) = 45)
  OBVIOUS
<1>2. (IF neg THEN Tail(int) ELSE int) \in DigitCodes
  BY <1>1 DEF IsSigned
<1>3. (IF neg THEN Tail(int) ELSE int) \o frac \in DigitCodes
  BY <1>2, ConcatProperties DEF DigitCodes
<1>4. PICK m \in Nat : m = DigitsValue((IF neg THEN Tail(int) ELSE int) \o frac)
  BY <1>3, DigitsValueNat
<1>5. PICK k \in Int : k = Signed(exp) - Len(frac)
  <2>1. Signed(exp) \in Int /\ Len(frac) \in Nat
    BY SignedIs DEF DigitCodes
  <2> QED BY <2>1
<1> QED BY <1>1, <1>4, <1>5, NumberCodesIs

\* What starts otherwise is not '[]'.
LEMMA PieceStarts ==
  ASSUME NEW t \in Json, NEW i \in Nat \ {0}, NEW j \in Nat, j <= Len(t), i <= j, t[i] # 91
  PROVE  SubSeq(t, i, j) # <<91, 93>>
<1>1. SubSeq(t, i, j)[1] = t[i]
  <2>1. 1 \in 1..(j - i + 1) /\ i + 1 - 1 = i
    OBVIOUS
  <2> QED BY <2>1, PieceIs DEF IsPiece
<1>2. PICK w : w = SubSeq(t, i, j)
  OBVIOUS
<1>3. w[1] # 91
  BY <1>1, <1>2
<1>4. w # <<91, 93>>
  BY <1>3, ListCodes
<1> QED BY <1>2, <1>4

LEMMA SignedStarts ==
  ASSUME NEW t \in Json, NEW i \in Nat \ {0}, NEW j \in Nat, j <= Len(t), i <= j,
         IsSigned(SubSeq(t, i, j), {45})
  PROVE  t[i] # 91
<1>1. PICK w : w = SubSeq(t, i, j)
  OBVIOUS
<1>2. w[1] = t[i]
  <2>1. 1 \in 1..(j - i + 1) /\ i + 1 - 1 = i
    OBVIOUS
  <2> QED BY <1>1, <2>1, PieceIs DEF IsPiece
<1>3. w \in Json /\ Len(w) > 0 /\ (w[1] = 45 \/ w \in DigitCodes)
  BY <1>1 DEF IsSigned, Json
<1>4. CASE w \in DigitCodes
  <2>1. w[1] \in 48..57
    BY <1>3, <1>4 DEF DigitCodes
  <2> QED BY <1>2, <2>1
<1> QED BY <1>2, <1>3, <1>4

LEMMA JsNumberIs ==
  ASSUME NEW t \in Json, NEW i \in Places(t), NEW p, NEW v \in JsNumber(p, t, i)
  PROVE  IsRead(t, i, LeavesIn(p), v)
<1>1. PICK n \in Nat : n = Len(t) /\ Places(t) = 1..(n + 1)
  BY TextIs DEF Places
<1> DEFINE d == IF CodeAt(t, i) = 45 THEN i + 1 ELSE i
           e == DigitsEnd(t, d)
           point == CodeAt(t, e) = 46
           f == IF point THEN DigitsEnd(t, e + 1) ELSE e
           power == CodeAt(t, f) \in {101, 69}
           s == IF CodeAt(t, f + 1) \in {43, 45} THEN f + 2 ELSE f + 1
           g == IF power THEN DigitsEnd(t, s) ELSE f
           int == SubSeq(t, i, e - 1)
           frac == IF point THEN SubSeq(t, e + 1, f - 1) ELSE <<>>
           exp == IF power THEN SubSeq(t, f + 1, g - 1) ELSE <<>>
           m == NumberCodes(p, int, IsoFrac(frac, exp), exp)
<1>2. /\ ~(e = d \/ (point /\ f = e + 1) \/ (power /\ g = s))
      /\ v = <<IF m = <<"error">> THEN <<"atom", SubSeq(t, i, g - 1)>> ELSE m, g>>
  BY DEF JsNumber
<1>3. d = Unsigned(t, i, {45})
  BY DEF Unsigned
<1>4. e = DigitsEnd(t, d) /\ e # d
  BY <1>2
<1> HIDE DEF d, e
<1>5. e \in Places(t) /\ e > i /\ IsSigned(int, {45})
  <2>1. {45} \in SUBSET {43, 45}
    OBVIOUS
  <2> QED BY <1>3, <1>4, <2>1, SignedPiece
<1>6. f \in Places(t) /\ f >= e /\ frac \in DigitCodes
  <2>1. CASE point
    <3>1. CodeAt(t, e) # -1 /\ e \in Nat \ {0}
      BY <1>1, <1>5, <2>1
    <3>2. e + 1 \in Places(t)
      BY <1>1, <1>5, <3>1, CodeIs
    <3>3. /\ f \in Places(t) /\ f >= e + 1 /\ frac \in DigitCodes
      BY <2>1, <3>2, DigitsEndIs
    <3> HIDE DEF f, frac
    <3> QED BY <1>1, <1>5, <3>3
  <2>2. CASE ~point
    <3>1. f = e /\ frac = <<>>
      BY <2>2
    <3>2. <<>> \in DigitCodes
      BY DEF DigitCodes
    <3> HIDE DEF f, frac
    <3> QED BY <1>1, <1>5, <3>1, <3>2
  <2> QED BY <2>1, <2>2
<1>14. t[i] # 91
  <2>1. i \in Nat \ {0} /\ e - 1 \in Nat /\ e - 1 <= Len(t) /\ i <= e - 1
    BY <1>1, <1>5
  <2> QED BY <1>5, <2>1, SignedStarts
<1> HIDE DEF int, point, f, frac
<1>7. g \in Places(t) /\ g >= f /\ (exp = <<>> \/ IsSigned(exp, {43, 45}))
  <2>1. CASE power
    <3>1. CodeAt(t, f) # -1 /\ f \in Nat \ {0}
      BY <1>1, <1>6, <2>1
    <3>2. f + 1 \in Places(t)
      BY <1>1, <1>6, <3>1, CodeIs
    <3>3. s = Unsigned(t, f + 1, {43, 45})
      <4>1. (f + 1) + 1 = f + 2
        BY <3>1
      <4> QED BY <4>1 DEF Unsigned
    <3>4. g = DigitsEnd(t, s) /\ g # s
      BY <1>2, <2>1
    <3>5. {43, 45} \in SUBSET {43, 45} /\ exp = SubSeq(t, f + 1, g - 1)
      BY <2>1
    <3> HIDE DEF s, g, exp
    <3>6. g \in Places(t) /\ g > f + 1 /\ IsSigned(exp, {43, 45})
      BY <3>2, <3>3, <3>4, <3>5, SignedPiece
    <3> QED BY <1>1, <1>6, <3>6
  <2>2. CASE ~power
    <3>1. g = f /\ exp = <<>>
      BY <2>2
    <3> HIDE DEF g, exp
    <3> QED BY <1>1, <1>6, <3>1
  <2> QED BY <2>1, <2>2
<1> HIDE DEF power, s, g, exp
<1>8. IsoFrac(frac, exp) \in DigitCodes
  <2>1. <<48>> \in DigitCodes
    BY DEF DigitCodes
  <2> QED BY <1>6, <2>1 DEF IsoFrac
<1>9. m \in NumbersIn(p) \cup {<<"error">>}
  BY <1>5, <1>7, <1>8, NumberCodesSigned
<1>10. SubSeq(t, i, g - 1) \in Json
  <2>1. i \in Nat \ {0} /\ g - 1 \in Nat /\ g - 1 <= Len(t)
    BY <1>1, <1>7
  <2> QED BY <2>1, PieceIs
<1>11. g > i
  BY <1>1, <1>5, <1>6, <1>7
<1> HIDE DEF m
<1>12. CASE m = <<"error">>
  <2>1. v = <<<<"atom", SubSeq(t, i, g - 1)>>, g>>
    BY <1>2, <1>12
  <2>2. SubSeq(t, i, g - 1) # <<91, 93>>
    <3>1. i \in Nat \ {0} /\ g - 1 \in Nat /\ g - 1 <= Len(t) /\ i <= g - 1
      BY <1>1, <1>7, <1>11
    <3> QED BY <1>14, <3>1, PieceStarts
  <2>3. <<"atom", SubSeq(t, i, g - 1)>> \in LeavesIn(p)
    BY <1>10, <2>2, AtomIn DEF LeavesIn
  <2> QED BY <1>7, <1>11, <2>1, <2>3 DEF IsRead
<1>13. CASE m # <<"error">>
  <2>1. v = <<m, g>> /\ m \in LeavesIn(p)
    BY <1>2, <1>9, <1>13 DEF LeavesIn
  <2> QED BY <1>7, <1>11, <2>1 DEF IsRead
<1> QED BY <1>12, <1>13

(***************************************************************************)
(* A text that stands in another one                                       *)
(***************************************************************************)
Stands(t, i, s) == i + Len(s) <= Len(t) + 1 /\ \A k \in 1..Len(s) : t[i + k - 1] = s[k]

CodesAt(t, i, s) == \A k \in 1..Len(s) : i + k - 1 \in Places(t) /\ CodeAt(t, i + k - 1) = s[k]

LEMMA StandsCode ==
  ASSUME NEW t \in Json, NEW i \in Places(t), NEW s \in Json, Stands(t, i, s)
  PROVE  i + Len(s) \in Places(t) /\ CodesAt(t, i, s)
<1>1. PICK n \in Nat, m \in Nat : n = Len(t) /\ m = Len(s) /\ Places(t) = 1..(n + 1) /\ i \in 1..(n + 1)
  BY TextIs DEF Places
<1>2. i + m <= n + 1 /\ \A k \in 1..m : t[i + k - 1] = s[k]
  BY <1>1 DEF Stands
<1>3. ASSUME NEW k \in 1..m PROVE i + k - 1 \in Places(t) /\ CodeAt(t, i + k - 1) = s[k]
  <2>1. PICK j \in Nat \ {0} : j = i + k - 1 /\ j <= n
    BY <1>1, <1>2
  <2>2. CodeAt(t, j) = t[j] /\ t[j] = s[k]
    BY <1>1, <1>2, <2>1, CodeIs
  <2> QED BY <1>1, <2>1, <2>2
<1> QED BY <1>1, <1>2, <1>3 DEF CodesAt

LEMMA StandsFirst ==
  ASSUME NEW t \in Json, NEW i \in Places(t), NEW s \in Json, Stands(t, i, s), Len(s) > 0
  PROVE  CodeAt(t, i) = s[1] /\ i + 1 \in Places(t)
<1>1. PICK n \in Nat, m \in Nat : n = Len(t) /\ m = Len(s) /\ m > 0 /\ Places(t) = 1..(n + 1) /\ i \in 1..(n + 1)
  BY TextIs DEF Places
<1>2. CodeAt(t, i + 1 - 1) = s[1] /\ i + m \in Places(t)
  <2>1. 1 \in 1..Len(s)
    BY <1>1
  <2> QED BY <1>1, <2>1, StandsCode DEF CodesAt
<1>3. i + 1 - 1 = i /\ i + 1 \in Places(t)
  BY <1>1, <1>2
<1> QED BY <1>2, <1>3

LEMMA StandsPiece ==
  ASSUME NEW t \in Json, NEW i \in Places(t), NEW s \in Json, Stands(t, i, s)
  PROVE  SubSeq(t, i, i + Len(s) - 1) = s
<1>1. PICK n \in Nat, m \in Nat : n = Len(t) /\ m = Len(s) /\ Places(t) = 1..(n + 1) /\ i \in 1..(n + 1)
  BY TextIs DEF Places
<1>2. i + m <= n + 1 /\ \A k \in 1..m : t[i + k - 1] = s[k]
  BY <1>1 DEF Stands
<1>3. PICK z \in Nat : z = i + m - 1 /\ z <= n /\ i \in Nat \ {0}
  BY <1>1, <1>2
<1>4. CASE m = 0
  <2>1. SubSeq(t, i, z) = <<>>
    BY <1>1, <1>3, <1>4, PieceIs
  <2>2. s = <<>>
    BY <1>1, <1>4, EmptySeq DEF Json
  <2> QED BY <1>1, <1>3, <2>1, <2>2
<1>5. CASE m > 0
  <2>1. PICK w : w = SubSeq(t, i, z)
    OBVIOUS
  <2>2. IsPiece(w, t, i, z)
    <3>1. i <= z
      BY <1>3, <1>5
    <3> QED BY <1>1, <1>3, <2>1, <3>1, PieceIs
  <2>3. w \in Json /\ Len(w) = m /\ \A k \in 1..m : w[k] = t[i + k - 1]
    <3>1. z - i + 1 = m
      BY <1>3
    <3> QED BY <2>2, <3>1 DEF IsPiece
  <2>4. w = s
    BY <1>1, <1>2, <2>3, SeqEqual DEF Json
  <2> QED BY <1>1, <1>3, <2>1, <2>4
<1> QED BY <1>1, <1>4, <1>5

IsConcat(c, a, b) ==
  /\ c \in Json /\ Len(c) = Len(a) + Len(b) /\ Len(a) \in Nat /\ Len(b) \in Nat
  /\ \A k \in 1..Len(a) : c[k] = a[k]
  /\ \A k \in 1..Len(b) : c[Len(a) + k] = b[k]

LEMMA ConcatIs ==
  ASSUME NEW a \in Json, NEW b \in Json
  PROVE  IsConcat(a \o b, a, b)
<1>1. Len(a) \in Nat /\ Len(b) \in Nat
  BY DEF Json
<1> QED BY <1>1, ConcatBegins DEF Json, Begins, IsConcat

LEMMA StandsConcat ==
  ASSUME NEW t \in Json, NEW i \in Places(t), NEW a \in Json, NEW b \in Json, Stands(t, i, a \o b)
  PROVE  Stands(t, i, a) /\ i + Len(a) \in Places(t) /\ Stands(t, i + Len(a), b)
<1>1. PICK n \in Nat, la \in Nat, lb \in Nat :
        n = Len(t) /\ la = Len(a) /\ lb = Len(b) /\ Places(t) = 1..(n + 1)
  BY TextIs DEF Places
<1>2. PICK c : c = a \o b
  OBVIOUS
<1>3. /\ Len(c) = la + lb /\ \A k \in 1..la : c[k] = a[k]
      /\ \A k \in 1..lb : c[la + k] = b[k]
  BY <1>1, <1>2, ConcatBegins DEF Json, Begins
<1>4. i + (la + lb) <= n + 1 /\ \A k \in 1..(la + lb) : t[i + k - 1] = c[k]
  BY <1>1, <1>2, <1>3 DEF Stands
<1>5. Stands(t, i, a)
  BY <1>1, <1>3, <1>4 DEF Stands
<1>6. ASSUME NEW k \in 1..lb PROVE t[i + la + k - 1] = b[k]
  <2>1. la + k \in 1..(la + lb) /\ i + (la + k) - 1 = i + la + k - 1
    BY <1>1
  <2>2. t[i + (la + k) - 1] = c[la + k]
    BY <1>4, <2>1
  <2> QED BY <1>3, <2>1, <2>2
<1>7. i + la + lb <= n + 1
  BY <1>1, <1>4
<1> QED BY <1>1, <1>5, <1>6, <1>7 DEF Stands

LEMMA StandsDigits ==
  ASSUME NEW t \in Json, NEW i \in Places(t), NEW s \in DigitCodes, Stands(t, i, s),
         ~IsDigit(CodeAt(t, i + Len(s)))
  PROVE  DigitsEnd(t, i) = i + Len(s)
<1>1. PICK n \in Nat, m \in Nat : n = Len(t) /\ m = Len(s) /\ Places(t) = 1..(n + 1) /\ i \in 1..(n + 1)
  BY TextIs DEF Places, DigitCodes
<1>2. i + m <= n + 1 /\ \A k \in 1..m : t[i + k - 1] = s[k]
  BY <1>1 DEF Stands
<1>3. \A k \in 1..m : s[k] \in 48..57
  BY <1>1 DEF DigitCodes
<1>4. ASSUME NEW j \in i..(i + m - 1) PROVE t[j] \in 48..57
  <2>1. PICK k \in 1..m : i + k - 1 = j
    <3>1. j - i + 1 \in 1..m /\ i + (j - i + 1) - 1 = j
      BY <1>1
    <3> QED BY <3>1
  <2> QED BY <1>2, <1>3, <2>1
<1>5. IsPast(t, i, 48..57, i + m)
  BY <1>1, <1>2, <1>4 DEF IsPast, IsDigit
<1>6. 48..57 \in SUBSET Nat
  OBVIOUS
<1> QED BY <1>1, <1>5, <1>6, PastOnly DEF DigitsEnd

LEMMA DigitsAreText ==
  ASSUME NEW s \in DigitCodes
  PROVE  s \in Json
BY DEF DigitCodes, Json

-----------------------------------------------------------------------------
\* The spelling of an integer.
LEMMA SpelledIs ==
  ASSUME NEW m \in Int
  PROVE  \E a \in Nat, s \in DigitCodes :
           /\ Len(s) > 0 /\ DigitsValue(s) = a
           /\ IF m < 0 THEN m = -a /\ Spelled(m) = <<45>> \o s ELSE m = a /\ Spelled(m) = s
<1>1. CASE m < 0
  <2>1. PICK a \in Nat : m = -a /\ a = -m
    BY <1>1
  <2>2. Spells(Decimal(a), a)
    BY DecimalIs
  <2>3. Spelled(m) = <<45>> \o Decimal(a)
    BY <1>1, <2>1 DEF Spelled
  <2> QED BY <1>1, <2>1, <2>2, <2>3 DEF Spells
<1>2. CASE ~(m < 0)
  <2>1. m \in Nat
    BY <1>2
  <2>2. Spells(Decimal(m), m)
    BY <2>1, DecimalIs
  <2>3. Spelled(m) = Decimal(m)
    BY <1>2 DEF Spelled
  <2> QED BY <1>2, <2>1, <2>2, <2>3 DEF Spells
<1> QED BY <1>1, <1>2

LEMMA SignBefore ==
  ASSUME NEW s \in Json
  PROVE  /\ <<45>> \o s \in Json /\ Len(<<45>> \o s) = Len(s) + 1 /\ Head(<<45>> \o s) = 45
         /\ Tail(<<45>> \o s) = s /\ (<<45>> \o s)[1] = 45 /\ <<45>> \o s # <<>>
<1>1. <<45>> \in Json
  BY DEF Json
<1>2. PICK w : w = <<45>> \o s
  OBVIOUS
<1>3. w \in Json /\ Len(w) = Len(s) + 1 /\ w[1] = 45 /\ \A k \in 1..Len(s) : w[k + 1] = s[k]
  <2>1. IsConcat(<<45>> \o s, <<45>>, s)
    BY <1>1, ConcatIs
  <2>2. IsConcat(w, <<45>>, s)
    BY <1>2, <2>1
  <2>3. PICK one : one = <<45>> /\ Len(one) = 1 /\ one[1] = 45
    <3>1. Len(<<45>>) = 1 /\ <<45>>[1] = 45
      OBVIOUS
    <3> QED BY <3>1, Zenon
  <2>4. IsConcat(w, one, s)
    BY <2>2, <2>3
  <2>5. w \in Json /\ Len(w) = 1 + Len(s) /\ Len(s) \in Nat /\ \A k \in 1..Len(s) : w[1 + k] = s[k]
    BY <2>3, <2>4 DEF IsConcat
  <2>6. w[1] = 45
    BY <2>3, <2>4 DEF IsConcat
  <2>7. \A k \in 1..Len(s) : 1 + k = k + 1
    OBVIOUS
  <2> QED BY <2>5, <2>6, <2>7
<1>4. w # <<>> /\ Head(w) = w[1]
  <2>1. Len(s) \in Nat
    BY DEF Json
  <2>2. w # <<>>
    BY <1>3, <2>1
  <2> QED BY <1>3, <2>2 DEF Json
<1>5. Tail(w) = s
  <2>1. PICK u : u = Tail(w)
    OBVIOUS
  <2>2. u \in Json /\ Len(u) = Len(w) - 1 /\ \A k \in 1..Len(u) : u[k] = w[k + 1]
    BY <1>3, <1>4, <2>1, HeadTailProperties DEF Json
  <2>3. Len(u) = Len(s)
    <3>1. PICK l \in Nat : l = Len(s)
      BY DEF Json
    <3> QED BY <1>3, <2>2, <3>1
  <2>4. \A k \in 1..Len(u) : u[k] = s[k]
    BY <1>3, <2>2, <2>3
  <2> QED BY <2>1, <2>2, <2>3, <2>4, SeqEqual DEF Json
<1> QED BY <1>2, <1>3, <1>4, <1>5

\* Its value.
LEMMA SpelledValue ==
  ASSUME NEW m \in Int
  PROVE  /\ Spelled(m) \in Json /\ Len(Spelled(m)) > 0 /\ Spelled(m) # <<>>
         /\ Head(Spelled(m)) = 45 <=> m < 0
         /\ Signed(Spelled(m)) = m
         /\ \E a \in Nat, s \in DigitCodes :
              /\ s = (IF m < 0 THEN Tail(Spelled(m)) ELSE Spelled(m))
              /\ DigitsValue(s) = a /\ m = IF m < 0 THEN -a ELSE a
<1>1. PICK a \in Nat, s \in DigitCodes :
           /\ Len(s) > 0 /\ DigitsValue(s) = a
           /\ IF m < 0 THEN m = -a /\ Spelled(m) = <<45>> \o s ELSE m = a /\ Spelled(m) = s
  BY SpelledIs
<1>2. s \in Json /\ Len(s) \in Nat /\ Head(s) \in 48..57 /\ s # <<>>
  BY <1>1, DigitsAreText, DigitHead DEF Json
<1>3. PICK w : w = Spelled(m)
  OBVIOUS
<1>4. CASE m < 0
  <2>1. w \in Json /\ Len(w) = Len(s) + 1 /\ Head(w) = 45 /\ Tail(w) = s /\ w # <<>>
    BY <1>1, <1>2, <1>3, <1>4, SignBefore
  <2>2. Signed(w) = m
    BY <1>1, <1>4, <2>1 DEF Signed
  <2> QED BY <1>1, <1>2, <1>3, <1>4, <2>1, <2>2
<1>5. CASE ~(m < 0)
  <2>1. w = s
    BY <1>1, <1>3, <1>5
  <2>2. Signed(w) = m
    <3>1. Head(s) # 45 /\ Head(s) # 43
      BY <1>2
    <3> QED BY <1>1, <1>2, <1>5, <2>1, <3>1 DEF Signed
  <2> QED BY <1>1, <1>2, <1>3, <1>5, <2>1, <2>2
<1> QED BY <1>4, <1>5

SpelledAt(t, i, signs, w) ==
  /\ DigitsEnd(t, Unsigned(t, i, signs)) = i + Len(w)
  /\ i + Len(w) # Unsigned(t, i, signs)
  /\ SubSeq(t, i, i + Len(w) - 1) = w

LEMMA SpelledRead ==
  ASSUME NEW t \in Json, NEW i \in Places(t), NEW m \in Int, NEW signs \in {{45}, {43, 45}},
         Stands(t, i, Spelled(m)), ~IsDigit(CodeAt(t, i + Len(Spelled(m))))
  PROVE  i + Len(Spelled(m)) \in Places(t) /\ SpelledAt(t, i, signs, Spelled(m))
<1>1. PICK a \in Nat, s \in DigitCodes :
           /\ Len(s) > 0 /\ DigitsValue(s) = a
           /\ IF m < 0 THEN m = -a /\ Spelled(m) = <<45>> \o s ELSE m = a /\ Spelled(m) = s
  BY SpelledIs
<1>2. s \in Json /\ Head(s) \in 48..57 /\ s # <<>> /\ Head(s) = s[1]
  BY <1>1, DigitsAreText, DigitHead DEF DigitCodes
<1>3. PICK w : w = Spelled(m)
  OBVIOUS
<1>4. PICK n \in Nat, l \in Nat : n = Len(t) /\ l = Len(s) /\ Places(t) = 1..(n + 1) /\ i \in 1..(n + 1)
  BY <1>2, TextIs DEF Places
<1>5. w \in Json /\ Len(w) > 0
  BY <1>3, SpelledValue
<1>6. SubSeq(t, i, i + Len(w) - 1) = w /\ i + Len(w) \in Places(t) /\ CodeAt(t, i) = w[1]
  BY <1>3, <1>5, StandsPiece, StandsCode, StandsFirst
<1>7. CASE m < 0
  <2>1. w = <<45>> \o s /\ Len(w) = l + 1 /\ w[1] = 45
    <3>1. w = <<45>> \o s
      BY <1>1, <1>3, <1>7
    <3>2. Len(<<45>> \o s) = Len(s) + 1 /\ (<<45>> \o s)[1] = 45
      BY <1>2, SignBefore
    <3> QED BY <1>4, <3>1, <3>2
  <2>2. Unsigned(t, i, signs) = i + 1
    BY <1>6, <2>1 DEF Unsigned
  <2>3. Stands(t, i + 1, s) /\ i + 1 \in Places(t)
    <3>1. PICK sign \in Json : sign = <<45>> /\ Len(sign) = 1
      <4>1. <<45>> \in Json /\ Len(<<45>>) = 1
        BY DEF Json
      <4> QED BY <4>1
    <3>2. Stands(t, i, sign \o s)
      BY <1>3, <2>1, <3>1
    <3>3. i + Len(sign) \in Places(t) /\ Stands(t, i + Len(sign), s)
      BY <1>2, <3>2, StandsConcat
    <3> QED BY <3>1, <3>3
  <2>4. (i + 1) + l = i + Len(w)
    BY <1>4, <2>1
  <2>5. DigitsEnd(t, i + 1) = i + Len(w)
    BY <1>3, <1>4, <2>3, <2>4, StandsDigits
  <2>6. i + Len(w) # i + 1
    BY <1>1, <1>4, <2>1
  <2> QED BY <1>3, <1>6, <2>2, <2>5, <2>6 DEF SpelledAt
<1>8. CASE ~(m < 0)
  <2>1. w = s
    BY <1>1, <1>3, <1>8
  <2>2. Unsigned(t, i, signs) = i
    <3>1. CodeAt(t, i) \in 48..57
      BY <1>2, <1>6, <2>1
    <3>2. CodeAt(t, i) \notin signs
      BY <3>1
    <3> QED BY <3>2 DEF Unsigned
  <2>3. DigitsEnd(t, i) = i + Len(w)
    BY <1>3, <2>1, StandsDigits
  <2>4. i + Len(w) # i
    BY <1>1, <1>4, <2>1
  <2> QED BY <1>3, <1>6, <2>2, <2>3, <2>4 DEF SpelledAt
<1> QED BY <1>7, <1>8

\* A code that ends a number.
EndsNumber(c) == c \notin 48..57 /\ c \notin {46, 101, 69}

LEMMA IntCodes ==
  ASSUME NEW p, NEW m \in Int, InRange(p, m)
  PROVE  NumberCodes(p, Spelled(m), <<>>, <<>>) = <<"int", m>>
<1>1. PICK a \in Nat, s \in DigitCodes :
              /\ s = (IF m < 0 THEN Tail(Spelled(m)) ELSE Spelled(m))
              /\ DigitsValue(s) = a /\ m = IF m < 0 THEN -a ELSE a
  BY SpelledValue
<1>2. (Head(Spelled(m)) = 45) <=> m < 0
  BY SpelledValue
<1>3. s \o <<>> = s
  BY ConcatEmptySeq DEF DigitCodes
<1> DEFINE f == Float(a, Signed(<<>>) - Len(<<>>))
<1>4. NumberCodes(p, Spelled(m), <<>>, <<>>) =
        IF p = "gnu" /\ <<>> = <<>> /\ (<<>> # <<>> \/ a > JsIntMax) THEN <<"error">>
        ELSE IF <<>> = <<>> /\ <<>> = <<>> THEN <<"int", IF m < 0 THEN -a ELSE a>>
        ELSE <<"float", IF m < 0 THEN -f[2] ELSE f[2], f[3]>>
  <2>1. (IF Head(Spelled(m)) = 45 THEN Tail(Spelled(m)) ELSE Spelled(m)) = s
    BY <1>1, <1>2
  <2>2. DigitsValue((IF Head(Spelled(m)) = 45 THEN Tail(Spelled(m)) ELSE Spelled(m)) \o <<>>) = a
    BY <1>1, <1>3, <2>1
  <2> HIDE DEF f
  <2>3. CASE m < 0
    BY <1>2, <2>2, <2>3 DEF NumberCodes, f
  <2>4. CASE ~(m < 0)
    BY <1>2, <2>2, <2>4 DEF NumberCodes, f
  <2> QED BY <2>3, <2>4
<1> HIDE DEF f
<1>5. ~(p = "gnu" /\ a > JsIntMax)
  <2>1. JsIntMax \in Nat
    BY JsAssumption
  <2>2. PICK b \in Nat : m \in {b, -b} /\ (p = "gnu" => b <= JsIntMax)
    BY DEF InRange
  <2>3. a = b
    BY <1>1, <2>2
  <2> QED BY <2>1, <2>2, <2>3
<1> QED BY <1>1, <1>4, <1>5

LEMMA FloatCodes ==
  ASSUME NEW p, NEW m \in Int, NEW k \in Int, Normal(m, k)
  PROVE  NumberCodes(p, Spelled(m), <<48>>, Spelled(k)) = <<"float", m, k>>
<1>1. PICK a \in Nat, s \in DigitCodes :
              /\ s = (IF m < 0 THEN Tail(Spelled(m)) ELSE Spelled(m))
              /\ DigitsValue(s) = a /\ m = IF m < 0 THEN -a ELSE a
  BY SpelledValue
<1>2. (Head(Spelled(m)) = 45) <=> m < 0
  BY SpelledValue
<1>3. DigitsValue(s \o <<48>>) = 10 * a
  <2>1. 48 \in 48..57
    OBVIOUS
  <2>2. DigitsValue(s \o <<48>>) = 10 * DigitsValue(s) + 48 - 48
    BY <2>1, DigitsValueMore
  <2> QED BY <1>1, <2>2
<1>4. Signed(Spelled(k)) - Len(<<48>>) = k - 1
  BY SpelledValue
<1> DEFINE f == Float(10 * a, k - 1)
<1>5. NumberCodes(p, Spelled(m), <<48>>, Spelled(k)) =
        <<"float", IF m < 0 THEN -f[2] ELSE f[2], f[3]>>
  <2>1. (IF Head(Spelled(m)) = 45 THEN Tail(Spelled(m)) ELSE Spelled(m)) = s
    BY <1>1, <1>2
  <2>2. DigitsValue((IF Head(Spelled(m)) = 45 THEN Tail(Spelled(m)) ELSE Spelled(m)) \o <<48>>) = 10 * a
    BY <1>3, <2>1
  <2>3. <<48>> # <<>>
    OBVIOUS
  <2>4. CASE m < 0
    BY <1>2, <1>4, <2>2, <2>3, <2>4 DEF NumberCodes
  <2>5. CASE ~(m < 0)
    BY <1>2, <1>4, <2>2, <2>3, <2>5 DEF NumberCodes
  <2> QED BY <2>4, <2>5
<1>6. f = <<"float", a, k>>
  <2>1. PICK b \in Nat : m \in {b, -b} /\ (IF b = 0 THEN k = 0 ELSE b % 10 # 0)
    BY DEF Normal
  <2>2. a = b
    BY <1>1, <2>1
  <2>3. CASE a = 0
    <3>1. 10 * a = 0 /\ k = 0
      BY <2>1, <2>2, <2>3
    <3>2. f = <<"float", Shortened(0)[1], 0>>
      BY <3>1 DEF Float
    <3> QED BY <2>3, <3>1, <3>2, ShortenedZero
  <2>4. CASE a # 0
    <3>1. Shortened(10 * a) = <<a, 1>>
      BY <2>1, <2>2, <2>4, ShortenedOnce
    <3>2. 10 * a # 0 /\ (k - 1) + 1 = k
      BY <2>4
    <3>3. f = <<"float", Shortened(10 * a)[1], (k - 1) + Shortened(10 * a)[2]>>
      BY <3>2 DEF Float
    <3> QED BY <3>1, <3>2, <3>3
  <2> QED BY <2>3, <2>4
<1> HIDE DEF f
<1>7. f[2] = a /\ f[3] = k
  BY <1>6
<1> QED BY <1>1, <1>5, <1>7

LEMMA IntRead ==
  ASSUME NEW t \in Json, NEW i \in Places(t), NEW p, NEW m \in Int, InRange(p, m),
         Stands(t, i, Spelled(m)), EndsNumber(CodeAt(t, i + Len(Spelled(m))))
  PROVE  JsNumber(p, t, i) = {<<<<"int", m>>, i + Len(Spelled(m))>>}
<1>1. PICK w \in Json : w = Spelled(m)
  BY SpelledValue
<1>2. PICK z \in Places(t) : z = i + Len(w)
  BY <1>1, StandsCode
<1> DEFINE d == IF CodeAt(t, i) = 45 THEN i + 1 ELSE i
           e == DigitsEnd(t, d)
           point == CodeAt(t, e) = 46
           f == IF point THEN DigitsEnd(t, e + 1) ELSE e
           power == CodeAt(t, f) \in {101, 69}
           s == IF CodeAt(t, f + 1) \in {43, 45} THEN f + 2 ELSE f + 1
           g == IF power THEN DigitsEnd(t, s) ELSE f
           int == SubSeq(t, i, e - 1)
           frac == IF point THEN SubSeq(t, e + 1, f - 1) ELSE <<>>
           exp == IF power THEN SubSeq(t, f + 1, g - 1) ELSE <<>>
           n == NumberCodes(p, int, IsoFrac(frac, exp), exp)
<1>3. JsNumber(p, t, i) =
        IF e = d \/ (point /\ f = e + 1) \/ (power /\ g = s) THEN {}
        ELSE {<<IF n = <<"error">> THEN <<"atom", SubSeq(t, i, g - 1)>> ELSE n, g>>}
  BY DEF JsNumber
<1>4. d = Unsigned(t, i, {45})
  BY DEF Unsigned
<1>5. e = DigitsEnd(t, d)
  OBVIOUS
<1> HIDE DEF d, e
<1>6. e = z /\ e # d /\ int = w
  <2>1. PICK signs \in {{45}, {43, 45}} : signs = {45}
    OBVIOUS
  <2>2. ~IsDigit(CodeAt(t, i + Len(Spelled(m))))
    BY DEF EndsNumber, IsDigit
  <2>3. SpelledAt(t, i, signs, w)
    BY <1>1, <2>2, SpelledRead
  <2>4. e = z /\ e # d
    BY <1>2, <1>4, <1>5, <2>1, <2>3 DEF SpelledAt
  <2> QED BY <1>2, <2>3, <2>4 DEF SpelledAt
<1>7. EndsNumber(CodeAt(t, e))
  BY <1>1, <1>2, <1>6
<1>8. ~point /\ f = e /\ frac = <<>>
  BY <1>7 DEF EndsNumber
<1>9. ~power /\ g = e /\ exp = <<>>
  BY <1>7, <1>8 DEF EndsNumber
<1>10. IsoFrac(frac, exp) = <<>>
  BY <1>8, <1>9 DEF IsoFrac
<1>11. n = <<"int", m>>
  <2>1. n = NumberCodes(p, Spelled(m), <<>>, <<>>)
    BY <1>1, <1>6, <1>9, <1>10
  <2> QED BY <2>1, IntCodes
<1> HIDE DEF point, f, power, s, g, int, frac, exp, n
<1>12. n # <<"error">>
  BY <1>11
<1>13. JsNumber(p, t, i) = {<<n, e>>}
  BY <1>3, <1>6, <1>8, <1>9, <1>12
<1> QED BY <1>1, <1>2, <1>6, <1>11, <1>13

IsFloatText(w, m, k) == w = Spelled(m) \o <<46, 48, 101>> \o Spelled(k)

LEMMA FloatRead ==
  ASSUME NEW t \in Json, NEW i \in Places(t), NEW p, NEW m \in Int, NEW k \in Int, Normal(m, k),
         NEW w \in Json, IsFloatText(w, m, k),
         Stands(t, i, w), EndsNumber(CodeAt(t, i + Len(w)))
  PROVE  JsNumber(p, t, i) = {<<<<"float", m, k>>, i + Len(w)>>}
<1>1. PICK a \in Json, b \in Json : a = Spelled(m) /\ b = Spelled(k)
  BY SpelledValue
<1>2. PICK mid \in Json : mid = <<46, 48, 101>>
  <2>1. <<46, 48, 101>> \in Json
    BY DEF Json
  <2> QED BY <2>1, Zenon
<1>3. Len(mid) = 3 /\ mid[1] = 46 /\ mid[2] = 48 /\ mid[3] = 101
  BY <1>2
<1>4. PICK l \in Json : l = a \o mid /\ w = l \o b
  BY <1>1, <1>2, ConcatProperties DEF Json, IsFloatText
<1>5. Len(l) = Len(a) + Len(mid) /\ Len(w) = Len(l) + Len(b) /\ Len(a) \in Nat /\ Len(b) \in Nat
  <2>1. IsConcat(a \o mid, a, mid) /\ IsConcat(l \o b, l, b)
    BY ConcatIs
  <2>2. IsConcat(l, a, mid) /\ IsConcat(w, l, b)
    BY <1>4, <2>1
  <2> QED BY <2>2 DEF IsConcat
<1>6. /\ Stands(t, i, a) /\ i + Len(a) \in Places(t) /\ Stands(t, i + Len(a), mid)
      /\ i + Len(l) \in Places(t) /\ Stands(t, i + Len(l), b)
  <2>1. Stands(t, i, l \o b)
    BY <1>4
  <2>2. Stands(t, i, l) /\ i + Len(l) \in Places(t) /\ Stands(t, i + Len(l), b)
    BY <2>1, StandsConcat
  <2>3. Stands(t, i, a \o mid)
    BY <1>4, <2>2
  <2> QED BY <2>2, <2>3, StandsConcat
<1>7. PICK x \in Nat, y \in Nat, z \in Nat :
        /\ x = i + Len(a) /\ y = x + 3 /\ y = i + Len(l) /\ z = y + Len(b) /\ z = i + Len(w)
        /\ i < x /\ x \in Places(t)
  <2>1. i \in Nat
    BY TextIs DEF Places
  <2>2. PICK la \in Nat, lb \in Nat : la = Len(a) /\ lb = Len(b) /\ la > 0
    BY <1>1, <1>5, SpelledValue
  <2>3. Len(l) = la + 3 /\ Len(w) = la + 3 + lb
    BY <1>3, <1>5, <2>2
  <2>4. PICK x \in Nat, y \in Nat, z \in Nat : x = i + la /\ y = x + 3 /\ z = y + lb
    BY <2>1
  <2>5. x = i + Len(a) /\ y = i + Len(l) /\ z = i + Len(w) /\ i < x /\ z = y + Len(b)
    BY <2>1, <2>2, <2>3, <2>4
  <2>6. x \in Places(t)
    BY <1>6, <2>5
  <2> QED BY <2>4, <2>5, <2>6
<1>8. CodeAt(t, x) = 46 /\ CodeAt(t, x + 1) = 48 /\ CodeAt(t, x + 2) = 101 /\ x + 1 \in Places(t)
  <2>1. CodesAt(t, x, mid)
    <3>1. Stands(t, x, mid)
      BY <1>6, <1>7
    <3> QED BY <1>7, <3>1, StandsCode
  <2>2. CodeAt(t, x + 1 - 1) = 46 /\ CodeAt(t, x + 2 - 1) = 48 /\ CodeAt(t, x + 3 - 1) = 101
        /\ x + 2 - 1 \in Places(t)
    BY <1>3, <2>1 DEF CodesAt
  <2>3. x + 1 - 1 = x /\ x + 2 - 1 = x + 1 /\ x + 3 - 1 = x + 2
    OBVIOUS
  <2> QED BY <2>2, <2>3
<1> DEFINE d == IF CodeAt(t, i) = 45 THEN i + 1 ELSE i
           e == DigitsEnd(t, d)
           point == CodeAt(t, e) = 46
           f == IF point THEN DigitsEnd(t, e + 1) ELSE e
           power == CodeAt(t, f) \in {101, 69}
           s == IF CodeAt(t, f + 1) \in {43, 45} THEN f + 2 ELSE f + 1
           g == IF power THEN DigitsEnd(t, s) ELSE f
           int == SubSeq(t, i, e - 1)
           frac == IF point THEN SubSeq(t, e + 1, f - 1) ELSE <<>>
           exp == IF power THEN SubSeq(t, f + 1, g - 1) ELSE <<>>
           n == NumberCodes(p, int, IsoFrac(frac, exp), exp)
<1>9. JsNumber(p, t, i) =
        IF e = d \/ (point /\ f = e + 1) \/ (power /\ g = s) THEN {}
        ELSE {<<IF n = <<"error">> THEN <<"atom", SubSeq(t, i, g - 1)>> ELSE n, g>>}
  BY DEF JsNumber
<1>10. d = Unsigned(t, i, {45})
  BY DEF Unsigned
<1>11. e = DigitsEnd(t, d)
  OBVIOUS
<1> HIDE DEF d, e
<1>12. e = x /\ e # d /\ int = a
  <2>1. PICK signs \in {{45}, {43, 45}} : signs = {45}
    OBVIOUS
  <2>2. ~IsDigit(CodeAt(t, i + Len(a)))
    <3>1. CodeAt(t, i + Len(a)) = 46
      BY <1>7, <1>8
    <3> QED BY <3>1 DEF IsDigit
  <2>3. SpelledAt(t, i, signs, a)
    BY <1>1, <1>6, <2>2, SpelledRead
  <2>4. e = x /\ e # d
    BY <1>7, <1>10, <1>11, <2>1, <2>3 DEF SpelledAt
  <2> QED BY <1>7, <2>3, <2>4 DEF SpelledAt
<1>13. point /\ f = DigitsEnd(t, x + 1)
  BY <1>8, <1>12
<1>14. DigitsEnd(t, x + 1) = x + 2 /\ SubSeq(t, x + 1, (x + 2) - 1) = <<48>>
  <2>1. PICK zero \in DigitCodes : zero = <<48>> /\ Len(zero) = 1 /\ zero[1] = 48
    <3>1. <<48>> \in DigitCodes /\ Len(<<48>>) = 1 /\ <<48>>[1] = 48
      BY DEF DigitCodes
    <3> QED BY <3>1, Zenon
  <2>2. PICK h \in Nat \ {0} : h = x + 1 /\ h + 1 = x + 2 /\ h \in Places(t) /\ CodeAt(t, h) = 48 /\ CodeAt(t, h + 1) = 101
    <3>1. x + 1 \in Nat \ {0} /\ (x + 1) + 1 = x + 2
      OBVIOUS
    <3>2. CodeAt(t, (x + 1) + 1) = 101
      BY <1>8, <3>1
    <3> QED BY <1>8, <3>1, <3>2
  <2>3. h <= Len(t) /\ t[h] = 48 /\ Len(t) \in Nat
    <3>1. CodeAt(t, h) # -1
      BY <2>2
    <3>2. Len(t) \in Nat
      BY TextIs
    <3>3. h <= Len(t)
      BY <3>1, CodeIs
    <3>4. CodeAt(t, h) = t[h]
      BY <3>3, CodeIs
    <3> QED BY <2>2, <3>2, <3>3, <3>4
  <2>4. Stands(t, h, zero)
    <3>1. \A j \in 1..1 : t[h + j - 1] = zero[j]
      <4>1. \A j \in 1..1 : j = 1 /\ h + j - 1 = h
        OBVIOUS
      <4> QED BY <2>1, <2>3, <4>1
    <3>2. h + 1 <= Len(t) + 1
      BY <2>3
    <3> QED BY <2>1, <3>1, <3>2 DEF Stands
  <2>5. ~IsDigit(CodeAt(t, h + Len(zero)))
    <3>1. CodeAt(t, h + Len(zero)) = 101
      BY <2>1, <2>2
    <3> QED BY <3>1 DEF IsDigit
  <2>6. DigitsEnd(t, h) = h + Len(zero)
    BY <2>2, <2>4, <2>5, StandsDigits
  <2>7. SubSeq(t, h, h + Len(zero) - 1) = zero
    BY <2>2, <2>4, DigitsAreText, StandsPiece
  <2> QED BY <2>1, <2>2, <2>6, <2>7
<1>15. f = x + 2 /\ f # e + 1
  BY <1>12, <1>13, <1>14
<1>16. frac = <<48>>
  <2>1. frac = SubSeq(t, x + 1, (x + 2) - 1)
    BY <1>12, <1>13, <1>15
  <2> HIDE DEF frac
  <2> QED BY <1>14, <2>1
<1>17. power /\ g = DigitsEnd(t, s)
  BY <1>8, <1>15
<1>18. s = Unsigned(t, y, {43, 45}) /\ f + 1 = y
  <2>1. f + 1 = y /\ f + 2 = y + 1
    BY <1>7, <1>15
  <2> QED BY <2>1 DEF Unsigned
<1> HIDE DEF point, f, frac, power, s, int
<1>19. g = z /\ g # s /\ exp = b
  <2>1. PICK signs \in {{45}, {43, 45}} : signs = {43, 45}
    OBVIOUS
  <2>2. ~IsDigit(CodeAt(t, y + Len(b)))
    BY <1>7 DEF EndsNumber, IsDigit
  <2>3. y \in Places(t) /\ Stands(t, y, b)
    BY <1>6, <1>7
  <2>4. SpelledAt(t, y, signs, b)
    BY <1>1, <2>2, <2>3, SpelledRead
  <2>5. g = z /\ g # s
    <3> HIDE DEF g
    <3> QED BY <1>7, <1>17, <1>18, <2>1, <2>4 DEF SpelledAt
  <2>6. exp = SubSeq(t, f + 1, g - 1)
    BY <1>17
  <2> HIDE DEF exp, g
  <2>7. SubSeq(t, y, y + Len(b) - 1) = b /\ z = y + Len(b) /\ f + 1 = y
    BY <1>7, <1>18, <2>4 DEF SpelledAt
  <2>8. SubSeq(t, f + 1, g - 1) = b
    BY <2>5, <2>7
  <2> QED BY <2>5, <2>6, <2>8
<1>20. IsoFrac(frac, exp) = <<48>>
  <2>1. <<48>> # <<>>
    OBVIOUS
  <2> QED BY <1>16, <2>1 DEF IsoFrac
<1>21. n = <<"float", m, k>>
  <2>1. n = NumberCodes(p, Spelled(m), <<48>>, Spelled(k))
    BY <1>1, <1>12, <1>19, <1>20
  <2> QED BY <2>1, FloatCodes
<1> HIDE DEF g, exp, n
<1>22. n # <<"error">>
  BY <1>21
<1>23. JsNumber(p, t, i) = {<<n, g>>}
  BY <1>9, <1>12, <1>15, <1>19, <1>22
<1> QED BY <1>7, <1>19, <1>21, <1>23

(***************************************************************************)
(* Terms                                                                   *)
(***************************************************************************)
LEMMA SeqGrows ==
  ASSUME NEW S, NEW T, S \subseteq T
  PROVE  Seq(S) \subseteq Seq(T)
<1> SUFFICES ASSUME NEW s \in Seq(S) PROVE s \in Seq(T)
  OBVIOUS
<1>1. PICK n \in Nat : n = Len(s) /\ s \in [1..n -> S]
  OBVIOUS
<1>2. s \in [1..n -> T]
  BY <1>1
<1> QED BY <1>2

LEMMA PairsGrow ==
  ASSUME NEW S, NEW T, S \subseteq T
  PROVE  Seq(Seq(Nat) \X S) \subseteq Seq(Seq(Nat) \X T)
<1>1. Seq(Nat) \X S \subseteq Seq(Nat) \X T
  OBVIOUS
<1> QED BY <1>1, SeqGrows

Around(S) == ({"list"} \X Seq(S)) \cup ({"json"} \X Seq(Seq(Nat) \X S))

LEMMA AroundGrows ==
  ASSUME NEW S, NEW T, S \subseteq T
  PROVE  Around(S) \subseteq Around(T)
<1>1. Seq(S) \subseteq Seq(T) /\ Seq(Seq(Nat) \X S) \subseteq Seq(Seq(Nat) \X T)
  BY SeqGrows, PairsGrow
<1> QED BY <1>1 DEF Around

TermsAt(terms, leaves, n) ==
  leaves \cup
  (IF n = 0 THEN {} ELSE ({"list"} \X Seq(terms[n - 1])) \cup
                         ({"json"} \X Seq(Seq(Nat) \X terms[n - 1])))
AreTerms(terms, leaves) == terms = [n \in Nat |-> TermsAt(terms, leaves, n)]
TermsBelow(terms, leaves, k) == \A i \in Nat : i < k => terms[i] = TermsAt(terms, leaves, i)

LEMMA TermsAtZero ==
  ASSUME NEW terms, NEW leaves
  PROVE  TermsAt(terms, leaves, 0) = leaves
BY Zenon DEF TermsAt

LEMMA TermsAtNext ==
  ASSUME NEW terms, NEW leaves, NEW n \in Nat
  PROVE  TermsAt(terms, leaves, n + 1) = leaves \cup Around(terms[n])
<1>1. n + 1 # 0 /\ (n + 1) - 1 = n
  OBVIOUS
<1> QED BY <1>1, Zenon DEF TermsAt, Around

LEMMA TermsAtSame ==
  ASSUME NEW f, NEW h, NEW leaves, NEW n \in Nat, f[n] = h[n]
  PROVE  TermsAt(f, leaves, n + 1) = TermsAt(h, leaves, n + 1)
<1>1. TermsAt(f, leaves, n + 1) = leaves \cup Around(f[n])
  BY TermsAtNext, Zenon
<1>2. TermsAt(h, leaves, n + 1) = leaves \cup Around(h[n])
  BY TermsAtNext, Zenon
<1>3. PICK a : a = f[n] /\ a = h[n]
  OBVIOUS
<1>4. TermsAt(f, leaves, n + 1) = leaves \cup Around(a)
  BY <1>1, <1>3
<1>5. TermsAt(h, leaves, n + 1) = leaves \cup Around(a)
  BY <1>2, <1>3
<1> QED BY <1>4, <1>5

LEMMA SameTerms ==
  ASSUME NEW leaves, NEW f, NEW h, NEW k \in Nat, TermsBelow(f, leaves, k), TermsBelow(h, leaves, k)
  PROVE  \A i \in Nat : i < k => f[i] = h[i]
<1> DEFINE T == {i \in Nat : i < k => f[i] = h[i]}
<1>1. 0 \in T
  <2> SUFFICES ASSUME 0 < k PROVE f[0] = h[0]
    OBVIOUS
  <2>1. f[0] = TermsAt(f, leaves, 0) /\ h[0] = TermsAt(h, leaves, 0)
    BY DEF TermsBelow
  <2>2. TermsAt(f, leaves, 0) = leaves
    BY TermsAtZero
  <2>3. TermsAt(h, leaves, 0) = leaves
    BY TermsAtZero
  <2> QED BY <2>1, <2>2, <2>3
<1>2. ASSUME NEW i \in T PROVE i + 1 \in T
  <2> SUFFICES ASSUME i + 1 < k PROVE f[i + 1] = h[i + 1]
    OBVIOUS
  <2>1. f[i + 1] = TermsAt(f, leaves, i + 1) /\ h[i + 1] = TermsAt(h, leaves, i + 1)
    BY DEF TermsBelow
  <2>2. i \in Nat /\ f[i] = h[i]
    OBVIOUS
  <2>3. TermsAt(f, leaves, i + 1) = TermsAt(h, leaves, i + 1)
    BY <2>2, TermsAtSame
  <2> QED BY <2>1, <2>3
<1>3. T = Nat
  <2> HIDE DEF T
  <2>1. T \in SUBSET Nat
    BY DEF T
  <2> QED BY <1>1, <1>2, <2>1, Induction
<1> QED BY <1>3

LEMMA TermsExist ==
  ASSUME NEW leaves
  PROVE  AreTerms(Terms(leaves), leaves)
<1> DEFINE T == {k \in Nat : \E f : TermsBelow(f, leaves, k)}
<1>1. 0 \in T
  BY DEF TermsBelow
<1>2. ASSUME NEW k \in T PROVE k + 1 \in T
  <2>1. PICK f : TermsBelow(f, leaves, k)
    OBVIOUS
  <2> DEFINE h == [i \in Nat |-> TermsAt(f, leaves, i)]
  <2>2. ASSUME NEW i \in Nat, i < k + 1 PROVE h[i] = TermsAt(h, leaves, i)
    <3>1. CASE i = 0
      <4>1. TermsAt(f, leaves, 0) = TermsAt(h, leaves, 0)
        <5> HIDE DEF h
        <5> QED BY TermsAtZero
      <4> QED BY <3>1, <4>1
    <3>2. CASE i # 0
      <4>1. PICK j \in Nat : i = j + 1 /\ j < k
        <5>1. i - 1 \in Nat /\ i = (i - 1) + 1 /\ i - 1 < k
          BY <2>2, <3>2
        <5> QED BY <5>1
      <4>2. h[j] = f[j]
        BY <2>1, <4>1 DEF TermsBelow
      <4>3. TermsAt(f, leaves, j + 1) = TermsAt(h, leaves, j + 1)
        <5> HIDE DEF h
        <5> QED BY <4>2, TermsAtSame
      <4> QED BY <4>1, <4>3
    <3> QED BY <3>1, <3>2
  <2>3. TermsBelow(h, leaves, k + 1) /\ k + 1 \in Nat
    <3> HIDE DEF h
    <3> QED BY <2>2 DEF TermsBelow
  <2> HIDE DEF h
  <2> QED BY <2>3
<1>3. T = Nat
  <2> HIDE DEF T
  <2>1. T \in SUBSET Nat
    BY DEF T
  <2> QED BY <1>1, <1>2, <2>1, Induction
<1> DEFINE some == [k \in Nat |-> CHOOSE f : TermsBelow(f, leaves, k)]
           h == [n \in Nat |-> some[n + 1][n]]
<1>4. \A k \in Nat : TermsBelow(some[k], leaves, k)
  <2> SUFFICES ASSUME NEW k \in Nat PROVE TermsBelow(some[k], leaves, k)
    OBVIOUS
  <2>1. \E f : TermsBelow(f, leaves, k)
    <3>1. k \in T
      <4> HIDE DEF T
      <4> QED BY <1>3
    <3> QED BY <3>1, Zenon
  <2>2. some[k] = CHOOSE f : TermsBelow(f, leaves, k)
    OBVIOUS
  <2> HIDE DEF some
  <2> QED BY <2>1, <2>2, Zenon
<1> HIDE DEF some
<1>5. \A n \in Nat : h[n] = some[n + 1][n]
  OBVIOUS
<1>6. ASSUME NEW n \in Nat PROVE h[n] = TermsAt(h, leaves, n)
  <2> HIDE DEF h
  <2>1. n + 1 \in Nat /\ n < n + 1
    OBVIOUS
  <2>2. h[n] = TermsAt(some[n + 1], leaves, n)
    BY <1>4, <1>5, <2>1 DEF TermsBelow
  <2>3. CASE n = 0
    <3> QED BY <2>2, <2>3, TermsAtZero
  <2>4. CASE n # 0
    <3>1. PICK j \in Nat : n = j + 1
      <4>1. n - 1 \in Nat /\ n = (n - 1) + 1
        BY <2>4
      <4> QED BY <4>1
    <3>2. h[j] = some[n][j]
      BY <1>5, <3>1
    <3>3. some[n][j] = some[n + 1][j]
      <4>1. TermsBelow(some[n], leaves, n) /\ TermsBelow(some[n + 1], leaves, n + 1)
        BY <1>4, <2>1
      <4>2. TermsBelow(some[n + 1], leaves, n)
        BY <4>1 DEF TermsBelow
      <4>3. j < n
        BY <3>1
      <4> QED BY <4>1, <4>2, <4>3, SameTerms
    <3>4. TermsAt(some[n + 1], leaves, j + 1) = TermsAt(h, leaves, j + 1)
      BY <3>2, <3>3, TermsAtSame
    <3> QED BY <2>2, <3>1, <3>4
  <2> QED BY <2>3, <2>4
<1>7. AreTerms(h, leaves)
  <2>1. h = [n \in Nat |-> TermsAt(h, leaves, n)]
    BY <1>6
  <2> HIDE DEF h
  <2> QED BY <2>1 DEF AreTerms
<1>8. Terms(leaves) = CHOOSE terms : AreTerms(terms, leaves)
  BY DEF Terms, AreTerms, TermsAt
<1> HIDE DEF h
<1> QED BY <1>7, <1>8

LEMMA TermsAre ==
  ASSUME NEW leaves, NEW n \in Nat
  PROVE  /\ Terms(leaves)[0] = leaves
         /\ Terms(leaves)[n + 1] = leaves \cup Around(Terms(leaves)[n])
<1>1. \A i \in Nat : Terms(leaves)[i] = TermsAt(Terms(leaves), leaves, i)
  <2>1. PICK f : f = Terms(leaves)
    OBVIOUS
  <2>2. f = [i \in Nat |-> TermsAt(f, leaves, i)]
    BY <2>1, TermsExist DEF AreTerms
  <2>3. \A i \in Nat : f[i] = TermsAt(f, leaves, i)
    BY <2>2
  <2> QED BY <2>1, <2>3
<1>2. 0 \in Nat /\ n + 1 \in Nat
  OBVIOUS
<1>3. PICK f : f = Terms(leaves)
  OBVIOUS
<1>4. f[0] = TermsAt(f, leaves, 0) /\ f[n + 1] = TermsAt(f, leaves, n + 1)
  BY <1>1, <1>2, <1>3
<1>5. TermsAt(f, leaves, 0) = leaves /\ TermsAt(f, leaves, n + 1) = leaves \cup Around(f[n])
  BY TermsAtZero, TermsAtNext
<1> QED BY <1>3, <1>4, <1>5

LEMMA TermsGrow ==
  ASSUME NEW few, NEW many, few \subseteq many, NEW m \in Nat, NEW n \in Nat, m <= n
  PROVE  Terms(few)[m] \subseteq Terms(many)[n]
<1> DEFINE T == {i \in Nat : \A j \in Nat : i <= j => Terms(few)[i] \subseteq Terms(many)[j]}
<1>1. few \subseteq many
  OBVIOUS
<1>2. \A j \in Nat : many \subseteq Terms(many)[j]
  <2> SUFFICES ASSUME NEW j \in Nat PROVE many \subseteq Terms(many)[j]
    OBVIOUS
  <2>1. CASE j = 0
    BY <2>1, TermsAre
  <2>2. CASE j # 0
    <3>1. PICK i \in Nat : j = i + 1
      <4>1. j - 1 \in Nat /\ j = (j - 1) + 1
        BY <2>2
      <4> QED BY <4>1
    <3>2. Terms(many)[i + 1] = many \cup Around(Terms(many)[i])
      BY TermsAre
    <3> QED BY <3>1, <3>2
  <2> QED BY <2>1, <2>2
<1>3. 0 \in T
  <2>1. Terms(few)[0] = few
    <3>1. 0 \in Nat
      OBVIOUS
    <3> QED BY <3>1, TermsAre
  <2> QED BY <1>1, <1>2, <2>1
<1>4. ASSUME NEW i \in T PROVE i + 1 \in T
  <2> SUFFICES ASSUME NEW j \in Nat, i + 1 <= j PROVE Terms(few)[i + 1] \subseteq Terms(many)[j]
    OBVIOUS
  <2>1. PICK h \in Nat : j = h + 1 /\ i <= h /\ i \in Nat
    <3>1. j - 1 \in Nat /\ j = (j - 1) + 1 /\ i <= j - 1
      OBVIOUS
    <3> QED BY <3>1
  <2>2. Terms(few)[i] \subseteq Terms(many)[h]
    BY <2>1
  <2>3. Terms(few)[i + 1] = few \cup Around(Terms(few)[i])
    BY <2>1, TermsAre
  <2>4. Terms(many)[h + 1] = many \cup Around(Terms(many)[h])
    BY TermsAre
  <2>5. Around(Terms(few)[i]) \subseteq Around(Terms(many)[h])
    BY <2>2, AroundGrows
  <2> QED BY <1>1, <2>1, <2>3, <2>4, <2>5
<1>5. T = Nat
  <2> HIDE DEF T
  <2>1. T \in SUBSET Nat
    BY DEF T
  <2> QED BY <1>3, <1>4, <2>1, Induction
<1> QED BY <1>5

(***************************************************************************)
(* What is read: terms that are nested no deeper than the rest of the text *)
(* is long.                                                                *)
(***************************************************************************)
TermsFrom(p, t, i) == Terms(LeavesIn(p))[Len(t) + 1 - i]
ItemsOf(kind, S) == IF kind = "json" THEN Json \X S ELSE S
ReadTyped(read, p, t, i) ==
  /\ \A v \in read[i]["value"] : IsRead(t, i, TermsFrom(p, t, i), v)
  /\ \A kind \in {"list", "json"} : \A r \in read[i][kind] :
       IsRead(t, i, Seq(ItemsOf(kind, TermsFrom(p, t, i))), r)
TypedAfter(read, p, t, i) == \A j \in Places(t) : j > i => ReadTyped(read, p, t, j)

LEMMA PlacesAre ==
  ASSUME NEW t \in Json, NEW i \in Places(t)
  PROVE  i \in Nat \ {0} /\ Len(t) \in Nat /\ i <= Len(t) + 1 /\ Len(t) + 1 - i \in Nat
BY TextIs DEF Places

LEMMA NextPlace ==
  ASSUME NEW t \in Json, NEW i \in Places(t), CodeAt(t, i) \in Nat
  PROVE  i + 1 \in Places(t)
<1>1. i \in Nat \ {0} /\ i <= Len(t) /\ Len(t) \in Nat
  <2>1. CodeAt(t, i) # -1
    OBVIOUS
  <2> QED BY <2>1, PlacesAre, CodeIs
<1> QED BY <1>1 DEF Places

LEMMA SkipIs ==
  ASSUME NEW t \in Json, NEW i \in Places(t)
  PROVE  SkipWs(t, i) \in Places(t) /\ SkipWs(t, i) >= i
BY SkipWsIs

LEMMA ValuesGrow ==
  ASSUME NEW t \in Json, NEW p, NEW i \in Places(t), NEW j \in Places(t), j >= i
  PROVE  /\ TermsFrom(p, t, j) \subseteq TermsFrom(p, t, i)
         /\ \A kind \in {"list", "json"} :
              /\ ItemsOf(kind, TermsFrom(p, t, j)) \subseteq ItemsOf(kind, TermsFrom(p, t, i))
              /\ Seq(ItemsOf(kind, TermsFrom(p, t, j))) \subseteq Seq(ItemsOf(kind, TermsFrom(p, t, i)))
<1>1. PICK a \in Nat, b \in Nat : a = Len(t) + 1 - i /\ b = Len(t) + 1 - j /\ b <= a
  BY PlacesAre
<1>2. TermsFrom(p, t, j) \subseteq TermsFrom(p, t, i)
  <2>1. Terms(LeavesIn(p))[b] \subseteq Terms(LeavesIn(p))[a]
    BY <1>1, TermsGrow
  <2> QED BY <1>1, <2>1 DEF TermsFrom
<1>3. ASSUME NEW kind \in {"list", "json"}
      PROVE  ItemsOf(kind, TermsFrom(p, t, j)) \subseteq ItemsOf(kind, TermsFrom(p, t, i))
  BY <1>2 DEF ItemsOf
<1> QED BY <1>2, <1>3, SeqGrows

\* What stands in brackets is nested deeper than what stands behind them.
LEMMA ValuesAround ==
  ASSUME NEW t \in Json, NEW p, NEW i \in Places(t), NEW j \in Places(t), j > i,
         NEW kind \in {"list", "json"}, NEW s \in Seq(ItemsOf(kind, TermsFrom(p, t, j)))
  PROVE  <<kind, s>> \in TermsFrom(p, t, i)
<1>1. PICK a \in Nat, b \in Nat : a + 1 = Len(t) + 1 - i /\ b = Len(t) + 1 - j /\ b <= a
  <2>1. Len(t) + 1 - i - 1 \in Nat /\ Len(t) + 1 - i - 1 + 1 = Len(t) + 1 - i
        /\ Len(t) + 1 - j \in Nat /\ Len(t) + 1 - j <= Len(t) + 1 - i - 1
    BY PlacesAre
  <2> QED BY <2>1
<1> DEFINE A == Terms(LeavesIn(p))[a]
           B == Terms(LeavesIn(p))[b]
<1>2. B \subseteq A /\ B = TermsFrom(p, t, j)
  BY <1>1, TermsGrow DEF TermsFrom
<1>3. TermsFrom(p, t, i) = LeavesIn(p) \cup Around(A)
  BY <1>1, TermsAre DEF TermsFrom
<1> HIDE DEF A, B
<1>4. Around(B) \subseteq Around(A)
  BY <1>2, AroundGrows
<1>5. <<kind, s>> \in Around(B)
  <2>1. CASE kind = "list"
    <3>1. s \in Seq(B)
      BY <1>2, <2>1 DEF ItemsOf
    <3> QED BY <2>1, <3>1 DEF Around
  <2>2. CASE kind = "json"
    <3>1. s \in Seq(Seq(Nat) \X B)
      BY <1>2, <2>2 DEF ItemsOf, Json
    <3> QED BY <2>2, <3>1 DEF Around
  <2> QED BY <2>1, <2>2
<1> QED BY <1>3, <1>4, <1>5

LEMMA LeavesAreValues ==
  ASSUME NEW t \in Json, NEW p, NEW i \in Places(t)
  PROVE  LeavesIn(p) \subseteq TermsFrom(p, t, i)
<1>1. PICK a \in Nat : a = Len(t) + 1 - i
  BY PlacesAre
<1>2. Terms(LeavesIn(p))[0] = LeavesIn(p) /\ Terms(LeavesIn(p))[0] \subseteq Terms(LeavesIn(p))[a]
  <2>1. 0 \in Nat /\ 0 <= a
    OBVIOUS
  <2> QED BY <2>1, TermsAre, TermsGrow
<1> QED BY <1>1, <1>2 DEF TermsFrom

LEMMA PairRead ==
  ASSUME NEW t, NEW i, NEW S, NEW a \in S, NEW b \in Places(t), b > i
  PROVE  IsRead(t, i, S, <<a, b>>)
BY DEF IsRead

LEMMA BracketsTyped ==
  ASSUME NEW t \in Json, NEW p, NEW i \in Places(t), i + 1 \in Places(t), NEW read,
         TypedAfter(read, p, t, i), NEW kind \in {"list", "json"}, NEW close \in Nat,
         NEW v \in JsBrackets(read, kind, close, t, i)
  PROVE  IsRead(t, i, TermsFrom(p, t, i), v)
<1>1. PICK first \in Places(t) : first = SkipWs(t, i + 1) /\ first > i
  <2>1. SkipWs(t, i + 1) \in Places(t) /\ SkipWs(t, i + 1) >= i + 1
    BY SkipIs
  <2>2. SkipWs(t, i + 1) > i
    <3>1. i \in Nat
      BY PlacesAre
    <3>2. SkipWs(t, i + 1) \in Nat
      BY <2>1, PlacesAre
    <3> QED BY <2>1, <3>1, <3>2
  <2> QED BY <2>1, <2>2
<1>2. CASE CodeAt(t, first) = close
  <2>1. v = <<<<kind, <<>>>>, first + 1>>
    BY <1>1, <1>2 DEF JsBrackets
  <2>2. first + 1 \in Places(t) /\ first + 1 > i
    <3>1. CodeAt(t, first) \in Nat /\ first \in Nat /\ i \in Nat
      BY <1>2, PlacesAre
    <3>2. first + 1 \in Places(t)
      BY <3>1, NextPlace
    <3> QED BY <1>1, <3>1, <3>2
  <2>3. <<kind, <<>>>> \in TermsFrom(p, t, i)
    <3>1. <<>> \in Seq(ItemsOf(kind, TermsFrom(p, t, first)))
      OBVIOUS
    <3> QED BY <1>1, <3>1, ValuesAround
  <2> QED BY <2>1, <2>2, <2>3, PairRead
<1>3. CASE CodeAt(t, first) # close
  <2>1. PICK items \in read[first][kind] : CodeAt(t, items[2]) = close /\ v = <<<<kind, items[1]>>, items[2] + 1>>
    BY <1>1, <1>3 DEF JsBrackets
  <2>2. IsRead(t, first, Seq(ItemsOf(kind, TermsFrom(p, t, first))), items)
    BY <1>1 DEF TypedAfter, ReadTyped
  <2>3. items[1] \in Seq(ItemsOf(kind, TermsFrom(p, t, first))) /\ items[2] \in Places(t) /\ items[2] > first
    BY <2>2 DEF IsRead
  <2>4. items[2] + 1 \in Places(t) /\ items[2] + 1 > i
    <3>1. items[2] + 1 \in Places(t)
      BY <2>1, <2>3, NextPlace
    <3>2. items[2] \in Nat /\ first \in Nat /\ i \in Nat
      BY <2>3, PlacesAre
    <3> QED BY <1>1, <2>3, <3>1, <3>2
  <2>5. <<kind, items[1]>> \in TermsFrom(p, t, i)
    BY <1>1, <2>3, ValuesAround
  <2> QED BY <2>1, <2>4, <2>5, PairRead
<1> QED BY <1>2, <1>3

LEMMA LiteralIs ==
  ASSUME NEW w \in Literals
  PROVE  /\ w \in Json /\ Len(w) \in {4, 5} /\ w[Len(w)] \in Nat
         /\ w[1] \notin {34, 123, 91, 32, 9, 10, 13, 93, 125, 45} /\ w[1] \notin 48..57
<1>1. CASE w = True
  BY <1>1 DEF True, Json
<1>2. CASE w = False
  BY <1>2 DEF False, Json
<1>3. CASE w = Null
  BY <1>3 DEF Null, Json
<1> QED BY <1>1, <1>2, <1>3 DEF Literals

LEMMA LiteralNoList ==
  ASSUME NEW w \in Literals
  PROVE  w # <<91, 93>>
<1>1. Len(w) \in {4, 5}
  BY LiteralIs
<1> QED BY <1>1, ListCodes

LEMMA ValueTyped ==
  ASSUME NEW t \in Json, NEW p, NEW i \in Places(t), NEW read, TypedAfter(read, p, t, i),
         NEW v \in JsValue(read, p, t, i)
  PROVE  IsRead(t, i, TermsFrom(p, t, i), v)
<1> DEFINE literal == {w \in Literals : \A k \in DOMAIN w : CodeAt(t, i + k - 1) = w[k]}
<1>1. LeavesIn(p) \subseteq TermsFrom(p, t, i)
  BY LeavesAreValues
<1>2. \/ \E s \in JsString(p, t, i) : v = <<AtomOf(p, s[1]), s[2]>>
      \/ CodeAt(t, i) = 123 /\ v \in JsBrackets(read, "json", 125, t, i)
      \/ CodeAt(t, i) = 91 /\ v \in JsBrackets(read, "list", 93, t, i)
      \/ \E w \in literal : v = <<<<"atom", w>>, i + Len(w)>>
      \/ v \in JsNumber(p, t, i)
  BY DEF JsValue
<1>3. ASSUME NEW s \in JsString(p, t, i), v = <<AtomOf(p, s[1]), s[2]>>
      PROVE  IsRead(t, i, TermsFrom(p, t, i), v)
  <2>1. s[1] \in Json /\ s[2] \in Places(t) /\ s[2] > i
    BY JsStringIs DEF IsRead
  <2>2. AtomOf(p, s[1]) \in TermsFrom(p, t, i)
    <3>1. <<"list", <<>>>> \in TermsFrom(p, t, i)
      <4>1. <<>> \in Seq(ItemsOf("list", TermsFrom(p, t, s[2]))) /\ "list" \in {"list", "json"}
        OBVIOUS
      <4> QED BY <2>1, <4>1, ValuesAround
    <3>2. AtomsIn(p) \subseteq TermsFrom(p, t, i)
      BY <1>1 DEF LeavesIn
    <3> QED BY <2>1, <3>1, <3>2, AtomOfIs
  <2> QED BY <1>3, <2>1, <2>2, PairRead
<1>4. CASE CodeAt(t, i) = 123 /\ v \in JsBrackets(read, "json", 125, t, i)
  <2>1. i + 1 \in Places(t) /\ "json" \in {"list", "json"} /\ 125 \in Nat
    BY <1>4, NextPlace
  <2> QED BY <1>4, <2>1, BracketsTyped
<1>5. CASE CodeAt(t, i) = 91 /\ v \in JsBrackets(read, "list", 93, t, i)
  <2>1. i + 1 \in Places(t) /\ "list" \in {"list", "json"} /\ 93 \in Nat
    BY <1>5, NextPlace
  <2> QED BY <1>5, <2>1, BracketsTyped
<1>6. ASSUME NEW w \in literal, v = <<<<"atom", w>>, i + Len(w)>>
      PROVE  IsRead(t, i, TermsFrom(p, t, i), v)
  <2>1. w \in Json /\ w \in Literals
    BY LiteralIs
  <2>2. PICK l \in {4, 5} : l = Len(w) /\ w[l] \in Nat
    <3>1. Len(w) \in {4, 5} /\ w[Len(w)] \in Nat
      BY <2>1, LiteralIs
    <3> QED BY <3>1
  <2>3. l \in DOMAIN w
    BY <2>1, <2>2 DEF Json
  <2>4. CodeAt(t, i + l - 1) = w[l]
    BY <2>3
  <2>5. PICK h \in Nat \ {0} : h = i + l - 1 /\ h + 1 = i + l /\ h + 1 > i
    <3>1. i \in Nat \ {0}
      BY PlacesAre
    <3>2. i + l - 1 \in Nat \ {0} /\ i + l - 1 + 1 = i + l /\ i + l - 1 + 1 > i
      BY <3>1
    <3> QED BY <3>2
  <2>6. h \in Places(t)
    <3>1. CodeAt(t, h) # -1
      BY <2>2, <2>4, <2>5
    <3>2. h <= Len(t) /\ Len(t) \in Nat
      BY <3>1, CodeIs, PlacesAre
    <3> QED BY <3>2 DEF Places
  <2>7. h + 1 \in Places(t)
    BY <2>2, <2>4, <2>5, <2>6, NextPlace
  <2>8. <<"atom", w>> \in TermsFrom(p, t, i)
    <3>1. w # <<91, 93>>
      BY <2>1, LiteralNoList
    <3>2. <<"atom", w>> \in AtomsIn(p)
      BY <2>1, <3>1, AtomIn
    <3> QED BY <1>1, <3>2 DEF LeavesIn
  <2>9. v = <<<<"atom", w>>, h + 1>>
    BY <1>6, <2>2, <2>5
  <2> QED BY <2>5, <2>7, <2>8, <2>9, PairRead
<1>7. CASE v \in JsNumber(p, t, i)
  <2>1. IsRead(t, i, LeavesIn(p), v)
    BY <1>7, JsNumberIs
  <2> QED BY <1>1, <2>1 DEF IsRead
<1> HIDE DEF literal
<1> QED BY <1>2, <1>3, <1>4, <1>5, <1>6, <1>7

LEMMA PairTyped ==
  ASSUME NEW t \in Json, NEW p, NEW i \in Places(t), NEW read, TypedAfter(read, p, t, i),
         NEW one \in JsPair(read, p, t, i)
  PROVE  IsRead(t, i, Json \X TermsFrom(p, t, i), one)
<1>1. PICK name \in JsString(p, t, i) :
        /\ CodeAt(t, SkipWs(t, name[2])) = 58
        /\ \E v \in read[SkipWs(t, SkipWs(t, name[2]) + 1)]["value"] : one = <<<<name[1], v[1]>>, v[2]>>
  BY DEF JsPair
<1>2. name[1] \in Json /\ name[2] \in Places(t) /\ name[2] > i
  BY JsStringIs DEF IsRead
<1>3. PICK c \in Places(t) : c = SkipWs(t, name[2]) /\ c > i /\ CodeAt(t, c) \in Nat
  <2>1. SkipWs(t, name[2]) \in Places(t) /\ SkipWs(t, name[2]) >= name[2]
    BY <1>2, SkipIs
  <2>2. SkipWs(t, name[2]) > i
    BY <1>2, <2>1, PlacesAre
  <2> QED BY <1>1, <2>1, <2>2
<1>4. PICK q \in Places(t) : q = SkipWs(t, c + 1) /\ q > i
  <2>1. c + 1 \in Places(t)
    BY <1>3, NextPlace
  <2>2. SkipWs(t, c + 1) \in Places(t) /\ SkipWs(t, c + 1) >= c + 1
    BY <2>1, SkipIs
  <2>3. SkipWs(t, c + 1) > i
    <3>1. c \in Nat /\ i \in Nat /\ SkipWs(t, c + 1) \in Nat
      BY <2>2, PlacesAre
    <3> QED BY <1>3, <2>2, <3>1
  <2> QED BY <2>2, <2>3
<1>5. PICK v \in read[q]["value"] : one = <<<<name[1], v[1]>>, v[2]>>
  BY <1>1, <1>3, <1>4
<1>6. v[1] \in TermsFrom(p, t, q) /\ v[2] \in Places(t) /\ v[2] > q
  BY <1>4 DEF TypedAfter, ReadTyped, IsRead
<1>7. v[1] \in TermsFrom(p, t, i)
  <2>1. q >= i
    BY <1>4, PlacesAre
  <2> QED BY <1>6, <2>1, ValuesGrow
<1>8. v[2] > i
  <2>1. v[2] \in Nat /\ q \in Nat /\ i \in Nat
    BY <1>6, PlacesAre
  <2> QED BY <1>4, <1>6, <2>1
<1>9. <<name[1], v[1]>> \in Json \X TermsFrom(p, t, i)
  BY <1>2, <1>7
<1> QED BY <1>5, <1>6, <1>8, <1>9, PairRead

LEMMA ItemTyped ==
  ASSUME NEW t \in Json, NEW p, NEW i \in Places(t), NEW read, TypedAfter(read, p, t, i),
         NEW kind \in {"list", "json"}, NEW one \in JsItem(read, kind, p, t, i)
  PROVE  IsRead(t, i, ItemsOf(kind, TermsFrom(p, t, i)), one)
<1>1. CASE kind = "json"
  <2>1. one \in JsPair(read, p, t, i)
    BY <1>1 DEF JsItem
  <2> QED BY <1>1, <2>1, PairTyped DEF ItemsOf
<1>2. CASE kind # "json"
  <2>1. one \in JsValue(read, p, t, i)
    BY <1>2 DEF JsItem
  <2> QED BY <1>2, <2>1, ValueTyped DEF ItemsOf
<1> QED BY <1>1, <1>2

\* The place behind a comma.
LEMMA AfterComma ==
  ASSUME NEW t \in Json, NEW i \in Places(t), NEW j \in Places(t), j > i, CodeAt(t, SkipWs(t, j)) = 44
  PROVE  SkipWs(t, SkipWs(t, j) + 1) \in Places(t) /\ SkipWs(t, SkipWs(t, j) + 1) > i
<1>1. PICK c \in Places(t) : c = SkipWs(t, j) /\ c >= j /\ CodeAt(t, c) \in Nat
  BY SkipIs
<1>2. c + 1 \in Places(t)
  BY <1>1, NextPlace
<1>3. PICK q \in Places(t) : q = SkipWs(t, c + 1) /\ q >= c + 1
  BY <1>2, SkipIs
<1>4. q > i
  <2>1. q \in Nat /\ c \in Nat /\ i \in Nat /\ j \in Nat
    BY PlacesAre
  <2> QED BY <1>1, <1>3, <2>1
<1> QED BY <1>1, <1>3, <1>4

LEMMA MoreTyped ==
  ASSUME NEW t \in Json, NEW p, NEW i \in Places(t), NEW read, TypedAfter(read, p, t, i),
         NEW kind \in {"list", "json"}, NEW one, IsRead(t, i, ItemsOf(kind, TermsFrom(p, t, i)), one),
         NEW r \in JsMore(read, kind, t, one)
  PROVE  IsRead(t, i, Seq(ItemsOf(kind, TermsFrom(p, t, i))), r)
<1> DEFINE I == ItemsOf(kind, TermsFrom(p, t, i))
<1>1. one[1] \in I /\ one[2] \in Places(t) /\ one[2] > i
  BY DEF IsRead
<1> HIDE DEF I
<1>2. <<one[1]>> \in Seq(I)
  BY <1>1
<1>3. CASE CodeAt(t, SkipWs(t, one[2])) # 44
  <2>1. r = <<<<one[1]>>, SkipWs(t, one[2])>>
    BY <1>3 DEF JsMore
  <2>2. SkipWs(t, one[2]) \in Places(t) /\ SkipWs(t, one[2]) > i
    <3>1. SkipWs(t, one[2]) \in Places(t) /\ SkipWs(t, one[2]) >= one[2]
      BY <1>1, SkipIs
    <3> QED BY <1>1, <3>1, PlacesAre
  <2> QED BY <1>2, <2>1, <2>2, PairRead DEF I
<1>4. CASE CodeAt(t, SkipWs(t, one[2])) = 44
  <2>1. PICK q \in Places(t) : q = SkipWs(t, SkipWs(t, one[2]) + 1) /\ q > i
    BY <1>1, <1>4, AfterComma
  <2>2. PICK rest \in read[q][kind] : r = <<<<one[1]>> \o rest[1], rest[2]>>
    BY <1>4, <2>1 DEF JsMore
  <2>3. rest[1] \in Seq(ItemsOf(kind, TermsFrom(p, t, q))) /\ rest[2] \in Places(t) /\ rest[2] > q
    BY <2>1 DEF TypedAfter, ReadTyped, IsRead
  <2>4. rest[1] \in Seq(I)
    <3>1. q >= i
      BY <2>1, PlacesAre
    <3> QED BY <2>3, <3>1, ValuesGrow DEF I
  <2>5. <<one[1]>> \o rest[1] \in Seq(I)
    BY <1>2, <2>4, ConcatProperties
  <2>6. rest[2] > i
    BY <2>1, <2>3, PlacesAre
  <2> QED BY <2>2, <2>3, <2>5, <2>6, PairRead DEF I
<1> QED BY <1>3, <1>4

LEMMA ItemsTyped ==
  ASSUME NEW t \in Json, NEW p, NEW i \in Places(t), NEW read, TypedAfter(read, p, t, i),
         NEW kind \in {"list", "json"}, NEW r \in JsItems(read, kind, p, t, i)
  PROVE  IsRead(t, i, Seq(ItemsOf(kind, TermsFrom(p, t, i))), r)
<1>1. PICK one \in JsItem(read, kind, p, t, i) : r \in JsMore(read, kind, t, one)
  BY DEF JsItems
<1>2. IsRead(t, i, ItemsOf(kind, TermsFrom(p, t, i)), one)
  BY ItemTyped
<1> QED BY <1>1, <1>2, MoreTyped

(***************************************************************************)
(* The recursive function of JsRead: what is read at a place is decided by *)
(* what is read at the places after it.                                    *)
(***************************************************************************)
AgreeAfter(f, h, t, i) == \A j \in Places(t) : j > i => f[j] = h[j]

LEMMA AgreeIs ==
  ASSUME NEW f, NEW h, NEW t, NEW p, NEW i, AgreeAfter(f, h, t, i)
  PROVE  /\ AgreeAfter(h, f, t, i)
         /\ TypedAfter(f, p, t, i) => TypedAfter(h, p, t, i)
<1>1. AgreeAfter(h, f, t, i)
  BY DEF AgreeAfter
<1>2. ASSUME TypedAfter(f, p, t, i) PROVE TypedAfter(h, p, t, i)
  <2> SUFFICES ASSUME NEW j \in Places(t), j > i PROVE ReadTyped(h, p, t, j)
    BY DEF TypedAfter
  <2>1. f[j] = h[j] /\ ReadTyped(f, p, t, j)
    BY <1>2 DEF AgreeAfter, TypedAfter
  <2> QED BY <2>1 DEF ReadTyped
<1> QED BY <1>1, <1>2

LEMMA BracketsSame ==
  ASSUME NEW t \in Json, NEW i \in Places(t), i + 1 \in Places(t), NEW f, NEW h,
         AgreeAfter(f, h, t, i), NEW kind, NEW close
  PROVE  JsBrackets(f, kind, close, t, i) = JsBrackets(h, kind, close, t, i)
<1>1. SkipWs(t, i + 1) \in Places(t) /\ SkipWs(t, i + 1) >= i + 1
  BY SkipIs
<1>2. SkipWs(t, i + 1) > i
  BY <1>1, PlacesAre
<1>3. f[SkipWs(t, i + 1)] = h[SkipWs(t, i + 1)]
  BY <1>1, <1>2 DEF AgreeAfter
<1> QED BY <1>3 DEF JsBrackets

LEMMA ValueSame ==
  ASSUME NEW t \in Json, NEW p, NEW i \in Places(t), NEW f, NEW h, AgreeAfter(f, h, t, i)
  PROVE  JsValue(f, p, t, i) = JsValue(h, p, t, i)
<1>1. CASE CodeAt(t, i) = 123
  <2>1. i + 1 \in Places(t)
    BY <1>1, NextPlace
  <2>2. JsBrackets(f, "json", 125, t, i) = JsBrackets(h, "json", 125, t, i)
    BY <2>1, BracketsSame
  <2> QED BY <1>1, <2>2, Zenon DEF JsValue
<1>2. CASE CodeAt(t, i) = 91
  <2>1. i + 1 \in Places(t)
    BY <1>2, NextPlace
  <2>2. JsBrackets(f, "list", 93, t, i) = JsBrackets(h, "list", 93, t, i)
    BY <2>1, BracketsSame
  <2> QED BY <1>2, <2>2 DEF JsValue
<1>3. CASE CodeAt(t, i) # 123 /\ CodeAt(t, i) # 91
  BY <1>3, Zenon DEF JsValue
<1> QED BY <1>1, <1>2, <1>3

\* Where the value of a pair starts.
LEMMA PairValueAt ==
  ASSUME NEW t \in Json, NEW p, NEW i \in Places(t), NEW name \in JsString(p, t, i),
         CodeAt(t, SkipWs(t, name[2])) = 58
  PROVE  /\ SkipWs(t, SkipWs(t, name[2]) + 1) \in Places(t)
         /\ SkipWs(t, SkipWs(t, name[2]) + 1) > i
<1>1. name[2] \in Places(t) /\ name[2] > i
  BY JsStringIs DEF IsRead
<1>2. PICK c \in Places(t) : c = SkipWs(t, name[2]) /\ c >= name[2] /\ CodeAt(t, c) \in Nat
  BY <1>1, SkipIs
<1>3. c + 1 \in Places(t)
  BY <1>2, NextPlace
<1>4. PICK q \in Places(t) : q = SkipWs(t, c + 1) /\ q >= c + 1
  BY <1>3, SkipIs
<1>5. q > i
  <2>1. q \in Nat /\ c \in Nat /\ i \in Nat /\ name[2] \in Nat
    BY <1>1, PlacesAre
  <2> QED BY <1>1, <1>2, <1>4, <2>1
<1> QED BY <1>2, <1>4, <1>5

LEMMA PairWithin ==
  ASSUME NEW t \in Json, NEW p, NEW i \in Places(t), NEW f, NEW h, AgreeAfter(f, h, t, i)
  PROVE  JsPair(f, p, t, i) \subseteq JsPair(h, p, t, i)
<1> SUFFICES ASSUME NEW one \in JsPair(f, p, t, i) PROVE one \in JsPair(h, p, t, i)
  OBVIOUS
<1>1. PICK name \in JsString(p, t, i) :
        /\ CodeAt(t, SkipWs(t, name[2])) = 58
        /\ \E v \in f[SkipWs(t, SkipWs(t, name[2]) + 1)]["value"] : one = <<<<name[1], v[1]>>, v[2]>>
  BY DEF JsPair
<1>2. PICK q : q = SkipWs(t, SkipWs(t, name[2]) + 1)
  OBVIOUS
<1>3. f[q] = h[q]
  BY <1>1, <1>2, PairValueAt DEF AgreeAfter
<1>4. PICK v \in h[q]["value"] : one = <<<<name[1], v[1]>>, v[2]>>
  BY <1>1, <1>2, <1>3
<1> QED BY <1>1, <1>2, <1>4 DEF JsPair

LEMMA ItemSame ==
  ASSUME NEW t \in Json, NEW p, NEW i \in Places(t), NEW f, NEW h, AgreeAfter(f, h, t, i), NEW kind
  PROVE  JsItem(f, kind, p, t, i) = JsItem(h, kind, p, t, i)
<1>1. JsPair(f, p, t, i) = JsPair(h, p, t, i)
  <2>1. JsPair(f, p, t, i) \subseteq JsPair(h, p, t, i)
    BY PairWithin
  <2>2. JsPair(h, p, t, i) \subseteq JsPair(f, p, t, i)
    BY AgreeIs, PairWithin
  <2> QED BY <2>1, <2>2
<1>2. JsValue(f, p, t, i) = JsValue(h, p, t, i)
  BY ValueSame
<1> QED BY <1>1, <1>2 DEF JsItem

LEMMA MoreSame ==
  ASSUME NEW t \in Json, NEW i \in Places(t), NEW f, NEW h, AgreeAfter(f, h, t, i), NEW kind,
         NEW one, one[2] \in Places(t), one[2] > i
  PROVE  JsMore(f, kind, t, one) = JsMore(h, kind, t, one)
<1>1. CASE CodeAt(t, SkipWs(t, one[2])) = 44
  <2>1. f[SkipWs(t, SkipWs(t, one[2]) + 1)] = h[SkipWs(t, SkipWs(t, one[2]) + 1)]
    BY <1>1, AfterComma DEF AgreeAfter
  <2> QED BY <2>1 DEF JsMore
<1>2. CASE CodeAt(t, SkipWs(t, one[2])) # 44
  BY <1>2 DEF JsMore
<1> QED BY <1>1, <1>2

LEMMA ItemsWithin ==
  ASSUME NEW t \in Json, NEW p, NEW i \in Places(t), NEW f, NEW h, AgreeAfter(f, h, t, i),
         TypedAfter(f, p, t, i), NEW kind \in {"list", "json"}
  PROVE  JsItems(f, kind, p, t, i) \subseteq JsItems(h, kind, p, t, i)
<1> SUFFICES ASSUME NEW r \in JsItems(f, kind, p, t, i) PROVE r \in JsItems(h, kind, p, t, i)
  OBVIOUS
<1>1. PICK one \in JsItem(f, kind, p, t, i) : r \in JsMore(f, kind, t, one)
  BY DEF JsItems
<1>2. one \in JsItem(h, kind, p, t, i)
  BY ItemSame
<1>3. one[2] \in Places(t) /\ one[2] > i
  <2>1. IsRead(t, i, ItemsOf(kind, TermsFrom(p, t, i)), one)
    BY ItemTyped
  <2> QED BY <2>1 DEF IsRead
<1>4. r \in JsMore(h, kind, t, one)
  BY <1>1, <1>3, MoreSame
<1> QED BY <1>2, <1>4 DEF JsItems

JsReadAt(read, p, t, i) ==
  [kind \in Kinds |-> IF kind = "value" THEN JsValue(read, p, t, i) ELSE JsItems(read, kind, p, t, i)]
AreRead(read, p, t) == read = [i \in Places(t) |-> JsReadAt(read, p, t, i)]

LEMMA ReadAtIs ==
  ASSUME NEW t, NEW p, NEW i, NEW read
  PROVE  /\ JsReadAt(read, p, t, i)["value"] = JsValue(read, p, t, i)
         /\ \A kind \in {"list", "json"} :
              JsReadAt(read, p, t, i)[kind] = JsItems(read, kind, p, t, i)
BY DEF JsReadAt, Kinds

LEMMA ReadAtSame ==
  ASSUME NEW t \in Json, NEW p, NEW i \in Places(t), NEW f, NEW h, AgreeAfter(f, h, t, i),
         TypedAfter(f, p, t, i)
  PROVE  JsReadAt(f, p, t, i) = JsReadAt(h, p, t, i)
<1>1. JsValue(f, p, t, i) = JsValue(h, p, t, i)
  BY ValueSame
<1>2. ASSUME NEW kind \in {"list", "json"}
      PROVE  JsItems(f, kind, p, t, i) = JsItems(h, kind, p, t, i)
  <2>1. JsItems(f, kind, p, t, i) \subseteq JsItems(h, kind, p, t, i)
    BY ItemsWithin
  <2>2. AgreeAfter(h, f, t, i) /\ TypedAfter(h, p, t, i)
    BY AgreeIs
  <2>3. JsItems(h, kind, p, t, i) \subseteq JsItems(f, kind, p, t, i)
    BY <2>2, ItemsWithin
  <2> QED BY <2>1, <2>3
<1>3. \A kind \in Kinds : kind = "value" \/ kind \in {"list", "json"}
  BY DEF Kinds
<1> QED BY <1>1, <1>2, <1>3 DEF JsReadAt

LEMMA ReadAtTyped ==
  ASSUME NEW t \in Json, NEW p, NEW i \in Places(t), NEW read, TypedAfter(read, p, t, i),
         read[i] = JsReadAt(read, p, t, i)
  PROVE  ReadTyped(read, p, t, i)
<1>1. read[i]["value"] = JsValue(read, p, t, i)
  BY ReadAtIs
<1>2. \A kind \in {"list", "json"} : read[i][kind] = JsItems(read, kind, p, t, i)
  BY ReadAtIs
<1>3. \A v \in read[i]["value"] : IsRead(t, i, TermsFrom(p, t, i), v)
  BY <1>1, ValueTyped
<1>4. ASSUME NEW kind \in {"list", "json"}, NEW r \in read[i][kind]
      PROVE  IsRead(t, i, Seq(ItemsOf(kind, TermsFrom(p, t, i))), r)
  <2>1. r \in JsItems(read, kind, p, t, i)
    BY <1>2
  <2> QED BY <2>1, ItemsTyped
<1> QED BY <1>3, <1>4 DEF ReadTyped

LEMMA ReadExists ==
  ASSUME NEW t \in Json, NEW p
  PROVE  AreRead(JsRead(p, t), p, t)
<1>1. PICK n \in Nat : n = Len(t) /\ Places(t) = 1..(n + 1)
  BY TextIs DEF Places
<1> DEFINE Known(f, k) == \A i \in Places(t) : i > n + 1 - k =>
                            f[i] = JsReadAt(f, p, t, i) /\ ReadTyped(f, p, t, i)
           T == {k \in Nat : \E f : Known(f, k)}
<1>2. 0 \in T
  BY <1>1
<1>3. ASSUME NEW k \in T PROVE k + 1 \in T
  <2>1. PICK f : Known(f, k)
    OBVIOUS
  <2> DEFINE h == [i \in Places(t) |-> JsReadAt(f, p, t, i)]
  <2>2. ASSUME NEW i \in Places(t), i > n + 1 - (k + 1)
        PROVE  h[i] = JsReadAt(h, p, t, i) /\ ReadTyped(h, p, t, i)
    <3>1. \A j \in Places(t) : j > i => f[j] = JsReadAt(f, p, t, j) /\ ReadTyped(f, p, t, j)
      BY <1>1, <2>1, <2>2
    <3>2. \A j \in Places(t) : h[j] = JsReadAt(f, p, t, j)
      OBVIOUS
    <3> HIDE DEF h
    <3>3. AgreeAfter(f, h, t, i) /\ TypedAfter(f, p, t, i)
      BY <3>1, <3>2 DEF AgreeAfter, TypedAfter
    <3>4. h[i] = JsReadAt(h, p, t, i)
      BY <3>2, <3>3, ReadAtSame
    <3>5. TypedAfter(h, p, t, i)
      BY <3>3, AgreeIs
    <3> QED BY <3>4, <3>5, ReadAtTyped
  <2>3. Known(h, k + 1) /\ k + 1 \in Nat
    <3> HIDE DEF h
    <3> QED BY <2>2
  <2> HIDE DEF h
  <2> QED BY <2>3
<1>4. T = Nat
  <2> HIDE DEF T
  <2>1. T \in SUBSET Nat
    BY DEF T
  <2> QED BY <1>2, <1>3, <2>1, Induction
<1>5. PICK f : Known(f, n + 2)
  <2>1. n + 2 \in T
    <3> HIDE DEF T
    <3> QED BY <1>4
  <2> QED BY <2>1, Zenon
<1> DEFINE h == [i \in Places(t) |-> JsReadAt(f, p, t, i)]
<1>6. \A i \in Places(t) : f[i] = h[i] /\ ReadTyped(f, p, t, i) /\ h[i] = JsReadAt(f, p, t, i)
  BY <1>1, <1>5
<1>7. h = [i \in Places(t) |-> JsReadAt(h, p, t, i)]
  <2>1. ASSUME NEW i \in Places(t) PROVE JsReadAt(f, p, t, i) = JsReadAt(h, p, t, i)
    <3> HIDE DEF h
    <3>1. AgreeAfter(f, h, t, i) /\ TypedAfter(f, p, t, i)
      BY <1>6 DEF AgreeAfter, TypedAfter
    <3> QED BY <3>1, ReadAtSame
  <2> QED BY <2>1
<1>8. JsRead(p, t) = CHOOSE read : AreRead(read, p, t)
  BY DEF JsRead, AreRead, JsReadAt, Places
<1> HIDE DEF h
<1> QED BY <1>7, <1>8 DEF AreRead

LEMMA ReadIs ==
  ASSUME NEW t \in Json, NEW p, NEW i \in Places(t)
  PROVE  /\ JsRead(p, t)[i]["value"] = JsValue(JsRead(p, t), p, t, i)
         /\ \A kind \in {"list", "json"} : JsRead(p, t)[i][kind] = JsItems(JsRead(p, t), kind, p, t, i)
         /\ ReadTyped(JsRead(p, t), p, t, i)
<1>1. PICK n \in Nat : n = Len(t) /\ Places(t) = 1..(n + 1)
  BY TextIs DEF Places
<1>2. PICK f : f = JsRead(p, t)
  OBVIOUS
<1>3. \A j \in Places(t) : f[j] = JsReadAt(f, p, t, j)
  BY <1>2, ReadExists DEF AreRead
<1> DEFINE T == {j \in Places(t) : ReadTyped(f, p, t, j)}
<1>4. ASSUME NEW j \in Places(t), \A l \in Places(t) : l > j => l \in T
      PROVE  j \in T
  BY <1>3, <1>4, ReadAtTyped DEF TypedAfter
<1>5. \A j \in 1..(n + 1) : j \in T
  <2> HIDE DEF T
  <2>1. \A j \in 1..(n + 1) : (\A l \in 1..(n + 1) : l > j => l \in T) => j \in T
    BY <1>1, <1>4
  <2> QED BY <2>1, Backwards
<1>6. ReadTyped(f, p, t, i)
  BY <1>1, <1>5
<1>7. f[i] = JsReadAt(f, p, t, i)
  BY <1>3
<1>8. /\ f[i]["value"] = JsValue(f, p, t, i)
      /\ \A kind \in {"list", "json"} : f[i][kind] = JsItems(f, kind, p, t, i)
  BY <1>7, ReadAtIs
<1> QED BY <1>2, <1>6, <1>8

\* A term is not nested deeper than its text is long.
LEMMA DecodeIs ==
  ASSUME NEW t \in Json, NEW p, NEW v \in Decode(p, t)
  PROVE  v \in Terms(LeavesIn(p))[Len(t)]
<1>1. PICK i \in Places(t) : i = SkipWs(t, 1)
  <2>1. 1 \in Places(t)
    BY TextIs DEF Places
  <2> QED BY <2>1, SkipIs
<1>2. PICK r \in JsRead(p, t)[i]["value"] : v = r[1]
  BY <1>1 DEF Decode
<1>3. v \in TermsFrom(p, t, i)
  BY <1>2, ReadIs DEF ReadTyped, IsRead
<1>4. PICK a \in Nat, n \in Nat : a = Len(t) + 1 - i /\ n = Len(t) /\ a <= n
  <2>1. Len(t) + 1 - i \in Nat /\ Len(t) \in Nat /\ Len(t) + 1 - i <= Len(t)
    BY PlacesAre
  <2> QED BY <2>1
<1>5. Terms(LeavesIn(p))[a] \subseteq Terms(LeavesIn(p))[n]
  BY <1>4, TermsGrow
<1> QED BY <1>3, <1>4, <1>5 DEF TermsFrom

(***************************************************************************)
(* Texts that stand one after the other in a text: where each one starts.  *)
(***************************************************************************)
AllStand(at, t, i, texts) ==
  /\ at \in [0..Len(texts) -> Places(t)]
  /\ at[0] = i /\ at[Len(texts)] = i + Len(FlattenSeq(texts))
  /\ \A k \in 1..Len(texts) : Stands(t, at[k - 1], texts[k]) /\ at[k] = at[k - 1] + Len(texts[k])

LEMMA StandsBegins ==
  ASSUME NEW t, NEW i \in Nat, NEW a \in Json, NEW b \in Json, Begins(a, b), Stands(t, i, b), Len(t) \in Nat
  PROVE  Stands(t, i, a)
<1>1. Len(a) \in Nat /\ Len(b) \in Nat
  BY DEF Json
<1> QED BY <1>1 DEF Begins, Stands

LEMMA TextsLaid ==
  ASSUME NEW t \in Json, NEW i \in Places(t), NEW texts \in Seq(Json), Stands(t, i, FlattenSeq(texts))
  PROVE  \E at : AllStand(at, t, i, texts)
<1>1. PICK n \in Nat : n = Len(texts) /\ \A k \in 1..n : texts[k] \in Json
  OBVIOUS
<1>2. PICK w : IsFlattening(w, Nat, texts)
  BY FlatteningIs DEF Json
<1>3. /\ \A k \in 0..n : w[k] \in Json
      /\ w[0] = <<>> /\ w[n] = FlattenSeq(texts) /\ \A k \in 1..n : w[k] = w[k - 1] \o texts[k]
  BY <1>1, <1>2 DEF IsFlattening, Json
<1>4. \A k \in 0..n : Begins(w[k], w[n])
  BY <1>1, <1>2, FlatteningBegins DEF Json
<1>5. i \in Nat /\ Len(t) \in Nat
  BY PlacesAre
<1>6. ASSUME NEW k \in 0..n PROVE Stands(t, i, w[k]) /\ i + Len(w[k]) \in Places(t)
  <2>1. Stands(t, i, w[k])
    <3>1. w[n] \in Json /\ Stands(t, i, w[n])
      BY <1>1, <1>3
    <3> QED BY <1>3, <1>4, <1>5, <3>1, StandsBegins
  <2> QED BY <1>3, <2>1, StandsCode
<1>7. ASSUME NEW k \in 1..n
      PROVE  /\ Stands(t, i + Len(w[k - 1]), texts[k])
             /\ i + Len(w[k]) = i + Len(w[k - 1]) + Len(texts[k])
  <2>1. PICK a \in Json, b \in Json : a = w[k - 1] /\ b = texts[k]
    <3>1. k - 1 \in 0..n
      BY <1>1
    <3> QED BY <1>1, <1>3, <3>1
  <2>2. w[k] = a \o b /\ Stands(t, i, a \o b)
    <3>1. k \in 0..n
      BY <1>1
    <3> QED BY <1>3, <1>6, <2>1, <3>1
  <2>3. IsConcat(a \o b, a, b)
    BY ConcatIs
  <2>4. Len(w[k]) = Len(a) + Len(b) /\ Len(a) \in Nat /\ Len(b) \in Nat
    BY <2>2, <2>3 DEF IsConcat
  <2>5. Stands(t, i + Len(a), b)
    BY <2>2, StandsConcat
  <2>6. i + Len(w[k]) = i + Len(a) + Len(b)
    BY <1>5, <2>4
  <2> QED BY <2>1, <2>5, <2>6, Zenon
<1>8. PICK at : at = [k \in 0..n |-> i + Len(w[k])]
  OBVIOUS
<1>9. at \in [0..n -> Places(t)]
  BY <1>6, <1>8
<1>10. at[0] = i /\ at[n] = i + Len(FlattenSeq(texts))
  <2>1. at[0] = i + Len(w[0]) /\ at[n] = i + Len(w[n])
    BY <1>1, <1>8
  <2>2. Len(w[0]) = 0
    BY <1>3
  <2> QED BY <1>3, <1>5, <2>1, <2>2
<1>11. ASSUME NEW k \in 1..n PROVE Stands(t, at[k - 1], texts[k]) /\ at[k] = at[k - 1] + Len(texts[k])
  <2>1. at[k] = i + Len(w[k]) /\ at[k - 1] = i + Len(w[k - 1])
    BY <1>1, <1>8
  <2> QED BY <1>7, <2>1
<1> QED BY <1>1, <1>9, <1>10, <1>11 DEF AllStand

-----------------------------------------------------------------------------
(***************************************************************************)
(* Strings are read back.                                                  *)
(***************************************************************************)
LEMMA HexDigitIs ==
  ASSUME NEW v \in 0..15
  PROVE  HexDigit(v) \in Nat /\ HexVal(HexDigit(v)) = v
BY DEF HexDigit, HexVal, IsDigit

IsEscape(c, e) == e \in DOMAIN Unescape /\ Unescape[e] = c
EscapeOf(c) == CHOOSE e \in DOMAIN Unescape : Unescape[e] = c

LEMMA EscapeIs ==
  ASSUME NEW c \in {34, 92, 8, 9, 10, 12, 13}
  PROVE  IsEscape(c, EscapeOf(c))
<1>1. \E e \in DOMAIN Unescape : Unescape[e] = c
  BY DEF Unescape
<1> QED BY <1>1, Zenon DEF IsEscape, EscapeOf

\* Which of the three spellings a code has.
LEMMA EscapeCharIs ==
  ASSUME NEW c \in Nat
  PROVE  \/ \E e : IsEscape(c, e) /\ EscapeChar(c) = <<92, e>>
         \/ \E a \in 0..15, b \in 0..15 :
              /\ c = a * 16 + b /\ c < 32
              /\ EscapeChar(c) = <<92, 117, 48, 48, HexDigit(a), HexDigit(b)>>
         \/ EscapeChar(c) = <<c>> /\ c \notin {34, 92}
<1>1. CASE c \in {34, 92, 8, 9, 10, 12, 13}
  <2>1. IsEscape(c, EscapeOf(c))
    BY <1>1, EscapeIs
  <2>2. EscapeChar(c) = <<92, EscapeOf(c)>>
    BY <1>1 DEF EscapeChar, EscapeOf
  <2> QED BY <2>1, <2>2
<1>2. CASE c \notin {34, 92, 8, 9, 10, 12, 13} /\ c < 32
  <2>1. PICK a \in 0..15, b \in 0..15 : a = c \div 16 /\ b = c % 16 /\ c = a * 16 + b
    <3>1. c \div 16 \in 0..15 /\ c % 16 \in 0..15 /\ c = (c \div 16) * 16 + (c % 16)
      BY <1>2
    <3> QED BY <3>1
  <2>2. EscapeChar(c) = <<92, 117, 48, 48, HexDigit(a), HexDigit(b)>>
    BY <1>2, <2>1 DEF EscapeChar
  <2> QED BY <1>2, <2>1, <2>2
<1>3. CASE c \notin {34, 92, 8, 9, 10, 12, 13} /\ ~(c < 32)
  BY <1>3 DEF EscapeChar
<1> QED BY <1>1, <1>2, <1>3

LEMMA EscapeCharText ==
  ASSUME NEW c \in Nat
  PROVE  EscapeChar(c) \in Json /\ Len(EscapeChar(c)) > 0
<1>1. ASSUME NEW e, IsEscape(c, e), EscapeChar(c) = <<92, e>>
      PROVE  EscapeChar(c) \in Json /\ Len(EscapeChar(c)) > 0
  <2>1. e \in Nat
    BY <1>1 DEF IsEscape, Unescape
  <2>2. <<92, e>> \in Json /\ Len(<<92, e>>) > 0
    BY <2>1 DEF Json
  <2> QED BY <1>1, <2>2
<1>2. ASSUME NEW a \in 0..15, NEW b \in 0..15, EscapeChar(c) = <<92, 117, 48, 48, HexDigit(a), HexDigit(b)>>
      PROVE  EscapeChar(c) \in Json /\ Len(EscapeChar(c)) > 0
  <2>1. PICK x \in Nat, y \in Nat : x = HexDigit(a) /\ y = HexDigit(b)
    BY HexDigitIs
  <2>2. <<92, 117, 48, 48, x, y>> \in Json /\ Len(<<92, 117, 48, 48, x, y>>) > 0
    BY <2>1 DEF Json
  <2> QED BY <1>2, <2>1, <2>2
<1>3. ASSUME EscapeChar(c) = <<c>>
      PROVE  EscapeChar(c) \in Json /\ Len(EscapeChar(c)) > 0
  <2>1. <<c>> \in Json /\ Len(<<c>>) > 0
    BY DEF Json
  <2> QED BY <1>3, <2>1
<1> QED BY <1>1, <1>2, <1>3, EscapeCharIs

\* The code that is escaped is read.
LEMMA EscapeRead ==
  ASSUME NEW t \in Json, NEW i \in Places(t), NEW p, NEW c \in Nat, Stands(t, i, EscapeChar(c))
  PROVE  JsChar(p, t, i) = {<<<<c>>, i + Len(EscapeChar(c))>>}
<1>1. PICK w \in Json : w = EscapeChar(c) /\ Len(w) > 0
  BY EscapeCharText
<1>2. CodesAt(t, i, w) /\ Stands(t, i, w)
  BY <1>1, StandsCode
<1>3. PICK l \in Nat : l = Len(w)
  BY <1>1 DEF Json
<1>4. \A k \in 1..l : CodeAt(t, i + k - 1) = w[k]
  BY <1>2, <1>3 DEF CodesAt
<1>5. i \in Nat \ {0}
  BY PlacesAre
<1>6. ASSUME NEW e, IsEscape(c, e), w = <<92, e>>
      PROVE  JsChar(p, t, i) = {<<<<c>>, i + l>>}
  <2>1. l = 2 /\ w[1] = 92 /\ w[2] = e
    BY <1>3, <1>6
  <2>2. CodeAt(t, i + 1 - 1) = 92 /\ CodeAt(t, i + 2 - 1) = e
    BY <1>4, <2>1
  <2>3. i + 1 - 1 = i /\ i + 2 - 1 = i + 1
    BY <1>5
  <2>4. CodeAt(t, i) = 92 /\ CodeAt(t, i + 1) = e
    BY <2>2, <2>3
  <2>5. e # 117 /\ DOMAIN Unescape \cap {e} = {e} /\ Unescape[e] = c
    <3>1. e \in DOMAIN Unescape /\ Unescape[e] = c
      BY <1>6 DEF IsEscape
    <3>2. 117 \notin DOMAIN Unescape
      BY DEF Unescape
    <3> QED BY <3>1, <3>2
  <2>6. JsChar(p, t, i) = {<<<<Unescape[x]>>, i + 2>> : x \in DOMAIN Unescape \cap {e}}
    BY <2>4, <2>5 DEF JsChar
  <2> QED BY <2>1, <2>5, <2>6
<1>7. ASSUME NEW a \in 0..15, NEW b \in 0..15, c = a * 16 + b, c < 32,
             w = <<92, 117, 48, 48, HexDigit(a), HexDigit(b)>>
      PROVE  JsChar(p, t, i) = {<<<<c>>, i + l>>}
  <2>1. PICK x \in Nat, y \in Nat : x = HexDigit(a) /\ y = HexDigit(b) /\ HexVal(x) = a /\ HexVal(y) = b
    BY HexDigitIs
  <2>2. l = 6 /\ w[1] = 92 /\ w[2] = 117 /\ w[3] = 48 /\ w[4] = 48 /\ w[5] = x /\ w[6] = y
    BY <1>3, <1>7, <2>1
  <2>3. /\ CodeAt(t, i + 1 - 1) = 92 /\ CodeAt(t, i + 2 - 1) = 117 /\ CodeAt(t, i + 3 - 1) = 48
        /\ CodeAt(t, i + 4 - 1) = 48 /\ CodeAt(t, i + 5 - 1) = x /\ CodeAt(t, i + 6 - 1) = y
    BY <1>4, <2>2
  <2>4. /\ i + 1 - 1 = i /\ i + 2 - 1 = i + 1 /\ i + 3 - 1 = i + 1 + 1
        /\ i + 4 - 1 = i + 1 + 2 /\ i + 5 - 1 = i + 1 + 3 /\ i + 6 - 1 = i + 1 + 4
    BY <1>5
  <2>5. /\ CodeAt(t, i) = 92 /\ CodeAt(t, i + 1) = 117 /\ CodeAt(t, i + 1 + 1) = 48
        /\ CodeAt(t, i + 1 + 2) = 48 /\ CodeAt(t, i + 1 + 3) = x /\ CodeAt(t, i + 1 + 4) = y
    BY <2>3, <2>4
  <2>6. HexVal(48) = 0
    BY DEF HexVal, IsDigit
  <2>7. PICK h : h = [k \in 1..4 |-> HexVal(CodeAt(t, i + 1 + k))]
    OBVIOUS
  <2>8. h[1] = 0 /\ h[2] = 0 /\ h[3] = a /\ h[4] = b
    BY <2>1, <2>5, <2>6, <2>7
  <2>9. \A k \in 1..4 : ~(h[k] < 0)
    BY <2>8
  <2>10. Escaped(t, i) = ((h[1] * 16 + h[2]) * 16 + h[3]) * 16 + h[4]
    BY <2>5, <2>7, <2>9 DEF Escaped
  <2>11. Escaped(t, i) = c
    BY <1>7, <2>8, <2>10
  <2>12. ~(c < 0) /\ ~IsHigh(c)
    BY <1>7, SMT DEF IsHigh
  <2>13. JsChar(p, t, i) = {<<CodePoint(p, c), i + 6>>}
    BY <2>5, <2>11, <2>12 DEF JsChar
  <2>14. CodePoint(p, c) = <<c>>
    <3>1. c < 128
      BY <1>7
    <3> QED BY <3>1, CodePointIs
  <2> QED BY <2>2, <2>13, <2>14
<1>8. ASSUME w = <<c>>, c \notin {34, 92}
      PROVE  JsChar(p, t, i) = {<<<<c>>, i + l>>}
  <2>1. l = 1 /\ w[1] = c
    BY <1>3, <1>8
  <2>2. CodeAt(t, i) = c /\ i <= Len(t)
    <3>1. CodeAt(t, i) = w[1]
      BY <1>1, <1>2, StandsFirst
    <3>2. CodeAt(t, i) # -1
      BY <2>1, <3>1
    <3> QED BY <1>5, <2>1, <3>1, <3>2, CodeIs
  <2>3. t[i] = c
    BY <1>5, <2>2, CodeIs
  <2>4. CodeAt(t, i) \notin {34, -1} /\ CodeAt(t, i) # 92
    BY <1>8, <2>2
  <2> QED BY <2>1, <2>3, <2>4 DEF JsChar
<1> QED BY <1>1, <1>3, <1>6, <1>7, <1>8, EscapeCharIs

LEMMA OneIs ==
  ASSUME NEW S, NEW a \in S
  PROVE  <<a>> \in Seq(S) /\ Len(<<a>>) = 1 /\ <<a>>[1] = a
OBVIOUS

\* The rest of a sequence.
Rest(s, j) == SubSeq(s, j, Len(s))

LEMMA RestIs ==
  ASSUME NEW S, NEW s \in Seq(S)
  PROVE  /\ Rest(s, Len(s) + 1) = <<>> /\ Rest(s, 1) = s
         /\ \A j \in 1..Len(s) : Rest(s, j + 1) \in Seq(S) /\ Rest(s, j) = <<s[j]>> \o Rest(s, j + 1)
<1>1. PICK n \in Nat : n = Len(s) /\ \A k \in 1..n : s[k] \in S
  OBVIOUS
<1>2. Rest(s, n + 1) = <<>>
  BY <1>1, SubSeqEmpty DEF Rest
<1>3. ASSUME NEW j \in 1..(n + 1)
      PROVE  \E r \in Seq(S) : /\ r = Rest(s, j) /\ Len(r) = n - j + 1
                               /\ \A k \in 1..(n - j + 1) : r[k] = s[j + k - 1]
  <2>1. j \in 1..(Len(s) + 1) /\ n \in (j - 1)..Len(s)
    BY <1>1
  <2>2. SubSeq(s, j, n) \in Seq(S) /\ Len(SubSeq(s, j, n)) = n - j + 1
        /\ \A k \in 1..(n - j + 1) : SubSeq(s, j, n)[k] = s[j + k - 1]
    BY <2>1, SubSeqProperties
  <2> QED BY <1>1, <2>2 DEF Rest
<1>4. Rest(s, 1) = s
  <2>1. PICK r \in Seq(S) : r = Rest(s, 1) /\ Len(r) = n /\ \A k \in 1..n : r[k] = s[k]
    <3>1. 1 \in 1..(n + 1) /\ n - 1 + 1 = n /\ \A k \in 1..n : 1 + k - 1 = k
      OBVIOUS
    <3> QED BY <1>3, <3>1
  <2> QED BY <1>1, <2>1, SeqEqual
<1>5. ASSUME NEW j \in 1..n
      PROVE  Rest(s, j + 1) \in Seq(S) /\ Rest(s, j) = <<s[j]>> \o Rest(s, j + 1)
  <2>1. PICK r \in Seq(S) : r = Rest(s, j) /\ Len(r) = n - j + 1
                            /\ \A k \in 1..(n - j + 1) : r[k] = s[j + k - 1]
    <3>1. j \in 1..(n + 1)
      OBVIOUS
    <3> QED BY <1>3, <3>1
  <2>2. PICK m \in Nat : m = n - j /\ n - j + 1 = m + 1 /\ n - (j + 1) + 1 = m
    OBVIOUS
  <2>3. PICK q \in Seq(S) : q = Rest(s, j + 1) /\ Len(q) = m /\ \A k \in 1..m : q[k] = s[j + 1 + k - 1]
    <3>1. j + 1 \in 1..(n + 1)
      OBVIOUS
    <3> QED BY <1>3, <2>2, <3>1
  <2>4. PICK one \in Seq(S) : one = <<s[j]>> /\ Len(one) = 1 /\ one[1] = s[j]
    <3>1. s[j] \in S
      BY <1>1
    <3>2. <<s[j]>> \in Seq(S) /\ Len(<<s[j]>>) = 1 /\ <<s[j]>>[1] = s[j]
      BY <3>1, OneIs
    <3> QED BY <3>2
  <2>5. PICK c \in Seq(S) : /\ c = one \o q /\ Len(c) = 1 + m /\ (\A k \in 1..1 : c[k] = one[k])
                            /\ \A k \in 1..m : c[1 + k] = q[k]
    <3>1. one \o q \in Seq(S) /\ Len(one \o q) = Len(one) + Len(q)
          /\ (\A k \in 1..Len(one) : (one \o q)[k] = one[k])
          /\ \A k \in 1..Len(q) : (one \o q)[Len(one) + k] = q[k]
      BY ConcatBegins DEF Begins
    <3> QED BY <2>3, <2>4, <3>1
  <2>6. ASSUME NEW k \in 1..(m + 1) PROVE c[k] = r[k]
    <3>1. r[k] = s[j + k - 1]
      BY <2>1, <2>2
    <3>2. CASE k = 1
      <4>1. j + k - 1 = j /\ c[1] = one[1]
        BY <2>5, <3>2
      <4> QED BY <2>4, <3>1, <3>2, <4>1
    <3>3. CASE k # 1
      <4>1. PICK h \in 1..m : k = 1 + h /\ j + 1 + h - 1 = j + k - 1
        <5>1. k - 1 \in 1..m /\ k = 1 + (k - 1) /\ j + 1 + (k - 1) - 1 = j + k - 1
          BY <2>2, <3>3
        <5> QED BY <5>1
      <4>2. c[k] = q[h] /\ q[h] = s[j + k - 1]
        BY <2>3, <2>5, <4>1
      <4> QED BY <3>1, <4>2
    <3> QED BY <3>2, <3>3
  <2>7. c = r
    <3>1. Len(c) = Len(r) /\ Len(c) = m + 1
      BY <2>1, <2>2, <2>5
    <3> QED BY <2>6, <3>1, SeqEqual
  <2> QED BY <2>1, <2>3, <2>4, <2>5, <2>7
<1> QED BY <1>1, <1>2, <1>4, <1>5

-----------------------------------------------------------------------------
\* A text between two codes.
Between(a, m, z) == <<a>> \o m \o <<z>>
StandsBetween(t, i, a, m, z) ==
  /\ CodeAt(t, i) = a /\ i + 1 \in Places(t) /\ Stands(t, i + 1, m)
  /\ i + 1 + Len(m) \in Places(t) /\ CodeAt(t, i + 1 + Len(m)) = z
  /\ i + Len(Between(a, m, z)) = i + 1 + Len(m) + 1

LEMMA BetweenIs ==
  ASSUME NEW a \in Nat, NEW m \in Json, NEW z \in Nat
  PROVE  /\ Between(a, m, z) \in Json /\ Len(Between(a, m, z)) > 0 /\ Between(a, m, z)[1] = a
         /\ \A t \in Json : \A i \in Places(t) :
              Stands(t, i, Between(a, m, z)) => StandsBetween(t, i, a, m, z)
<1>1. PICK x \in Json, y \in Json : x = <<a>> /\ Len(x) = 1 /\ x[1] = a /\ y = <<z>> /\ Len(y) = 1 /\ y[1] = z
  <2>1. <<a>> \in Json /\ Len(<<a>>) = 1 /\ <<a>>[1] = a
    BY OneIs DEF Json
  <2>2. <<z>> \in Json /\ Len(<<z>>) = 1 /\ <<z>>[1] = z
    BY OneIs DEF Json
  <2> QED BY <2>1, <2>2
<1>2. PICK l : l = x \o m
  OBVIOUS
<1>3. IsConcat(l, x, m)
  BY <1>2, ConcatIs
<1>4. PICK b : b = l \o y /\ b = Between(a, m, z)
  BY <1>1, <1>2 DEF Between
<1>5. l \in Json
  BY <1>3 DEF IsConcat
<1>6. IsConcat(b, l, y)
  BY <1>4, <1>5, ConcatIs
<1>7. PICK n \in Nat : n = Len(m) /\ Len(l) = 1 + n /\ Len(b) = 1 + n + 1 /\ b \in Json
  BY <1>1, <1>3, <1>6 DEF IsConcat
<1>8. b[1] = a
  <2>1. l[1] = x[1]
    BY <1>1, <1>3 DEF IsConcat
  <2>2. 1 \in 1..Len(l)
    BY <1>7
  <2>3. b[1] = l[1]
    BY <1>6, <2>2 DEF IsConcat
  <2> QED BY <1>1, <2>1, <2>3
<1>9. ASSUME NEW t \in Json, NEW i \in Places(t), Stands(t, i, b)
      PROVE  StandsBetween(t, i, a, m, z)
  <2>1. Stands(t, i, l) /\ i + Len(l) \in Places(t) /\ Stands(t, i + Len(l), y)
    <3>1. Stands(t, i, l \o y)
      BY <1>4, <1>9
    <3> QED BY <1>5, <3>1, StandsConcat
  <2>2. Stands(t, i, x) /\ i + Len(x) \in Places(t) /\ Stands(t, i + Len(x), m)
    BY <1>2, <2>1, StandsConcat
  <2>3. CodeAt(t, i) = a
    BY <1>1, <2>2, StandsFirst
  <2>4. CodeAt(t, i + Len(l)) = z
    BY <1>1, <2>1, StandsFirst
  <2>5. i + Len(l) = i + 1 + n /\ i + Len(b) = i + 1 + n + 1
    <3>1. i \in Nat
      BY PlacesAre
    <3> QED BY <1>7, <3>1
  <2> QED BY <1>1, <1>4, <1>7, <2>1, <2>2, <2>3, <2>4, <2>5 DEF StandsBetween
<1> QED BY <1>4, <1>7, <1>8, <1>9

EscapedTexts(s) == [k \in DOMAIN s |-> EscapeChar(s[k])]

LEMMA EscapedTextsAre ==
  ASSUME NEW s \in Json
  PROVE  /\ EscapedTexts(s) \in Seq(Json) /\ Len(EscapedTexts(s)) = Len(s)
         /\ \A k \in 1..Len(s) : EscapedTexts(s)[k] = EscapeChar(s[k])
<1>1. PICK n \in Nat : n = Len(s) /\ DOMAIN s = 1..n /\ \A k \in 1..n : s[k] \in Nat
  BY DEF Json
<1>2. EscapedTexts(s) \in [1..n -> Json]
  BY <1>1, EscapeCharText DEF EscapedTexts
<1>3. EscapedTexts(s) \in Seq(Json) /\ Len(EscapedTexts(s)) = n
  BY <1>1, <1>2
<1> QED BY <1>1, <1>3 DEF EscapedTexts

LEMMA FlatIs ==
  ASSUME NEW texts \in Seq(Json)
  PROVE  FlattenSeq(texts) \in Json
<1>1. IsFlattening(Flattening(Nat, texts), Nat, texts)
  BY FlatteningIs DEF Json
<1>2. PICK n \in Nat : n = Len(texts)
  OBVIOUS
<1>4. Flattening(Nat, texts) \in [0..n -> Json] /\ Flattening(Nat, texts)[n] = FlattenSeq(texts)
  BY <1>1, <1>2 DEF IsFlattening, Json
<1>3. n \in 0..n
  OBVIOUS
<1> QED BY <1>3, <1>4

LEMMA EncodeStringIs ==
  ASSUME NEW s \in Json
  PROVE  /\ EncodeString(s) = Between(34, FlattenSeq(EscapedTexts(s)), 34)
         /\ FlattenSeq(EscapedTexts(s)) \in Json
         /\ EncodeString(s) \in Json /\ Len(EncodeString(s)) > 0 /\ EncodeString(s)[1] = 34
<1>1. EncodeString(s) = Between(34, FlattenSeq(EscapedTexts(s)), 34)
  BY DEF EncodeString, Between, EscapedTexts
<1>2. FlattenSeq(EscapedTexts(s)) \in Json
  BY EscapedTextsAre, FlatIs
<1>3. 34 \in Nat
  OBVIOUS
<1> QED BY <1>1, <1>2, <1>3, BetweenIs

LEMMA RestCodes ==
  ASSUME NEW s \in Json
  PROVE  /\ Rest(s, Len(s) + 1) = <<>> /\ Rest(s, 1) = s
         /\ \A j \in 1..Len(s) : Rest(s, j) = <<s[j]>> \o Rest(s, j + 1)
BY RestIs DEF Json

LEMMA CharsRead ==
  ASSUME NEW t \in Json, NEW i \in Places(t), NEW p, NEW s \in Json,
         Stands(t, i, FlattenSeq(EscapedTexts(s))), NEW z \in Places(t),
         z = i + Len(FlattenSeq(EscapedTexts(s))), CodeAt(t, z) = 34
  PROVE  JsChars(p, t)[i] = <<s, z>>
<1>1. PICK n \in Nat : n = Len(s) /\ \A k \in 1..n : s[k] \in Nat
  BY TextIs
<1>2. PICK texts \in Seq(Json) : /\ texts = EscapedTexts(s) /\ Len(texts) = n
                                 /\ \A k \in 1..n : texts[k] = EscapeChar(s[k])
  BY <1>1, EscapedTextsAre
<1>3. PICK at : AllStand(at, t, i, texts)
  BY <1>2, TextsLaid
<1>4. /\ \A k \in 0..n : at[k] \in Places(t)
      /\ at[0] = i /\ at[n] = z
      /\ \A k \in 1..n : Stands(t, at[k - 1], texts[k]) /\ at[k] = at[k - 1] + Len(texts[k])
  BY <1>2, <1>3 DEF AllStand
<1>9. /\ Rest(s, n + 1) = <<>> /\ Rest(s, 1) = s
      /\ \A j \in 1..n : Rest(s, j) = <<s[j]>> \o Rest(s, j + 1)
  BY <1>1, RestCodes
<1> DEFINE T == {j \in 1..(n + 1) : JsChars(p, t)[at[j - 1]] = <<Rest(s, j), z>>}
<1>5. n + 1 \in T
  <2>1. JsChar(p, t, z) = {}
    BY DEF JsChar
  <2>2. JsChars(p, t)[z] = <<<<>>, z>>
    <3>1. JsChars(p, t)[z] = CharsAt(JsChars(p, t), p, t, z)
      BY JsCharsAre
    <3> QED BY <2>1, <3>1 DEF CharsAt
  <2>3. at[(n + 1) - 1] = z /\ Rest(s, n + 1) = <<>>
    <3>1. (n + 1) - 1 = n
      OBVIOUS
    <3> QED BY <1>1, <1>4, <1>9, <3>1
  <2> QED BY <2>2, <2>3
<1>6. ASSUME NEW j \in 1..n, j + 1 \in T PROVE j \in T
  <2>1. PICK a \in Places(t) : a = at[j - 1]
    <3>1. j - 1 \in 0..n
      OBVIOUS
    <3> QED BY <1>4, <3>1
  <2>2. PICK b \in Places(t) : b = at[j] /\ b = a + Len(EscapeChar(s[j])) /\ Stands(t, a, EscapeChar(s[j]))
    <3>1. j \in 0..n
      BY <1>1
    <3>2. Stands(t, at[j - 1], texts[j]) /\ at[j] = at[j - 1] + Len(texts[j]) /\ texts[j] = EscapeChar(s[j])
      BY <1>2, <1>4
    <3> QED BY <1>4, <2>1, <3>1, <3>2
  <2>3. JsChar(p, t, a) = {<<<<s[j]>>, b>>}
    <3>1. PICK c \in Nat : c = s[j]
      BY <1>1
    <3>2. Stands(t, a, EscapeChar(c))
      BY <2>2, <3>1
    <3>3. JsChar(p, t, a) = {<<<<c>>, a + Len(EscapeChar(c))>>}
      BY <3>2, EscapeRead
    <3> QED BY <2>2, <3>1, <3>3
  <2>4. JsChars(p, t)[b] = <<Rest(s, j + 1), z>>
    <3>1. (j + 1) - 1 = j
      OBVIOUS
    <3> QED BY <1>6, <2>2, <3>1
  <2>5. JsChars(p, t)[a] = <<<<s[j]>> \o Rest(s, j + 1), z>>
    <3>1. JsChars(p, t)[a] = CharsAt(JsChars(p, t), p, t, a)
      BY JsCharsAre
    <3>2. PICK char : char = CHOOSE x \in JsChar(p, t, a) : TRUE
      OBVIOUS
    <3>3. char = <<<<s[j]>>, b>> /\ JsChar(p, t, a) # {}
      BY <2>3, <3>2
    <3>4. CharsAt(JsChars(p, t), p, t, a) =
            <<char[1] \o JsChars(p, t)[char[2]][1], JsChars(p, t)[char[2]][2]>>
      BY <3>2, <3>3 DEF CharsAt
    <3>5. char[1] = <<s[j]>> /\ char[2] = b
      BY <3>3
    <3>6. JsChars(p, t)[b][1] = Rest(s, j + 1) /\ JsChars(p, t)[b][2] = z
      BY <2>4
    <3> QED BY <3>1, <3>4, <3>5, <3>6
  <2>6. Rest(s, j) = <<s[j]>> \o Rest(s, j + 1)
    BY <1>9
  <2>7. j \in 1..(n + 1)
    OBVIOUS
  <2> QED BY <2>1, <2>5, <2>6, <2>7
<1>7. \A j \in 1..(n + 1) : j \in T
  <2> HIDE DEF T
  <2>1. \A j \in 1..(n + 1) : (\A h \in 1..(n + 1) : h > j => h \in T) => j \in T
    <3> SUFFICES ASSUME NEW j \in 1..(n + 1), \A h \in 1..(n + 1) : h > j => h \in T PROVE j \in T
      OBVIOUS
    <3>1. CASE j = n + 1
      BY <1>5, <3>1
    <3>2. CASE j # n + 1
      <4>1. j \in 1..n /\ j + 1 \in 1..(n + 1) /\ j + 1 > j
        BY <3>2
      <4> QED BY <1>6, <4>1
    <3> QED BY <3>1, <3>2
  <2>2. PICK m \in Nat : m = n + 1
    OBVIOUS
  <2> QED BY <2>1, <2>2, Backwards
<1>8. JsChars(p, t)[at[1 - 1]] = <<Rest(s, 1), z>> /\ 1 - 1 = 0
  <2>1. 1 \in 1..(n + 1)
    OBVIOUS
  <2> QED BY <1>7, <2>1
<1> QED BY <1>4, <1>8, <1>9

\* A string that to_json has written is read as its codes.
LEMMA StringRead ==
  ASSUME NEW t \in Json, NEW i \in Places(t), NEW p, NEW s \in Json, Stands(t, i, EncodeString(s))
  PROVE  JsString(p, t, i) = {<<s, i + Len(EncodeString(s))>>} /\ CodeAt(t, i) = 34
<1>1. PICK m \in Json : m = FlattenSeq(EscapedTexts(s)) /\ EncodeString(s) = Between(34, m, 34)
  BY EncodeStringIs
<1>2. StandsBetween(t, i, 34, m, 34)
  <2>1. 34 \in Nat
    OBVIOUS
  <2> QED BY <1>1, <2>1, BetweenIs
<1>3. PICK z \in Places(t) : z = i + 1 + Len(m) /\ CodeAt(t, z) = 34 /\ i + Len(EncodeString(s)) = z + 1
  BY <1>1, <1>2 DEF StandsBetween
<1>4. i + 1 \in Places(t) /\ Stands(t, i + 1, m) /\ CodeAt(t, i) = 34
  BY <1>2 DEF StandsBetween
<1>5. JsChars(p, t)[i + 1] = <<s, z>>
  <2>1. Stands(t, i + 1, FlattenSeq(EscapedTexts(s))) /\ z = (i + 1) + Len(FlattenSeq(EscapedTexts(s)))
    BY <1>1, <1>3, <1>4
  <2>2. PICK j \in Places(t) : j = i + 1
    BY <1>4
  <2>3. JsChars(p, t)[j] = <<s, z>>
    BY <1>3, <2>1, <2>2, CharsRead
  <2> QED BY <2>2, <2>3
<1>6. JsString(p, t, i) = {<<s, z + 1>>}
  BY <1>3, <1>4, <1>5 DEF JsString
<1> QED BY <1>3, <1>4, <1>6

(***************************************************************************)
(* A text is read as a value wherever it stands, if what follows it ends a *)
(* value.                                                                  *)
(***************************************************************************)
Follows(t, j) == CodeAt(t, j) \in {44, 93, 125, -1}
Opens(text) == text \in Json /\ Len(text) > 0 /\ text[1] \notin {32, 9, 10, 13, 93, 125}
ReadAs(kind, p, text, v) ==
  /\ Opens(text)
  /\ \A t \in Json : \A i \in Places(t) :
       Stands(t, i, text) /\ Follows(t, i + Len(text)) =>
         JsItem(JsRead(p, t), kind, p, t, i) = {<<v, i + Len(text)>>}

LEMMA ValueWritten ==
  ASSUME NEW p, NEW text, NEW v, Opens(text),
         \A t \in Json : \A i \in Places(t) :
           Stands(t, i, text) /\ Follows(t, i + Len(text)) =>
             JsValue(JsRead(p, t), p, t, i) = {<<v, i + Len(text)>>}
  PROVE  ReadAs("list", p, text, v)
<1>1. \A read, t, i : JsItem(read, "list", p, t, i) = JsValue(read, p, t, i)
  BY DEF JsItem
<1> QED BY <1>1 DEF ReadAs

LiteralsAt(t, i) == {w \in Literals : \A k \in DOMAIN w : CodeAt(t, i + k - 1) = w[k]}

LEMMA LiteralFirst ==
  ASSUME NEW t \in Json, NEW i \in Places(t), NEW w \in LiteralsAt(t, i)
  PROVE  w \in Literals /\ CodeAt(t, i) = w[1]
<1>1. 1 \in DOMAIN w /\ w \in Literals
  <2>1. w \in Literals
    BY DEF LiteralsAt
  <2>2. w \in Seq(Nat) /\ Len(w) \in {4, 5}
    BY <2>1, LiteralIs DEF Json
  <2> QED BY <2>1, <2>2
<1>2. CodeAt(t, i + 1 - 1) = w[1]
  BY <1>1 DEF LiteralsAt
<1>3. i + 1 - 1 = i
  BY PlacesAre
<1> QED BY <1>1, <1>2, <1>3

LEMMA LiteralsDiffer ==
  ASSUME NEW w \in Literals, NEW x \in Literals, w[1] = x[1]
  PROVE  w = x
BY DEF Literals, True, False, Null

LEMMA LiteralWritten ==
  ASSUME NEW p, NEW w \in Literals
  PROVE  ReadAs("list", p, w, <<"atom", w>>)
<1>1. Opens(w)
  <2>1. w \in Json /\ Len(w) \in {4, 5}
    BY LiteralIs
  <2>2. w[1] \notin {34, 123, 91, 32, 9, 10, 13, 93, 125, 45}
    BY LiteralIs
  <2>3. Len(w) > 0
    BY <2>1
  <2>4. w[1] \notin {32, 9, 10, 13, 93, 125}
    BY <2>2
  <2> QED BY <2>1, <2>3, <2>4 DEF Opens
<1>2. ASSUME NEW t \in Json, NEW i \in Places(t), Stands(t, i, w), Follows(t, i + Len(w))
      PROVE  JsValue(JsRead(p, t), p, t, i) = {<<<<"atom", w>>, i + Len(w)>>}
  <2>1. CodeAt(t, i) = w[1] /\ CodesAt(t, i, w)
    BY <1>1, <1>2, StandsFirst, StandsCode DEF Opens
  <2>2. CodeAt(t, i) \notin {34, 123, 91}
    BY <2>1, LiteralIs
  <2>3. w \in LiteralsAt(t, i)
    <3>1. DOMAIN w = 1..Len(w)
      BY LiteralIs DEF Json
    <3> QED BY <2>1, <3>1 DEF CodesAt, LiteralsAt
  <2>4. LiteralsAt(t, i) = {w}
    <3>1. ASSUME NEW x \in LiteralsAt(t, i) PROVE x = w
      BY <2>1, LiteralFirst, LiteralsDiffer
    <3> QED BY <2>3, <3>1
  <2>5. JsValue(JsRead(p, t), p, t, i) = {<<<<"atom", x>>, i + Len(x)>> : x \in LiteralsAt(t, i)}
    BY <2>2, <2>4 DEF JsValue, LiteralsAt
  <2> QED BY <2>4, <2>5
<1>3. \A t \in Json : \A i \in Places(t) :
        Stands(t, i, w) /\ Follows(t, i + Len(w)) =>
          JsValue(JsRead(p, t), p, t, i) = {<<<<"atom", w>>, i + Len(w)>>}
  BY <1>2
<1> QED BY <1>1, <1>3, ValueWritten

LEMMA StringWritten ==
  ASSUME NEW p, NEW s \in Json, p = "gnu" => s # <<91, 93>>
  PROVE  ReadAs("list", p, EncodeString(s), <<"atom", s>>)
<1>1. Opens(EncodeString(s))
  BY EncodeStringIs DEF Opens
<1>2. ASSUME NEW t \in Json, NEW i \in Places(t), Stands(t, i, EncodeString(s))
      PROVE  JsValue(JsRead(p, t), p, t, i) = {<<<<"atom", s>>, i + Len(EncodeString(s))>>}
  <2>1. JsString(p, t, i) = {<<s, i + Len(EncodeString(s))>>} /\ CodeAt(t, i) = 34
    <3>1. JsString(p, t, i) = {<<s, i + Len(EncodeString(s))>>}
      BY <1>2, StringRead, SMTT(20)
    <3>2. CodeAt(t, i) = 34
      BY <1>2, StringRead
    <3> QED BY <3>1, <3>2
  <2>2. JsValue(JsRead(p, t), p, t, i) =
          {<<AtomOf(p, string[1]), string[2]>> : string \in JsString(p, t, i)}
    BY <2>1 DEF JsValue
  <2>3. AtomOf(p, s) = <<"atom", s>>
    BY DEF AtomOf
  <2> QED BY <2>1, <2>2, <2>3
<1>3. \A t \in Json : \A i \in Places(t) :
        Stands(t, i, EncodeString(s)) /\ Follows(t, i + Len(EncodeString(s))) =>
          JsValue(JsRead(p, t), p, t, i) = {<<<<"atom", s>>, i + Len(EncodeString(s))>>}
  BY <1>2
<1> QED BY <1>1, <1>3, ValueWritten

\* A text that starts with a sign or a digit is read as a number.
NumberReadAs(p, text, v) ==
  \A t \in Json : \A i \in Places(t) :
    Stands(t, i, text) /\ EndsNumber(CodeAt(t, i + Len(text))) => JsNumber(p, t, i) = {<<v, i + Len(text)>>}

LEMMA NumberWritten ==
  ASSUME NEW p, NEW text \in Json, Len(text) > 0, text[1] \in {45} \cup (48..57), NEW v,
         NumberReadAs(p, text, v)
  PROVE  ReadAs("list", p, text, v)
<1>1. Opens(text)
  <2>1. PICK c \in {45} \cup (48..57) : c = text[1]
    OBVIOUS
  <2>2. c \notin {32, 9, 10, 13, 93, 125}
    OBVIOUS
  <2> QED BY <2>1, <2>2 DEF Opens
<1>2. ASSUME NEW t \in Json, NEW i \in Places(t), Stands(t, i, text), Follows(t, i + Len(text))
      PROVE  JsValue(JsRead(p, t), p, t, i) = {<<v, i + Len(text)>>}
  <2>1. CodeAt(t, i) = text[1]
    BY <1>2, StandsFirst
  <2>2. CodeAt(t, i) \notin {34, 123, 91}
    BY <2>1
  <2>3. LiteralsAt(t, i) = {}
    <3>1. ASSUME NEW w \in LiteralsAt(t, i) PROVE FALSE
      <4>1. w[1] \in {45} \cup (48..57) /\ w \in Literals
        BY <2>1, LiteralFirst
      <4> QED BY <4>1, LiteralIs
    <3> QED BY <3>1
  <2>4. JsValue(JsRead(p, t), p, t, i) = JsNumber(p, t, i)
    BY <2>2, <2>3 DEF JsValue, LiteralsAt
  <2>5. EndsNumber(CodeAt(t, i + Len(text)))
    <3>1. PICK c \in {44, 93, 125, -1} : c = CodeAt(t, i + Len(text))
      BY <1>2 DEF Follows
    <3>2. EndsNumber(c)
      BY DEF EndsNumber
    <3> QED BY <3>1, <3>2
  <2> QED BY <1>2, <2>4, <2>5 DEF NumberReadAs
<1>3. \A t \in Json : \A i \in Places(t) :
        Stands(t, i, text) /\ Follows(t, i + Len(text)) =>
          JsValue(JsRead(p, t), p, t, i) = {<<v, i + Len(text)>>}
  BY <1>2
<1> QED BY <1>1, <1>3, ValueWritten

LEMMA SpelledFirst ==
  ASSUME NEW m \in Int
  PROVE  Spelled(m)[1] \in {45} \cup (48..57)
<1>1. PICK s \in DigitCodes : Len(s) > 0 /\ Spelled(m) \in {<<45>> \o s, s}
  BY SpelledIs
<1>2. s[1] \in 48..57 /\ s \in Json
  <2>1. 1 \in DOMAIN s
    BY <1>1 DEF DigitCodes
  <2> QED BY <2>1, DigitsAreText DEF DigitCodes
<1>3. (<<45>> \o s)[1] = 45
  BY <1>2, SignBefore
<1> QED BY <1>1, <1>2, <1>3

LEMMA NumbersWritten ==
  ASSUME NEW p, NEW v \in NumbersIn(p)
  PROVE  ReadAs("list", p, NumberText(v), v)
<1>1. CASE v \in Ints(p)
  <2>1. PICK m \in Int : v = <<"int", m>> /\ InRange(p, m)
    BY <1>1 DEF Ints
  <2>2. PICK w \in Json : w = Spelled(m) /\ Len(w) > 0 /\ w[1] \in {45} \cup (48..57)
    BY SpelledValue, SpelledFirst
  <2>3. NumberText(v) = w
    BY <2>1, <2>2 DEF NumberText
  <2>4. NumberReadAs(p, w, v)
    BY <2>1, <2>2, IntRead DEF NumberReadAs
  <2> QED BY <2>2, <2>3, <2>4, NumberWritten
<1>2. CASE v \in Floats
  <2>1. PICK m \in Int, k \in Int : v = <<"float", m, k>> /\ Normal(m, k)
    BY <1>2 DEF Floats
  <2>2. PICK a \in Json, b \in Json :
          a = Spelled(m) /\ b = Spelled(k) /\ Len(a) > 0 /\ a[1] \in {45} \cup (48..57)
    BY SpelledValue, SpelledFirst
  <2>3. PICK mid \in Json : mid = <<46, 48, 101>>
    <3>1. <<46, 48, 101>> \in Json
      BY DEF Json
    <3> QED BY <3>1
  <2>4. PICK l \in Json, w \in Json : l = a \o mid /\ w = l \o b /\ IsConcat(l, a, mid) /\ IsConcat(w, l, b)
    <3>1. a \o mid \in Json /\ IsConcat(a \o mid, a, mid)
      BY ConcatIs DEF IsConcat
    <3>2. (a \o mid) \o b \in Json /\ IsConcat((a \o mid) \o b, a \o mid, b)
      BY <3>1, ConcatIs DEF IsConcat
    <3> QED BY <3>1, <3>2
  <2>5. Len(w) > 0 /\ w[1] = a[1]
    <3>1. 1 \in 1..Len(a) /\ 1 \in 1..Len(l) /\ Len(w) > 0
      BY <2>2, <2>4 DEF IsConcat
    <3> QED BY <2>4, <3>1 DEF IsConcat
  <2>6. NumberText(v) = w
    BY <2>1, <2>2, <2>3, <2>4 DEF NumberText
  <2>7. IsFloatText(w, m, k)
    BY <2>2, <2>3, <2>4 DEF IsFloatText
  <2>8. NumberReadAs(p, w, v)
    BY <2>1, <2>7, FloatRead DEF NumberReadAs
  <2>9. w[1] \in {45} \cup (48..57)
    BY <2>2, <2>5
  <2> QED BY <2>5, <2>6, <2>8, <2>9, NumberWritten
<1> QED BY <1>1, <1>2 DEF NumbersIn

(***************************************************************************)
(* Lists and objects are read back, if their elements are.                 *)
(***************************************************************************)
WithCommas(texts) == [i \in DOMAIN texts |-> IF i = 1 THEN texts[i] ELSE <<44>> \o texts[i]]

LEMMA WithCommasIs ==
  ASSUME NEW texts \in Seq(Json)
  PROVE  /\ WithCommas(texts) \in Seq(Json) /\ Len(WithCommas(texts)) = Len(texts)
         /\ Separated(texts) = FlattenSeq(WithCommas(texts))
         /\ \A k \in 1..Len(texts) :
              WithCommas(texts)[k] = IF k = 1 THEN texts[k] ELSE <<44>> \o texts[k]
<1>1. PICK n \in Nat : n = Len(texts) /\ DOMAIN texts = 1..n /\ \A k \in 1..n : texts[k] \in Json
  OBVIOUS
<1>2. \A k \in 1..n : WithCommas(texts)[k] = IF k = 1 THEN texts[k] ELSE <<44>> \o texts[k]
  BY <1>1 DEF WithCommas
<1>3. ASSUME NEW k \in 1..n PROVE WithCommas(texts)[k] \in Json
  <2>1. <<44>> \in Json
    BY DEF Json
  <2>2. IsConcat(<<44>> \o texts[k], <<44>>, texts[k])
    BY <1>1, <2>1, ConcatIs
  <2> QED BY <1>1, <1>2, <2>2 DEF IsConcat
<1>4. WithCommas(texts) \in [1..n -> Json]
  BY <1>1, <1>3 DEF WithCommas
<1>5. WithCommas(texts) \in Seq(Json) /\ Len(WithCommas(texts)) = n
  BY <1>4
<1>6. Separated(texts) = FlattenSeq(WithCommas(texts))
  BY DEF Separated, WithCommas
<1> QED BY <1>1, <1>2, <1>5, <1>6

\* Where the items start and end that stand with commas between them.
ItemStart(at, k) == IF k = 1 THEN at[0] ELSE at[k - 1] + 1
ItemsLaid(at, t, i, texts, z) ==
  /\ at \in [0..Len(texts) -> Places(t)] /\ at[0] = i /\ at[Len(texts)] = z
  /\ \A k \in 1..Len(texts) :
       /\ ItemStart(at, k) \in Places(t) /\ Stands(t, ItemStart(at, k), texts[k])
       /\ at[k] = ItemStart(at, k) + Len(texts[k])
       /\ k # 1 => CodeAt(t, at[k - 1]) = 44

LEMMA ItemsAreLaid ==
  ASSUME NEW t \in Json, NEW i \in Places(t), NEW texts \in Seq(Json), Stands(t, i, Separated(texts))
  PROVE  \E at : ItemsLaid(at, t, i, texts, i + Len(Separated(texts)))
<1>1. PICK n \in Nat : n = Len(texts) /\ \A k \in 1..n : texts[k] \in Json
  OBVIOUS
<1>2. PICK apart \in Seq(Json) :
        /\ Len(apart) = n /\ Separated(texts) = FlattenSeq(apart)
        /\ \A k \in 1..n : apart[k] = IF k = 1 THEN texts[k] ELSE <<44>> \o texts[k]
  BY <1>1, WithCommasIs
<1>3. PICK at : AllStand(at, t, i, apart)
  BY <1>2, TextsLaid
<1>4. /\ at \in [0..n -> Places(t)] /\ \A k \in 0..n : at[k] \in Places(t)
      /\ at[0] = i /\ at[n] = i + Len(Separated(texts))
      /\ \A k \in 1..n : Stands(t, at[k - 1], apart[k]) /\ at[k] = at[k - 1] + Len(apart[k])
  BY <1>2, <1>3 DEF AllStand
<1>5. ASSUME NEW k \in 1..n
      PROVE  /\ ItemStart(at, k) \in Places(t) /\ Stands(t, ItemStart(at, k), texts[k])
             /\ at[k] = ItemStart(at, k) + Len(texts[k])
             /\ k # 1 => CodeAt(t, at[k - 1]) = 44
  <2>1. CASE k = 1
    <3>1. at[k - 1] = at[0] /\ apart[k] = texts[k] /\ ItemStart(at, k) = at[0]
      <4>1. k - 1 = 0
        BY <2>1
      <4> QED BY <1>2, <2>1, <4>1 DEF ItemStart
    <3> QED BY <1>4, <2>1, <3>1
  <2>2. CASE k # 1
    <3>1. PICK a \in Places(t) : a = at[k - 1]
      <4>1. k - 1 \in 0..n
        OBVIOUS
      <4> QED BY <1>4, <4>1
    <3>2. ItemStart(at, k) = a + 1
      BY <2>2, <3>1 DEF ItemStart
    <3>3. PICK comma \in Json : comma = <<44>> /\ Len(comma) = 1 /\ comma[1] = 44
      <4>1. <<44>> \in Json /\ Len(<<44>>) = 1 /\ <<44>>[1] = 44
        BY OneIs DEF Json
      <4> QED BY <4>1
    <3>4. PICK x \in Json : x = texts[k]
      BY <1>1
    <3>5. Stands(t, a, comma \o x) /\ at[k] = a + Len(comma \o x)
      BY <1>2, <1>4, <2>2, <3>1, <3>3, <3>4
    <3>6. Stands(t, a, comma) /\ a + Len(comma) \in Places(t) /\ Stands(t, a + Len(comma), x)
      BY <3>5, StandsConcat
    <3>7. CodeAt(t, a) = 44
      BY <3>3, <3>6, StandsFirst
    <3>8. at[k] = a + 1 + Len(x)
      <4>1. IsConcat(comma \o x, comma, x)
        BY ConcatIs
      <4>2. Len(comma \o x) = 1 + Len(x) /\ Len(x) \in Nat
        BY <3>3, <4>1 DEF IsConcat
      <4>3. a \in Nat
        BY PlacesAre
      <4> QED BY <3>5, <4>2, <4>3
    <3> QED BY <3>1, <3>2, <3>3, <3>4, <3>6, <3>7, <3>8
  <2> QED BY <2>1, <2>2
<1> QED BY <1>1, <1>4, <1>5 DEF ItemsLaid

LEMMA OpensIs ==
  ASSUME NEW t \in Json, NEW i \in Places(t), NEW text, Opens(text), Stands(t, i, text)
  PROVE  SkipWs(t, i) = i /\ CodeAt(t, i) \notin {93, 125}
<1>1. CodeAt(t, i) = text[1]
  BY StandsFirst DEF Opens
<1>2. CodeAt(t, i) \notin {32, 9, 10, 13}
  BY <1>1 DEF Opens
<1>3. SkipWs(t, i) = i
  BY <1>2, SkipWsIs
<1>4. CodeAt(t, i) \notin {93, 125}
  BY <1>1 DEF Opens
<1> QED BY <1>3, <1>4

LEMMA FollowsIs ==
  ASSUME NEW t \in Json, NEW i \in Places(t), Follows(t, i) \/ CodeAt(t, i) = 58
  PROVE  SkipWs(t, i) = i
<1>1. CodeAt(t, i) \notin {32, 9, 10, 13}
  BY DEF Follows
<1> QED BY <1>1, SkipWsIs

ItemPlace(at, t, texts, z, k, b, e) ==
  /\ b = ItemStart(at, k) /\ e = at[k] /\ Stands(t, b, texts[k]) /\ e = b + Len(texts[k]) /\ Follows(t, e)
  /\ IF k = Len(texts) THEN e = z ELSE CodeAt(t, e) = 44 /\ ItemStart(at, k + 1) = e + 1

LEMMA ItemHasPlace ==
  ASSUME NEW t, NEW at, NEW i, NEW texts, NEW z, ItemsLaid(at, t, i, texts, z), Len(texts) \in Nat,
         CodeAt(t, z) \in {93, 125}, NEW k \in 1..Len(texts)
  PROVE  \E b \in Places(t), e \in Places(t) : ItemPlace(at, t, texts, z, k, b, e)
<1>1. PICK n \in Nat : n = Len(texts)
  OBVIOUS
<1>2. at \in [0..n -> Places(t)] /\ at[n] = z
  BY <1>1 DEF ItemsLaid
<1>3. PICK e \in Places(t) : e = at[k]
  <2>1. k \in 0..n
    BY <1>1
  <2> QED BY <1>2, <2>1
<1>4. PICK b \in Places(t) : b = ItemStart(at, k) /\ Stands(t, b, texts[k]) /\ e = b + Len(texts[k])
  BY <1>3 DEF ItemsLaid
<1>5. CASE k = n
  <2>1. e = z
    BY <1>2, <1>3, <1>5
  <2>2. Follows(t, e)
    BY <2>1 DEF Follows
  <2> QED BY <1>1, <1>3, <1>4, <1>5, <2>1, <2>2 DEF ItemPlace
<1>6. CASE k # n
  <2>1. PICK h \in 1..n : h = k + 1 /\ h - 1 = k /\ h # 1
    <3>1. k + 1 \in 1..n /\ (k + 1) - 1 = k /\ k + 1 # 1
      BY <1>1, <1>6
    <3> QED BY <3>1
  <2>2. CodeAt(t, at[h - 1]) = 44
    BY <1>1, <2>1 DEF ItemsLaid
  <2>3. CodeAt(t, e) = 44 /\ ItemStart(at, k + 1) = e + 1
    BY <1>3, <2>1, <2>2 DEF ItemStart
  <2>4. Follows(t, e)
    BY <2>3 DEF Follows
  <2> QED BY <1>1, <1>3, <1>4, <1>6, <2>3, <2>4 DEF ItemPlace
<1> QED BY <1>5, <1>6

\* An item that is read from a place to another one.
ItemAt(read, kind, t, b, v, e) ==
  SkipWs(t, b) = b /\ SkipWs(t, e) = e /\ read[b][kind] = JsMore(read, kind, t, <<v, e>>)

LEMMA ItemRead ==
  ASSUME NEW t \in Json, NEW p, NEW kind \in {"list", "json"}, NEW b \in Places(t), NEW text, NEW v,
         ReadAs(kind, p, text, v), Stands(t, b, text), NEW e \in Places(t), e = b + Len(text), Follows(t, e)
  PROVE  ItemAt(JsRead(p, t), kind, t, b, v, e)
<1>1. Opens(text) /\ JsItem(JsRead(p, t), kind, p, t, b) = {<<v, e>>}
  BY DEF ReadAs
<1>2. SkipWs(t, b) = b
  BY <1>1, OpensIs
<1>3. SkipWs(t, e) = e
  BY FollowsIs
<1>4. JsRead(p, t)[b][kind] = JsItems(JsRead(p, t), kind, p, t, b)
  BY ReadIs
<1>5. JsItems(JsRead(p, t), kind, p, t, b) =
        UNION {JsMore(JsRead(p, t), kind, t, one) : one \in {<<v, e>>}}
  BY <1>1 DEF JsItems
<1>6. UNION {JsMore(JsRead(p, t), kind, t, one) : one \in {<<v, e>>}} = JsMore(JsRead(p, t), kind, t, <<v, e>>)
  OBVIOUS
<1> QED BY <1>2, <1>3, <1>4, <1>5, <1>6 DEF ItemAt

LEMMA ItemLast ==
  ASSUME NEW read, NEW kind, NEW t, NEW b, NEW v, NEW e, ItemAt(read, kind, t, b, v, e), CodeAt(t, e) # 44
  PROVE  read[b][kind] = {<<<<v>>, e>>}
BY DEF ItemAt, JsMore

AreItems(read, kind, b, items, z) == read[b][kind] = {<<items, z>>}
Resumes(t, e, f) == CodeAt(t, e) = 44 /\ SkipWs(t, e + 1) = f

LEMMA ItemAndMore ==
  ASSUME NEW read, NEW kind, NEW t, NEW b, NEW v, NEW e, ItemAt(read, kind, t, b, v, e),
         NEW f, Resumes(t, e, f), NEW y, NEW z, AreItems(read, kind, f, y, z)
  PROVE  AreItems(read, kind, b, <<v>> \o y, z)
<1>1. PICK one : one = <<v, e>>
  OBVIOUS
<1>2. one[1] = v /\ one[2] = e
  BY <1>1
<1>3. SkipWs(t, one[2]) = e
  BY <1>2 DEF ItemAt
<1>4. JsMore(read, kind, t, one) = {<<<<one[1]>> \o rest[1], rest[2]>> : rest \in read[SkipWs(t, e + 1)][kind]}
  BY <1>3, Zenon DEF JsMore, Resumes
<1>5. SkipWs(t, e + 1) = f
  BY DEF Resumes
<1>6. PICK last : last = <<y, z>>
  OBVIOUS
<1>7. last[1] = y /\ last[2] = z
  BY <1>6
<1>8. JsMore(read, kind, t, one) = {<<<<v>> \o rest[1], rest[2]>> : rest \in {last}}
  <2>1. read[SkipWs(t, e + 1)][kind] = {last}
    BY <1>5, <1>6 DEF AreItems
  <2>2. one[1] = v
    BY <1>2
  <2> QED BY <1>4, <2>1, <2>2, Zenon
<1>9. JsMore(read, kind, t, one) = {<<<<v>> \o y, z>>}
  BY <1>7, <1>8
<1> QED BY <1>1, <1>9 DEF ItemAt, AreItems

LEMMA RestsAre ==
  ASSUME NEW S, NEW s \in Seq(S), NEW n \in Nat, n = Len(s)
  PROVE  /\ Rest(s, n + 1) = <<>> /\ Rest(s, 1) = s
         /\ \A k \in 1..n : Rest(s, k + 1) \in Seq(S) /\ Rest(s, k) = <<s[k]>> \o Rest(s, k + 1)
BY RestIs

AllWritten(kind, p, texts, s) == \A k \in 1..Len(s) : ReadAs(kind, p, texts[k], s[k])

LEMMA ItemsRead ==
  ASSUME NEW t \in Json, NEW i \in Places(t), NEW p, NEW kind \in {"list", "json"},
         NEW texts \in Seq(Json), NEW S, NEW s \in Seq(S), Len(texts) = Len(s), Len(s) > 0,
         AllWritten(kind, p, texts, s),
         Stands(t, i, Separated(texts)), NEW z \in Places(t), z = i + Len(Separated(texts)),
         CodeAt(t, z) \in {93, 125}
  PROVE  JsRead(p, t)[i][kind] = {<<s, z>>}
<1>1. PICK n \in Nat : n = Len(s) /\ n = Len(texts) /\ n > 0
  OBVIOUS
<1>2. PICK at : ItemsLaid(at, t, i, texts, z)
  BY ItemsAreLaid
<1>3. ASSUME NEW k \in 1..n
      PROVE  \E b \in Places(t), e \in Places(t) : ItemPlace(at, t, texts, z, k, b, e)
  BY <1>1, <1>2, ItemHasPlace
<1>4. PICK read : read = JsRead(p, t)
  OBVIOUS
<1>5. ASSUME NEW k \in 1..n
      PROVE  \E b \in Places(t), e \in Places(t) :
               ItemPlace(at, t, texts, z, k, b, e) /\ ItemAt(read, kind, t, b, s[k], e)
  <2>1. PICK b \in Places(t), e \in Places(t) : ItemPlace(at, t, texts, z, k, b, e)
    BY <1>3
  <2>2. PICK text, v : text = texts[k] /\ v = s[k] /\ ReadAs(kind, p, text, v)
    BY <1>1 DEF AllWritten
  <2>3. Stands(t, b, text) /\ e = b + Len(text) /\ Follows(t, e)
    BY <2>1, <2>2 DEF ItemPlace
  <2>4. ItemAt(JsRead(p, t), kind, t, b, v, e)
    BY <2>2, <2>3, ItemRead
  <2> QED BY <1>4, <2>1, <2>2, <2>4
<1>6. /\ Rest(s, n + 1) = <<>> /\ Rest(s, 1) = s
      /\ \A k \in 1..n : Rest(s, k + 1) \in Seq(S) /\ Rest(s, k) = <<s[k]>> \o Rest(s, k + 1)
  BY <1>1, RestsAre
<1> DEFINE T == {k \in 1..n : read[ItemStart(at, k)][kind] = {<<Rest(s, k), z>>}}
<1>7. n \in T
  <2>1. PICK m \in 1..n : m = n
    BY <1>1
  <2>2. PICK b \in Places(t), e \in Places(t) :
          ItemPlace(at, t, texts, z, m, b, e) /\ ItemAt(read, kind, t, b, s[m], e)
    BY <1>5
  <2>3. b = ItemStart(at, m) /\ e = z
    BY <1>1, <2>1, <2>2 DEF ItemPlace
  <2>4. PICK x \in S : x = s[m]
    BY <1>1
  <2>5. CodeAt(t, e) # 44
    BY <2>3
  <2>6. read[b][kind] = {<<<<x>>, e>>}
    BY <2>2, <2>4, <2>5, ItemLast
  <2>7. Rest(s, m) = <<x>>
    <3>1. Rest(s, m) = <<x>> \o Rest(s, n + 1) /\ Rest(s, n + 1) = <<>>
      BY <1>6, <2>1, <2>4
    <3>2. <<x>> \o <<>> = <<x>>
      <4>1. <<x>> \in Seq(S)
        BY OneIs
      <4> QED BY <4>1, ConcatEmptySeq
    <3> QED BY <3>1, <3>2
  <2> QED BY <2>1, <2>3, <2>6, <2>7
<1>8. ASSUME NEW k \in 1..n, k + 1 \in T PROVE k \in T
  <2>1. PICK h \in 1..n : h = k + 1 /\ k # n
    <3>1. k + 1 \in 1..n /\ k # n
      BY <1>8
    <3> QED BY <3>1
  <2>2. PICK b \in Places(t), e \in Places(t) :
          ItemPlace(at, t, texts, z, k, b, e) /\ ItemAt(read, kind, t, b, s[k], e)
    BY <1>5
  <2>3. PICK x, y : x = s[k] /\ y = Rest(s, h)
    OBVIOUS
  <2>4. b = ItemStart(at, k) /\ CodeAt(t, e) = 44 /\ ItemStart(at, h) = e + 1
    BY <1>1, <2>1, <2>2 DEF ItemPlace
  <2>5. PICK f : f = ItemStart(at, h) /\ SkipWs(t, f) = f /\ read[f][kind] = {<<y, z>>}
    <3>1. \E d \in Places(t), g \in Places(t) :
            ItemPlace(at, t, texts, z, h, d, g) /\ ItemAt(read, kind, t, d, s[h], g)
      BY <1>5
    <3>2. SkipWs(t, ItemStart(at, h)) = ItemStart(at, h)
      BY <3>1 DEF ItemPlace, ItemAt
    <3>3. h \in T
      BY <1>8, <2>1
    <3> QED BY <2>3, <3>2, <3>3
  <2>6. read[b][kind] = {<<<<x>> \o y, z>>}
    <3>1. ItemAt(read, kind, t, b, x, e)
      BY <2>2, <2>3
    <3>2. Resumes(t, e, f)
      BY <2>4, <2>5 DEF Resumes
    <3>3. AreItems(read, kind, f, y, z)
      BY <2>5 DEF AreItems
    <3>4. AreItems(read, kind, b, <<x>> \o y, z)
      BY <3>1, <3>2, <3>3, ItemAndMore
    <3> QED BY <3>4 DEF AreItems
  <2>7. Rest(s, k) = <<x>> \o y
    BY <1>6, <2>1, <2>3
  <2> QED BY <2>4, <2>6, <2>7
<1>9. \A k \in 1..n : k \in T
  <2> HIDE DEF T
  <2>1. \A k \in 1..n : (\A h \in 1..n : h > k => h \in T) => k \in T
    <3> SUFFICES ASSUME NEW k \in 1..n, \A h \in 1..n : h > k => h \in T PROVE k \in T
      OBVIOUS
    <3>1. CASE k = n
      BY <1>7, <3>1
    <3>2. CASE k # n
      <4>1. k + 1 \in 1..n /\ k + 1 > k
        BY <3>2
      <4> QED BY <1>8, <4>1
    <3> QED BY <3>1, <3>2
  <2> QED BY <2>1, Backwards
<1>10. read[ItemStart(at, 1)][kind] = {<<Rest(s, 1), z>>}
  <2>1. 1 \in 1..n
    BY <1>1
  <2> QED BY <1>9, <2>1
<1>11. ItemStart(at, 1) = i
  BY <1>2 DEF ItemStart, ItemsLaid
<1> QED BY <1>4, <1>6, <1>10, <1>11

LEMMA SeparatedIs ==
  ASSUME NEW texts \in Seq(Json)
  PROVE  Separated(texts) \in Json /\ (Len(texts) = 0 => Separated(texts) = <<>>)
<1>1. PICK apart \in Seq(Json) : Len(apart) = Len(texts) /\ Separated(texts) = FlattenSeq(apart)
  BY WithCommasIs
<1>2. FlattenSeq(apart) \in Json
  BY FlatIs
<1>3. ASSUME Len(texts) = 0 PROVE FlattenSeq(apart) = <<>>
  <2>1. IsFlattening(Flattening(Nat, apart), Nat, apart)
    BY FlatteningIs DEF Json
  <2>2. Len(apart) = 0
    BY <1>1, <1>3
  <2> QED BY <2>1, <2>2 DEF IsFlattening
<1> QED BY <1>1, <1>2, <1>3

Brackets(kind, a, z) == \/ kind = "list" /\ a = 91 /\ z = 93
                        \/ kind = "json" /\ a = 123 /\ z = 125

LEMMA BracketsAre ==
  ASSUME NEW read, NEW p, NEW t, NEW i, NEW kind, NEW a, NEW z, Brackets(kind, a, z), CodeAt(t, i) = a
  PROVE  JsValue(read, p, t, i) = JsBrackets(read, kind, z, t, i)
<1>1. CASE kind = "list" /\ a = 91 /\ z = 93
  BY <1>1 DEF JsValue
<1>2. CASE kind = "json" /\ a = 123 /\ z = 125
  BY <1>2 DEF JsValue
<1> QED BY <1>1, <1>2 DEF Brackets

LEMMA BracketsEmpty ==
  ASSUME NEW read, NEW t, NEW i, NEW kind, NEW z, NEW f, SkipWs(t, i + 1) = f, CodeAt(t, f) = z
  PROVE  JsBrackets(read, kind, z, t, i) = {<<<<kind, <<>>>>, f + 1>>}
BY DEF JsBrackets

Gives(set, v, e) == set = {<<v, e>>}

LEMMA BracketsFull ==
  ASSUME NEW read, NEW t, NEW i, NEW kind, NEW z, NEW f, SkipWs(t, i + 1) = f, CodeAt(t, f) # z,
         NEW s, NEW e, AreItems(read, kind, f, s, e), CodeAt(t, e) = z
  PROVE  Gives(JsBrackets(read, kind, z, t, i), <<kind, s>>, e + 1)
<1>1. PICK items : items = <<s, e>>
  OBVIOUS
<1>2. items[1] = s /\ items[2] = e
  BY <1>1
<1>3. read[f][kind] = {items}
  BY <1>1 DEF AreItems
<1>4. JsBrackets(read, kind, z, t, i) =
        {<<<<kind, r[1]>>, r[2] + 1>> : r \in {r \in read[f][kind] : CodeAt(t, r[2]) = z}}
  BY Zenon DEF JsBrackets
<1>5. {r \in read[f][kind] : CodeAt(t, r[2]) = z} = {items}
  BY <1>2, <1>3
<1> QED BY <1>2, <1>4, <1>5 DEF Gives

LEMMA BracketsRead ==
  ASSUME NEW p, NEW kind \in {"list", "json"}, NEW a \in Nat, NEW z \in Nat, Brackets(kind, a, z),
         NEW texts \in Seq(Json), NEW S, NEW s \in Seq(S), Len(texts) = Len(s), AllWritten(kind, p, texts, s),
         NEW t \in Json, NEW i \in Places(t), Stands(t, i, Between(a, Separated(texts), z))
  PROVE  Gives(JsValue(JsRead(p, t), p, t, i), <<kind, s>>, i + Len(Between(a, Separated(texts), z)))
<1>1. PICK read : read = JsRead(p, t)
  OBVIOUS
<1>2. PICK m \in Json : m = Separated(texts)
  BY SeparatedIs
<1>3. StandsBetween(t, i, a, m, z)
  BY <1>2, BetweenIs
<1>4. PICK f \in Places(t) : f = i + 1 /\ Stands(t, f, m) /\ CodeAt(t, i) = a
  BY <1>3 DEF StandsBetween
<1>5. PICK e \in Places(t) : e = f + Len(m) /\ CodeAt(t, e) = z /\ i + Len(Between(a, m, z)) = e + 1
  BY <1>3, <1>4 DEF StandsBetween
<1>6. JsValue(read, p, t, i) = JsBrackets(read, kind, z, t, i)
  BY <1>4, BracketsAre
<1>7. z \in {93, 125}
  BY DEF Brackets
<1>8. JsBrackets(read, kind, z, t, i) = {<<<<kind, s>>, e + 1>>}
  <2>1. CASE Len(s) = 0
    <3>1. m = <<>> /\ s = <<>>
      <4>1. Separated(texts) = <<>>
        <5>1. Len(texts) = 0
          BY <2>1
        <5> QED BY <5>1, SeparatedIs
      <4>2. s = <<>>
        BY <2>1
      <4> QED BY <1>2, <4>1, <4>2
    <3>2. e = f
      <4>1. f \in Nat
        BY PlacesAre
      <4> QED BY <1>5, <3>1, <4>1
    <3>3. SkipWs(t, i + 1) = f
      <4>1. CodeAt(t, f) \notin {32, 9, 10, 13}
        BY <1>5, <1>7, <3>2
      <4> QED BY <1>4, <4>1, SkipWsIs
    <3>4. CodeAt(t, f) = z
      BY <1>5, <3>2
    <3> QED BY <3>1, <3>2, <3>3, <3>4, BracketsEmpty
  <2>2. CASE Len(s) # 0
    <3>1. PICK n \in Nat : n = Len(s) /\ n = Len(texts) /\ n > 0
      BY <2>2
    <3>2. PICK at : ItemsLaid(at, t, f, texts, e)
      BY <1>2, <1>4, <1>5, ItemsAreLaid
    <3>3. PICK first : first = texts[1] /\ Stands(t, f, first)
      BY <3>1, <3>2 DEF ItemsLaid, ItemStart
    <3>4. Opens(first)
      BY <3>1, <3>3 DEF AllWritten, ReadAs
    <3>5. SkipWs(t, f) = f /\ CodeAt(t, f) \notin {93, 125}
      BY <3>3, <3>4, OpensIs
    <3>6. read[f][kind] = {<<s, e>>}
      <4>1. Stands(t, f, Separated(texts)) /\ e = f + Len(Separated(texts)) /\ CodeAt(t, e) \in {93, 125}
        BY <1>2, <1>4, <1>5, <1>7
      <4>2. Len(s) > 0
        BY <3>1
      <4> QED BY <1>1, <4>1, <4>2, ItemsRead
    <3>7. AreItems(read, kind, f, s, e)
      BY <3>6 DEF AreItems
    <3>8. SkipWs(t, i + 1) = f /\ CodeAt(t, f) # z
      BY <1>4, <1>7, <3>5
    <3>9. Gives(JsBrackets(read, kind, z, t, i), <<kind, s>>, e + 1)
      BY <1>5, <3>7, <3>8, BracketsFull
    <3> QED BY <3>9 DEF Gives
  <2> QED BY <2>1, <2>2
<1>9. i + Len(Between(a, Separated(texts), z)) = e + 1
  BY <1>2, <1>5
<1> QED BY <1>1, <1>6, <1>8, <1>9 DEF Gives

LEMMA BracketsWritten ==
  ASSUME NEW p, NEW kind \in {"list", "json"}, NEW a \in Nat, NEW z \in Nat, Brackets(kind, a, z),
         NEW texts \in Seq(Json), NEW S, NEW s \in Seq(S), Len(texts) = Len(s), AllWritten(kind, p, texts, s)
  PROVE  ReadAs("list", p, Between(a, Separated(texts), z), <<kind, s>>)
<1>1. PICK text : text = Between(a, Separated(texts), z)
  OBVIOUS
<1>2. Opens(text)
  <2>1. text \in Json /\ Len(text) > 0 /\ text[1] = a
    BY <1>1, SeparatedIs, BetweenIs
  <2>2. a \in {91, 123}
    BY DEF Brackets
  <2> QED BY <2>1, <2>2 DEF Opens
<1>3. ASSUME NEW t \in Json, NEW i \in Places(t), Stands(t, i, text)
      PROVE  JsValue(JsRead(p, t), p, t, i) = {<<<<kind, s>>, i + Len(text)>>}
  <2>1. Stands(t, i, Between(a, Separated(texts), z))
    BY <1>1, <1>3
  <2>2. Gives(JsValue(JsRead(p, t), p, t, i), <<kind, s>>, i + Len(Between(a, Separated(texts), z)))
    BY <2>1, BracketsRead
  <2> QED BY <1>1, <2>2 DEF Gives
<1>4. \A t \in Json : \A i \in Places(t) :
        Stands(t, i, text) /\ Follows(t, i + Len(text)) =>
          JsValue(JsRead(p, t), p, t, i) = {<<<<kind, s>>, i + Len(text)>>}
  BY <1>3
<1> QED BY <1>1, <1>2, <1>4, ValueWritten

-----------------------------------------------------------------------------
LEMMA PairWritten ==
  ASSUME NEW p, NEW name \in Json, NEW text, NEW v, ReadAs("list", p, text, v)
  PROVE  ReadAs("json", p, EncodeString(name) \o <<58>> \o text, <<name, v>>)
<1>1. PICK n \in Json : n = EncodeString(name) /\ Opens(n) /\ Len(n) \in Nat
  <2>1. EncodeString(name) \in Json /\ Opens(EncodeString(name))
    <3>1. PICK s \in Json : s = EncodeString(name) /\ Len(s) > 0 /\ s[1] = 34
      BY EncodeStringIs
    <3> QED BY <3>1 DEF Opens
  <2> QED BY <2>1, TextIs
<1>2. PICK colon \in Json : colon = <<58>> /\ Len(colon) = 1 /\ colon[1] = 58
  <2>1. <<58>> \in Json /\ Len(<<58>>) = 1 /\ <<58>>[1] = 58
    BY OneIs DEF Json
  <2> QED BY <2>1
<1>3. text \in Json /\ Opens(text)
  BY DEF ReadAs, Opens
<1>4. PICK l \in Json : l = n \o colon /\ IsConcat(l, n, colon)
  <2>1. IsConcat(n \o colon, n, colon)
    BY ConcatIs
  <2>2. n \o colon \in Json
    BY <2>1 DEF IsConcat
  <2> QED BY <2>1, <2>2
<1>5. PICK w \in Json : w = l \o text /\ IsConcat(w, l, text)
  <2>1. IsConcat(l \o text, l, text)
    BY <1>3, ConcatIs
  <2>2. l \o text \in Json
    BY <2>1 DEF IsConcat
  <2> QED BY <2>1, <2>2
<1>6. w = EncodeString(name) \o <<58>> \o text
  BY <1>1, <1>2, <1>4, <1>5
<1>7. Len(l) = Len(n) + 1 /\ Len(w) = Len(n) + 1 + Len(text) /\ Len(text) \in Nat
  BY <1>1, <1>2, <1>4, <1>5 DEF IsConcat
<1>8. Opens(w)
  <2>1. 1 \in 1..Len(n) /\ 1 \in 1..Len(l) /\ Len(w) > 0
    BY <1>1, <1>7 DEF Opens
  <2>2. w[1] = n[1]
    BY <1>4, <1>5, <2>1 DEF IsConcat
  <2> QED BY <1>1, <2>1, <2>2 DEF Opens
<1>9. ASSUME NEW t \in Json, NEW i \in Places(t), Stands(t, i, w), Follows(t, i + Len(w))
      PROVE  JsPair(JsRead(p, t), p, t, i) = {<<<<name, v>>, i + Len(w)>>}
  <2>1. /\ Stands(t, i, l) /\ i + Len(l) \in Places(t) /\ Stands(t, i + Len(l), text)
    BY <1>3, <1>5, <1>9, StandsConcat
  <2>2. /\ Stands(t, i, n) /\ i + Len(n) \in Places(t) /\ Stands(t, i + Len(n), colon)
    BY <1>4, <2>1, StandsConcat
  <2>3. PICK c \in Places(t), b \in Places(t), e \in {i + Len(w)} :
          c = i + Len(n) /\ b = c + 1 /\ b = i + Len(l) /\ e = b + Len(text) /\ e = i + Len(w)
    <3>1. i \in Nat
      BY PlacesAre
    <3>2. i + Len(n) + 1 = i + Len(l) /\ i + Len(w) = i + Len(l) + Len(text)
      BY <1>1, <1>7, <3>1
    <3> QED BY <2>1, <2>2, <3>2
  <2>4. JsString(p, t, i) = {<<name, c>>}
    <3>1. JsString(p, t, i) = {<<name, i + Len(EncodeString(name))>>}
      <4>1. Stands(t, i, EncodeString(name))
        BY <1>1, <2>2
      <4> QED BY <4>1, StringRead, SMTT(20)
    <3> QED BY <1>1, <2>3, <3>1
  <2>5. CodeAt(t, c) = 58
    BY <1>2, <2>2, <2>3, StandsFirst
  <2>6. SkipWs(t, c) = c
    BY <2>5, FollowsIs
  <2>7. Stands(t, b, text) /\ SkipWs(t, b) = b
    <3>1. Stands(t, b, text)
      BY <2>1, <2>3
    <3> QED BY <1>3, <3>1, OpensIs
  <2>8. JsRead(p, t)[b]["value"] = {<<v, e>>}
    <3>1. JsItem(JsRead(p, t), "list", p, t, b) = {<<v, b + Len(text)>>}
      <4>1. Follows(t, b + Len(text))
        BY <1>9, <2>3
      <4> QED BY <2>7, <4>1 DEF ReadAs
    <3>2. JsValue(JsRead(p, t), p, t, b) = JsItem(JsRead(p, t), "list", p, t, b)
      BY DEF JsItem
    <3>3. JsRead(p, t)[b]["value"] = JsValue(JsRead(p, t), p, t, b)
      BY ReadIs
    <3> QED BY <2>3, <3>1, <3>2, <3>3
  <2>9. PICK one : one = <<name, c>>
    OBVIOUS
  <2>10. one[1] = name /\ one[2] = c
    BY <2>9
  <2>11. SkipWs(t, SkipWs(t, one[2]) + 1) = b /\ CodeAt(t, SkipWs(t, one[2])) = 58
    BY <2>3, <2>5, <2>6, <2>7, <2>10
  <2>12. {r \in JsString(p, t, i) : CodeAt(t, SkipWs(t, r[2])) = 58} = {one}
    BY <2>4, <2>9, <2>11
  <2>13. JsPair(JsRead(p, t), p, t, i) =
           UNION {{<<<<r[1], x[1]>>, x[2]>> : x \in JsRead(p, t)[SkipWs(t, SkipWs(t, r[2]) + 1)]["value"]} :
                    r \in {one}}
    BY <2>12, Zenon DEF JsPair
  <2>14. JsPair(JsRead(p, t), p, t, i) = {<<<<name, x[1]>>, x[2]>> : x \in JsRead(p, t)[b]["value"]}
    BY <2>10, <2>11, <2>13
  <2>15. PICK last : last = <<v, e>>
    OBVIOUS
  <2>16. last[1] = v /\ last[2] = e
    BY <2>15
  <2>17. JsPair(JsRead(p, t), p, t, i) = {<<<<name, x[1]>>, x[2]>> : x \in {last}}
    BY <2>8, <2>14, <2>15
  <2> QED BY <2>3, <2>16, <2>17
<1>10. \A read, t, i : JsItem(read, "json", p, t, i) = JsPair(read, p, t, i)
  BY DEF JsItem
<1>11. ReadAs("json", p, w, <<name, v>>)
  BY <1>8, <1>9, <1>10 DEF ReadAs
<1> QED BY <1>6, <1>11

(***************************************************************************)
(* to_json on terms, from the leaves up.                                   *)
(***************************************************************************)
EncodedAt(e, n) == [w \in Terms(Leaves)[n] |-> EncodeValue(e[n - 1], w)]
AreEncoded(e, depth) == e = [n \in 0..depth |-> EncodedAt(e, n)]
EncodedBelow(e, k) == \A i \in Nat : i < k => e[i] = EncodedAt(e, i)
Encoding(depth) == CHOOSE e : AreEncoded(e, depth)

LEMMA EncodeLeaf ==
  ASSUME NEW v \in Leaves, NEW e
  PROVE  EncodeValue(e, v) = IF v[1] # "atom" THEN NumberText(v)
                             ELSE IF v[2] \in Literals THEN v[2] ELSE EncodeString(v[2])
<1>1. v[1] \in {"atom", "int", "float"}
  BY DEF Leaves
<1> QED BY <1>1 DEF EncodeValue

LEMMA EncodedZero ==
  ASSUME NEW e, NEW f
  PROVE  EncodedAt(e, 0) = EncodedAt(f, 0)
<1>1. Terms(Leaves)[0] = Leaves
  <2>1. 0 \in Nat
    OBVIOUS
  <2> QED BY <2>1, TermsAre
<1>2. PICK a, b : a = e[0 - 1] /\ b = f[0 - 1]
  OBVIOUS
<1>3. \A w \in Leaves : EncodeValue(a, w) = EncodeValue(b, w)
  <2> SUFFICES ASSUME NEW w \in Leaves PROVE EncodeValue(a, w) = EncodeValue(b, w)
    OBVIOUS
  <2>1. PICK x : x = IF w[1] # "atom" THEN NumberText(w)
                     ELSE IF w[2] \in Literals THEN w[2] ELSE EncodeString(w[2])
    OBVIOUS
  <2> QED BY <2>1, EncodeLeaf
<1>4. EncodedAt(e, 0) = [w \in Leaves |-> EncodeValue(a, w)]
  BY <1>1, <1>2 DEF EncodedAt
<1>5. EncodedAt(f, 0) = [w \in Leaves |-> EncodeValue(b, w)]
  BY <1>1, <1>2 DEF EncodedAt
<1> QED BY <1>3, <1>4, <1>5

LEMMA EncodedNext ==
  ASSUME NEW e, NEW n \in Nat
  PROVE  EncodedAt(e, n + 1) = [w \in Terms(Leaves)[n + 1] |-> EncodeValue(e[n], w)]
<1>1. (n + 1) - 1 = n
  OBVIOUS
<1> QED BY <1>1 DEF EncodedAt

LEMMA EncodedSame ==
  ASSUME NEW e, NEW f, NEW n \in Nat, e[n] = f[n]
  PROVE  EncodedAt(e, n + 1) = EncodedAt(f, n + 1)
<1>1. EncodedAt(e, n + 1) = [w \in Terms(Leaves)[n + 1] |-> EncodeValue(e[n], w)]
  BY EncodedNext
<1>2. EncodedAt(f, n + 1) = [w \in Terms(Leaves)[n + 1] |-> EncodeValue(f[n], w)]
  BY EncodedNext
<1> QED BY <1>1, <1>2, Zenon

\* What agrees on the level below agrees on a level.
LEMMA EncodedAgree ==
  ASSUME NEW e, NEW f, NEW n \in Nat, \A i \in Nat : i < n => e[i] = f[i]
  PROVE  EncodedAt(e, n) = EncodedAt(f, n)
<1>1. CASE n = 0
  BY <1>1, EncodedZero
<1>2. CASE n # 0
  <2>1. PICK j \in Nat : n = j + 1 /\ j < n
    <3>1. n - 1 \in Nat /\ n = (n - 1) + 1 /\ n - 1 < n
      BY <1>2
    <3> QED BY <3>1
  <2>2. e[j] = f[j]
    BY <2>1
  <2> QED BY <2>1, <2>2, EncodedSame
<1> QED BY <1>1, <1>2

LEMMA EncodingsExist ==
  ASSUME NEW k \in Nat
  PROVE  \E e : EncodedBelow(e, k)
<1> DEFINE T == {i \in Nat : \E e : EncodedBelow(e, i)}
<1>1. 0 \in T
  BY DEF EncodedBelow
<1>2. ASSUME NEW i \in T PROVE i + 1 \in T
  <2>1. PICK e : EncodedBelow(e, i) /\ i \in Nat
    OBVIOUS
  <2> DEFINE h == [j \in Nat |-> EncodedAt(e, j)]
  <2>2. \A j \in Nat : h[j] = EncodedAt(e, j)
    OBVIOUS
  <2> HIDE DEF h
  <2>3. \A j \in Nat : j < i => h[j] = e[j]
    BY <2>1, <2>2 DEF EncodedBelow
  <2>4. ASSUME NEW j \in Nat, j < i + 1 PROVE h[j] = EncodedAt(h, j)
    <3>1. \A l \in Nat : l < j => e[l] = h[l]
      <4> SUFFICES ASSUME NEW l \in Nat, l < j PROVE e[l] = h[l]
        OBVIOUS
      <4>1. l < i
        BY <2>1, <2>4
      <4> QED BY <2>3, <4>1
    <3>2. EncodedAt(e, j) = EncodedAt(h, j)
      BY <3>1, EncodedAgree
    <3> QED BY <2>2, <3>2
  <2>5. EncodedBelow(h, i + 1) /\ i + 1 \in Nat
    BY <2>1, <2>4 DEF EncodedBelow
  <2> QED BY <2>5
<1>3. T = Nat
  <2> HIDE DEF T
  <2>1. T \in SUBSET Nat
    BY DEF T
  <2> QED BY <1>1, <1>2, <2>1, Induction
<1> QED BY <1>3

LEMMA EncodingIs ==
  ASSUME NEW depth \in Nat
  PROVE  /\ \A v : Encode(depth, v) = Encoding(depth)[depth][v]
         /\ \A n \in 0..depth : Encoding(depth)[n] = EncodedAt(Encoding(depth), n)
<1>1. PICK e : EncodedBelow(e, depth + 1)
  <2>1. depth + 1 \in Nat
    OBVIOUS
  <2> QED BY <2>1, EncodingsExist
<1> DEFINE h == [n \in 0..depth |-> EncodedAt(e, n)]
<1>2. \A n \in 0..depth : h[n] = EncodedAt(e, n) /\ h[n] = e[n]
  BY <1>1 DEF EncodedBelow
<1>3. ASSUME NEW n \in 0..depth PROVE EncodedAt(e, n) = EncodedAt(h, n)
  <2> HIDE DEF h
  <2>1. \A i \in Nat : i < n => e[i] = h[i]
    <3> SUFFICES ASSUME NEW i \in Nat, i < n PROVE e[i] = h[i]
      OBVIOUS
    <3>1. i \in 0..depth
      OBVIOUS
    <3> QED BY <1>2, <3>1
  <2> QED BY <2>1, EncodedAgree
<1>4. AreEncoded(h, depth)
  <2>1. h = [n \in 0..depth |-> EncodedAt(h, n)]
    BY <1>3
  <2> HIDE DEF h
  <2> QED BY <2>1 DEF AreEncoded
<1>5. AreEncoded(Encoding(depth), depth)
  <2> HIDE DEF h
  <2> QED BY <1>4, Zenon DEF Encoding
<1>6. \A v : Encode(depth, v) = Encoding(depth)[depth][v]
  BY Zenon DEF Encode, Encoding, AreEncoded, EncodedAt
<1>7. PICK f : f = Encoding(depth)
  OBVIOUS
<1>8. \A n \in 0..depth : f[n] = EncodedAt(f, n)
  <2>1. f = [n \in 0..depth |-> EncodedAt(f, n)]
    BY <1>5, <1>7 DEF AreEncoded
  <2> QED BY <2>1
<1> QED BY <1>6, <1>7, <1>8

LEMMA LeavesAre ==
  ASSUME NEW p
  PROVE  LeavesIn(p) \subseteq Leaves /\ \A v \in NumbersIn(p) : v[1] # "atom"
BY DEF LeavesIn, AtomsIn, NumbersIn, Ints, Floats, Leaves, Json

LEMMA LeafWritten ==
  ASSUME NEW p, NEW e, NEW v \in LeavesIn(p)
  PROVE  ReadAs("list", p, EncodeValue(e, v), v)
<1>1. v \in Leaves
  BY LeavesAre
<1>2. PICK x : x = EncodeValue(e, v)
  OBVIOUS
<1>3. x = IF v[1] # "atom" THEN NumberText(v) ELSE IF v[2] \in Literals THEN v[2] ELSE EncodeString(v[2])
  BY <1>1, <1>2, EncodeLeaf
<1>4. CASE v \in NumbersIn(p)
  <2>1. x = NumberText(v)
    BY <1>3, <1>4, LeavesAre
  <2> QED BY <1>2, <1>4, <2>1, NumbersWritten
<1>5. CASE v \in AtomsIn(p)
  <2>1. PICK s \in Json : v = <<"atom", s>> /\ (p = "gnu" => s # <<91, 93>>)
    BY <1>5 DEF AtomsIn
  <2>2. v[1] = "atom" /\ v[2] = s
    BY <2>1
  <2>3. CASE s \in Literals
    <3>1. x = s
      BY <1>3, <2>2, <2>3
    <3> QED BY <1>2, <2>1, <2>3, <3>1, LiteralWritten
  <2>4. CASE s \notin Literals
    <3>1. x = EncodeString(s)
      BY <1>3, <2>2, <2>4
    <3> QED BY <1>2, <2>1, <3>1, StringWritten
  <2> QED BY <2>3, <2>4
<1> QED BY <1>4, <1>5 DEF LeavesIn

\* The texts of a sequence's elements.
TextsOf(e, s) == [i \in DOMAIN s |-> e[s[i]]]
MembersOf(e, s) == [i \in DOMAIN s |-> EncodeMember(e, s[i])]

LEMMA ListWritten ==
  ASSUME NEW p, NEW e, NEW S, \A w \in S : ReadAs("list", p, e[w], w), NEW s \in Seq(S)
  PROVE  ReadAs("list", p, EncodeValue(e, <<"list", s>>), <<"list", s>>)
<1>1. PICK n \in Nat : n = Len(s) /\ DOMAIN s = 1..n /\ \A k \in 1..n : s[k] \in S
  OBVIOUS
<1>2. PICK texts : texts = TextsOf(e, s)
  OBVIOUS
<1>3. \A k \in 1..n : texts[k] = e[s[k]]
  BY <1>1, <1>2 DEF TextsOf
<1>4. ASSUME NEW k \in 1..n PROVE ReadAs("list", p, texts[k], s[k]) /\ texts[k] \in Json
  <2>1. ReadAs("list", p, texts[k], s[k])
    <3>1. PICK w \in S : w = s[k]
      BY <1>1
    <3> QED BY <1>3, <3>1
  <2> QED BY <2>1 DEF ReadAs, Opens
<1>5. texts \in Seq(Json) /\ Len(texts) = n
  <2>1. texts \in [1..n -> Json]
    BY <1>1, <1>2, <1>4 DEF TextsOf
  <2> QED BY <2>1
<1>6. AllWritten("list", p, texts, s)
  BY <1>1, <1>4 DEF AllWritten
<1>7. EncodeValue(e, <<"list", s>>) = Between(91, Separated(texts), 93)
  <2>1. PICK v : v = <<"list", s>>
    OBVIOUS
  <2>2. v[1] = "list" /\ v[2] = s
    BY <2>1
  <2>3. EncodeValue(e, v) = <<91>> \o Separated([i \in DOMAIN s |-> e[s[i]]]) \o <<93>>
    BY <2>2 DEF EncodeValue
  <2> QED BY <1>2, <2>1, <2>3 DEF TextsOf, Between
<1>8. ReadAs("list", p, Between(91, Separated(texts), 93), <<"list", s>>)
  <2>1. 91 \in Nat /\ 93 \in Nat /\ Brackets("list", 91, 93)
    BY DEF Brackets
  <2>2. Len(texts) = Len(s) /\ "list" \in {"list", "json"}
    BY <1>1, <1>5
  <2> QED BY <1>5, <1>6, <2>1, <2>2, BracketsWritten
<1> QED BY <1>7, <1>8

LEMMA ObjectWritten ==
  ASSUME NEW p, NEW e, NEW S, \A w \in S : ReadAs("list", p, e[w], w), NEW s \in Seq(Json \X S)
  PROVE  ReadAs("list", p, EncodeValue(e, <<"json", s>>), <<"json", s>>)
<1>1. PICK n \in Nat : n = Len(s) /\ DOMAIN s = 1..n /\ \A k \in 1..n : s[k] \in Json \X S
  OBVIOUS
<1>2. PICK texts : texts = MembersOf(e, s)
  OBVIOUS
<1>3. \A k \in 1..n : texts[k] = EncodeMember(e, s[k])
  BY <1>1, <1>2 DEF MembersOf
<1>4. ASSUME NEW k \in 1..n PROVE ReadAs("json", p, texts[k], s[k]) /\ texts[k] \in Json
  <2>1. PICK name \in Json, w \in S : s[k] = <<name, w>>
    <3>1. s[k] \in Json \X S
      BY <1>1
    <3> QED BY <3>1
  <2>2. ReadAs("list", p, e[w], w)
    OBVIOUS
  <2>3. ReadAs("json", p, EncodeString(name) \o <<58>> \o e[w], <<name, w>>)
    BY <2>2, PairWritten
  <2>4. texts[k] = EncodeString(name) \o <<58>> \o e[w]
    <3>1. PICK pair : pair = s[k] /\ pair = <<name, w>>
      BY <2>1
    <3>2. pair[1] = name /\ pair[2] = w
      BY <3>1
    <3>3. texts[k] = EncodeMember(e, pair)
      BY <1>3, <3>1
    <3> QED BY <3>2, <3>3 DEF EncodeMember
  <2>5. ReadAs("json", p, texts[k], s[k])
    BY <2>1, <2>3, <2>4
  <2> QED BY <2>5 DEF ReadAs, Opens
<1>5. texts \in Seq(Json) /\ Len(texts) = n
  <2>1. texts \in [1..n -> Json]
    BY <1>1, <1>2, <1>4 DEF MembersOf
  <2> QED BY <2>1
<1>6. AllWritten("json", p, texts, s)
  BY <1>1, <1>4 DEF AllWritten
<1>7. EncodeValue(e, <<"json", s>>) = Between(123, Separated(texts), 125)
  <2>1. PICK v : v = <<"json", s>>
    OBVIOUS
  <2>2. v[1] = "json" /\ v[2] = s
    BY <2>1
  <2>3. EncodeValue(e, v) = <<123>> \o Separated([i \in DOMAIN s |-> EncodeMember(e, s[i])]) \o <<125>>
    BY <2>2 DEF EncodeValue
  <2> QED BY <1>2, <2>1, <2>3 DEF MembersOf, Between
<1>8. ReadAs("list", p, Between(123, Separated(texts), 125), <<"json", s>>)
  <2>1. 123 \in Nat /\ 125 \in Nat /\ Brackets("json", 123, 125)
    BY DEF Brackets
  <2>2. Len(texts) = Len(s) /\ "json" \in {"list", "json"}
    BY <1>1, <1>5
  <2> QED BY <1>5, <1>6, <2>1, <2>2, BracketsWritten
<1> QED BY <1>7, <1>8

LEMMA AroundWritten ==
  ASSUME NEW p, NEW e, NEW S, \A w \in S : ReadAs("list", p, e[w], w), NEW v \in Around(S)
  PROVE  ReadAs("list", p, EncodeValue(e, v), v)
<1>1. CASE v \in {"list"} \X Seq(S)
  <2>1. PICK s \in Seq(S) : v = <<"list", s>>
    BY <1>1
  <2> QED BY <2>1, ListWritten
<1>2. CASE v \in {"json"} \X Seq(Seq(Nat) \X S)
  <2>1. PICK s \in Seq(Json \X S) : v = <<"json", s>>
    BY <1>2 DEF Json
  <2> QED BY <2>1, ObjectWritten
<1> QED BY <1>1, <1>2 DEF Around

AllEncoded(depth, p, n) ==
  \A v \in Terms(LeavesIn(p))[n] : ReadAs("list", p, Encoding(depth)[n][v], v)

LEMMA EncodingOf ==
  ASSUME NEW depth \in Nat, NEW n \in Nat, n + 1 <= depth
  PROVE  \A v \in Terms(Leaves)[n + 1] :
           Encoding(depth)[n + 1][v] = EncodeValue(Encoding(depth)[n], v)
<1>1. Encoding(depth)[n + 1] = EncodedAt(Encoding(depth), n + 1)
  <2>1. n + 1 \in 0..depth
    OBVIOUS
  <2> QED BY <2>1, EncodingIs
<1>2. EncodedAt(Encoding(depth), n + 1) =
        [w \in Terms(Leaves)[n + 1] |-> EncodeValue(Encoding(depth)[n], w)]
  BY EncodedNext
<1> QED BY <1>1, <1>2

LEMMA EncodeWritten ==
  ASSUME NEW depth \in Nat, NEW p, NEW v \in Terms(LeavesIn(p))[depth]
  PROVE  ReadAs("list", p, Encode(depth, v), v)
<1> DEFINE T == {n \in Nat : n <= depth => AllEncoded(depth, p, n)}
<1>1. 0 \in T
  <2>1. 0 \in Nat /\ 0 \in 0..depth
    OBVIOUS
  <2>2. Terms(LeavesIn(p))[0] = LeavesIn(p) /\ Terms(Leaves)[0] = Leaves
    BY <2>1, TermsAre
  <2>3. PICK e : e = Encoding(depth)[0 - 1]
    OBVIOUS
  <2>4. Encoding(depth)[0] = [w \in Terms(Leaves)[0] |-> EncodeValue(e, w)]
    BY <2>1, <2>3, EncodingIs DEF EncodedAt
  <2>5. ASSUME NEW w \in Terms(LeavesIn(p))[0] PROVE ReadAs("list", p, Encoding(depth)[0][w], w)
    <3>1. w \in LeavesIn(p) /\ w \in Terms(Leaves)[0]
      BY <2>2, LeavesAre
    <3>2. Encoding(depth)[0][w] = EncodeValue(e, w)
      BY <2>4, <3>1
    <3> QED BY <3>1, <3>2, LeafWritten
  <2> QED BY <2>1, <2>5 DEF AllEncoded
<1>2. ASSUME NEW n \in T PROVE n + 1 \in T
  <2> SUFFICES ASSUME n + 1 <= depth PROVE AllEncoded(depth, p, n + 1)
    OBVIOUS
  <2>1. n \in Nat /\ n <= depth /\ AllEncoded(depth, p, n)
    BY <1>2
  <2>2. ASSUME NEW w \in Terms(LeavesIn(p))[n + 1] PROVE ReadAs("list", p, Encoding(depth)[n + 1][w], w)
    <3>1. Terms(LeavesIn(p))[n + 1] = LeavesIn(p) \cup Around(Terms(LeavesIn(p))[n])
      BY <2>1, TermsAre
    <3>2. w \in Terms(Leaves)[n + 1]
      <4>1. n + 1 \in Nat /\ n + 1 <= n + 1
        BY <2>1
      <4> QED BY <4>1, LeavesAre, TermsGrow
    <3>3. Encoding(depth)[n + 1][w] = EncodeValue(Encoding(depth)[n], w)
      BY <2>1, <3>2, EncodingOf
    <3>4. ReadAs("list", p, EncodeValue(Encoding(depth)[n], w), w)
      <4>1. CASE w \in LeavesIn(p)
        BY <4>1, LeafWritten
      <4>2. CASE w \in Around(Terms(LeavesIn(p))[n])
        BY <2>1, <4>2, AroundWritten DEF AllEncoded
      <4> QED BY <3>1, <4>1, <4>2
    <3> QED BY <3>3, <3>4
  <2> QED BY <2>2 DEF AllEncoded
<1>3. T = Nat
  <2> HIDE DEF T
  <2>1. T \in SUBSET Nat
    BY DEF T
  <2> QED BY <1>1, <1>2, <2>1, Induction
<1>4. AllEncoded(depth, p, depth)
  BY <1>3
<1>5. Encode(depth, v) = Encoding(depth)[depth][v]
  BY EncodingIs
<1> QED BY <1>4, <1>5 DEF AllEncoded

\* What a text is read as that was written of a term: that term.
LEMMA DecodeWritten ==
  ASSUME NEW p, NEW text, NEW v, ReadAs("list", p, text, v)
  PROVE  Decode(p, text) = {v}
<1>1. text \in Json /\ Opens(text)
  BY DEF ReadAs, Opens
<1>2. PICK n \in Nat : n = Len(text)
  BY <1>1, TextIs
<1>3. 1 \in Places(text) /\ 1 + n \in Places(text) /\ Places(text) = 1..(n + 1)
  BY <1>2 DEF Places
<1>4. Stands(text, 1, text)
  <2>1. 1 + Len(text) <= Len(text) + 1 /\ \A k \in 1..n : 1 + k - 1 = k
    BY <1>2
  <2> QED BY <1>2, <2>1 DEF Stands
<1>5. CodeAt(text, 1 + n) = -1
  BY <1>2 DEF CodeAt
<1>6. Follows(text, 1 + Len(text))
  BY <1>2, <1>5 DEF Follows
<1>7. SkipWs(text, 1) = 1
  BY <1>1, <1>3, <1>4, OpensIs
<1>8. SkipWs(text, 1 + n) = 1 + n
  BY <1>1, <1>2, <1>3, <1>6, FollowsIs
<1>9. JsRead(p, text)[1]["value"] = {<<v, 1 + n>>}
  <2>1. JsItem(JsRead(p, text), "list", p, text, 1) = {<<v, 1 + Len(text)>>}
    BY <1>1, <1>3, <1>4, <1>6 DEF ReadAs
  <2>2. JsValue(JsRead(p, text), p, text, 1) = JsItem(JsRead(p, text), "list", p, text, 1)
    BY DEF JsItem
  <2>3. JsRead(p, text)[1]["value"] = JsValue(JsRead(p, text), p, text, 1)
    BY <1>1, <1>3, ReadIs
  <2> QED BY <1>2, <2>1, <2>2, <2>3
<1>10. PICK r : r = <<v, 1 + n>>
  OBVIOUS
<1>11. r[1] = v /\ r[2] = 1 + n
  BY <1>10
<1>12. SkipWs(text, r[2]) > Len(text)
  BY <1>2, <1>8, <1>11
<1>13. Decode(p, text) = {x[1] : x \in {x \in {r} : SkipWs(text, x[2]) > Len(text)}}
  <2>1. Decode(p, text) =
          {x[1] : x \in {x \in JsRead(p, text)[SkipWs(text, 1)]["value"] : SkipWs(text, x[2]) > Len(text)}}
    BY Zenon DEF Decode
  <2>2. JsRead(p, text)[SkipWs(text, 1)]["value"] = {r}
    BY <1>7, <1>9, <1>10
  <2> QED BY <2>1, <2>2, Zenon
<1> QED BY <1>11, <1>12, <1>13

\* A term that was read is written as a text that is read as that term.
LEMMA WrittenAndRead ==
  ASSUME NEW p, NEW t \in Json, NEW v \in Decode(p, t)
  PROVE  Decode(p, Encode(Len(t), v)) = {v}
<1>1. PICK n \in Nat : n = Len(t)
  BY TextIs
<1>2. v \in Terms(LeavesIn(p))[n]
  BY <1>1, DecodeIs
<1>3. ReadAs("list", p, Encode(n, v), v)
  BY <1>2, EncodeWritten
<1> QED BY <1>1, <1>3, DecodeWritten

(***************************************************************************)
(* What the strings of a text denote                                       *)
(***************************************************************************)
LEMMA EscapedCodes ==
  ASSUME NEW t \in Json, NEW i \in Nat \ {0}, Escaped(t, i) >= 0
  PROVE  /\ CodeAt(t, i) = 92 /\ CodeAt(t, i + 1) = 117
         /\ \A k \in 0..5 : CodeAt(t, i + k) # 34
<1> DEFINE h == [k \in 1..4 |-> HexVal(CodeAt(t, i + 1 + k))]
<1>1. ~(-1 >= 0)
  OBVIOUS
<1>2. CodeAt(t, i) = 92 /\ CodeAt(t, i + 1) = 117 /\ ~\E k \in 1..4 : h[k] < 0
  BY <1>1 DEF Escaped
<1>3. ASSUME NEW k \in 1..4 PROVE CodeAt(t, i + 1 + k) # 34
  <2>1. ~(HexVal(CodeAt(t, i + 1 + k)) < 0)
    BY <1>2
  <2>2. HexVal(34) = -1
    BY DEF HexVal, IsDigit
  <2> QED BY <2>1, <2>2
<1> HIDE DEF h
<1>4. ASSUME NEW k \in 0..5 PROVE CodeAt(t, i + k) # 34
  <2>1. CASE k = 0
    <3>1. i + k = i
      BY <2>1
    <3> QED BY <1>2, <3>1
  <2>2. CASE k = 1
    BY <1>2, <2>2
  <2>3. CASE k > 1
    <3>1. PICK l \in 1..4 : i + 1 + l = i + k
      <4>1. k - 1 \in 1..4 /\ i + 1 + (k - 1) = i + k
        BY <2>3
      <4> QED BY <4>1
    <3> QED BY <1>3, <3>1
  <2> QED BY <2>1, <2>2, <2>3
<1> QED BY <1>2, <1>4

LEMMA NotEscaped ==
  ASSUME NEW t, NEW i, CodeAt(t, i) # 92 \/ CodeAt(t, i + 1) # 117
  PROVE  Escaped(t, i) = -1
BY DEF Escaped

Prologs == {"swi", "gnu"}

LEMMA Utf8Is ==
  ASSUME NEW cp \in Nat
  PROVE  Utf8(cp) = CodePoint("gnu", cp)
<1>1. PICK a \in Nat, b \in Nat, c \in Nat, d \in Nat, e \in Nat, f \in Nat :
        /\ a = 192 + cp \div 64 /\ b = 128 + (cp % 64) /\ c = 224 + cp \div 4096
        /\ d = 128 + ((cp \div 64) % 64) /\ e = 240 + cp \div 262144
        /\ f = 128 + ((cp \div 4096) % 64)
  BY SMT
<1>2. cp \div 1 = cp
  BY SMT
<1>3. CASE cp < 128
  <2>1. Utf8(cp) = [k \in 1..1 |-> cp]
    BY <1>2, <1>3 DEF Utf8
  <2> QED BY <1>3, <2>1 DEF CodePoint
<1>4. CASE cp >= 128 /\ cp < 2048
  <2>1. Utf8(cp) = [k \in 1..2 |-> IF k = 1 THEN a ELSE b]
    BY <1>1, <1>2, <1>4 DEF Utf8
  <2> QED BY <1>1, <1>4, <2>1 DEF CodePoint
<1>5. CASE cp >= 2048 /\ cp < 65536
  <2>1. Utf8(cp) = [k \in 1..3 |-> IF k = 1 THEN c ELSE IF k = 2 THEN d ELSE b]
    BY <1>1, <1>2, <1>5 DEF Utf8
  <2> QED BY <1>1, <1>5, <2>1 DEF CodePoint
<1>6. CASE cp >= 65536
  <2>1. Utf8(cp) = [k \in 1..4 |-> IF k = 1 THEN e ELSE IF k = 2 THEN f ELSE IF k = 3 THEN d ELSE b]
    BY <1>1, <1>2, <1>6 DEF Utf8
  <2> QED BY <1>1, <1>6, <2>1 DEF CodePoint
<1> QED BY <1>3, <1>4, <1>5, <1>6

LEMMA AtomCodesAre ==
  ASSUME NEW p \in Prologs, NEW cp \in Nat
  PROVE  AtomCodes(p, cp) = CodePoint(p, cp)
<1>1. CASE p = "gnu"
  BY <1>1, Utf8Is DEF AtomCodes
<1>2. CASE p = "swi"
  BY <1>2 DEF AtomCodes, CodePoint
<1> QED BY <1>1, <1>2 DEF Prologs

LEMMA PairedIs ==
  ASSUME NEW hi, NEW lo, IsHigh(hi), IsLow(lo)
  PROVE  Paired(hi, lo) = Surrogates(hi, lo)
<1>1. hi % 1024 = hi - 55296
  BY SMT DEF IsHigh
<1>2. lo % 1024 = lo - 56320
  BY SMT DEF IsLow
<1> QED BY <1>1, <1>2 DEF Surrogates, Paired

UnitsAre(p, t, i, a, b, hi, lo) ==
  /\ Unit(p, t, i, 1) = IF a \in {34, 92} THEN {} ELSE {<<a>>}
  /\ Unit(p, t, i, 2) = IF a = 92 THEN {<<Unescape[e]>> : e \in DOMAIN Unescape \cap {b}} ELSE {}
  /\ Unit(p, t, i, 6) = IF hi < 0 THEN {} ELSE {CodePoint(p, hi)}
  /\ Unit(p, t, i, 12) = IF IsHigh(hi) /\ IsLow(lo) THEN {CodePoint(p, Surrogates(hi, lo))} ELSE {}

LEMMA UnitIs ==
  ASSUME NEW t \in Json, NEW p \in Prologs, NEW i \in 1..Len(t), i + 1 <= Len(t),
         NEW a, NEW b, NEW hi, NEW lo, a = CodeAt(t, i), b = CodeAt(t, i + 1),
         hi = Escaped(t, i), lo = Escaped(t, i + 6)
  PROVE  UnitsAre(p, t, i, a, b, hi, lo)
<1>1. i \in Nat \ {0} /\ i + 1 \in Nat \ {0} /\ i <= Len(t)
  BY TextIs
<1>2. a = t[i] /\ b = t[i + 1]
  BY <1>1, CodeIs
<1>3. hi \in Nat \cup {-1}
  BY <1>1, EscapedIs
<1>4. Unit(p, t, i, 1) = {<<c>> : c \in {a} \ {34, 92}}
  BY <1>2 DEF Unit
<1>5. Unit(p, t, i, 2) = IF a = 92 THEN {<<Unescape[e]>> : e \in DOMAIN Unescape \cap {b}} ELSE {}
  <2>1. Unit(p, t, i, 2) = ShortEscape(t, i)
    BY DEF Unit
  <2> QED BY <1>2, <2>1 DEF ShortEscape
<1>6. Unit(p, t, i, 6) = {AtomCodes(p, cp) : cp \in {hi} \ {-1}}
  <2>1. Unit(p, t, i, 6) = UnicodeEscape(p, t, i)
    BY DEF Unit
  <2> QED BY <2>1 DEF UnicodeEscape
<1>7. Unit(p, t, i, 12) = IF IsHigh(hi) /\ IsLow(lo)
                          THEN {AtomCodes(p, Paired(hi, lo))} ELSE {}
  <2>1. Unit(p, t, i, 12) = SurrogatePair(p, t, i)
    BY DEF Unit
  <2> QED BY <2>1 DEF SurrogatePair
<1>8. Unit(p, t, i, 6) = IF hi < 0 THEN {} ELSE {CodePoint(p, hi)}
  <2>1. CASE hi = -1
    <3>1. {hi} \ {-1} = {} /\ hi < 0
      BY <2>1
    <3> QED BY <1>6, <3>1
  <2>2. CASE hi \in Nat
    <3>1. {hi} \ {-1} = {hi} /\ ~(hi < 0)
      BY <2>2
    <3>2. AtomCodes(p, hi) = CodePoint(p, hi)
      BY <2>2, AtomCodesAre
    <3> QED BY <1>6, <3>1, <3>2
  <2> QED BY <1>3, <2>1, <2>2
<1>9. IsHigh(hi) /\ IsLow(lo) =>
        AtomCodes(p, Paired(hi, lo)) = CodePoint(p, Surrogates(hi, lo))
  <2> SUFFICES ASSUME IsHigh(hi), IsLow(lo)
               PROVE  AtomCodes(p, Paired(hi, lo)) = CodePoint(p, Surrogates(hi, lo))
    OBVIOUS
  <2>1. Surrogates(hi, lo) \in Nat
    BY SurrogatesAre
  <2>2. Paired(hi, lo) = Surrogates(hi, lo)
    BY PairedIs
  <2> QED BY <2>1, <2>2, AtomCodesAre
<1>10. Unit(p, t, i, 1) = IF a \in {34, 92} THEN {} ELSE {<<a>>}
  <2>1. CASE a \in {34, 92}
    <3>1. {a} \ {34, 92} = {}
      BY <2>1
    <3> QED BY <1>4, <2>1, <3>1
  <2>2. CASE a \notin {34, 92}
    <3>1. {a} \ {34, 92} = {a}
      BY <2>2
    <3> QED BY <1>4, <2>2, <3>1
  <2> QED BY <2>1, <2>2
<1> QED BY <1>5, <1>7, <1>8, <1>9, <1>10 DEF UnitsAre

\* The same character for the grammar and the code, if it ends before a quote.
SameChar(p, t, i, j, n, u) ==
  /\ JsChar(p, t, i) = {<<u, i + n>>}
  /\ IF i + n - 1 <= j THEN Longest(p, t, i, j) = {n} /\ Unit(p, t, i, n) = {u}
                       ELSE Longest(p, t, i, j) = {}

\* The units that fit.
Fits(p, t, i, j, n) == i + n - 1 <= j /\ Unit(p, t, i, n) # {}

LEMMA LongestIs ==
  ASSUME NEW p, NEW t, NEW i, NEW j
  PROVE  Longest(p, t, i, j) =
           {n \in {1, 2, 6, 12} : Fits(p, t, i, j, n) /\ \A other \in {1, 2, 6, 12} :
                                    Fits(p, t, i, j, other) => other <= n}
BY DEF Longest, Fits

LEMMA LongestOnly ==
  ASSUME NEW p, NEW t, NEW i, NEW j, NEW n \in {1, 2, 6, 12}, Fits(p, t, i, j, n),
         \A other \in {1, 2, 6, 12} : Fits(p, t, i, j, other) => other <= n
  PROVE  Longest(p, t, i, j) = {n}
<1>1. n \in Longest(p, t, i, j)
  BY LongestIs
<1>2. ASSUME NEW m \in Longest(p, t, i, j) PROVE m = n
  <2>1. m \in {1, 2, 6, 12} /\ m <= n /\ n <= m
    BY LongestIs
  <2> QED BY <2>1
<1> QED BY <1>1, <1>2

LEMMA NoLongest ==
  ASSUME NEW p, NEW t, NEW i, NEW j, \A n \in {1, 2, 6, 12} : ~Fits(p, t, i, j, n)
  PROVE  Longest(p, t, i, j) = {}
BY LongestIs

\* The code and the grammar see the same character, or none, before a quote.
LEMMA CharSame ==
  ASSUME NEW t \in Json, NEW p \in Prologs, NEW j \in Nat, j + 1 <= Len(t), t[j + 1] = 34,
         NEW i \in 1..j
  PROVE  \/ JsChar(p, t, i) = {} /\ Longest(p, t, i, j) = {}
         \/ \E n \in {1, 2, 6, 12} : \E u \in Json : SameChar(p, t, i, j, n, u)
<1> DEFINE S == \E n \in {1, 2, 6, 12} : \E u \in Json : SameChar(p, t, i, j, n, u)
           N == JsChar(p, t, i) = {} /\ Longest(p, t, i, j) = {}
<1>1. PICK l \in Nat : l = Len(t) /\ j + 1 <= l /\ i \in 1..l /\ i + 1 <= l
  BY TextIs
<1> DEFINE a == CodeAt(t, i)
           b == CodeAt(t, i + 1)
           hi == Escaped(t, i)
           lo == Escaped(t, i + 6)
<1>2. a \in Nat /\ b \in Nat /\ a = t[i] /\ b = t[i + 1]
  <2>1. i \in Nat \ {0} /\ i + 1 \in Nat \ {0} /\ i <= Len(t) /\ i + 1 <= Len(t)
    BY <1>1
  <2> QED BY <2>1, CodeIs
<1>3. hi \in Nat \cup {-1} /\ lo \in Nat \cup {-1}
  <2>1. i \in Nat \ {0} /\ i + 6 \in Nat \ {0}
    OBVIOUS
  <2> QED BY <2>1, EscapedIs
<1>13. UnitsAre(p, t, i, a, b, hi, lo)
  <2>1. i \in 1..Len(t) /\ i + 1 <= Len(t)
    BY <1>1
  <2> QED BY <2>1, UnitIs
<1>5. JsChar(p, t, i) =
        IF a = 34 THEN {}
        ELSE IF a # 92 THEN {<<<<a>>, i + 1>>}
        ELSE IF b # 117 THEN {<<<<Unescape[e]>>, i + 2>> : e \in DOMAIN Unescape \cap {b}}
        ELSE IF hi < 0 THEN {}
        ELSE IF IsHigh(hi) /\ IsLow(lo) THEN {<<CodePoint(p, Surrogates(hi, lo)), i + 12>>}
        ELSE {<<CodePoint(p, hi), i + 6>>}
  <2>1. JsChar(p, t, i) =
        IF a \in {34, -1} THEN {}
        ELSE IF a # 92 THEN {<<<<t[i]>>, i + 1>>}
        ELSE IF b # 117 THEN {<<<<Unescape[e]>>, i + 2>> : e \in DOMAIN Unescape \cap {b}}
        ELSE IF hi < 0 THEN {}
        ELSE IF IsHigh(hi) /\ IsLow(lo) THEN {<<CodePoint(p, Surrogates(hi, lo)), i + 12>>}
        ELSE {<<CodePoint(p, hi), i + 6>>}
    BY DEF JsChar
  <2>2. a \in {34, -1} <=> a = 34
    BY <1>2
  <2> HIDE DEF a, b, hi, lo
  <2> QED BY <1>2, <2>1, <2>2
<1>6. hi >= 0 => a = 92 /\ b = 117 /\ i + 5 <= j
  <2> SUFFICES ASSUME hi >= 0 PROVE a = 92 /\ b = 117 /\ i + 5 <= j
    OBVIOUS
  <2>1. a = 92 /\ b = 117 /\ \A k \in 0..5 : CodeAt(t, i + k) # 34
    BY EscapedCodes
  <2>2. CodeAt(t, j + 1) = 34
    BY <1>1, CodeIs
  <2>3. ~(j + 1 <= i + 5)
    <3> SUFFICES ASSUME j + 1 <= i + 5 PROVE FALSE
      OBVIOUS
    <3>1. j + 1 - i \in 0..5 /\ i + (j + 1 - i) = j + 1
      OBVIOUS
    <3> QED BY <2>1, <2>2, <3>1
  <2> QED BY <2>1, <2>3
<1>7. hi >= 0 /\ lo >= 0 => i + 11 <= j
  <2> SUFFICES ASSUME hi >= 0, lo >= 0 PROVE i + 11 <= j
    OBVIOUS
  <2>1. \A k \in 0..5 : CodeAt(t, i + 6 + k) # 34
    BY EscapedCodes
  <2>2. CodeAt(t, j + 1) = 34
    BY <1>1, CodeIs
  <2>3. ~(j + 1 <= i + 11)
    <3> SUFFICES ASSUME j + 1 <= i + 11 PROVE FALSE
      OBVIOUS
    <3>1. j + 1 - i - 6 \in 0..5 /\ i + 6 + (j + 1 - i - 6) = j + 1
      BY <1>6
    <3> QED BY <2>1, <2>2, <3>1
  <2> QED BY <2>3
<1> HIDE DEF a, b, hi, lo
<1>4. /\ Unit(p, t, i, 1) = IF a \in {34, 92} THEN {} ELSE {<<a>>}
      /\ Unit(p, t, i, 2) = IF a = 92 THEN {<<Unescape[e]>> : e \in DOMAIN Unescape \cap {b}} ELSE {}
      /\ Unit(p, t, i, 6) = IF hi < 0 THEN {} ELSE {CodePoint(p, hi)}
      /\ Unit(p, t, i, 12) = IF IsHigh(hi) /\ IsLow(lo) THEN {CodePoint(p, Surrogates(hi, lo))} ELSE {}
  BY <1>13 DEF UnitsAre
<1>8. hi < 0 => ~IsHigh(hi)
  BY <1>3 DEF IsHigh
<1>9. CASE a = 34
  <2>1. hi < 0
    BY <1>2, <1>3, <1>6, <1>9
  <2>2. \A n \in {1, 2, 6, 12} : Unit(p, t, i, n) = {}
    BY <1>4, <1>8, <1>9, <2>1
  <2>3. Longest(p, t, i, j) = {}
    BY <2>2, NoLongest DEF Fits
  <2> QED BY <1>5, <1>9, <2>3
<1>10. CASE a \notin {34, 92}
  <2>1. hi < 0
    BY <1>2, <1>3, <1>6, <1>10
  <2>2. \A n \in {2, 6, 12} : Unit(p, t, i, n) = {}
    BY <1>4, <1>8, <1>10, <2>1
  <2>3. Unit(p, t, i, 1) = {<<a>>} /\ JsChar(p, t, i) = {<<<<a>>, i + 1>>} /\ <<a>> \in Json
    BY <1>2, <1>4, <1>5, <1>10 DEF Json
  <2>4. Fits(p, t, i, j, 1) /\ \A n \in {2, 6, 12} : ~Fits(p, t, i, j, n)
    BY <2>2, <2>3 DEF Fits
  <2>5. Longest(p, t, i, j) = {1}
    BY <2>4, LongestOnly
  <2>6. SameChar(p, t, i, j, 1, <<a>>)
    BY <2>3, <2>5 DEF SameChar
  <2> QED BY <2>3, <2>6
<1>11. CASE a = 92 /\ b # 117
  <2>1. hi < 0
    BY <1>2, <1>3, <1>6, <1>11
  <2>2. \A n \in {1, 6, 12} : Unit(p, t, i, n) = {}
    BY <1>4, <1>8, <1>11, <2>1
  <2>3. CASE b \notin DOMAIN Unescape
    <3>1. DOMAIN Unescape \cap {b} = {}
      BY <2>3
    <3>2. Unit(p, t, i, 2) = {} /\ JsChar(p, t, i) = {}
      BY <1>4, <1>5, <1>11, <3>1
    <3>3. Longest(p, t, i, j) = {}
      BY <2>2, <3>2, NoLongest DEF Fits
    <3> QED BY <3>2, <3>3
  <2>4. CASE b \in DOMAIN Unescape
    <3>1. DOMAIN Unescape \cap {b} = {b}
      BY <2>4
    <3>2. PICK u \in Json : u = <<Unescape[b]>>
      <4>1. Unescape[b] \in Nat
        BY <2>4 DEF Unescape
      <4>2. <<Unescape[b]>> \in Json
        BY <4>1 DEF Json
      <4> QED BY <4>2
    <3>3. Unit(p, t, i, 2) = {u} /\ JsChar(p, t, i) = {<<u, i + 2>>}
      BY <1>4, <1>5, <1>11, <3>1, <3>2
    <3>4. \A n \in {1, 6, 12} : ~Fits(p, t, i, j, n)
      BY <2>2 DEF Fits
    <3>5. CASE i + 2 - 1 <= j
      <4>1. Fits(p, t, i, j, 2)
        BY <3>3, <3>5 DEF Fits
      <4>2. Longest(p, t, i, j) = {2}
        BY <3>4, <4>1, LongestOnly
      <4>3. SameChar(p, t, i, j, 2, u)
        BY <3>3, <3>5, <4>2 DEF SameChar
      <4> QED BY <3>2, <4>3
    <3>6. CASE ~(i + 2 - 1 <= j)
      <4>1. ~Fits(p, t, i, j, 2)
        BY <3>6 DEF Fits
      <4>2. Longest(p, t, i, j) = {}
        BY <3>4, <4>1, NoLongest
      <4>3. SameChar(p, t, i, j, 2, u)
        BY <3>3, <3>6, <4>2 DEF SameChar
      <4> QED BY <3>2, <4>3
    <3> QED BY <3>5, <3>6
  <2> QED BY <2>3, <2>4
<1>12. CASE a = 92 /\ b = 117
  <2>1. Unit(p, t, i, 1) = {} /\ Unit(p, t, i, 2) = {}
    <3>1. DOMAIN Unescape \cap {b} = {}
      BY <1>12 DEF Unescape
    <3> QED BY <1>4, <1>12, <3>1
  <2>2. CASE hi < 0
    <3>1. JsChar(p, t, i) = {}
      BY <1>5, <1>12, <2>2
    <3>2. \A n \in {1, 2, 6, 12} : ~Fits(p, t, i, j, n)
      BY <1>4, <1>8, <2>1, <2>2 DEF Fits
    <3> QED BY <3>1, <3>2, NoLongest
  <2>3. CASE ~(hi < 0) /\ ~(IsHigh(hi) /\ IsLow(lo))
    <3>1. PICK u \in Json : u = CodePoint(p, hi)
      <4>1. hi \in Nat
        BY <1>3, <2>3
      <4> QED BY <4>1, CodePointIs
    <3>2. Unit(p, t, i, 6) = {u} /\ Unit(p, t, i, 12) = {} /\ JsChar(p, t, i) = {<<u, i + 6>>}
      BY <1>4, <1>5, <1>12, <2>3, <3>1
    <3>3. i + 6 - 1 <= j
      BY <1>2, <1>3, <1>6, <2>3
    <3>4. Fits(p, t, i, j, 6) /\ \A n \in {1, 2, 12} : ~Fits(p, t, i, j, n)
      BY <2>1, <3>2, <3>3 DEF Fits
    <3>5. Longest(p, t, i, j) = {6}
      BY <3>4, LongestOnly
    <3>6. SameChar(p, t, i, j, 6, u)
      BY <3>2, <3>3, <3>5 DEF SameChar
    <3> QED BY <3>1, <3>6
  <2>4. CASE IsHigh(hi) /\ IsLow(lo)
    <3>1. ~(hi < 0) /\ lo >= 0
      BY <1>3, <2>4 DEF IsHigh, IsLow
    <3>2. PICK u \in Json : u = CodePoint(p, Surrogates(hi, lo))
      <4>1. Surrogates(hi, lo) \in Nat
        BY <2>4, SurrogatesAre
      <4> QED BY <4>1, CodePointIs
    <3>3. Unit(p, t, i, 12) = {u} /\ JsChar(p, t, i) = {<<u, i + 12>>}
      BY <1>4, <1>5, <1>12, <2>4, <3>1, <3>2
    <3>4. i + 12 - 1 <= j
      BY <1>3, <1>7, <3>1
    <3>5. Fits(p, t, i, j, 12)
      BY <3>3, <3>4 DEF Fits
    <3>6. Longest(p, t, i, j) = {12}
      BY <3>5, LongestOnly
    <3>7. SameChar(p, t, i, j, 12, u)
      BY <3>3, <3>4, <3>6 DEF SameChar
    <3> QED BY <3>2, <3>7
  <2> QED BY <2>2, <2>3, <2>4
<1> QED BY <1>9, <1>10, <1>11, <1>12

\* The recursive function of CharsOf.
CharsOfAt(chars, p, t, j, i) ==
  IF i > j THEN {<<>>}
  ELSE UNION {Together(Unit(p, t, i, n), chars[i + n]) : n \in Longest(p, t, i, j)}
AreCharsOf(chars, p, t, j) == chars = [i \in Places(t) |-> CharsOfAt(chars, p, t, j, i)]

LEMMA TogetherIn ==
  ASSUME NEW A, NEW B, NEW s
  PROVE  s \in Together(A, B) <=> \E a \in A : \E b \in B : s = a \o b
BY DEF Together

\* What has been read, if it ends there.
Ending(r, end) == IF r[2] = end THEN {r[1]} ELSE {}
Prefixed(u, r) == <<u \o r[1], r[2]>>
OneChar(p, t, i, u, z) == JsChar(p, t, i) = {<<u, z>>}

LEMMA EndingTogether ==
  ASSUME NEW u, NEW r, NEW end
  PROVE  Together({u}, Ending(r, end)) = Ending(Prefixed(u, r), end)
<1>1. PICK a, z, b : a = r[1] /\ z = r[2] /\ b = u \o a
  OBVIOUS
<1>2. Ending(Prefixed(u, r), end) = IF z = end THEN {b} ELSE {}
  BY <1>1 DEF Ending, Prefixed
<1>3. CASE z = end
  <2>1. Ending(r, end) = {a}
    BY <1>1, <1>3 DEF Ending
  <2>2. \A s : s \in Together({u}, {a}) <=> s = b
    BY <1>1 DEF Together
  <2> QED BY <1>2, <1>3, <2>1, <2>2
<1>4. CASE z # end
  <2>1. Ending(r, end) = {}
    BY <1>1, <1>4 DEF Ending
  <2>2. Together({u}, {}) = {}
    BY DEF Together
  <2> QED BY <1>2, <1>4, <2>1, <2>2
<1> QED BY <1>3, <1>4

LEMMA CharsOfLast ==
  ASSUME NEW p, NEW t, NEW j, NEW i, NEW f, i > j
  PROVE  CharsOfAt(f, p, t, j, i) = {<<>>}
BY DEF CharsOfAt

LEMMA CharsOfIn ==
  ASSUME NEW p, NEW t, NEW j, NEW i, NEW f, ~(i > j), NEW s
  PROVE  s \in CharsOfAt(f, p, t, j, i) <=>
           \E n \in Longest(p, t, i, j) : s \in Together(Unit(p, t, i, n), f[i + n])
<1>1. CharsOfAt(f, p, t, j, i) = UNION {Together(Unit(p, t, i, n), f[i + n]) : n \in Longest(p, t, i, j)}
  BY Zenon DEF CharsOfAt
<1> QED BY <1>1

\* A character, and what follows it.
LEMMA CharsAtOne ==
  ASSUME NEW p, NEW t, NEW i, NEW f, NEW u, NEW z, OneChar(p, t, i, u, z)
  PROVE  CharsAt(f, p, t, i) = Prefixed(u, f[z])
<1> DEFINE char == CHOOSE char \in JsChar(p, t, i) : TRUE
<1>1. char = <<u, z>> /\ JsChar(p, t, i) # {}
  BY DEF OneChar
<1>2. CharsAt(f, p, t, i) = <<char[1] \o f[char[2]][1], f[char[2]][2]>>
  BY <1>1, Zenon DEF CharsAt
<1> HIDE DEF char
<1>3. char[1] = u /\ char[2] = z
  BY <1>1
<1> QED BY <1>2, <1>3 DEF Prefixed

LEMMA CharsOfWithin ==
  ASSUME NEW t \in Json, NEW p, NEW j \in 0..Len(t), NEW i \in Places(t), NEW f, NEW h,
         \A k \in Places(t) : k > i => f[k] = h[k]
  PROVE  CharsOfAt(f, p, t, j, i) \subseteq CharsOfAt(h, p, t, j, i)
<1>1. PICK l \in Nat : l = Len(t) /\ Places(t) = 1..(l + 1) /\ i \in 1..(l + 1) /\ j \in 0..l
  BY TextIs DEF Places
<1>2. CASE i > j
  BY <1>2 DEF CharsOfAt
<1>3. CASE ~(i > j)
  <2> SUFFICES ASSUME NEW s \in CharsOfAt(f, p, t, j, i) PROVE s \in CharsOfAt(h, p, t, j, i)
    OBVIOUS
  <2>1. PICK n \in Longest(p, t, i, j) : s \in Together(Unit(p, t, i, n), f[i + n])
    BY <1>3, CharsOfIn
  <2>2. n \in {1, 2, 6, 12} /\ i + n - 1 <= j
    BY LongestIs DEF Fits
  <2>3. f[i + n] = h[i + n]
    <3>1. i + n \in 1..(l + 1) /\ i + n > i
      BY <1>1, <2>2
    <3> QED BY <1>1, <3>1
  <2>4. s \in Together(Unit(p, t, i, n), h[i + n])
    BY <2>1, <2>3
  <2> QED BY <1>3, <2>4, CharsOfIn
<1> QED BY <1>2, <1>3

LEMMA CharsOfSame ==
  ASSUME NEW t \in Json, NEW p, NEW j \in 0..Len(t), NEW i \in Places(t), NEW f, NEW h,
         \A k \in Places(t) : k > i => f[k] = h[k]
  PROVE  CharsOfAt(f, p, t, j, i) = CharsOfAt(h, p, t, j, i)
<1>1. CharsOfAt(f, p, t, j, i) \subseteq CharsOfAt(h, p, t, j, i)
  BY CharsOfWithin
<1>2. CharsOfAt(h, p, t, j, i) \subseteq CharsOfAt(f, p, t, j, i)
  BY CharsOfWithin
<1> QED BY <1>1, <1>2

LEMMA CharsOfExist ==
  ASSUME NEW t \in Json, NEW p, NEW j \in 0..Len(t)
  PROVE  AreCharsOf(CharsOf(p, t, j), p, t, j)
<1>1. PICK n \in Nat : n = Len(t) /\ Places(t) = 1..(n + 1)
  BY TextIs DEF Places
<1> DEFINE Known(f, k) == \A i \in Places(t) : i > n + 1 - k => f[i] = CharsOfAt(f, p, t, j, i)
           T == {k \in Nat : \E f : Known(f, k)}
<1>2. 0 \in T
  BY <1>1
<1>3. ASSUME NEW k \in T PROVE k + 1 \in T
  <2>1. PICK f : Known(f, k)
    OBVIOUS
  <2> DEFINE h == [i \in Places(t) |-> CharsOfAt(f, p, t, j, i)]
  <2>2. ASSUME NEW i \in Places(t), i > n + 1 - (k + 1) PROVE h[i] = CharsOfAt(h, p, t, j, i)
    <3>1. \A m \in Places(t) : m > i => f[m] = h[m]
      BY <1>1, <2>1, <2>2
    <3>2. CharsOfAt(f, p, t, j, i) = CharsOfAt(h, p, t, j, i)
      <4> HIDE DEF h
      <4> QED BY <3>1, CharsOfSame
    <3> QED BY <3>2
  <2>3. Known(h, k + 1) /\ k + 1 \in Nat
    <3> HIDE DEF h
    <3> QED BY <2>2
  <2> HIDE DEF h
  <2> QED BY <2>3
<1>4. T = Nat
  <2> HIDE DEF T
  <2>1. T \in SUBSET Nat
    BY DEF T
  <2> QED BY <1>2, <1>3, <2>1, Induction
<1>5. PICK f : Known(f, n + 2)
  <2>1. n + 2 \in T
    <3> HIDE DEF T
    <3> QED BY <1>4
  <2> QED BY <2>1, Zenon
<1> DEFINE h == [i \in Places(t) |-> CharsOfAt(f, p, t, j, i)]
<1>6. \A i \in Places(t) : f[i] = h[i]
  BY <1>1, <1>5
<1>7. h = [i \in Places(t) |-> CharsOfAt(h, p, t, j, i)]
  <2>1. \A i \in Places(t) : CharsOfAt(f, p, t, j, i) = CharsOfAt(h, p, t, j, i)
    <3> HIDE DEF h
    <3> QED BY <1>6, CharsOfSame
  <2> QED BY <2>1
<1>8. CharsOf(p, t, j) = CHOOSE chars : AreCharsOf(chars, p, t, j)
  BY DEF CharsOf, AreCharsOf, CharsOfAt, Places
<1> HIDE DEF h
<1> QED BY <1>7, <1>8 DEF AreCharsOf

LEMMA CharsAreDenoted ==
  ASSUME NEW t \in Json, NEW p \in Prologs, NEW j \in Nat, j + 1 <= Len(t), t[j + 1] = 34,
         NEW i \in 1..(j + 1)
  PROVE  CharsOf(p, t, j)[i] = Ending(JsChars(p, t)[i], j + 1)
<1>1. PICK l \in Nat : l = Len(t) /\ Places(t) = 1..(l + 1) /\ j + 1 \in 1..l
  BY TextIs DEF Places
<1>2. PICK f, h : f = CharsOf(p, t, j) /\ h = JsChars(p, t)
  OBVIOUS
<1>3. \A k \in 1..(j + 1) : f[k] = CharsOfAt(f, p, t, j, k)
  <2>1. j \in 0..Len(t)
    BY <1>1
  <2>2. AreCharsOf(f, p, t, j)
    BY <1>2, <2>1, CharsOfExist
  <2> QED BY <1>1, <2>2 DEF AreCharsOf
<1>4. \A k \in 1..(l + 1) : /\ h[k] = CharsAt(h, p, t, k)
                            /\ h[k] = <<h[k][1], h[k][2]>> /\ h[k][1] \in Json
                            /\ h[k][2] \in 1..(l + 1) /\ h[k][2] >= k
  BY <1>1, <1>2, JsCharsAre DEF Reads
<1> DEFINE Same(k) == f[k] = Ending(h[k], j + 1)
           T == {k \in 1..(j + 1) : Same(k)}
<1>5. ASSUME NEW k \in 1..(j + 1), \A m \in 1..(j + 1) : m > k => m \in T
      PROVE  k \in T
  <2>1. CASE k = j + 1
    <3>1. f[k] = {<<>>}
      <4>1. k > j /\ f[k] = CharsOfAt(f, p, t, j, k)
        BY <1>3, <2>1
      <4> QED BY <4>1, CharsOfLast
    <3>2. JsChar(p, t, k) = {}
      <4>1. CodeAt(t, k) = 34
        <5>1. k \in Nat \ {0} /\ k <= Len(t) /\ t[k] = 34
          BY <1>1, <2>1
        <5> QED BY <5>1, CodeIs
      <4> QED BY <4>1 DEF JsChar
    <3>3. h[k] = <<<<>>, k>>
      <4>1. k \in 1..(l + 1)
        BY <1>1
      <4> QED BY <1>4, <3>2, <4>1 DEF CharsAt
    <3>4. Same(k)
      BY <2>1, <3>1, <3>3 DEF Ending
    <3> QED BY <3>4
  <2>2. CASE k # j + 1
    <3>1. k \in 1..j /\ k \in 1..(l + 1) /\ ~(k > j)
      BY <1>1, <2>2
    <3>2. \A s : s \in f[k] <=> \E n \in Longest(p, t, k, j) : s \in Together(Unit(p, t, k, n), f[k + n])
      <4>1. f[k] = CharsOfAt(f, p, t, j, k)
        BY <1>3
      <4> QED BY <3>1, <4>1, CharsOfIn
    <3>3. \/ JsChar(p, t, k) = {} /\ Longest(p, t, k, j) = {}
          \/ \E n \in {1, 2, 6, 12} : \E u \in Json : SameChar(p, t, k, j, n, u)
      BY <3>1, CharSame
    <3>4. CASE JsChar(p, t, k) = {} /\ Longest(p, t, k, j) = {}
      <4>1. f[k] = {}
        BY <3>2, <3>4
      <4>2. h[k] = <<<<>>, k>>
        BY <1>4, <3>1, <3>4 DEF CharsAt
      <4>3. Ending(h[k], j + 1) = {}
        BY <2>2, <4>2 DEF Ending
      <4>4. Same(k)
        BY <4>1, <4>3
      <4> QED BY <4>4
    <3>5. ASSUME NEW n \in {1, 2, 6, 12}, NEW u \in Json, SameChar(p, t, k, j, n, u)
          PROVE  Same(k)
      <4> DEFINE m == k + n
      <4>1. OneChar(p, t, k, u, m)
        BY <3>5 DEF SameChar, OneChar
      <4>2. m \in 1..(l + 1) /\ m > k
        <5>1. <<u, m>> \in JsChar(p, t, k)
          BY <4>1 DEF OneChar
        <5>2. k \in Places(t)
          BY <1>1, <3>1
        <5> HIDE DEF m
        <5>3. IsRead(t, k, Json, <<u, m>>)
          BY <5>1, <5>2, JsCharIs
        <5> QED BY <1>1, <5>3 DEF IsRead
      <4>12. PICK r : r = h[m]
        OBVIOUS
      <4>3. r[2] \in Nat /\ r[2] >= m
        <5> HIDE DEF m
        <5>1. h[m][2] \in 1..(l + 1) /\ h[m][2] >= m
          BY <1>4, <4>2
        <5> QED BY <4>12, <5>1
      <4>6. m - 1 <= j <=> m <= j + 1
        BY <4>2
      <4>7. IF m - 1 <= j THEN Longest(p, t, k, j) = {n} /\ Unit(p, t, k, n) = {u}
            ELSE Longest(p, t, k, j) = {}
        BY <3>5 DEF SameChar
      <4>9. \A s : s \in f[k] <=> \E x \in Longest(p, t, k, j) : s \in Together(Unit(p, t, k, x), f[k + x])
        BY <3>2
      <4>4. ASSUME m - 1 <= j PROVE f[k] = Together({u}, f[m])
        BY <4>4, <4>7, <4>9
      <4>5. ASSUME ~(m - 1 <= j) PROVE f[k] = {}
        BY <4>5, <4>7, <4>9
      <4> HIDE DEF m
      <4>8. h[k] = Prefixed(u, r)
        <5>1. CharsAt(h, p, t, k) = Prefixed(u, h[m])
          BY <4>1, CharsAtOne
        <5>2. h[k] = CharsAt(h, p, t, k)
          BY <1>4, <3>1
        <5> QED BY <4>12, <5>1, <5>2
      <4>10. CASE m - 1 <= j
        <5>1. m \in 1..(j + 1)
          BY <4>2, <4>6, <4>10
        <5>2. m \in T
          BY <1>5, <4>2, <5>1
        <5>3. f[m] = Ending(r, j + 1)
          BY <4>12, <5>2
        <5>4. Together({u}, Ending(r, j + 1)) = Ending(Prefixed(u, r), j + 1)
          BY EndingTogether
        <5> QED BY <4>4, <4>8, <4>10, <5>3, <5>4
      <4>11. CASE ~(m - 1 <= j)
        <5>1. r[2] # j + 1
          BY <4>2, <4>3, <4>6, <4>11
        <5>2. Ending(Prefixed(u, r), j + 1) = {}
          BY <5>1 DEF Ending, Prefixed
        <5> QED BY <4>5, <4>8, <4>11, <5>2
      <4> QED BY <4>10, <4>11
    <3>6. Same(k)
      <4> HIDE DEF Same
      <4>1. CASE JsChar(p, t, k) = {} /\ Longest(p, t, k, j) = {}
        <5>1. k \in T
          BY <3>4, <4>1
        <5> QED BY <5>1
      <4>2. CASE \E n \in {1, 2, 6, 12} : \E u \in Json : SameChar(p, t, k, j, n, u)
        BY <3>5, <4>2
      <4> QED BY <3>3, <4>1, <4>2
    <3> QED BY <3>6
  <2> QED BY <2>1, <2>2
<1>6. \A k \in 1..(j + 1) : k \in T
  <2> HIDE DEF T
  <2>1. j + 1 \in Nat
    OBVIOUS
  <2> QED BY <1>5, <2>1, Backwards
<1>7. Same(i)
  BY <1>6
<1> QED BY <1>2, <1>7

LEMMA StringOnly ==
  ASSUME NEW t, NEW p, NEW i, NEW r \in JsString(p, t, i)
  PROVE  JsString(p, t, i) = {r}
BY DEF JsString

\* A string of the grammar is the one that the code reads there.
LEMMA StringsAreDenoted ==
  ASSUME NEW t \in Json, NEW p \in Prologs, NEW i \in 1..Len(t), NEW j \in 1..Len(t), NEW s
  PROVE  s \in StringsOf(p, t, i, j) <=> <<s, j + 1>> \in JsString(p, t, i)
<1>1. PICK l \in Nat : l = Len(t) /\ Places(t) = 1..(l + 1) /\ i \in 1..l /\ j \in 1..l
  BY TextIs DEF Places
<1>2. CodeAt(t, i) = t[i] /\ CodeAt(t, j) = t[j]
  <2>1. i \in Nat \ {0} /\ j \in Nat \ {0} /\ i <= Len(t) /\ j <= Len(t)
    BY <1>1
  <2> QED BY <2>1, CodeIs
<1> DEFINE h == JsChars(p, t)[i + 1]
<1>3. h \in Json \X Places(t) /\ h[2] >= i + 1
  <2>1. i + 1 \in Places(t)
    BY <1>1
  <2>2. Reads(t, i + 1, Json, h)
    BY <2>1, JsCharsAre
  <2> QED BY <2>2 DEF Reads
<1>4. JsString(p, t, i) = IF t[i] = 34 /\ CodeAt(t, h[2]) = 34 THEN {<<h[1], h[2] + 1>>} ELSE {}
  BY <1>2 DEF JsString
<1>5. h[2] \in Nat
  BY <1>1, <1>3
<1>6. <<s, j + 1>> \in JsString(p, t, i) <=> t[i] = 34 /\ t[j] = 34 /\ h[2] = j /\ h[1] = s
  <2> HIDE DEF h
  <2>1. h[2] + 1 = j + 1 <=> h[2] = j
    BY <1>1, <1>5
  <2>2. <<s, j + 1>> = <<h[1], h[2] + 1>> <=> h[1] = s /\ h[2] = j
    BY <2>1
  <2> QED BY <1>2, <1>4, <2>2
<1>7. CASE i < j /\ t[i] = 34 /\ t[j] = 34
  <2>1. StringsOf(p, t, i, j) = CharsOf(p, t, j - 1)[i + 1]
    BY <1>7 DEF StringsOf
  <2>2. PICK k \in Nat : k = j - 1 /\ k + 1 = j /\ k + 1 <= Len(t) /\ i + 1 \in 1..(k + 1)
    BY <1>1, <1>7
  <2>4. t[k + 1] = 34
    BY <1>7, <2>2
  <2>3. CharsOf(p, t, k)[i + 1] = Ending(h, k + 1)
    BY <2>2, <2>4, CharsAreDenoted
  <2> HIDE DEF h
  <2> QED BY <1>6, <1>7, <2>1, <2>2, <2>3 DEF Ending
<1>8. CASE ~(i < j /\ t[i] = 34 /\ t[j] = 34)
  <2>1. StringsOf(p, t, i, j) = {}
    BY <1>8 DEF StringsOf
  <2>2. ~(t[i] = 34 /\ t[j] = 34 /\ h[2] = j)
    <3> HIDE DEF h
    <3> QED BY <1>1, <1>3, <1>5, <1>8
  <2> HIDE DEF h
  <2> QED BY <1>6, <2>1, <2>2
<1> QED BY <1>7, <1>8

(***************************************************************************)
(* What the numbers of a text denote                                       *)
(***************************************************************************)
LEMMA ShortenedTen ==
  ASSUME NEW a \in Nat, a # 0
  PROVE  Shortened(10 * a) = <<Shortened(a)[1], Shortened(a)[2] + 1>>
<1>1. PICK m \in Nat : m = 10 * a
  OBVIOUS
<1>2. PICK f, h : f = (CHOOSE s : IsShort(s, m)) /\ h = (CHOOSE s : IsShort(s, a))
  OBVIOUS
<1>3. (\A k \in 0..m : f[k] = ShortAt(f, k)) /\ (\A k \in 0..a : h[k] = ShortAt(h, k))
  <2>1. IsShort(f, m) /\ IsShort(h, a)
    BY <1>2, ShortExists
  <2> QED BY <2>1 DEF IsShort
<1>4. Shortened(m) = f[m] /\ Shortened(a) = h[a]
  BY <1>2 DEF Shortened, IsShort, ShortAt
<1>5. a \in 0..a /\ a \in 0..m /\ m \in 0..m /\ m # 0 /\ m % 10 = 0 /\ m \div 10 = a /\ a <= m
  <2>1. m % 10 = 0 /\ m \div 10 = a
    BY <1>1, Tens
  <2> QED BY <1>1, <2>1
<1> DEFINE T == {k \in 0..a : f[k] = h[k]}
<1>6. ASSUME NEW i \in 0..a, \A j \in 0..a : j < i => j \in T PROVE i \in T
  <2>1. \A j \in 0..a : j < i => f[j] = h[j]
    BY <1>6
  <2>2. ShortAt(f, i) = ShortAt(h, i)
    BY <2>1, ShortAtSame
  <2>3. f[i] = ShortAt(f, i) /\ h[i] = ShortAt(h, i)
    BY <1>3, <1>5
  <2> QED BY <2>2, <2>3
<1>7. \A k \in 0..a : k \in T
  <2> HIDE DEF T
  <2> QED BY <1>6, Upwards
<1>8. f[a] = h[a]
  BY <1>5, <1>7
<1>9. f[m] = <<f[a][1], f[a][2] + 1>>
  <2>1. f[m] = ShortAt(f, m)
    BY <1>3, <1>5
  <2> QED BY <1>5, <2>1 DEF ShortAt
<1> QED BY <1>1, <1>4, <1>8, <1>9

LEMMA FloatTen ==
  ASSUME NEW m \in Nat, NEW k \in Int
  PROVE  Float(10 * m, k - 1) = Float(m, k)
<1>1. CASE m = 0
  BY <1>1 DEF Float
<1>2. CASE m # 0
  <2>1. PICK a \in Nat, b \in Nat : a = Shortened(m)[1] /\ b = Shortened(m)[2]
    BY ShortenedIs DEF IsShortened
  <2>2. Shortened(10 * m)[1] = a /\ Shortened(10 * m)[2] = b + 1
    BY <1>2, <2>1, ShortenedTen
  <2>3. 10 * m # 0 /\ k - 1 + (b + 1) = k + b
    BY <1>2
  <2> QED BY <1>2, <2>1, <2>2, <2>3 DEF Float
<1> QED BY <1>1, <1>2

LEMMA TailPiece ==
  ASSUME NEW t \in Json, NEW i \in Nat \ {0}, NEW j \in Nat, j <= Len(t), i <= j
  PROVE  /\ SubSeq(t, i, j) # <<>> /\ Head(SubSeq(t, i, j)) = t[i]
         /\ Tail(SubSeq(t, i, j)) = SubSeq(t, i + 1, j)
<1>1. PICK w, x : w = SubSeq(t, i, j) /\ x = SubSeq(t, i + 1, j)
  OBVIOUS
<1>2. w \in Json /\ Len(w) = j - i + 1 /\ \A k \in 1..(j - i + 1) : w[k] = t[i + k - 1]
  BY <1>1, PieceIs DEF IsPiece
<1>3. x \in Json /\ Len(x) = j - i /\ \A k \in 1..(j - i) : x[k] = t[i + k]
  <2>1. CASE i + 1 <= j
    <3>1. IsPiece(x, t, i + 1, j)
      BY <1>1, <2>1, PieceIs
    <3>2. j - (i + 1) + 1 = j - i /\ \A k \in 1..(j - i) : (i + 1) + k - 1 = i + k
      OBVIOUS
    <3> QED BY <3>1, <3>2 DEF IsPiece
  <2>2. CASE j < i + 1
    <3>1. x = <<>>
      BY <1>1, <2>2, PieceIs
    <3>2. j - i = 0 /\ <<>> \in Json
      BY <2>2 DEF Json
    <3> QED BY <3>1, <3>2
  <2> QED BY <2>1, <2>2
<1>4. w # <<>> /\ w[1] = t[i]
  <2>1. 1 \in 1..(j - i + 1) /\ i + 1 - 1 = i /\ Len(w) > 0
    BY <1>2
  <2> QED BY <1>2, <2>1
<1>5. Head(w) = t[i]
  BY <1>2, <1>4 DEF Json
<1>6. PICK u : u = Tail(w)
  OBVIOUS
<1>7. u \in Json /\ Len(u) = j - i /\ \A k \in 1..(j - i) : u[k] = w[k + 1]
  <2>1. u \in Json /\ Len(u) = Len(w) - 1 /\ \A k \in 1..Len(u) : u[k] = w[k + 1]
    BY <1>2, <1>4, <1>6, HeadTailProperties DEF Json
  <2> QED BY <1>2, <2>1
<1>8. ASSUME NEW k \in 1..(j - i) PROVE u[k] = x[k]
  <2>1. k + 1 \in 1..(j - i + 1) /\ i + (k + 1) - 1 = i + k
    OBVIOUS
  <2> QED BY <1>2, <1>3, <1>7, <2>1
<1>9. u = x
  BY <1>3, <1>7, <1>8, SeqEqual DEF Json
<1> QED BY <1>1, <1>4, <1>5, <1>6, <1>9

LEMMA DigitsPiece ==
  ASSUME NEW t \in Json, NEW i \in Nat \ {0}, NEW j \in Nat, j <= Len(t), Digits(t, i, j)
  PROVE  SubSeq(t, i, j) \in DigitCodes /\ SubSeq(t, i, j) # <<>> /\ i <= j
<1>1. i <= j /\ \A k \in i..j : t[k] \in 48..57
  BY DEF Digits, IsDigit
<1>2. SubSeq(t, i, j) \in DigitCodes
  BY <1>1, SubSeqProperties DEF DigitCodes
<1> QED BY <1>1, <1>2, TailPiece

LEMMA UnsignedIs ==
  ASSUME NEW t \in Json, NEW i \in Nat \ {0}, NEW signs \in SUBSET {43, 45}, NEW j \in Nat, j <= Len(t),
         Digits(t, Unsigned(t, i, signs), j)
  PROVE  /\ Unsigned(t, i, signs) \in {i, i + 1} /\ i <= j
         /\ Unsigned(t, i, signs) = i + 1 <=> t[i] \in signs
         /\ IsSigned(SubSeq(t, i, j), signs)
<1>1. Len(t) \in Nat /\ Unsigned(t, i, signs) \in {i, i + 1} /\ Unsigned(t, i, signs) <= j
  BY TextIs DEF Unsigned, Digits
<1>2. i <= j /\ CodeAt(t, i) = t[i]
  <2>1. i <= j /\ i <= Len(t)
    BY <1>1
  <2> QED BY <2>1, CodeIs
<1>3. Unsigned(t, i, signs) = i + 1 <=> t[i] \in signs
  BY <1>1, <1>2 DEF Unsigned
<1>4. SubSeq(t, Unsigned(t, i, signs), j) \in DigitCodes
  <2>1. Unsigned(t, i, signs) \in Nat \ {0}
    BY <1>1
  <2> QED BY <2>1, DigitsPiece
<1>5. PICK w : w = SubSeq(t, i, j)
  OBVIOUS
<1>6. w \in Json /\ Len(w) > 0 /\ Head(w) = t[i] /\ Tail(w) = SubSeq(t, i + 1, j)
  <2>1. IsPiece(w, t, i, j)
    BY <1>2, <1>5, PieceIs
  <2>2. j - i + 1 > 0
    BY <1>2
  <2> QED BY <1>2, <1>5, <2>1, <2>2, TailPiece DEF IsPiece
<1>7. CASE t[i] \in signs
  <2>1. Unsigned(t, i, signs) = i + 1
    BY <1>3, <1>7
  <2>2. Tail(w) \in DigitCodes
    BY <1>4, <1>6, <2>1
  <2> QED BY <1>1, <1>2, <1>3, <1>5, <1>6, <1>7, <2>2 DEF IsSigned
<1>8. CASE t[i] \notin signs
  <2>1. Unsigned(t, i, signs) = i
    BY <1>2, <1>8 DEF Unsigned
  <2>2. w \in DigitCodes
    BY <1>4, <1>5, <2>1
  <2> QED BY <1>1, <1>2, <1>3, <1>5, <1>6, <1>8, <2>2 DEF IsSigned
<1> QED BY <1>7, <1>8

\* What the code makes of a number up to a, b and j.
CodeNumber(p, t, i, a, b, j) ==
  LET exp == SubSeq(t, b + 2, j)
      n == NumberCodes(p, SubSeq(t, i, a), IsoFrac(SubSeq(t, a + 2, b), exp), exp)
  IN  IF n = <<"error">> THEN <<"atom", SubSeq(t, i, j)>> ELSE n

\* Where a number may end.
SpansFrom(t, i, a, b, j) == i \in 1..Len(t) /\ j \in i..Len(t) /\ a \in i..j /\ b \in a..j

LEMMA SignedNotEmpty ==
  ASSUME NEW w, NEW signs, IsSigned(w, signs)
  PROVE  w # <<>>
BY DEF IsSigned

LEMMA SameNumber ==
  ASSUME NEW t \in Json, NEW p, NEW i, NEW a, NEW b, NEW j, SpansFrom(t, i, a, b, j), IsNumber(t, i, a, b, j)
  PROVE  CodeNumber(p, t, i, a, b, j) = Number(p, t, i, a, b, j)
<1> DEFINE int == SubSeq(t, i, a)
           frac == SubSeq(t, a + 2, b)
           exp == SubSeq(t, b + 2, j)
           u == Unsigned(t, i, {45})
           digits == SubSeq(t, u, a)
           neg == t[i] = 45
           n == DigitsValue(digits \o frac)
           k == Signed(exp) - Len(frac)
           f == Float(n, k)
           x == NumberCodes(p, int, IsoFrac(frac, exp), exp)
<1>1. PICK l \in Nat : l = Len(t) /\ i \in Nat \ {0} /\ a \in Nat /\ b \in Nat /\ j \in Nat
                     /\ i <= a /\ a <= b /\ b <= j /\ j <= l
  BY TextIs DEF SpansFrom
<1>2. /\ Digits(t, u, a)
      /\ a = b \/ (t[a + 1] = 46 /\ Digits(t, a + 2, b))
      /\ b = j \/ (t[b + 1] \in {69, 101} /\ Digits(t, Unsigned(t, b + 2, {43, 45}), j))
  BY DEF IsNumber
<1>3. digits \in DigitCodes /\ (neg <=> Head(int) = 45) /\ int # <<>>
      /\ digits = IF neg THEN Tail(int) ELSE int
  <2>1. {45} \in SUBSET {43, 45} /\ a <= Len(t)
    BY <1>1
  <2>2. u \in {i, i + 1} /\ (u = i + 1 <=> t[i] \in {45})
    BY <1>1, <1>2, <2>1, UnsignedIs
  <2>3. u \in Nat \ {0}
    BY <1>1, <2>2
  <2>4. digits \in DigitCodes
    BY <1>2, <2>1, <1>1, <2>3, DigitsPiece
  <2>5. Head(int) = t[i] /\ Tail(int) = SubSeq(t, i + 1, a) /\ int # <<>>
    BY <1>1, TailPiece
  <2>6. u = IF neg THEN i + 1 ELSE i
    BY <1>1, <2>2
  <2> HIDE DEF int, u
  <2> QED BY <2>4, <2>5, <2>6 DEF int
<1>4. frac \in DigitCodes /\ (frac = <<>> <=> a = b)
  <2>1. CASE a = b
    <3>1. a + 2 \in Nat \ {0} /\ b < a + 2 /\ b <= Len(t)
      BY <1>1, <2>1
    <3>2. frac = <<>>
      BY <3>1, <1>1, PieceIs
    <3>3. <<>> \in DigitCodes
      BY DEF DigitCodes
    <3> QED BY <2>1, <3>2, <3>3
  <2>2. CASE a # b
    <3>1. a + 2 \in Nat \ {0} /\ b <= Len(t) /\ Digits(t, a + 2, b)
      BY <1>1, <1>2, <2>2
    <3> QED BY <1>1, <2>2, <3>1, DigitsPiece
  <2> QED BY <2>1, <2>2
<1>5. (exp = <<>> \/ IsSigned(exp, {43, 45})) /\ (exp = <<>> <=> b = j)
  <2>1. CASE b = j
    <3>1. b + 2 \in Nat \ {0} /\ j < b + 2 /\ j <= Len(t)
      BY <1>1, <2>1
    <3>2. exp = <<>>
      BY <3>1, <1>1, PieceIs
    <3> QED BY <2>1, <3>2
  <2>2. CASE b # j
    <3>1. b + 2 \in Nat \ {0} /\ j <= Len(t) /\ {43, 45} \in SUBSET {43, 45}
      BY <1>1
    <3>2. IsSigned(exp, {43, 45})
      BY <1>1, <1>2, <2>2, <3>1, UnsignedIs
    <3>3. exp # <<>>
      BY <3>2, SignedNotEmpty
    <3> QED BY <2>2, <3>2, <3>3
  <2> QED BY <2>1, <2>2
<1>6. n \in Nat /\ k \in Int
  <2> HIDE DEF digits, frac, exp
  <2>1. digits \o frac \in DigitCodes
    BY <1>3, <1>4, ConcatProperties DEF DigitCodes
  <2>2. Signed(exp) \in Int /\ Len(frac) \in Nat
    BY <1>4, <1>5, SignedIs DEF DigitCodes
  <2> QED BY <2>1, <2>2, DigitsValueNat
<1>7. Number(p, t, i, a, b, j) =
        IF a = j THEN IF p = "gnu" /\ n > JsIntMax THEN <<"atom", SubSeq(t, i, j)>>
                      ELSE <<"int", IF neg THEN -n ELSE n>>
        ELSE <<"float", IF neg THEN -f[2] ELSE f[2], f[3]>>
  BY DEF Number
<1>8. CodeNumber(p, t, i, a, b, j) = IF x = <<"error">> THEN <<"atom", SubSeq(t, i, j)>> ELSE x
  BY DEF CodeNumber
<1> DEFINE iso == IsoFrac(frac, exp)
           m == DigitsValue(digits \o iso)
           g == Float(m, Signed(exp) - Len(iso))
<1>9. x = IF p = "gnu" /\ iso = <<>> /\ (exp # <<>> \/ m > JsIntMax) THEN <<"error">>
          ELSE IF iso = <<>> /\ exp = <<>> THEN <<"int", IF neg THEN -m ELSE m>>
          ELSE <<"float", IF neg THEN -g[2] ELSE g[2], g[3]>>
  <2> HIDE DEF int, frac, exp, digits, iso
  <2>1. (Head(int) = 45) = neg /\ (IF Head(int) = 45 THEN Tail(int) ELSE int) = digits
    BY <1>3
  <2>2. x = NumberCodes(p, int, iso, exp)
    BY DEF iso
  <2> QED BY <2>1, <2>2 DEF NumberCodes
<1> HIDE DEF int, digits, u
<1>10. CASE a = j
  <2>1. a = b /\ b = j
    BY <1>1, <1>10
  <2>2. frac = <<>> /\ exp = <<>>
    BY <1>4, <1>5, <2>1
  <2>3. iso = frac /\ iso = <<>>
    BY <2>2 DEF IsoFrac
  <2>4. m = n
    BY <2>3
  <2> HIDE DEF frac, exp, n, k, f, x, iso, m, g
  <2>5. x = IF p = "gnu" /\ n > JsIntMax THEN <<"error">> ELSE <<"int", IF neg THEN -n ELSE n>>
    BY <1>9, <2>2, <2>3, <2>4
  <2>6. <<"int", IF neg THEN -n ELSE n>> # <<"error">>
    OBVIOUS
  <2> QED BY <1>7, <1>8, <1>10, <2>5, <2>6
<1>11. CASE a # j
  <2>1. iso # <<>> /\ f = g
    <3>1. CASE a # b
      <4>1. frac # <<>>
        BY <1>4, <3>1
      <4>2. iso = frac
        BY <4>1 DEF IsoFrac
      <4> QED BY <4>1, <4>2
    <3>2. CASE a = b
      <4>1. frac = <<>> /\ exp # <<>>
        BY <1>4, <1>5, <1>11, <3>2
      <4>2. iso = <<48>>
        BY <4>1 DEF IsoFrac
      <4>3. digits \o frac = digits
        <5> HIDE DEF frac
        <5> QED BY <1>3, <4>1, ConcatEmptySeq DEF DigitCodes
      <4>4. m = 10 * n
        <5>1. 48 \in 48..57
          OBVIOUS
        <5>2. DigitsValue(digits \o <<48>>) = 10 * DigitsValue(digits) + 48 - 48
          BY <1>3, <5>1, DigitsValueMore
        <5>3. m = DigitsValue(digits \o <<48>>)
          BY <4>2
        <5>4. n = DigitsValue(digits)
          BY <4>3
        <5> HIDE DEF m, n, frac, exp, iso
        <5> QED BY <1>6, <5>2, <5>3, <5>4
      <4>5. Len(frac) = 0 /\ Len(iso) = 1
        <5> HIDE DEF frac, exp, iso
        <5> QED BY <4>1, <4>2
      <4>6. Signed(exp) \in Int
        <5> HIDE DEF frac, exp, iso
        <5> QED BY <1>5, SignedIs
      <4>7. Signed(exp) - Len(iso) = k - 1
        <5> HIDE DEF frac, exp, iso
        <5> QED BY <4>5, <4>6
      <4>8. g = Float(10 * n, k - 1)
        <5> HIDE DEF frac, exp, iso, m, n, k
        <5> QED BY <4>4, <4>7
      <4>9. Float(10 * n, k - 1) = f
        <5> HIDE DEF n, k
        <5> QED BY <1>6, FloatTen
      <4>10. iso # <<>>
        <5> HIDE DEF iso
        <5> QED BY <4>2
      <4>11. f = g
        <5> HIDE DEF f, g
        <5> QED BY <4>8, <4>9
      <4> QED BY <4>10, <4>11
    <3> QED BY <3>1, <3>2
  <2> HIDE DEF frac, exp, n, k, f, x, iso, m, g
  <2>2. x = <<"float", IF neg THEN -f[2] ELSE f[2], f[3]>>
    BY <1>9, <2>1
  <2>3. x # <<"error">>
    BY <2>2
  <2> QED BY <1>7, <1>8, <1>11, <2>2, <2>3
<1> QED BY <1>10, <1>11

\* A run of digits is read to its end.
LEMMA DigitsRead ==
  ASSUME NEW t \in Json, NEW i \in Nat \ {0}, NEW j \in Nat, j <= Len(t), Digits(t, i, j),
         CodeAt(t, j + 1) \notin 48..57
  PROVE  i <= j /\ DigitsEnd(t, i) = j + 1
<1>1. PICK n \in Nat : n = Len(t)
  BY TextIs
<1>2. i <= j /\ \A k \in i..j : t[k] \in 48..57
  BY DEF Digits, IsDigit
<1>3. i \in Places(t) /\ 48..57 \in SUBSET Nat /\ j + 1 \in i..(Len(t) + 1) /\ (j + 1) - 1 = j
  BY <1>1, <1>2 DEF Places
<1>4. IsPast(t, i, 48..57, j + 1)
  BY <1>2, <1>3 DEF IsPast
<1> QED BY <1>2, <1>3, <1>4, PastOnly DEF DigitsEnd

LEMMA DigitsReadAre ==
  ASSUME NEW t \in Json, NEW i \in Places(t), DigitsEnd(t, i) # i
  PROVE  /\ DigitsEnd(t, i) \in Places(t) /\ DigitsEnd(t, i) > i
         /\ Digits(t, i, DigitsEnd(t, i) - 1)
<1>1. PICK n \in Nat : n = Len(t) /\ Places(t) = 1..(n + 1)
  BY TextIs DEF Places
<1>2. 48..57 \in SUBSET Nat
  OBVIOUS
<1>3. PICK e : e = DigitsEnd(t, i) /\ IsPast(t, i, 48..57, e)
  BY <1>2, PastIs DEF DigitsEnd
<1>4. e \in 1..(n + 1) /\ e > i /\ \A j \in i..(e - 1) : t[j] \in 48..57
  BY <1>1, <1>3 DEF IsPast
<1>5. Digits(t, i, e - 1)
  BY <1>1, <1>4 DEF Digits, IsDigit
<1> QED BY <1>1, <1>3, <1>4, <1>5

LEMMA NumberOnly ==
  ASSUME NEW t \in Json, NEW p, NEW i, NEW a, NEW b, NEW j, SpansFrom(t, i, a, b, j), IsNumber(t, i, a, b, j),
         EndsNumber(CodeAt(t, j + 1))
  PROVE  JsNumber(p, t, i) = {<<Number(p, t, i, a, b, j), j + 1>>}
<1> DEFINE d == IF CodeAt(t, i) = 45 THEN i + 1 ELSE i
           e == DigitsEnd(t, d)
           point == CodeAt(t, e) = 46
           f == IF point THEN DigitsEnd(t, e + 1) ELSE e
           power == CodeAt(t, f) \in {101, 69}
           s == IF CodeAt(t, f + 1) \in {43, 45} THEN f + 2 ELSE f + 1
           g == IF power THEN DigitsEnd(t, s) ELSE f
           int == SubSeq(t, i, e - 1)
           frac == IF point THEN SubSeq(t, e + 1, f - 1) ELSE <<>>
           exp == IF power THEN SubSeq(t, f + 1, g - 1) ELSE <<>>
           n == NumberCodes(p, int, IsoFrac(frac, exp), exp)
<1>1. PICK l \in Nat : l = Len(t) /\ i \in Nat \ {0} /\ a \in Nat /\ b \in Nat /\ j \in Nat
                     /\ i <= a /\ a <= b /\ b <= j /\ j <= l
  BY TextIs DEF SpansFrom
<1>2. /\ Digits(t, Unsigned(t, i, {45}), a)
      /\ a = b \/ (t[a + 1] = 46 /\ Digits(t, a + 2, b))
      /\ b = j \/ (t[b + 1] \in {69, 101} /\ Digits(t, Unsigned(t, b + 2, {43, 45}), j))
  BY DEF IsNumber
<1>3. JsNumber(p, t, i) = IF e = d \/ (point /\ f = e + 1) \/ (power /\ g = s) THEN {}
                          ELSE {<<IF n = <<"error">> THEN <<"atom", SubSeq(t, i, g - 1)>> ELSE n, g>>}
  BY DEF JsNumber
<1>4. d = Unsigned(t, i, {45}) /\ d \in Nat \ {0}
  BY <1>1 DEF Unsigned
<1>5. IF b = j THEN EndsNumber(CodeAt(t, b + 1)) ELSE CodeAt(t, b + 1) \in {69, 101}
  <2>1. CASE b = j
    BY <2>1
  <2>2. CASE b # j
    <3>1. b + 1 <= Len(t) /\ b + 1 \in Nat \ {0}
      BY <1>1, <2>2
    <3> QED BY <1>2, <2>2, <3>1, CodeIs
  <2> QED BY <2>1, <2>2
<1>6. CodeAt(t, b + 1) \notin 48..57 /\ CodeAt(t, b + 1) # 46 /\ (CodeAt(t, b + 1) \in {101, 69} <=> b # j)
  BY <1>5 DEF EndsNumber
<1>7. a # b => CodeAt(t, a + 1) = 46
  <2> SUFFICES ASSUME a # b PROVE CodeAt(t, a + 1) = 46
    OBVIOUS
  <2>1. a + 1 <= Len(t) /\ a + 1 \in Nat \ {0}
    BY <1>1
  <2> QED BY <1>2, <2>1, CodeIs
<1>8. CodeAt(t, a + 1) \notin 48..57 /\ (CodeAt(t, a + 1) = 46 <=> a # b)
  BY <1>6, <1>7
<1> HIDE DEF d
<1>9. e = a + 1 /\ d <= a
  <2>1. a <= Len(t)
    BY <1>1
  <2> QED BY <1>1, <1>2, <1>4, <1>8, <2>1, DigitsRead
<1>10. (e = d) = FALSE /\ point = (a # b) /\ int = SubSeq(t, i, a)
  <2>1. e # d /\ e - 1 = a
    BY <1>1, <1>4, <1>9
  <2>2. CodeAt(t, e) = 46 <=> a # b
    BY <1>8, <1>9
  <2> HIDE DEF e
  <2> QED BY <2>1, <2>2
<1> HIDE DEF e, int
<1>11. f = b + 1 /\ (a # b => a + 2 <= b)
  <2>1. CASE a = b
    <3> HIDE DEF point
    <3> QED BY <1>9, <1>10, <2>1
  <2>2. CASE a # b
    <3>1. b <= Len(t) /\ a + 2 \in Nat \ {0} /\ Digits(t, a + 2, b) /\ e + 1 = a + 2
      BY <1>1, <1>2, <1>9, <2>2
    <3>2. a + 2 <= b /\ DigitsEnd(t, a + 2) = b + 1
      <4> HIDE DEF e, f, point
      <4>1. PICK k \in Nat \ {0} : k = a + 2
        BY <3>1
      <4>2. k <= b /\ DigitsEnd(t, k) = b + 1
        <5>1. Digits(t, k, b) /\ b <= Len(t) /\ b \in Nat
          BY <1>1, <3>1, <4>1
        <5>2. CodeAt(t, b + 1) \notin 48..57
          BY <1>6
        <5> QED BY <5>1, <5>2, DigitsRead
      <4> QED BY <4>1, <4>2
    <3> HIDE DEF point
    <3> QED BY <1>10, <2>2, <3>1, <3>2
  <2> QED BY <2>1, <2>2
<1>12. (point /\ f = e + 1) = FALSE /\ power = (b # j) /\ frac = SubSeq(t, a + 2, b)
  <2>1. e + 1 = a + 2 /\ f - 1 = b
    <3> HIDE DEF f
    <3> QED BY <1>1, <1>9, <1>11
  <2>2. a = b => SubSeq(t, a + 2, b) = <<>>
    <3> SUFFICES ASSUME a = b PROVE SubSeq(t, a + 2, b) = <<>>
      OBVIOUS
    <3>1. a + 2 \in Nat \ {0} /\ b < a + 2 /\ b <= Len(t)
      BY <1>1
    <3> QED BY <1>1, <3>1, PieceIs
  <2>3. power = (b # j)
    <3> HIDE DEF f
    <3> QED BY <1>6, <1>11
  <2>4. a # b => f # e + 1
    <3> HIDE DEF f
    <3> QED BY <1>1, <1>11, <2>1
  <2> HIDE DEF f, point
  <2> QED BY <1>10, <2>1, <2>2, <2>3, <2>4
<1> HIDE DEF frac
<1>13. b # j => /\ s = Unsigned(t, b + 2, {43, 45}) /\ s \in Nat \ {0}
                /\ s <= j /\ DigitsEnd(t, s) = j + 1
  <2> SUFFICES ASSUME b # j PROVE /\ s = Unsigned(t, b + 2, {43, 45}) /\ s \in Nat \ {0}
                                  /\ s <= j /\ DigitsEnd(t, s) = j + 1
    OBVIOUS
  <2>1. f + 1 = b + 2 /\ f + 2 = (b + 2) + 1
    <3> HIDE DEF f
    <3> QED BY <1>1, <1>11
  <2>2. s = Unsigned(t, b + 2, {43, 45})
    <3> HIDE DEF f
    <3> QED BY <2>1 DEF Unsigned
  <2>3. s \in Nat \ {0}
    <3> HIDE DEF f
    <3> QED BY <1>1, <2>1
  <2>4. CodeAt(t, j + 1) \notin 48..57 /\ j <= Len(t)
    BY <1>1 DEF EndsNumber
  <2> HIDE DEF s
  <2>5. s <= j /\ DigitsEnd(t, s) = j + 1
    BY <1>1, <1>2, <2>2, <2>3, <2>4, DigitsRead
  <2> QED BY <2>2, <2>3, <2>5
<1> HIDE DEF s
<1>14. g = j + 1 /\ (power /\ g = s) = FALSE
  <2>1. CASE b = j
    <3> HIDE DEF f, power
    <3> QED BY <1>11, <1>12, <2>1
  <2>2. CASE b # j
    <3>1. power = TRUE
      <4> HIDE DEF f, power
      <4> QED BY <1>12, <2>2
    <3>2. g = DigitsEnd(t, s)
      <4> HIDE DEF power
      <4> QED BY <3>1
    <3>3. g = j + 1 /\ g # s
      <4> HIDE DEF g
      <4> QED BY <1>1, <1>13, <2>2, <3>2
    <3> HIDE DEF g, power
    <3> QED BY <3>3
  <2> QED BY <2>1, <2>2
<1>15. exp = SubSeq(t, b + 2, j)
  <2>1. f + 1 = b + 2 /\ g - 1 = j
    <3> HIDE DEF f, g
    <3> QED BY <1>1, <1>11, <1>14
  <2>2. b = j => SubSeq(t, b + 2, j) = <<>>
    <3> SUFFICES ASSUME b = j PROVE SubSeq(t, b + 2, j) = <<>>
      OBVIOUS
    <3>1. b + 2 \in Nat \ {0} /\ j < b + 2 /\ j <= Len(t)
      BY <1>1
    <3> QED BY <1>1, <3>1, PieceIs
  <2> HIDE DEF f, g, power
  <2> QED BY <1>12, <2>1, <2>2
<1>16. g - 1 = j
  <2> HIDE DEF g
  <2> QED BY <1>1, <1>14
<1> HIDE DEF f, g, power, point, exp
<1>17. JsNumber(p, t, i) = {<<IF n = <<"error">> THEN <<"atom", SubSeq(t, i, j)>> ELSE n, j + 1>>}
  <2> HIDE DEF n
  <2> QED BY <1>3, <1>10, <1>12, <1>14, <1>16
<1>18. (IF n = <<"error">> THEN <<"atom", SubSeq(t, i, j)>> ELSE n) = CodeNumber(p, t, i, a, b, j)
  BY <1>10, <1>12, <1>15 DEF CodeNumber
<1>19. CodeNumber(p, t, i, a, b, j) = Number(p, t, i, a, b, j)
  BY SameNumber
<1> HIDE DEF n
<1> QED BY <1>17, <1>18, <1>19

\* What is read as a number is one.
LEMMA NumberIsDenoted ==
  ASSUME NEW t \in Json, NEW p, NEW i \in Places(t), NEW v \in JsNumber(p, t, i)
  PROVE  \E a, b, j : /\ SpansFrom(t, i, a, b, j) /\ IsNumber(t, i, a, b, j)
                      /\ v = <<Number(p, t, i, a, b, j), j + 1>>
<1>1. PICK l \in Nat : l = Len(t) /\ Places(t) = 1..(l + 1)
  BY TextIs DEF Places
<1> DEFINE d == IF CodeAt(t, i) = 45 THEN i + 1 ELSE i
           e == DigitsEnd(t, d)
           point == CodeAt(t, e) = 46
           f == IF point THEN DigitsEnd(t, e + 1) ELSE e
           power == CodeAt(t, f) \in {101, 69}
           s == IF CodeAt(t, f + 1) \in {43, 45} THEN f + 2 ELSE f + 1
           g == IF power THEN DigitsEnd(t, s) ELSE f
           int == SubSeq(t, i, e - 1)
           frac == IF point THEN SubSeq(t, e + 1, f - 1) ELSE <<>>
           exp == IF power THEN SubSeq(t, f + 1, g - 1) ELSE <<>>
           m == NumberCodes(p, int, IsoFrac(frac, exp), exp)
           a == e - 1
           b == f - 1
           j == g - 1
<1>2. /\ ~(e = d \/ (point /\ f = e + 1) \/ (power /\ g = s))
      /\ v = <<IF m = <<"error">> THEN <<"atom", SubSeq(t, i, g - 1)>> ELSE m, g>>
  BY DEF JsNumber
<1>3. d = Unsigned(t, i, {45}) /\ d \in Places(t) /\ d >= i
  <2>1. d = Unsigned(t, i, {45}) /\ {45} \in SUBSET {43, 45}
    BY DEF Unsigned
  <2>2. d \in Places(t) /\ d \in {i, i + 1}
    BY <2>1, UnsignedPlace
  <2> HIDE DEF d
  <2> QED BY <1>1, <2>1, <2>2
<1>4. e # d
  BY <1>2
<1> HIDE DEF d
<1>5. e \in Places(t) /\ e > d /\ Digits(t, d, e - 1)
  BY <1>3, <1>4, DigitsReadAre
<1> HIDE DEF e
<1>6. f \in Places(t) /\ f >= e /\ (IF point THEN t[e] = 46 /\ Digits(t, e + 1, f - 1) /\ f > e + 1 ELSE f = e)
  <2>1. CASE point
    <3>1. CodeAt(t, e) # -1 /\ e \in Nat \ {0}
      BY <1>1, <1>5, <2>1
    <3>2. PICK k \in Places(t) : k = e + 1 /\ t[e] = 46
      BY <1>1, <1>5, <2>1, <3>1, CodeIs
    <3>3. f = DigitsEnd(t, k) /\ f # k
      <4>1. f = DigitsEnd(t, k)
        BY <2>1, <3>2
      <4>2. f # e + 1
        BY <1>2, <2>1
      <4> HIDE DEF f
      <4> QED BY <3>2, <4>1, <4>2
    <3> HIDE DEF f
    <3>4. f \in Places(t) /\ f > k /\ Digits(t, k, f - 1)
      BY <3>3, DigitsReadAre
    <3> HIDE DEF point
    <3> QED BY <1>1, <1>5, <2>1, <3>2, <3>4
  <2>2. CASE ~point
    <3>1. f = e
      BY <2>2
    <3> HIDE DEF f, point
    <3> QED BY <1>1, <1>5, <2>2, <3>1
  <2> QED BY <2>1, <2>2
<1>16. frac = SubSeq(t, a + 2, b)
  <2>1. CASE point
    <3>1. a + 2 = e + 1 /\ frac = SubSeq(t, e + 1, f - 1)
      <4> HIDE DEF f
      <4> QED BY <1>1, <1>5, <2>1
    <3> HIDE DEF a, frac
    <3> QED BY <3>1
  <2>2. CASE ~point
    <3>1. frac = <<>>
      BY <2>2
    <3>2. a + 2 \in Nat \ {0} /\ b \in Nat /\ b < a + 2 /\ b <= Len(t)
      <4> HIDE DEF f, point
      <4> QED BY <1>1, <1>5, <1>6, <2>2
    <3> HIDE DEF a, b, frac
    <3> QED BY <3>1, <3>2, PieceIs
  <2> QED BY <2>1, <2>2
<1> HIDE DEF f, point, frac
<1>7. g \in Places(t) /\ g >= f
      /\ (IF power THEN t[f] \in {69, 101} /\ Digits(t, Unsigned(t, f + 1, {43, 45}), g - 1) /\ g > f ELSE g = f)
  <2>1. CASE power
    <3>1. CodeAt(t, f) # -1 /\ f \in Nat \ {0}
      BY <1>1, <1>6, <2>1
    <3>2. PICK k \in Places(t) : k = f + 1 /\ t[f] \in {69, 101}
      BY <1>1, <1>6, <2>1, <3>1, CodeIs
    <3>3. s = Unsigned(t, k, {43, 45})
      <4>1. k + 1 = f + 2
        BY <3>1, <3>2
      <4> QED BY <3>2, <4>1 DEF Unsigned
    <3>4. g = DigitsEnd(t, s)
      BY <2>1
    <3>5. g # s
      BY <1>2, <2>1
    <3> HIDE DEF g, s
    <3>6. s \in Places(t) /\ s \in {k, k + 1}
      <4>1. {43, 45} \in SUBSET {43, 45}
        OBVIOUS
      <4>2. Unsigned(t, k, {43, 45}) \in Places(t) /\ Unsigned(t, k, {43, 45}) \in {k, k + 1}
        BY <4>1, UnsignedPlace
      <4>3. s = Unsigned(t, k, {43, 45})
        BY <3>3
      <4> QED BY <4>2, <4>3
    <3>7. g \in Places(t) /\ g > s /\ Digits(t, s, g - 1)
      BY <3>4, <3>5, <3>6, DigitsReadAre
    <3>8. g >= f /\ g > f
      BY <1>1, <1>6, <3>2, <3>6, <3>7
    <3>9. Digits(t, Unsigned(t, f + 1, {43, 45}), g - 1)
      BY <3>2, <3>3, <3>7
    <3> HIDE DEF power
    <3> QED BY <2>1, <3>2, <3>7, <3>8, <3>9
  <2>2. CASE ~power
    <3>1. g = f
      BY <2>2
    <3> HIDE DEF g, power
    <3> QED BY <1>1, <1>6, <2>2, <3>1
  <2> QED BY <2>1, <2>2
<1>17. exp = SubSeq(t, b + 2, j)
  <2>1. CASE power
    <3>1. b + 2 = f + 1
      BY <1>1, <1>6
    <3>2. exp = SubSeq(t, f + 1, g - 1)
      <4> HIDE DEF g
      <4> QED BY <2>1
    <3> HIDE DEF b, exp
    <3> QED BY <3>1, <3>2
  <2>2. CASE ~power
    <3>1. exp = <<>>
      BY <2>2
    <3>2. b + 2 \in Nat \ {0} /\ j \in Nat /\ j < b + 2 /\ j <= Len(t)
      <4> HIDE DEF g, power
      <4> QED BY <1>1, <1>5, <1>6, <1>7, <2>2
    <3> HIDE DEF b, j, exp
    <3> QED BY <3>1, <3>2, PieceIs
  <2> QED BY <2>1, <2>2
<1> HIDE DEF g, power, s, exp
<1>8. SpansFrom(t, i, a, b, j)
  <2>1. i \in 1..l /\ j \in i..l /\ a \in i..j /\ b \in a..j
    <3>1. i \in 1..(l + 1) /\ d \in 1..(l + 1) /\ e \in 1..(l + 1) /\ f \in 1..(l + 1) /\ g \in 1..(l + 1)
      BY <1>1, <1>3, <1>5, <1>6, <1>7
    <3>2. i <= d /\ d < e /\ e <= f /\ f <= g
      BY <3>1, <1>3, <1>5, <1>6, <1>7
    <3> QED BY <3>1, <3>2
  <2> HIDE DEF a, b, j
  <2> QED BY <1>1, <2>1 DEF SpansFrom
<1>9. IsNumber(t, i, a, b, j)
  <2>1. Digits(t, Unsigned(t, i, {45}), a)
    BY <1>3, <1>5
  <2>2. a = b \/ (t[a + 1] = 46 /\ Digits(t, a + 2, b))
    <3>1. a + 1 = e /\ a + 2 = e + 1 /\ (f = e => b = a)
      BY <1>1, <1>5
    <3> HIDE DEF a
    <3> QED BY <1>6, <3>1
  <2>3. b = j \/ (t[b + 1] \in {69, 101} /\ Digits(t, Unsigned(t, b + 2, {43, 45}), j))
    <3>1. b + 1 = f /\ b + 2 = f + 1 /\ (g = f => j = b)
      BY <1>1, <1>6
    <3> HIDE DEF b
    <3> QED BY <1>7, <3>1
  <2> HIDE DEF a, b, j
  <2> QED BY <2>1, <2>2, <2>3 DEF IsNumber
<1>10. j + 1 = g
  BY <1>1, <1>7
<1>11. (IF m = <<"error">> THEN <<"atom", SubSeq(t, i, j)>> ELSE m) = CodeNumber(p, t, i, a, b, j)
  <2> HIDE DEF b, j
  <2> QED BY <1>16, <1>17 DEF CodeNumber
<1>12. v = <<CodeNumber(p, t, i, a, b, j), j + 1>>
  <2> HIDE DEF m, a, b
  <2>1. v = <<IF m = <<"error">> THEN <<"atom", SubSeq(t, i, j)>> ELSE m, g>>
    BY <1>2
  <2> HIDE DEF j
  <2> QED BY <1>10, <1>11, <2>1
<1>13. CodeNumber(p, t, i, a, b, j) = Number(p, t, i, a, b, j)
  <2> HIDE DEF a, b, j
  <2> QED BY <1>8, <1>9, SameNumber
<1>14. v = <<Number(p, t, i, a, b, j), j + 1>>
  <2> HIDE DEF a, b, j
  <2> QED BY <1>12, <1>13
<1> HIDE DEF a, b, j
<1> QED BY <1>8, <1>9, <1>14

LEMMA NumbersOfAre ==
  ASSUME NEW p, NEW t, NEW i, NEW j, NEW v
  PROVE  v \in NumbersOf(p, t, i, j) <=>
           \E a \in i..j : \E b \in a..j : IsNumber(t, i, a, b, j) /\ v = Number(p, t, i, a, b, j)
BY DEF NumbersOf

\* A number is read wherever it can end.
LEMMA NumbersOnly ==
  ASSUME NEW t \in Json, NEW p, NEW i \in 1..Len(t), NEW j \in 0..Len(t), NEW v \in NumbersOf(p, t, i, j),
         EndsNumber(CodeAt(t, j + 1))
  PROVE  JsNumber(p, t, i) = {<<v, j + 1>>}
<1>1. PICK a \in i..j : \E b \in a..j : IsNumber(t, i, a, b, j) /\ v = Number(p, t, i, a, b, j)
  BY NumbersOfAre
<1>2. PICK b \in a..j : IsNumber(t, i, a, b, j) /\ v = Number(p, t, i, a, b, j)
  BY <1>1
<1>3. SpansFrom(t, i, a, b, j)
  BY TextIs DEF SpansFrom
<1> QED BY <1>2, <1>3, NumberOnly

LEMMA NumbersAreDenoted ==
  ASSUME NEW t \in Json, NEW p, NEW i \in Places(t), NEW v \in JsNumber(p, t, i)
  PROVE  v = <<v[1], v[2]>> /\ v[2] - 1 \in i..Len(t) /\ v[1] \in NumbersOf(p, t, i, v[2] - 1)
<1>1. PICK a, b, j : /\ SpansFrom(t, i, a, b, j) /\ IsNumber(t, i, a, b, j)
                     /\ v = <<Number(p, t, i, a, b, j), j + 1>>
  BY NumberIsDenoted
<1>2. j \in i..Len(t) /\ a \in i..j /\ b \in a..j /\ (j + 1) - 1 = j
  BY <1>1, TextIs DEF SpansFrom
<1>3. v[1] \in NumbersOf(p, t, i, j)
  BY <1>1, <1>2, NumbersOfAre
<1>4. v[2] = j + 1
  BY <1>1
<1> QED BY <1>1, <1>2, <1>3, <1>4

(***************************************************************************)
(* What the values of a text denote                                        *)
(***************************************************************************)
\* What stands between brackets, the elements of a list and the pairs of an object.
InBrackets(denotes, kind, left, right, t, i, j, v) ==
  /\ i < j /\ t[i] = left /\ t[j] = right
  /\ \/ White(t, i + 1, j - 1) /\ v = <<kind, <<>>>>
     \/ \E a \in (i + 1)..(j - 1) :
          White(t, i + 1, a - 1) /\ \E items \in denotes[a][kind][j - 1] : v = <<kind, items>>

LEMMA BracketsIn ==
  ASSUME NEW denotes, NEW kind, NEW left, NEW right, NEW t, NEW i, NEW j, NEW v
  PROVE  v \in BracketsOf(denotes, kind, left, right, t, i, j) <=>
           InBrackets(denotes, kind, left, right, t, i, j, v)
<1> DEFINE starts == {a \in (i + 1)..(j - 1) : White(t, i + 1, a - 1)}
           inside == {none \in {<<>>} : White(t, i + 1, j - 1)} \cup
                     UNION {denotes[a][kind][j - 1] : a \in starts}
<1>1. CASE ~(i < j /\ t[i] = left /\ t[j] = right)
  BY <1>1 DEF BracketsOf, InBrackets
<1>2. CASE i < j /\ t[i] = left /\ t[j] = right
  <2>1. BracketsOf(denotes, kind, left, right, t, i, j) = {<<kind, items>> : items \in inside}
    BY <1>2 DEF BracketsOf
  <2>2. ASSUME NEW items
        PROVE  items \in inside <=> \/ White(t, i + 1, j - 1) /\ items = <<>>
                                    \/ \E a \in starts : items \in denotes[a][kind][j - 1]
    OBVIOUS
  <2>3. \A a : a \in starts <=> a \in (i + 1)..(j - 1) /\ White(t, i + 1, a - 1)
    OBVIOUS
  <2> HIDE DEF inside, starts
  <2>4. v \in BracketsOf(denotes, kind, left, right, t, i, j) <=> \E items \in inside : v = <<kind, items>>
    BY <2>1
  <2> QED BY <1>2, <2>2, <2>3, <2>4, Zenon DEF InBrackets
<1> QED BY <1>1, <1>2

InValues(denotes, p, t, i, j, v) ==
  \/ InBrackets(denotes, "json", 123, 125, t, i, j, v)
  \/ InBrackets(denotes, "list", 91, 93, t, i, j, v)
  \/ \E w \in Literals : w = SubSeq(t, i, j) /\ v = <<"atom", w>>
  \/ \E s \in StringsOf(p, t, i, j) : v = AtomOf(p, s)
  \/ v \in NumbersOf(p, t, i, j)

LEMMA ValueIn ==
  ASSUME NEW denotes, NEW p, NEW t, NEW i, NEW j, NEW v
  PROVE  v \in ValuesOf(denotes, p, t, i, j) <=> InValues(denotes, p, t, i, j, v)
<1>1. v \in {<<"atom", w>> : w \in Literals \cap {SubSeq(t, i, j)}} <=>
        \E w \in Literals : w = SubSeq(t, i, j) /\ v = <<"atom", w>>
  OBVIOUS
<1>2. v \in {AtomOf(p, s) : s \in StringsOf(p, t, i, j)} <=> \E s \in StringsOf(p, t, i, j) : v = AtomOf(p, s)
  OBVIOUS
<1>3. /\ v \in BracketsOf(denotes, "json", 123, 125, t, i, j) <=> InBrackets(denotes, "json", 123, 125, t, i, j, v)
      /\ v \in BracketsOf(denotes, "list", 91, 93, t, i, j) <=> InBrackets(denotes, "list", 91, 93, t, i, j, v)
  BY BracketsIn
<1> DEFINE objects == BracketsOf(denotes, "json", 123, 125, t, i, j)
           lists == BracketsOf(denotes, "list", 91, 93, t, i, j)
           words == {<<"atom", w>> : w \in Literals \cap {SubSeq(t, i, j)}}
           atoms == {AtomOf(p, s) : s \in StringsOf(p, t, i, j)}
<1>4. ValuesOf(denotes, p, t, i, j) = objects \cup lists \cup words \cup atoms \cup NumbersOf(p, t, i, j)
  BY DEF ValuesOf
<1>5. /\ v \in objects <=> InBrackets(denotes, "json", 123, 125, t, i, j, v)
      /\ v \in lists <=> InBrackets(denotes, "list", 91, 93, t, i, j, v)
      /\ v \in words <=> \E w \in Literals : w = SubSeq(t, i, j) /\ v = <<"atom", w>>
      /\ v \in atoms <=> \E s \in StringsOf(p, t, i, j) : v = AtomOf(p, s)
  BY <1>1, <1>2, <1>3
<1> HIDE DEF objects, lists, words, atoms
<1> QED BY <1>4, <1>5 DEF InValues

InPairs(denotes, p, t, i, j, pair) ==
  \E a \in i..j : \E b \in (a + 1)..j :
    Parted(t, a, b, 58) /\ \E s \in StringsOf(p, t, i, a) : \E v \in denotes[b]["value"][j] : pair = <<s, v>>

LEMMA PairIn ==
  ASSUME NEW denotes, NEW p, NEW t, NEW i, NEW j, NEW pair
  PROVE  pair \in PairsOf(denotes, p, t, i, j) <=> InPairs(denotes, p, t, i, j, pair)
<1> DEFINE ends(a) == {b \in (a + 1)..j : Parted(t, a, b, 58)}
           pairs(a) == UNION {StringsOf(p, t, i, a) \X denotes[b]["value"][j] : b \in ends(a)}
<1>1. PairsOf(denotes, p, t, i, j) = UNION {pairs(a) : a \in i..j}
  BY DEF PairsOf
<1>2. ASSUME NEW a
      PROVE  pair \in pairs(a) <=> \E b \in ends(a) : pair \in StringsOf(p, t, i, a) \X denotes[b]["value"][j]
  OBVIOUS
<1>3. ASSUME NEW A, NEW B
      PROVE  pair \in A \X B <=> \E s \in A : \E v \in B : pair = <<s, v>>
  OBVIOUS
<1>4. ASSUME NEW a, NEW b
      PROVE  b \in ends(a) <=> b \in (a + 1)..j /\ Parted(t, a, b, 58)
  OBVIOUS
<1> HIDE DEF ends, pairs
<1>5. pair \in PairsOf(denotes, p, t, i, j) <=> \E a \in i..j : pair \in pairs(a)
  BY <1>1
<1>6. ASSUME pair \in PairsOf(denotes, p, t, i, j) PROVE InPairs(denotes, p, t, i, j, pair)
  <2>1. PICK a \in i..j : pair \in pairs(a)
    BY <1>5, <1>6
  <2>2. PICK b \in ends(a) : pair \in StringsOf(p, t, i, a) \X denotes[b]["value"][j]
    BY <1>2, <2>1
  <2>3. b \in (a + 1)..j /\ Parted(t, a, b, 58)
    BY <1>4
  <2>4. \E s \in StringsOf(p, t, i, a) : \E v \in denotes[b]["value"][j] : pair = <<s, v>>
    BY <1>3, <2>2
  <2> QED BY <2>3, <2>4, Zenon DEF InPairs
<1>7. ASSUME InPairs(denotes, p, t, i, j, pair) PROVE pair \in PairsOf(denotes, p, t, i, j)
  <2>1. PICK a \in i..j : \E b \in (a + 1)..j :
          Parted(t, a, b, 58) /\ \E s \in StringsOf(p, t, i, a) : \E v \in denotes[b]["value"][j] : pair = <<s, v>>
    BY <1>7, Zenon DEF InPairs
  <2>2. PICK b \in (a + 1)..j :
          Parted(t, a, b, 58) /\ \E s \in StringsOf(p, t, i, a) : \E v \in denotes[b]["value"][j] : pair = <<s, v>>
    BY <2>1, Zenon
  <2>3. b \in ends(a)
    BY <1>4, <2>2
  <2>4. pair \in StringsOf(p, t, i, a) \X denotes[b]["value"][j]
    BY <1>3, <2>2
  <2>5. pair \in pairs(a)
    BY <1>2, <2>3, <2>4
  <2> QED BY <1>5, <2>5
<1> QED BY <1>6, <1>7

\* One element, and more after a comma.
InSeveral(denotes, kind, p, t, i, j, r) ==
  \E a \in i..j :
    \E one \in OneOf(denotes, kind, p, t, i, a) :
      \/ White(t, a + 1, j) /\ r = <<one>>
      \/ \E b \in (a + 1)..j : Parted(t, a, b, 44) /\ \E rest \in denotes[b][kind][j] : r = <<one>> \o rest

LEMMA SeveralIn ==
  ASSUME NEW denotes, NEW kind, NEW p, NEW t, NEW i, NEW j, NEW r
  PROVE  r \in SeveralOf(denotes, kind, p, t, i, j) <=> InSeveral(denotes, kind, p, t, i, j, r)
<1> DEFINE first(a) == FirstOf(denotes, kind, p, t, i, a)
           ends(a) == {b \in (a + 1)..j : Parted(t, a, b, 44)}
           alone(a) == {only \in first(a) : White(t, a + 1, j)}
           more(a) == UNION {Together(first(a), denotes[b][kind][j]) : b \in ends(a)}
<1>1. SeveralOf(denotes, kind, p, t, i, j) = UNION {alone(a) \cup more(a) : a \in i..j}
  BY DEF SeveralOf
<1>2. ASSUME NEW a, NEW x
      PROVE  x \in first(a) <=> \E one \in OneOf(denotes, kind, p, t, i, a) : x = <<one>>
  BY DEF FirstOf
<1>3. ASSUME NEW a, NEW b
      PROVE  b \in ends(a) <=> b \in (a + 1)..j /\ Parted(t, a, b, 44)
  OBVIOUS
<1>4. ASSUME NEW a
      PROVE  r \in alone(a) <=> r \in first(a) /\ White(t, a + 1, j)
  OBVIOUS
<1>5. ASSUME NEW a
      PROVE  r \in more(a) <=> \E b \in ends(a) : r \in Together(first(a), denotes[b][kind][j])
  OBVIOUS
<1> HIDE DEF first, ends, alone, more
<1>6. r \in SeveralOf(denotes, kind, p, t, i, j) <=> \E a \in i..j : r \in alone(a) \/ r \in more(a)
  BY <1>1
<1>7. ASSUME NEW a, NEW b
      PROVE  r \in Together(first(a), denotes[b][kind][j]) <=>
               \E x \in first(a) : \E rest \in denotes[b][kind][j] : r = x \o rest
  BY TogetherIn
<1>8. ASSUME NEW a
      PROVE  (r \in alone(a) \/ r \in more(a)) <=>
               \E one \in OneOf(denotes, kind, p, t, i, a) :
                 \/ White(t, a + 1, j) /\ r = <<one>>
                 \/ \E b \in (a + 1)..j : Parted(t, a, b, 44) /\ \E rest \in denotes[b][kind][j] : r = <<one>> \o rest
  <2>1. r \in alone(a) <=> \E one \in OneOf(denotes, kind, p, t, i, a) : White(t, a + 1, j) /\ r = <<one>>
    BY <1>2, <1>4, Zenon
  <2>2. r \in more(a) <=>
          \E one \in OneOf(denotes, kind, p, t, i, a) : \E b \in (a + 1)..j :
            Parted(t, a, b, 44) /\ \E rest \in denotes[b][kind][j] : r = <<one>> \o rest
    <3>1. ASSUME r \in more(a)
          PROVE  \E one \in OneOf(denotes, kind, p, t, i, a) : \E b \in (a + 1)..j :
                   Parted(t, a, b, 44) /\ \E rest \in denotes[b][kind][j] : r = <<one>> \o rest
      <4>1. PICK b \in ends(a) : r \in Together(first(a), denotes[b][kind][j])
        BY <1>5, <3>1, Zenon
      <4>2. PICK x \in first(a) : \E rest \in denotes[b][kind][j] : r = x \o rest
        BY <1>7, <4>1, Zenon
      <4>3. PICK one \in OneOf(denotes, kind, p, t, i, a) : x = <<one>>
        BY <1>2
      <4>4. b \in (a + 1)..j /\ Parted(t, a, b, 44)
        BY <1>3
      <4>5. \E rest \in denotes[b][kind][j] : r = <<one>> \o rest
        BY <4>2, <4>3, Zenon
      <4> QED BY <4>4, <4>5, Zenon
    <3>2. ASSUME NEW one \in OneOf(denotes, kind, p, t, i, a), NEW b \in (a + 1)..j,
                 Parted(t, a, b, 44), NEW rest \in denotes[b][kind][j], r = <<one>> \o rest
          PROVE  r \in more(a)
      <4>1. PICK x : x = <<one>>
        OBVIOUS
      <4>2. x \in first(a) /\ b \in ends(a) /\ r = x \o rest
        BY <1>2, <1>3, <3>2, <4>1, Zenon
      <4>3. r \in Together(first(a), denotes[b][kind][j])
        BY <1>7, <4>2, Zenon
      <4> QED BY <1>5, <4>2, <4>3, Zenon
    <3> QED BY <3>1, <3>2, Zenon
  <2> QED BY <2>1, <2>2, Zenon
<1> QED BY <1>6, <1>8, Zenon DEF InSeveral

\* Where a value stands that is denoted after this one.
Later(t, i, j, a) == i \in Places(t) /\ j \in 0..Len(t) /\ a \in (i + 1)..j

LEMMA LaterSame ==
  ASSUME NEW t \in Json, NEW i, NEW j, NEW a, Later(t, i, j, a), NEW f, NEW h, AgreeAfter(f, h, t, i)
  PROVE  a \in Places(t) /\ a > i /\ f[a] = h[a]
<1>1. PICK l \in Nat : l = Len(t) /\ Places(t) = 1..(l + 1)
  BY TextIs DEF Places
<1>2. a \in 1..(l + 1) /\ a > i
  BY <1>1 DEF Later
<1> QED BY <1>1, <1>2 DEF AgreeAfter

LEMMA BracketsWithin ==
  ASSUME NEW t \in Json, NEW i \in Places(t), NEW j \in 0..Len(t), NEW f, NEW h, AgreeAfter(f, h, t, i),
         NEW kind, NEW left, NEW right, NEW v, InBrackets(f, kind, left, right, t, i, j, v)
  PROVE  InBrackets(h, kind, left, right, t, i, j, v)
<1>1. CASE \E a \in (i + 1)..(j - 1) :
             White(t, i + 1, a - 1) /\ \E items \in f[a][kind][j - 1] : v = <<kind, items>>
  <2>1. PICK a \in (i + 1)..(j - 1) :
          White(t, i + 1, a - 1) /\ \E items \in f[a][kind][j - 1] : v = <<kind, items>>
    BY <1>1
  <2>2. Later(t, i, j, a)
    BY PlacesAre DEF Later
  <2>3. f[a] = h[a]
    BY <2>2, LaterSame
  <2>4. White(t, i + 1, a - 1) /\ \E items \in h[a][kind][j - 1] : v = <<kind, items>>
    BY <2>1, <2>3
  <2> QED BY <2>4 DEF InBrackets
<1>2. CASE White(t, i + 1, j - 1) /\ v = <<kind, <<>>>>
  BY <1>2 DEF InBrackets
<1> QED BY <1>1, <1>2 DEF InBrackets

LEMMA ValuesWithin ==
  ASSUME NEW t \in Json, NEW p, NEW i \in Places(t), NEW j \in 0..Len(t), NEW f, NEW h, AgreeAfter(f, h, t, i)
  PROVE  ValuesOf(f, p, t, i, j) \subseteq ValuesOf(h, p, t, i, j)
<1> SUFFICES ASSUME NEW v \in ValuesOf(f, p, t, i, j) PROVE v \in ValuesOf(h, p, t, i, j)
  OBVIOUS
<1>1. InValues(f, p, t, i, j, v)
  BY ValueIn
<1>2. InBrackets(f, "json", 123, 125, t, i, j, v) => InBrackets(h, "json", 123, 125, t, i, j, v)
  BY BracketsWithin
<1>3. InBrackets(f, "list", 91, 93, t, i, j, v) => InBrackets(h, "list", 91, 93, t, i, j, v)
  BY BracketsWithin
<1>4. InValues(h, p, t, i, j, v)
  BY <1>1, <1>2, <1>3, Zenon DEF InValues
<1> QED BY <1>4, ValueIn

LEMMA PairsWithin ==
  ASSUME NEW t \in Json, NEW p, NEW i \in Places(t), NEW j \in 0..Len(t), NEW f, NEW h, AgreeAfter(f, h, t, i)
  PROVE  PairsOf(f, p, t, i, j) \subseteq PairsOf(h, p, t, i, j)
<1> SUFFICES ASSUME NEW pair \in PairsOf(f, p, t, i, j) PROVE pair \in PairsOf(h, p, t, i, j)
  OBVIOUS
<1>1. InPairs(f, p, t, i, j, pair)
  BY PairIn
<1>2. PICK a \in i..j : \E b \in (a + 1)..j :
        Parted(t, a, b, 58) /\ \E s \in StringsOf(p, t, i, a) : \E v \in f[b]["value"][j] : pair = <<s, v>>
  BY <1>1, Zenon DEF InPairs
<1>3. PICK b \in (a + 1)..j :
        Parted(t, a, b, 58) /\ \E s \in StringsOf(p, t, i, a) : \E v \in f[b]["value"][j] : pair = <<s, v>>
  BY <1>2, Zenon
<1>4. Later(t, i, j, b)
  BY PlacesAre DEF Later
<1>5. f[b] = h[b]
  BY <1>4, LaterSame
<1>6. Parted(t, a, b, 58) /\ \E s \in StringsOf(p, t, i, a) : \E v \in h[b]["value"][j] : pair = <<s, v>>
  BY <1>3, <1>5
<1>7. InPairs(h, p, t, i, j, pair)
  BY <1>6, Zenon DEF InPairs
<1> QED BY <1>7, PairIn

LEMMA OnesWithin ==
  ASSUME NEW t \in Json, NEW p, NEW i \in Places(t), NEW j \in 0..Len(t), NEW f, NEW h, AgreeAfter(f, h, t, i),
         NEW kind
  PROVE  OneOf(f, kind, p, t, i, j) \subseteq OneOf(h, kind, p, t, i, j)
BY ValuesWithin, PairsWithin DEF OneOf

LEMMA SeveralWithin ==
  ASSUME NEW t \in Json, NEW p, NEW i \in Places(t), NEW j \in 0..Len(t), NEW f, NEW h, AgreeAfter(f, h, t, i),
         NEW kind
  PROVE  SeveralOf(f, kind, p, t, i, j) \subseteq SeveralOf(h, kind, p, t, i, j)
<1> SUFFICES ASSUME NEW r \in SeveralOf(f, kind, p, t, i, j) PROVE r \in SeveralOf(h, kind, p, t, i, j)
  OBVIOUS
<1>1. InSeveral(f, kind, p, t, i, j, r)
  BY SeveralIn
<1>2. PICK a \in i..j :
        \E one \in OneOf(f, kind, p, t, i, a) :
          \/ White(t, a + 1, j) /\ r = <<one>>
          \/ \E b \in (a + 1)..j : Parted(t, a, b, 44) /\ \E rest \in f[b][kind][j] : r = <<one>> \o rest
  BY <1>1, Zenon DEF InSeveral
<1>3. PICK one \in OneOf(f, kind, p, t, i, a) :
        \/ White(t, a + 1, j) /\ r = <<one>>
        \/ \E b \in (a + 1)..j : Parted(t, a, b, 44) /\ \E rest \in f[b][kind][j] : r = <<one>> \o rest
  BY <1>2, Zenon
<1>4. one \in OneOf(h, kind, p, t, i, a)
  <2>1. a \in 0..Len(t)
    BY PlacesAre
  <2> QED BY <2>1, OnesWithin
<1>5. CASE White(t, a + 1, j) /\ r = <<one>>
  <2>1. InSeveral(h, kind, p, t, i, j, r)
    BY <1>4, <1>5, Zenon DEF InSeveral
  <2> QED BY <2>1, SeveralIn
<1>6. CASE \E b \in (a + 1)..j : Parted(t, a, b, 44) /\ \E rest \in f[b][kind][j] : r = <<one>> \o rest
  <2>1. PICK b \in (a + 1)..j : Parted(t, a, b, 44) /\ \E rest \in f[b][kind][j] : r = <<one>> \o rest
    BY <1>6, Zenon
  <2>2. Later(t, i, j, b)
    BY PlacesAre DEF Later
  <2>3. f[b] = h[b]
    BY <2>2, LaterSame
  <2>4. Parted(t, a, b, 44) /\ \E rest \in h[b][kind][j] : r = <<one>> \o rest
    BY <2>1, <2>3
  <2>5. InSeveral(h, kind, p, t, i, j, r)
    BY <1>4, <2>4, Zenon DEF InSeveral
  <2> QED BY <2>5, SeveralIn
<1> QED BY <1>3, <1>5, <1>6

\* The recursive function of Denoted.
DenotedAt(denotes, p, t, i) ==
  [kind \in Kinds |-> [j \in 0..Len(t) |->
     IF kind = "value" THEN ValuesOf(denotes, p, t, i, j) ELSE SeveralOf(denotes, kind, p, t, i, j)]]
AreDenoted(denotes, p, t) == denotes = [i \in Places(t) |-> DenotedAt(denotes, p, t, i)]

LEMMA DenotedAtIs ==
  ASSUME NEW denotes, NEW p, NEW t, NEW i, NEW j \in 0..Len(t)
  PROVE  /\ DenotedAt(denotes, p, t, i)["value"][j] = ValuesOf(denotes, p, t, i, j)
         /\ \A kind \in {"list", "json"} :
              DenotedAt(denotes, p, t, i)[kind][j] = SeveralOf(denotes, kind, p, t, i, j)
BY DEF DenotedAt, Kinds

LEMMA DenotedSame ==
  ASSUME NEW t \in Json, NEW p, NEW i \in Places(t), NEW f, NEW h, AgreeAfter(f, h, t, i)
  PROVE  DenotedAt(f, p, t, i) = DenotedAt(h, p, t, i)
<1>1. AgreeAfter(h, f, t, i)
  BY AgreeIs
<1>2. ASSUME NEW j \in 0..Len(t)
      PROVE  ValuesOf(f, p, t, i, j) = ValuesOf(h, p, t, i, j)
  <2>1. ValuesOf(f, p, t, i, j) \subseteq ValuesOf(h, p, t, i, j)
    BY ValuesWithin
  <2>2. ValuesOf(h, p, t, i, j) \subseteq ValuesOf(f, p, t, i, j)
    BY <1>1, ValuesWithin
  <2> QED BY <2>1, <2>2
<1>3. ASSUME NEW j \in 0..Len(t), NEW kind \in Kinds
      PROVE  SeveralOf(f, kind, p, t, i, j) = SeveralOf(h, kind, p, t, i, j)
  <2>1. SeveralOf(f, kind, p, t, i, j) \subseteq SeveralOf(h, kind, p, t, i, j)
    BY SeveralWithin
  <2>2. SeveralOf(h, kind, p, t, i, j) \subseteq SeveralOf(f, kind, p, t, i, j)
    BY <1>1, SeveralWithin
  <2> QED BY <2>1, <2>2
<1> QED BY <1>2, <1>3 DEF DenotedAt

LEMMA DenotedExist ==
  ASSUME NEW t \in Json, NEW p
  PROVE  AreDenoted(Denoted(p, t), p, t)
<1>1. PICK n \in Nat : n = Len(t) /\ Places(t) = 1..(n + 1)
  BY TextIs DEF Places
<1> DEFINE Known(f, k) == \A i \in Places(t) : i > n + 1 - k => f[i] = DenotedAt(f, p, t, i)
           T == {k \in Nat : \E f : Known(f, k)}
<1>2. 0 \in T
  BY <1>1
<1>3. ASSUME NEW k \in T PROVE k + 1 \in T
  <2>1. PICK f : Known(f, k)
    OBVIOUS
  <2> DEFINE h == [i \in Places(t) |-> DenotedAt(f, p, t, i)]
  <2>2. ASSUME NEW i \in Places(t), i > n + 1 - (k + 1) PROVE h[i] = DenotedAt(h, p, t, i)
    <3>1. \A m \in Places(t) : m > i => f[m] = h[m]
      BY <1>1, <2>1, <2>2
    <3>2. DenotedAt(f, p, t, i) = DenotedAt(h, p, t, i)
      <4> HIDE DEF h
      <4>1. AgreeAfter(f, h, t, i)
        BY <3>1 DEF AgreeAfter
      <4> QED BY <4>1, DenotedSame
    <3> QED BY <3>2
  <2>3. Known(h, k + 1) /\ k + 1 \in Nat
    <3> HIDE DEF h
    <3> QED BY <2>2
  <2> HIDE DEF h
  <2> QED BY <2>3
<1>4. T = Nat
  <2> HIDE DEF T
  <2>1. T \in SUBSET Nat
    BY DEF T
  <2> QED BY <1>2, <1>3, <2>1, Induction
<1>5. PICK f : Known(f, n + 2)
  <2>1. n + 2 \in T
    <3> HIDE DEF T
    <3> QED BY <1>4
  <2> QED BY <2>1, Zenon
<1> DEFINE h == [i \in Places(t) |-> DenotedAt(f, p, t, i)]
<1>6. \A i \in Places(t) : f[i] = h[i]
  BY <1>1, <1>5
<1>7. h = [i \in Places(t) |-> DenotedAt(h, p, t, i)]
  <2>1. ASSUME NEW i \in Places(t) PROVE DenotedAt(f, p, t, i) = DenotedAt(h, p, t, i)
    <3> HIDE DEF h
    <3>1. AgreeAfter(f, h, t, i)
      BY <1>6 DEF AgreeAfter
    <3> QED BY <3>1, DenotedSame
  <2> QED BY <2>1
<1>8. Denoted(p, t) = CHOOSE denotes : AreDenoted(denotes, p, t)
  BY Zenon DEF Denoted, AreDenoted, DenotedAt, Places
<1> HIDE DEF h
<1> QED BY <1>7, <1>8 DEF AreDenoted

\* What is denoted by what stands in a text.
LEMMA DenotedIs ==
  ASSUME NEW t \in Json, NEW p, NEW i \in Places(t), NEW j \in 0..Len(t), NEW denotes,
         denotes = Denoted(p, t)
  PROVE  /\ denotes[i]["value"][j] = ValuesOf(denotes, p, t, i, j)
         /\ \A kind \in {"list", "json"} : denotes[i][kind][j] = SeveralOf(denotes, kind, p, t, i, j)
<1>1. AreDenoted(denotes, p, t)
  BY DenotedExist
<1>2. denotes[i] = DenotedAt(denotes, p, t, i)
  <2>1. denotes = [k \in Places(t) |-> DenotedAt(denotes, p, t, k)]
    BY <1>1 DEF AreDenoted
  <2> QED BY <2>1
<1> QED BY <1>2, DenotedAtIs

(***************************************************************************)
(* White space and the codes around it                                     *)
(***************************************************************************)
Blank == {32, 9, 10, 13}

LEMMA SkipOver ==
  ASSUME NEW t \in Json, NEW i \in Nat \ {0}, NEW q \in Places(t), i <= q, White(t, i, q - 1),
         CodeAt(t, q) \notin Blank
  PROVE  i \in Places(t) /\ SkipWs(t, i) = q
<1>1. PICK n \in Nat : n = Len(t) /\ Places(t) = 1..(n + 1)
  BY TextIs DEF Places
<1>2. i \in Places(t) /\ q \in i..(Len(t) + 1) /\ {32, 9, 10, 13} \in SUBSET Nat
  BY <1>1
<1>3. \A k \in i..(q - 1) : t[k] \in {32, 9, 10, 13}
  BY DEF White
<1>4. IsPast(t, i, {32, 9, 10, 13}, q)
  BY <1>2, <1>3 DEF IsPast, Blank
<1> QED BY <1>2, <1>4, PastOnly DEF SkipWs

LEMMA SkippedIs ==
  ASSUME NEW t \in Json, NEW i \in Places(t)
  PROVE  /\ SkipWs(t, i) \in Places(t) /\ SkipWs(t, i) >= i
         /\ CodeAt(t, SkipWs(t, i)) \notin Blank /\ White(t, i, SkipWs(t, i) - 1)
<1>1. {32, 9, 10, 13} \in SUBSET Nat
  OBVIOUS
<1>2. IsPast(t, i, {32, 9, 10, 13}, SkipWs(t, i))
  BY <1>1, PastIs DEF SkipWs
<1>3. White(t, i, SkipWs(t, i) - 1)
  BY <1>2 DEF IsPast, White
<1>4. SkipWs(t, i) \in Places(t) /\ SkipWs(t, i) >= i
  BY SkipIs
<1> QED BY <1>2, <1>3, <1>4 DEF IsPast, Blank

\* A code between white space is found.
LEMMA PartedSkips ==
  ASSUME NEW t \in Json, NEW a \in Nat, NEW b \in 1..Len(t), NEW code \in Nat \ Blank, Parted(t, a, b, code),
         CodeAt(t, b) \notin Blank
  PROVE  /\ a + 1 \in Places(t) /\ CodeAt(t, a + 1) \in Blank \cup {code}
         /\ CodeAt(t, SkipWs(t, a + 1)) = code /\ SkipWs(t, SkipWs(t, a + 1) + 1) = b
<1>1. PICK n \in Nat : n = Len(t) /\ Places(t) = 1..(n + 1) /\ b \in 1..n
  BY TextIs DEF Places
<1>2. PICK k \in (a + 1)..(b - 1) : t[k] = code /\ White(t, a + 1, k - 1) /\ White(t, k + 1, b - 1)
  BY DEF Parted
<1>3. k \in Nat \ {0} /\ k <= Len(t) /\ k \in Places(t) /\ b \in Places(t) /\ a + 1 \in Nat \ {0} /\ k + 1 \in Nat \ {0}
      /\ a + 1 <= k /\ k + 1 <= b /\ a + 1 <= Len(t)
  BY <1>1
<1>4. CodeAt(t, k) = code
  BY <1>2, <1>3, CodeIs
<1>5. a + 1 \in Places(t) /\ SkipWs(t, a + 1) = k
  BY <1>2, <1>3, <1>4, SkipOver
<1>6. SkipWs(t, k + 1) = b
  BY <1>2, <1>3, SkipOver
<1>7. CodeAt(t, a + 1) \in Blank \cup {code}
  <2>1. CASE a + 1 = k
    BY <1>4, <2>1
  <2>2. CASE a + 1 # k
    <3>1. a + 1 \in (a + 1)..(k - 1) /\ CodeAt(t, a + 1) = t[a + 1]
      BY <1>3, <2>2, CodeIs
    <3> QED BY <1>2, <3>1 DEF White, Blank
  <2> QED BY <2>1, <2>2
<1> QED BY <1>4, <1>5, <1>6, <1>7

LEMMA PartedIs ==
  ASSUME NEW t \in Json, NEW a \in Nat, NEW k \in 1..Len(t), NEW code \in Nat, CodeAt(t, k) = code,
         a + 1 \in Places(t), SkipWs(t, a + 1) = k
  PROVE  k + 1 \in Places(t) /\ SkipWs(t, k + 1) > a + 1 /\ Parted(t, a, SkipWs(t, k + 1), code)
<1>1. PICK n \in Nat : n = Len(t) /\ Places(t) = 1..(n + 1) /\ k \in 1..n
  BY TextIs DEF Places
<1>2. k + 1 \in Places(t) /\ t[k] = code /\ k \in Nat \ {0}
  <2>1. k \in Nat \ {0} /\ k <= Len(t)
    BY <1>1
  <2> QED BY <1>1, <2>1, CodeIs
<1>3. k >= a + 1 /\ White(t, a + 1, k - 1)
  BY SkippedIs
<1>4. PICK q \in Places(t) : q = SkipWs(t, k + 1) /\ q >= k + 1 /\ White(t, k + 1, q - 1)
  BY <1>2, SkippedIs
<1>5. q > a + 1 /\ k \in (a + 1)..(q - 1)
  BY <1>1, <1>3, <1>4
<1>6. Parted(t, a, q, code)
  BY <1>2, <1>3, <1>4, <1>5 DEF Parted
<1> QED BY <1>2, <1>4, <1>5, <1>6

(***************************************************************************)
(* Where values start and end                                              *)
(***************************************************************************)
StartsValue(c) == c \in Nat /\ c \notin {32, 9, 10, 13, 93, 125}
EndsValue(c) == c \in {32, 9, 10, 13, 44, 93, 125, -1}

LEMMA NumberStarts ==
  ASSUME NEW t \in Json, NEW i \in 1..Len(t), NEW a \in 0..Len(t), Digits(t, Unsigned(t, i, {45}), a)
  PROVE  t[i] \in {45} \cup (48..57)
<1>1. i \in Nat \ {0} /\ a \in Nat /\ a <= Len(t) /\ {45} \in SUBSET {43, 45}
  BY TextIs
<1>2. Unsigned(t, i, {45}) \in {i, i + 1} /\ i <= a /\ (Unsigned(t, i, {45}) = i + 1 <=> t[i] \in {45})
  BY <1>1, UnsignedIs
<1>3. CASE Unsigned(t, i, {45}) = i + 1
  BY <1>2, <1>3
<1>4. CASE Unsigned(t, i, {45}) = i
  <2>1. Digits(t, i, a) /\ i \in i..a
    BY <1>1, <1>2, <1>4
  <2> QED BY <2>1 DEF Digits, IsDigit
<1> QED BY <1>2, <1>3, <1>4

LEMMA StandsCodes ==
  ASSUME NEW t \in Json, NEW i \in Places(t), NEW s \in Json, Stands(t, i, s), Len(s) > 0
  PROVE  CodeAt(t, i) = s[1] /\ CodesAt(t, i, s)
BY StandsFirst, StandsCode

LEMMA LiteralLong ==
  ASSUME NEW w \in Literals
  PROVE  Len(w) > 0
<1>1. Len(w) \in {4, 5}
  BY LiteralIs
<1> QED BY <1>1

LEMMA LiteralStands ==
  ASSUME NEW t \in Json, NEW i \in Places(t), NEW j \in 0..Len(t), NEW w \in Literals, w = SubSeq(t, i, j)
  PROVE  Stands(t, i, w) /\ i <= j /\ i + Len(w) = j + 1 /\ CodeAt(t, i) = w[1] /\ LiteralsAt(t, i) = {w}
<1>1. PICK n \in Nat : n = Len(t) /\ Places(t) = 1..(n + 1) /\ i \in 1..(n + 1) /\ j \in 0..n
  BY TextIs DEF Places
<1>2. w \in Json /\ Len(w) \in {4, 5}
  BY LiteralIs
<1>3. i <= j
  <2>1. ASSUME j < i PROVE FALSE
    <3>1. SubSeq(t, i, j) = <<>>
      BY <1>1, <2>1, PieceIs
    <3>2. Len(w) = 0
      BY <3>1
    <3> QED BY <1>2, <3>2
  <2> QED BY <1>1, <2>1
<1>4. Len(w) = j - i + 1 /\ \A k \in 1..(j - i + 1) : w[k] = t[i + k - 1]
  BY <1>1, <1>3, PieceIs DEF IsPiece
<1>5. Stands(t, i, w) /\ i + Len(w) = j + 1
  BY <1>1, <1>3, <1>4 DEF Stands
<1>6. CodeAt(t, i) = w[1] /\ CodesAt(t, i, w)
  <2>1. Len(w) > 0
    BY LiteralLong
  <2>2. \A x \in Json : Stands(t, i, x) /\ Len(x) > 0 => CodeAt(t, i) = x[1] /\ CodesAt(t, i, x)
    BY StandsCodes
  <2> QED BY <1>2, <1>5, <2>1, <2>2
<1>7. w \in LiteralsAt(t, i)
  <2>1. DOMAIN w = 1..Len(w)
    BY <1>2 DEF Json
  <2> QED BY <1>6, <2>1 DEF CodesAt, LiteralsAt
<1>8. LiteralsAt(t, i) = {w}
  <2>1. ASSUME NEW x \in LiteralsAt(t, i) PROVE x = w
    BY <1>6, LiteralFirst, LiteralsDiffer
  <2> QED BY <1>7, <2>1
<1> QED BY <1>3, <1>5, <1>6, <1>8

LEMMA StringsStart ==
  ASSUME NEW t, NEW p, NEW i, NEW j, NEW s \in StringsOf(p, t, i, j)
  PROVE  i < j /\ t[i] = 34 /\ t[j] = 34
BY DEF StringsOf

LEMMA ValueStarts ==
  ASSUME NEW t \in Json, NEW p, NEW i \in Places(t), NEW j \in 0..Len(t), NEW denotes,
         NEW v \in ValuesOf(denotes, p, t, i, j)
  PROVE  i \in 1..Len(t) /\ i <= j /\ StartsValue(CodeAt(t, i))
<1>1. PICK n \in Nat : n = Len(t) /\ Places(t) = 1..(n + 1) /\ i \in 1..(n + 1) /\ j \in 0..n
  BY TextIs DEF Places
<1>2. InValues(denotes, p, t, i, j, v)
  BY ValueIn
<1>3. ASSUME i <= j, t[i] \in {123, 91, 34, 45} \cup (48..57)
      PROVE  i \in 1..Len(t) /\ i <= j /\ StartsValue(CodeAt(t, i))
  <2>1. i \in 1..Len(t) /\ i \in Nat \ {0} /\ i <= Len(t)
    BY <1>1, <1>3
  <2>2. PICK c \in {123, 91, 34, 45} \cup (48..57) : c = t[i]
    BY <1>3
  <2>3. CodeAt(t, i) = c
    BY <2>1, <2>2, CodeIs
  <2>4. StartsValue(c)
    BY DEF StartsValue
  <2> QED BY <1>3, <2>1, <2>3, <2>4
<1>4. ASSUME NEW kind, NEW left \in {123, 91}, NEW right, InBrackets(denotes, kind, left, right, t, i, j, v)
      PROVE  i <= j /\ t[i] \in {123, 91, 34, 45} \cup (48..57)
  BY <1>1, <1>4 DEF InBrackets
<1>5. CASE InBrackets(denotes, "json", 123, 125, t, i, j, v) \/ InBrackets(denotes, "list", 91, 93, t, i, j, v)
  <2>1. i <= j /\ t[i] \in {123, 91, 34, 45} \cup (48..57)
    <3>1. CASE InBrackets(denotes, "json", 123, 125, t, i, j, v)
      BY <1>4, <3>1
    <3>2. CASE InBrackets(denotes, "list", 91, 93, t, i, j, v)
      BY <1>4, <3>2
    <3> QED BY <1>5, <3>1, <3>2
  <2> QED BY <1>3, <2>1
<1>6. ASSUME NEW w \in Literals, w = SubSeq(t, i, j)
      PROVE  i \in 1..Len(t) /\ i <= j /\ StartsValue(CodeAt(t, i))
  <2>1. i <= j /\ CodeAt(t, i) = w[1]
    BY <1>6, LiteralStands
  <2>2. i \in 1..Len(t)
    BY <1>1, <2>1
  <2>3. CodeAt(t, i) \in Nat
    <3>1. i \in Nat \ {0} /\ i <= Len(t)
      BY <2>2
    <3> QED BY <3>1, CodeIs
  <2>4. w[1] \notin {34, 123, 91, 32, 9, 10, 13, 93, 125, 45}
    BY LiteralIs
  <2> QED BY <2>1, <2>2, <2>3, <2>4 DEF StartsValue
<1>7. ASSUME NEW s \in StringsOf(p, t, i, j)
      PROVE  i \in 1..Len(t) /\ i <= j /\ StartsValue(CodeAt(t, i))
  <2>1. i < j /\ t[i] = 34
    BY StringsStart
  <2> QED BY <1>1, <1>3, <2>1
<1>8. ASSUME v \in NumbersOf(p, t, i, j)
      PROVE  i \in 1..Len(t) /\ i <= j /\ StartsValue(CodeAt(t, i))
  <2>1. PICK a \in i..j : \E b \in a..j : IsNumber(t, i, a, b, j)
    BY <1>8, NumbersOfAre
  <2>2. i <= j /\ i \in 1..Len(t) /\ a \in 0..Len(t) /\ Digits(t, Unsigned(t, i, {45}), a)
    BY <1>1, <2>1 DEF IsNumber
  <2>3. t[i] \in {45} \cup (48..57)
    BY <2>2, NumberStarts
  <2> QED BY <1>3, <2>2, <2>3
<1> QED BY <1>2, <1>5, <1>6, <1>7, <1>8, Zenon DEF InValues

LEMMA OneStarts ==
  ASSUME NEW t \in Json, NEW p, NEW i \in Places(t), NEW j \in 0..Len(t), NEW denotes, NEW kind,
         NEW one \in OneOf(denotes, kind, p, t, i, j)
  PROVE  i \in 1..Len(t) /\ i <= j /\ StartsValue(CodeAt(t, i))
<1>1. CASE kind # "json"
  BY <1>1, ValueStarts DEF OneOf
<1>2. CASE kind = "json"
  <2>1. InPairs(denotes, p, t, i, j, one)
    BY <1>2, PairIn DEF OneOf
  <2>2. PICK a \in i..j : \E s : s \in StringsOf(p, t, i, a)
    BY <2>1, Zenon DEF InPairs
  <2>3. i < a /\ t[i] = 34
    BY <2>2, StringsStart
  <2>4. i \in Nat \ {0} /\ i <= j /\ i <= Len(t) /\ i \in 1..Len(t)
    BY <2>2, <2>3, PlacesAre
  <2>5. CodeAt(t, i) = 34
    BY <2>3, <2>4, CodeIs
  <2> QED BY <2>4, <2>5 DEF StartsValue
<1> QED BY <1>1, <1>2

LEMMA SeveralStarts ==
  ASSUME NEW t \in Json, NEW p, NEW i \in Places(t), NEW j \in 0..Len(t), NEW denotes, NEW kind,
         NEW r \in SeveralOf(denotes, kind, p, t, i, j)
  PROVE  i \in 1..Len(t) /\ i <= j /\ StartsValue(CodeAt(t, i))
<1>1. InSeveral(denotes, kind, p, t, i, j, r)
  BY SeveralIn
<1>2. PICK a \in i..j : \E one : one \in OneOf(denotes, kind, p, t, i, a)
  BY <1>1, Zenon DEF InSeveral
<1>3. a \in 0..Len(t) /\ i <= j
  BY <1>2, PlacesAre
<1> QED BY <1>2, <1>3, OneStarts

\* What is denoted where a value, an element or a pair starts.
LEMMA DenotedStarts ==
  ASSUME NEW t \in Json, NEW p, NEW i \in Places(t), NEW j \in 0..Len(t), NEW denotes, denotes = Denoted(p, t),
         NEW kind \in Kinds, NEW v \in denotes[i][kind][j]
  PROVE  i \in 1..Len(t) /\ i <= j /\ StartsValue(CodeAt(t, i))
<1>1. CASE kind = "value"
  <2>1. v \in ValuesOf(denotes, p, t, i, j)
    BY <1>1, DenotedIs
  <2> QED BY <2>1, ValueStarts
<1>2. CASE kind \in {"list", "json"}
  <2>1. v \in SeveralOf(denotes, kind, p, t, i, j)
    BY <1>2, DenotedIs
  <2> QED BY <2>1, SeveralStarts
<1> QED BY <1>1, <1>2 DEF Kinds

(***************************************************************************)
(* What is denoted is read, and nothing else, where it can end.            *)
(***************************************************************************)
CompleteAt(denotes, read, t, i) ==
  /\ \A j \in 0..Len(t) : EndsValue(CodeAt(t, j + 1)) =>
       \A v \in denotes[i]["value"][j] : Gives(read[i]["value"], v, j + 1)
  /\ \A kind \in {"list", "json"} : \A j \in 0..Len(t) : CodeAt(t, j + 1) \in {93, 125} =>
       \A v \in denotes[i][kind][j] : Gives(read[i][kind], v, j + 1)
CompleteAfter(denotes, read, t, i) == \A k \in Places(t) : k > i => CompleteAt(denotes, read, t, k)

LEMMA BracketsComplete ==
  ASSUME NEW t \in Json, NEW p, NEW i \in Places(t), NEW j \in 0..Len(t), NEW denotes, denotes = Denoted(p, t),
         NEW read, CompleteAfter(denotes, read, t, i), NEW kind \in {"list", "json"}, NEW left,
         NEW right \in {93, 125}, NEW v, InBrackets(denotes, kind, left, right, t, i, j, v)
  PROVE  Gives(JsBrackets(read, kind, right, t, i), v, j + 1)
<1>1. PICK n \in Nat : n = Len(t) /\ Places(t) = 1..(n + 1) /\ i \in 1..(n + 1) /\ j \in 0..n
  BY TextIs DEF Places
<1>2. i < j /\ t[j] = right
  BY DEF InBrackets
<1>3. j \in Places(t) /\ i + 1 \in Nat \ {0} /\ i + 1 <= j /\ CodeAt(t, j) = right
  <2>1. j \in Nat \ {0} /\ j <= Len(t)
    BY <1>1, <1>2
  <2> QED BY <1>1, <1>2, <2>1, CodeIs
<1>4. CASE White(t, i + 1, j - 1) /\ v = <<kind, <<>>>>
  <2>1. CodeAt(t, j) \notin Blank
    BY <1>3 DEF Blank
  <2>2. SkipWs(t, i + 1) = j
    BY <1>3, <1>4, <2>1, SkipOver
  <2>3. Gives(JsBrackets(read, kind, right, t, i), <<kind, <<>>>>, j + 1)
    BY <1>3, <2>2, BracketsEmpty DEF Gives
  <2> QED BY <1>4, <2>3
<1>5. CASE \E a \in (i + 1)..(j - 1) :
             White(t, i + 1, a - 1) /\ \E items \in denotes[a][kind][j - 1] : v = <<kind, items>>
  <2>1. PICK a \in (i + 1)..(j - 1) :
          White(t, i + 1, a - 1) /\ \E items \in denotes[a][kind][j - 1] : v = <<kind, items>>
    BY <1>5
  <2>2. PICK items \in denotes[a][kind][j - 1] : v = <<kind, items>>
    BY <2>1
  <2>3. a \in Places(t) /\ a > i /\ i + 1 <= a /\ j - 1 \in 0..Len(t) /\ (j - 1) + 1 = j /\ kind \in Kinds
    BY <1>1 DEF Kinds
  <2>4. StartsValue(CodeAt(t, a))
    BY <2>2, <2>3, DenotedStarts
  <2>5. CodeAt(t, a) \notin Blank /\ CodeAt(t, a) # right
    BY <2>4 DEF StartsValue, Blank
  <2>6. SkipWs(t, i + 1) = a
    BY <1>3, <2>1, <2>3, <2>5, SkipOver
  <2>7. AreItems(read, kind, a, items, j)
    <3>1. CodeAt(t, (j - 1) + 1) \in {93, 125}
      BY <1>3, <2>3
    <3>2. CompleteAt(denotes, read, t, a)
      BY <2>3 DEF CompleteAfter
    <3>3. Gives(read[a][kind], items, (j - 1) + 1)
      BY <2>2, <2>3, <3>1, <3>2 DEF CompleteAt
    <3> QED BY <2>3, <3>3 DEF Gives, AreItems
  <2>8. Gives(JsBrackets(read, kind, right, t, i), <<kind, items>>, j + 1)
    BY <1>3, <2>5, <2>6, <2>7, BracketsFull
  <2> QED BY <2>2, <2>8
<1> QED BY <1>4, <1>5 DEF InBrackets

LEMMA LiteralValue ==
  ASSUME NEW t, NEW i, NEW p, NEW read, NEW w \in Literals, CodeAt(t, i) = w[1], LiteralsAt(t, i) = {w}
  PROVE  Gives(JsValue(read, p, t, i), <<"atom", w>>, i + Len(w))
<1>1. CodeAt(t, i) \notin {34, 123, 91}
  BY LiteralIs
<1>2. JsValue(read, p, t, i) = {<<<<"atom", x>>, i + Len(x)>> : x \in LiteralsAt(t, i)}
  BY <1>1 DEF JsValue, LiteralsAt
<1> QED BY <1>2 DEF Gives

LEMMA StringValue ==
  ASSUME NEW t, NEW i, NEW p, NEW read, NEW s, NEW z, CodeAt(t, i) = 34, Gives(JsString(p, t, i), s, z)
  PROVE  Gives(JsValue(read, p, t, i), AtomOf(p, s), z)
<1>1. JsValue(read, p, t, i) = {<<AtomOf(p, string[1]), string[2]>> : string \in JsString(p, t, i)}
  BY DEF JsValue
<1>2. PICK r : r = <<s, z>>
  OBVIOUS
<1>3. JsString(p, t, i) = {r} /\ r[1] = s /\ r[2] = z
  BY <1>2 DEF Gives
<1>4. JsValue(read, p, t, i) = {<<AtomOf(p, r[1]), r[2]>>}
  BY <1>1, <1>3
<1> QED BY <1>3, <1>4 DEF Gives

LEMMA NumberValue ==
  ASSUME NEW t \in Json, NEW i \in Places(t), NEW p, NEW read, CodeAt(t, i) \in {45} \cup (48..57)
  PROVE  JsValue(read, p, t, i) = JsNumber(p, t, i)
<1>1. CodeAt(t, i) \notin {34, 123, 91}
  OBVIOUS
<1>2. LiteralsAt(t, i) = {}
  <2>1. ASSUME NEW w \in LiteralsAt(t, i) PROVE FALSE
    <3>1. w[1] \in {45} \cup (48..57) /\ w \in Literals
      BY LiteralFirst
    <3> QED BY <3>1, LiteralIs
  <2> QED BY <2>1
<1> QED BY <1>1, <1>2 DEF JsValue, LiteralsAt

\* The strings that are denoted are read.
LEMMA StringComplete ==
  ASSUME NEW t \in Json, NEW p \in Prologs, NEW i \in Places(t), NEW j \in 0..Len(t),
         NEW s \in StringsOf(p, t, i, j)
  PROVE  CodeAt(t, i) = 34 /\ i < j /\ Gives(JsString(p, t, i), s, j + 1)
<1>1. i < j /\ t[i] = 34
  BY StringsStart
<1>2. i \in 1..Len(t) /\ j \in 1..Len(t) /\ i \in Nat \ {0} /\ i <= Len(t)
  BY <1>1, PlacesAre
<1>3. CodeAt(t, i) = 34
  BY <1>1, <1>2, CodeIs
<1>4. <<s, j + 1>> \in JsString(p, t, i)
  BY <1>2, StringsAreDenoted
<1>5. JsString(p, t, i) = {<<s, j + 1>>}
  BY <1>4, StringOnly
<1> QED BY <1>1, <1>3, <1>5 DEF Gives

LEMMA ValueComplete ==
  ASSUME NEW t \in Json, NEW p \in Prologs, NEW i \in Places(t), NEW j \in 0..Len(t), NEW denotes,
         denotes = Denoted(p, t), NEW read, CompleteAfter(denotes, read, t, i),
         NEW v \in ValuesOf(denotes, p, t, i, j), EndsValue(CodeAt(t, j + 1))
  PROVE  Gives(JsValue(read, p, t, i), v, j + 1)
<1>1. InValues(denotes, p, t, i, j, v)
  BY ValueIn
<1>2. ASSUME NEW kind \in {"list", "json"}, NEW left, NEW right, Brackets(kind, left, right),
             InBrackets(denotes, kind, left, right, t, i, j, v)
      PROVE  Gives(JsValue(read, p, t, i), v, j + 1)
  <2>1. i < j /\ t[i] = left
    BY <1>2 DEF InBrackets
  <2>2. i \in Nat \ {0} /\ i <= Len(t)
    BY <2>1, PlacesAre
  <2>3. CodeAt(t, i) = left
    BY <2>1, <2>2, CodeIs
  <2>4. JsValue(read, p, t, i) = JsBrackets(read, kind, right, t, i)
    BY <1>2, <2>3, BracketsAre
  <2>5. right \in {93, 125}
    BY <1>2 DEF Brackets
  <2>6. Gives(JsBrackets(read, kind, right, t, i), v, j + 1)
    BY <1>2, <2>5, BracketsComplete
  <2> QED BY <2>4, <2>6
<1>3. CASE InBrackets(denotes, "json", 123, 125, t, i, j, v)
  <2>1. Brackets("json", 123, 125)
    BY DEF Brackets
  <2> QED BY <1>2, <1>3, <2>1
<1>4. CASE InBrackets(denotes, "list", 91, 93, t, i, j, v)
  <2>1. Brackets("list", 91, 93)
    BY DEF Brackets
  <2> QED BY <1>2, <1>4, <2>1
<1>5. ASSUME NEW w \in Literals, w = SubSeq(t, i, j), v = <<"atom", w>>
      PROVE  Gives(JsValue(read, p, t, i), v, j + 1)
  <2>1. CodeAt(t, i) = w[1] /\ LiteralsAt(t, i) = {w} /\ i + Len(w) = j + 1
    BY <1>5, LiteralStands
  <2> QED BY <1>5, <2>1, LiteralValue
<1>6. ASSUME NEW s \in StringsOf(p, t, i, j), v = AtomOf(p, s)
      PROVE  Gives(JsValue(read, p, t, i), v, j + 1)
  <2>1. CodeAt(t, i) = 34 /\ Gives(JsString(p, t, i), s, j + 1)
    BY StringComplete
  <2> QED BY <1>6, <2>1, StringValue
<1>7. ASSUME v \in NumbersOf(p, t, i, j)
      PROVE  Gives(JsValue(read, p, t, i), v, j + 1)
  <2>1. i \in 1..Len(t)
    BY ValueStarts
  <2>2. CodeAt(t, i) \in {45} \cup (48..57)
    <3>1. PICK a \in i..j : \E b \in a..j : IsNumber(t, i, a, b, j)
      BY <1>7, NumbersOfAre
    <3>2. a \in 0..Len(t) /\ Digits(t, Unsigned(t, i, {45}), a)
      BY <2>1, <3>1, PlacesAre DEF IsNumber
    <3>3. t[i] \in {45} \cup (48..57)
      BY <2>1, <3>2, NumberStarts
    <3>4. i \in Nat \ {0} /\ i <= Len(t)
      BY <2>1, PlacesAre
    <3> QED BY <3>3, <3>4, CodeIs
  <2>3. EndsNumber(CodeAt(t, j + 1))
    <3>1. PICK c \in {32, 9, 10, 13, 44, 93, 125, -1} : c = CodeAt(t, j + 1)
      BY DEF EndsValue
    <3>2. EndsNumber(c)
      BY DEF EndsNumber
    <3> QED BY <3>1, <3>2
  <2>4. JsNumber(p, t, i) = {<<v, j + 1>>}
    BY <1>7, <2>1, <2>3, NumbersOnly
  <2>5. JsValue(read, p, t, i) = JsNumber(p, t, i)
    BY <2>2, NumberValue
  <2> QED BY <2>4, <2>5 DEF Gives
<1> QED BY <1>1, <1>3, <1>4, <1>5, <1>6, <1>7, Zenon DEF InValues

LEMMA PairOnly ==
  ASSUME NEW t, NEW i, NEW p, NEW read, NEW s, NEW e, Gives(JsString(p, t, i), s, e),
         NEW c, SkipWs(t, e) = c, CodeAt(t, c) = 58,
         NEW b, SkipWs(t, c + 1) = b, NEW v, NEW z, Gives(read[b]["value"], v, z)
  PROVE  Gives(JsPair(read, p, t, i), <<s, v>>, z)
<1>1. PICK one : one = <<s, e>>
  OBVIOUS
<1>2. one[1] = s /\ one[2] = e
  BY <1>1
<1>3. {r \in JsString(p, t, i) : CodeAt(t, SkipWs(t, r[2])) = 58} = {one}
  BY <1>1, <1>2 DEF Gives
<1>4. JsPair(read, p, t, i) =
        UNION {{<<<<r[1], x[1]>>, x[2]>> : x \in read[SkipWs(t, SkipWs(t, r[2]) + 1)]["value"]} :
                 r \in {one}}
  BY <1>3, Zenon DEF JsPair
<1>5. JsPair(read, p, t, i) = {<<<<s, x[1]>>, x[2]>> : x \in read[b]["value"]}
  BY <1>2, <1>4
<1>6. PICK last : last = <<v, z>>
  OBVIOUS
<1>7. last[1] = v /\ last[2] = z
  BY <1>6
<1>8. JsPair(read, p, t, i) = {<<<<s, x[1]>>, x[2]>> : x \in {last}}
  BY <1>5, <1>6 DEF Gives
<1> QED BY <1>7, <1>8 DEF Gives

LEMMA PairComplete ==
  ASSUME NEW t \in Json, NEW p \in Prologs, NEW i \in Places(t), NEW j \in 0..Len(t), NEW denotes,
         denotes = Denoted(p, t), NEW read, CompleteAfter(denotes, read, t, i),
         NEW pair \in PairsOf(denotes, p, t, i, j), EndsValue(CodeAt(t, j + 1))
  PROVE  Gives(JsPair(read, p, t, i), pair, j + 1)
<1>1. InPairs(denotes, p, t, i, j, pair)
  BY PairIn
<1>2. PICK a \in i..j : \E b \in (a + 1)..j :
        Parted(t, a, b, 58) /\ \E s \in StringsOf(p, t, i, a) : \E v \in denotes[b]["value"][j] : pair = <<s, v>>
  BY <1>1, Zenon DEF InPairs
<1>3. PICK b \in (a + 1)..j :
        Parted(t, a, b, 58) /\ \E s \in StringsOf(p, t, i, a) : \E v \in denotes[b]["value"][j] : pair = <<s, v>>
  BY <1>2, Zenon
<1>4. PICK s \in StringsOf(p, t, i, a) : \E v \in denotes[b]["value"][j] : pair = <<s, v>>
  BY <1>3
<1>5. PICK v \in denotes[b]["value"][j] : pair = <<s, v>>
  BY <1>4
<1>6. a \in 0..Len(t) /\ a \in Nat /\ b \in 1..Len(t) /\ b \in Places(t) /\ b > i
  <2>1. PICK n \in Nat : n = Len(t) /\ Places(t) = 1..(n + 1) /\ i \in 1..(n + 1) /\ j \in 0..n
    BY TextIs DEF Places
  <2> QED BY <1>2, <1>3, <2>1
<1>7. Gives(JsString(p, t, i), s, a + 1)
  BY <1>6, StringComplete
<1>8. CodeAt(t, b) \notin Blank
  <2>1. StartsValue(CodeAt(t, b))
    BY <1>5, <1>6, DenotedStarts DEF Kinds
  <2> QED BY <2>1 DEF StartsValue, Blank
<1>9. CodeAt(t, SkipWs(t, a + 1)) = 58 /\ SkipWs(t, SkipWs(t, a + 1) + 1) = b
  <2>1. 58 \in Nat \ Blank
    BY DEF Blank
  <2> QED BY <1>3, <1>6, <1>8, <2>1, PartedSkips
<1>10. Gives(read[b]["value"], v, j + 1)
  BY <1>5, <1>6 DEF CompleteAfter, CompleteAt
<1>11. Gives(JsPair(read, p, t, i), <<s, v>>, j + 1)
  BY <1>7, <1>9, <1>10, PairOnly
<1> QED BY <1>5, <1>11

LEMMA OneComplete ==
  ASSUME NEW t \in Json, NEW p \in Prologs, NEW i \in Places(t), NEW j \in 0..Len(t), NEW denotes,
         denotes = Denoted(p, t), NEW read, CompleteAfter(denotes, read, t, i), NEW kind,
         NEW one \in OneOf(denotes, kind, p, t, i, j), EndsValue(CodeAt(t, j + 1))
  PROVE  Gives(JsItem(read, kind, p, t, i), one, j + 1)
<1>1. CASE kind = "json"
  <2>1. one \in PairsOf(denotes, p, t, i, j)
    BY <1>1 DEF OneOf
  <2>2. Gives(JsPair(read, p, t, i), one, j + 1)
    BY <2>1, PairComplete
  <2> QED BY <1>1, <2>2 DEF JsItem
<1>2. CASE kind # "json"
  <2>1. one \in ValuesOf(denotes, p, t, i, j)
    BY <1>2 DEF OneOf
  <2>2. Gives(JsValue(read, p, t, i), one, j + 1)
    BY <2>1, ValueComplete
  <2> QED BY <1>2, <2>2 DEF JsItem
<1> QED BY <1>1, <1>2

LEMMA LastOnly ==
  ASSUME NEW t, NEW i, NEW p, NEW read, NEW kind, NEW one, NEW e, Gives(JsItem(read, kind, p, t, i), one, e),
         NEW z, SkipWs(t, e) = z, CodeAt(t, z) # 44
  PROVE  Gives(JsItems(read, kind, p, t, i), <<one>>, z)
<1>1. PICK r : r = <<one, e>>
  OBVIOUS
<1>2. r[1] = one /\ r[2] = e
  BY <1>1
<1>3. JsItems(read, kind, p, t, i) = UNION {JsMore(read, kind, t, x) : x \in {r}}
  BY <1>1 DEF JsItems, Gives
<1>4. JsItems(read, kind, p, t, i) = JsMore(read, kind, t, r)
  BY <1>3
<1>5. JsMore(read, kind, t, r) = {<<<<r[1]>>, z>>}
  BY <1>2 DEF JsMore
<1> QED BY <1>2, <1>4, <1>5 DEF Gives

LEMMA NextOnly ==
  ASSUME NEW t, NEW i, NEW p, NEW read, NEW kind, NEW one, NEW e, Gives(JsItem(read, kind, p, t, i), one, e),
         NEW c, SkipWs(t, e) = c, CodeAt(t, c) = 44,
         NEW b, SkipWs(t, c + 1) = b, NEW rest, NEW z, Gives(read[b][kind], rest, z)
  PROVE  Gives(JsItems(read, kind, p, t, i), <<one>> \o rest, z)
<1>1. PICK r : r = <<one, e>>
  OBVIOUS
<1>2. r[1] = one /\ r[2] = e
  BY <1>1
<1>3. JsItems(read, kind, p, t, i) = UNION {JsMore(read, kind, t, x) : x \in {r}}
  BY <1>1 DEF JsItems, Gives
<1>4. JsItems(read, kind, p, t, i) = JsMore(read, kind, t, r)
  BY <1>3
<1>5. JsMore(read, kind, t, r) = {<<<<r[1]>> \o x[1], x[2]>> : x \in read[b][kind]}
  BY <1>2, Zenon DEF JsMore
<1>6. PICK last : last = <<rest, z>>
  OBVIOUS
<1>7. last[1] = rest /\ last[2] = z
  BY <1>6
<1>8. JsMore(read, kind, t, r) = {<<<<one>> \o x[1], x[2]>> : x \in {last}}
  BY <1>2, <1>5, <1>6, Zenon DEF Gives
<1>9. JsMore(read, kind, t, r) = {<<<<one>> \o rest, z>>}
  BY <1>7, <1>8
<1> QED BY <1>4, <1>9 DEF Gives

LEMMA SeveralComplete ==
  ASSUME NEW t \in Json, NEW p \in Prologs, NEW i \in Places(t), NEW j \in 0..Len(t), NEW denotes,
         denotes = Denoted(p, t), NEW read, CompleteAfter(denotes, read, t, i), NEW kind \in {"list", "json"},
         NEW r \in SeveralOf(denotes, kind, p, t, i, j), CodeAt(t, j + 1) \in {93, 125}
  PROVE  Gives(JsItems(read, kind, p, t, i), r, j + 1)
<1>1. InSeveral(denotes, kind, p, t, i, j, r)
  BY SeveralIn
<1>2. PICK a \in i..j : \E one \in OneOf(denotes, kind, p, t, i, a) :
        \/ White(t, a + 1, j) /\ r = <<one>>
        \/ \E b \in (a + 1)..j : Parted(t, a, b, 44) /\ \E rest \in denotes[b][kind][j] : r = <<one>> \o rest
  BY <1>1, Zenon DEF InSeveral
<1>3. PICK one \in OneOf(denotes, kind, p, t, i, a) :
        \/ White(t, a + 1, j) /\ r = <<one>>
        \/ \E b \in (a + 1)..j : Parted(t, a, b, 44) /\ \E rest \in denotes[b][kind][j] : r = <<one>> \o rest
  BY <1>2, Zenon
<1>4. PICK n \in Nat : n = Len(t) /\ Places(t) = 1..(n + 1) /\ i \in 1..(n + 1) /\ j \in 0..n
  BY TextIs DEF Places
<1>5. a \in 0..Len(t) /\ a \in Nat
  BY <1>2, <1>4
<1>6. CASE White(t, a + 1, j) /\ r = <<one>>
  <2>1. j + 1 \in Places(t) /\ a + 1 \in Nat \ {0} /\ a + 1 <= j + 1 /\ (j + 1) - 1 = j
    BY <1>2, <1>4
  <2>2. CodeAt(t, j + 1) \notin Blank
    BY DEF Blank
  <2>3. SkipWs(t, a + 1) = j + 1
    <3>1. White(t, a + 1, (j + 1) - 1)
      BY <1>6, <2>1
    <3> QED BY <2>1, <2>2, <3>1, SkipOver
  <2>4. EndsValue(CodeAt(t, a + 1))
    <3>1. CASE a = j
      BY <3>1 DEF EndsValue
    <3>2. CASE a # j
      <4>1. a + 1 \in (a + 1)..j /\ a + 1 <= Len(t)
        BY <1>2, <1>4, <3>2
      <4>2. CodeAt(t, a + 1) = t[a + 1]
        BY <2>1, <4>1, CodeIs
      <4> QED BY <1>6, <4>1, <4>2 DEF White, EndsValue
    <3> QED BY <3>1, <3>2
  <2>5. Gives(JsItem(read, kind, p, t, i), one, a + 1)
    BY <1>5, <2>4, OneComplete
  <2>6. Gives(JsItems(read, kind, p, t, i), <<one>>, j + 1)
    <3>1. CodeAt(t, j + 1) # 44
      OBVIOUS
    <3> QED BY <2>3, <2>5, <3>1, LastOnly
  <2> QED BY <1>6, <2>6
<1>7. CASE \E b \in (a + 1)..j : Parted(t, a, b, 44) /\ \E rest \in denotes[b][kind][j] : r = <<one>> \o rest
  <2>1. PICK b \in (a + 1)..j : Parted(t, a, b, 44) /\ \E rest \in denotes[b][kind][j] : r = <<one>> \o rest
    BY <1>7, Zenon
  <2>2. PICK rest \in denotes[b][kind][j] : r = <<one>> \o rest
    BY <2>1
  <2>3. b \in 1..Len(t) /\ b \in Places(t) /\ b > i
    BY <1>2, <1>4, <2>1
  <2>4. CodeAt(t, b) \notin Blank
    <3>1. StartsValue(CodeAt(t, b))
      BY <2>2, <2>3, DenotedStarts DEF Kinds
    <3> QED BY <3>1 DEF StartsValue, Blank
  <2>5. CodeAt(t, a + 1) \in Blank \cup {44} /\ CodeAt(t, SkipWs(t, a + 1)) = 44
        /\ SkipWs(t, SkipWs(t, a + 1) + 1) = b
    <3>1. 44 \in Nat \ Blank
      BY DEF Blank
    <3> QED BY <1>5, <2>1, <2>3, <2>4, <3>1, PartedSkips
  <2>6. Gives(JsItem(read, kind, p, t, i), one, a + 1)
    <3>1. EndsValue(CodeAt(t, a + 1))
      BY <2>5 DEF EndsValue, Blank
    <3> QED BY <1>5, <3>1, OneComplete
  <2>7. Gives(read[b][kind], rest, j + 1)
    BY <2>2, <2>3 DEF CompleteAfter, CompleteAt
  <2>8. Gives(JsItems(read, kind, p, t, i), <<one>> \o rest, j + 1)
    BY <2>5, <2>6, <2>7, NextOnly
  <2> QED BY <2>2, <2>8
<1> QED BY <1>3, <1>6, <1>7

LEMMA Complete ==
  ASSUME NEW t \in Json, NEW p \in Prologs
  PROVE  \A i \in Places(t) : CompleteAt(Denoted(p, t), JsRead(p, t), t, i)
<1> DEFINE T == {i \in Places(t) : CompleteAt(Denoted(p, t), JsRead(p, t), t, i)}
<1>1. ASSUME NEW i \in Places(t), \A j \in Places(t) : j > i => j \in T
      PROVE  i \in T
  <2>1. PICK denotes : denotes = Denoted(p, t)
    OBVIOUS
  <2>2. PICK read : read = JsRead(p, t)
    OBVIOUS
  <2>3. CompleteAfter(denotes, read, t, i)
    BY <1>1, <2>1, <2>2 DEF CompleteAfter
  <2>4. ASSUME NEW j \in 0..Len(t), EndsValue(CodeAt(t, j + 1)), NEW v \in denotes[i]["value"][j]
        PROVE  Gives(read[i]["value"], v, j + 1)
    <3>1. v \in ValuesOf(denotes, p, t, i, j)
      BY <2>1, <2>4, DenotedIs
    <3>2. Gives(JsValue(read, p, t, i), v, j + 1)
      BY <2>1, <2>3, <2>4, <3>1, ValueComplete
    <3>3. read[i]["value"] = JsValue(read, p, t, i)
      BY <2>2, ReadIs
    <3> QED BY <3>2, <3>3
  <2>5. ASSUME NEW kind \in {"list", "json"}, NEW j \in 0..Len(t), CodeAt(t, j + 1) \in {93, 125},
               NEW v \in denotes[i][kind][j]
        PROVE  Gives(read[i][kind], v, j + 1)
    <3>1. v \in SeveralOf(denotes, kind, p, t, i, j)
      BY <2>1, <2>5, DenotedIs
    <3>2. Gives(JsItems(read, kind, p, t, i), v, j + 1)
      BY <2>1, <2>3, <2>5, <3>1, SeveralComplete
    <3>3. read[i][kind] = JsItems(read, kind, p, t, i)
      BY <2>2, ReadIs
    <3> QED BY <3>2, <3>3
  <2>6. CompleteAt(denotes, read, t, i)
    BY <2>4, <2>5 DEF CompleteAt
  <2> QED BY <2>1, <2>2, <2>6
<1>2. PICK n \in Nat : Places(t) = 1..n
  <2>1. PICK m \in Nat : m = Len(t)
    BY TextIs
  <2> QED BY <2>1 DEF Places
<1> HIDE DEF T
<1>3. \A i \in 1..n : i \in T
  <2>1. \A i \in 1..n : (\A j \in 1..n : j > i => j \in T) => i \in T
    BY <1>1, <1>2
  <2> QED BY <2>1, Backwards
<1> QED BY <1>2, <1>3 DEF T

(***************************************************************************)
(* What is read is denoted.                                                *)
(***************************************************************************)
ReadTo(t, i, r, j) == j \in i..Len(t) /\ j \in 0..Len(t) /\ r = <<r[1], r[2]>> /\ r[2] = j + 1

SoundAt(denotes, read, t, i) ==
  \A kind \in Kinds : \A r \in read[i][kind] : \E j : ReadTo(t, i, r, j) /\ r[1] \in denotes[i][kind][j]
SoundAfter(denotes, read, t, i) == \A k \in Places(t) : k > i => SoundAt(denotes, read, t, k)

LEMMA ReadToIs ==
  ASSUME NEW t \in Json, NEW i \in Places(t), NEW r, NEW j, ReadTo(t, i, r, j)
  PROVE  /\ i \in 1..Len(t) /\ j \in 1..Len(t) /\ j \in Nat /\ i <= j
         /\ r[2] \in Places(t) /\ j + 1 \in Places(t) /\ r[2] = j + 1
<1>1. PICK n \in Nat : n = Len(t) /\ Places(t) = 1..(n + 1) /\ i \in 1..(n + 1)
  BY TextIs DEF Places
<1> QED BY <1>1 DEF ReadTo

LEMMA PairReadTo ==
  ASSUME NEW t \in Json, NEW i \in Places(t), NEW j \in Nat, i <= j, j <= Len(t), NEW x
  PROVE  ReadTo(t, i, <<x, j + 1>>, j)
<1>1. i \in Nat \ {0} /\ Len(t) \in Nat
  BY PlacesAre
<1> QED BY <1>1 DEF ReadTo

LEMMA StringSound ==
  ASSUME NEW t \in Json, NEW p \in Prologs, NEW i \in Places(t), NEW s \in JsString(p, t, i)
  PROVE  \E j : ReadTo(t, i, s, j) /\ s[1] \in StringsOf(p, t, i, j)
<1>1. s = <<s[1], s[2]>> /\ s[2] \in Places(t) /\ s[2] > i
  BY JsStringIs DEF IsRead
<1>2. PICK n \in Nat : n = Len(t) /\ Places(t) = 1..(n + 1) /\ i \in 1..(n + 1) /\ s[2] \in 1..(n + 1)
  BY <1>1, TextIs DEF Places
<1>3. PICK j \in Nat : s[2] = j + 1 /\ i <= j /\ j \in 1..Len(t) /\ i \in 1..Len(t) /\ j \in 0..Len(t) /\ j \in i..Len(t)
  <2>1. PICK j \in Nat : j = s[2] - 1
    BY <1>2
  <2>2. s[2] = j + 1 /\ i <= j /\ j \in 1..n /\ i \in 1..n /\ j \in i..n
    BY <1>1, <1>2, <2>1
  <2> QED BY <1>2, <2>2
<1>4. <<s[1], j + 1>> \in JsString(p, t, i)
  BY <1>1, <1>3
<1>5. s[1] \in StringsOf(p, t, i, j)
  BY <1>3, <1>4, StringsAreDenoted
<1>6. ReadTo(t, i, s, j)
  BY <1>1, <1>3 DEF ReadTo
<1> QED BY <1>5, <1>6

LEMMA NumberSound ==
  ASSUME NEW t \in Json, NEW p, NEW i \in Places(t), NEW v \in JsNumber(p, t, i)
  PROVE  \E j : ReadTo(t, i, v, j) /\ v[1] \in NumbersOf(p, t, i, j)
<1>1. v = <<v[1], v[2]>> /\ v[2] - 1 \in i..Len(t) /\ v[1] \in NumbersOf(p, t, i, v[2] - 1)
  BY NumbersAreDenoted
<1>2. IsRead(t, i, LeavesIn(p), v)
  BY JsNumberIs
<1>3. v[2] \in Nat
  <2>1. v[2] \in Places(t)
    BY <1>2 DEF IsRead
  <2> QED BY <2>1, PlacesAre
<1>4. i \in Nat \ {0} /\ Len(t) \in Nat
  BY PlacesAre
<1>5. PICK j : j = v[2] - 1 /\ v[2] = j + 1 /\ j \in i..Len(t) /\ j \in 0..Len(t)
  BY <1>1, <1>3, <1>4
<1>6. ReadTo(t, i, v, j)
  BY <1>1, <1>5 DEF ReadTo
<1> QED BY <1>1, <1>5, <1>6

LEMMA BracketsSound ==
  ASSUME NEW t \in Json, NEW i \in Places(t), NEW denotes, NEW read, SoundAfter(denotes, read, t, i),
         NEW kind \in {"list", "json"}, NEW left \in Nat, NEW right \in Nat, CodeAt(t, i) = left,
         NEW v \in JsBrackets(read, kind, right, t, i)
  PROVE  \E j : ReadTo(t, i, v, j) /\ InBrackets(denotes, kind, left, right, t, i, j, v[1])
<1>1. i + 1 \in Places(t) /\ i \in Nat \ {0} /\ Len(t) \in Nat /\ i <= Len(t) /\ t[i] = left
  <2>1. i + 1 \in Places(t) /\ i \in Nat \ {0} /\ Len(t) \in Nat
    BY NextPlace, PlacesAre
  <2>2. i <= Len(t)
    BY <2>1 DEF Places
  <2> QED BY <2>1, <2>2, CodeIs
<1>2. PICK first \in Places(t) : first = SkipWs(t, i + 1) /\ first >= i + 1 /\ White(t, i + 1, first - 1)
  BY <1>1, SkippedIs
<1>3. first \in Nat \ {0} /\ first > i /\ first <= Len(t) + 1
  BY <1>1, <1>2, PlacesAre
<1>4. CASE CodeAt(t, first) = right
  <2>1. v = <<<<kind, <<>>>>, first + 1>>
    BY <1>2, <1>4 DEF JsBrackets
  <2>2. first <= Len(t) /\ t[first] = right
    BY <1>3, <1>4, CodeIs
  <2>3. ReadTo(t, i, <<<<kind, <<>>>>, first + 1>>, first)
    BY <1>3, <2>2, <1>1, PairReadTo
  <2>4. InBrackets(denotes, kind, left, right, t, i, first, <<kind, <<>>>>)
    BY <1>1, <1>2, <1>3, <2>2 DEF InBrackets
  <2> QED BY <2>1, <2>3, <2>4
<1>5. CASE CodeAt(t, first) # right
  <2>1. PICK items \in read[first][kind] : CodeAt(t, items[2]) = right /\ v = <<<<kind, items[1]>>, items[2] + 1>>
    BY <1>2, <1>5 DEF JsBrackets
  <2>2. PICK m : ReadTo(t, first, items, m) /\ items[1] \in denotes[first][kind][m]
    BY <1>3 DEF SoundAfter, SoundAt, Kinds
  <2>3. m \in 1..Len(t) /\ first <= m /\ items[2] = m + 1 /\ m \in Nat
    BY <2>2, ReadToIs
  <2>4. PICK j \in Nat : j = m + 1 /\ j - 1 = m
    BY <2>3
  <2>5. j <= Len(t) /\ t[j] = right
    BY <2>1, <2>3, <2>4, CodeIs
  <2>6. i < j /\ first \in (i + 1)..(j - 1)
    BY <1>1, <1>2, <1>3, <2>3, <2>4
  <2>7. InBrackets(denotes, kind, left, right, t, i, j, <<kind, items[1]>>)
    <3>1. items[1] \in denotes[first][kind][j - 1]
      BY <2>2, <2>4
    <3> QED BY <1>1, <1>2, <2>5, <2>6, <3>1 DEF InBrackets
  <2>8. ReadTo(t, i, <<<<kind, items[1]>>, j + 1>>, j)
    BY <2>5, <2>6, <1>1, PairReadTo
  <2>9. v = <<<<kind, items[1]>>, j + 1>>
    BY <2>1, <2>3, <2>4
  <2> QED BY <2>7, <2>8, <2>9
<1> QED BY <1>4, <1>5

LEMMA LiteralSound ==
  ASSUME NEW t \in Json, NEW i \in Places(t), NEW w \in LiteralsAt(t, i)
  PROVE  \E j \in Nat : i <= j /\ j <= Len(t) /\ j + 1 = i + Len(w) /\ w \in Literals /\ SubSeq(t, i, j) = w
<1>1. w \in Literals
  BY LiteralFirst
<1>2. w \in Json /\ Len(w) \in {4, 5}
  BY <1>1, LiteralIs
<1>3. i \in Nat \ {0} /\ Len(t) \in Nat
  BY PlacesAre
<1>4. PICK l \in {4, 5} : l = Len(w) /\ DOMAIN w = 1..l /\ \A k \in 1..l : w[k] \in Nat
  <2>1. \A k \in 1..Len(w) : w[k] \in Nat
    BY <1>2, TextIs
  <2>2. DOMAIN w = 1..Len(w)
    BY <1>2 DEF Json
  <2> QED BY <1>2, <2>1, <2>2
<1>5. \A k \in 1..l : CodeAt(t, i + k - 1) = w[k]
  BY <1>4 DEF LiteralsAt
<1>6. \A k \in 1..l : i + k - 1 \in Nat \ {0} /\ i + k - 1 <= Len(t) /\ t[i + k - 1] = w[k]
  <2> SUFFICES ASSUME NEW k \in 1..l
               PROVE  i + k - 1 \in Nat \ {0} /\ i + k - 1 <= Len(t) /\ t[i + k - 1] = w[k]
    OBVIOUS
  <2>1. PICK q \in Nat \ {0} : q = i + k - 1
    BY <1>3
  <2>2. CodeAt(t, q) = w[k] /\ w[k] \in Nat
    BY <1>4, <1>5, <2>1
  <2>3. q <= Len(t) /\ t[q] = w[k]
    BY <2>2, CodeIs
  <2> QED BY <2>1, <2>3
<1>7. PICK j \in Nat : j = i + l - 1
  BY <1>3
<1>8. l \in 1..l
  OBVIOUS
<1>9. i <= j /\ j <= Len(t) /\ j + 1 = i + l /\ i + l <= Len(t) + 1
  <2>1. i + l - 1 <= Len(t)
    BY <1>6, <1>8
  <2> QED BY <1>3, <1>7, <2>1
<1>10. Stands(t, i, w)
  BY <1>4, <1>6, <1>9 DEF Stands
<1>11. SubSeq(t, i, i + Len(w) - 1) = w
  BY <1>2, <1>10, StandsPiece
<1> QED BY <1>1, <1>4, <1>7, <1>9, <1>11

LEMMA ValueSound ==
  ASSUME NEW t \in Json, NEW p \in Prologs, NEW i \in Places(t), NEW denotes, NEW read,
         SoundAfter(denotes, read, t, i), NEW v \in JsValue(read, p, t, i)
  PROVE  \E j : ReadTo(t, i, v, j) /\ v[1] \in ValuesOf(denotes, p, t, i, j)
<1> SUFFICES \E j : ReadTo(t, i, v, j) /\ InValues(denotes, p, t, i, j, v[1])
  BY ValueIn
<1>1. \/ CodeAt(t, i) = 34 /\ \E s \in JsString(p, t, i) : v = <<AtomOf(p, s[1]), s[2]>>
      \/ CodeAt(t, i) = 123 /\ v \in JsBrackets(read, "json", 125, t, i)
      \/ CodeAt(t, i) = 91 /\ v \in JsBrackets(read, "list", 93, t, i)
      \/ \E w \in LiteralsAt(t, i) : v = <<<<"atom", w>>, i + Len(w)>>
      \/ v \in JsNumber(p, t, i)
  BY DEF JsValue, LiteralsAt
<1>2. ASSUME NEW s \in JsString(p, t, i), v = <<AtomOf(p, s[1]), s[2]>>
      PROVE  \E j : ReadTo(t, i, v, j) /\ InValues(denotes, p, t, i, j, v[1])
  <2>1. PICK j : ReadTo(t, i, s, j) /\ s[1] \in StringsOf(p, t, i, j)
    BY StringSound
  <2>2. v[1] = AtomOf(p, s[1]) /\ v[2] = s[2] /\ v = <<v[1], v[2]>>
    BY <1>2
  <2>3. ReadTo(t, i, v, j)
    BY <2>1, <2>2 DEF ReadTo
  <2>4. InValues(denotes, p, t, i, j, v[1])
    BY <2>1, <2>2, Zenon DEF InValues
  <2> QED BY <2>3, <2>4
<1>3. CASE CodeAt(t, i) = 123 /\ v \in JsBrackets(read, "json", 125, t, i)
  <2>1. \E j : ReadTo(t, i, v, j) /\ InBrackets(denotes, "json", 123, 125, t, i, j, v[1])
    BY <1>3, BracketsSound
  <2> QED BY <2>1, Zenon DEF InValues
<1>4. CASE CodeAt(t, i) = 91 /\ v \in JsBrackets(read, "list", 93, t, i)
  <2>1. \E j : ReadTo(t, i, v, j) /\ InBrackets(denotes, "list", 91, 93, t, i, j, v[1])
    BY <1>4, BracketsSound
  <2> QED BY <2>1, Zenon DEF InValues
<1>5. ASSUME NEW w \in LiteralsAt(t, i), v = <<<<"atom", w>>, i + Len(w)>>
      PROVE  \E j : ReadTo(t, i, v, j) /\ InValues(denotes, p, t, i, j, v[1])
  <2>1. PICK j \in Nat : i <= j /\ j <= Len(t) /\ j + 1 = i + Len(w) /\ w \in Literals /\ SubSeq(t, i, j) = w
    BY LiteralSound
  <2>2. ReadTo(t, i, <<<<"atom", w>>, j + 1>>, j)
    BY <2>1, PairReadTo
  <2>3. v = <<<<"atom", w>>, j + 1>> /\ v[1] = <<"atom", w>>
    BY <1>5, <2>1
  <2>4. InValues(denotes, p, t, i, j, v[1])
    BY <2>1, <2>3, Zenon DEF InValues
  <2> QED BY <2>2, <2>3, <2>4
<1>6. ASSUME v \in JsNumber(p, t, i)
      PROVE  \E j : ReadTo(t, i, v, j) /\ InValues(denotes, p, t, i, j, v[1])
  <2>1. \E j : ReadTo(t, i, v, j) /\ v[1] \in NumbersOf(p, t, i, j)
    BY <1>6, NumberSound
  <2> QED BY <2>1, Zenon DEF InValues
<1>7. CASE \E s \in JsString(p, t, i) : v = <<AtomOf(p, s[1]), s[2]>>
  BY <1>2, <1>7, Zenon
<1>8. CASE \E w \in LiteralsAt(t, i) : v = <<<<"atom", w>>, i + Len(w)>>
  BY <1>5, <1>8, Zenon
<1> QED BY <1>1, <1>3, <1>4, <1>6, <1>7, <1>8, Zenon

LEMMA AfterCode ==
  ASSUME NEW t \in Json, NEW i \in Places(t), NEW a \in Nat, i <= a, a + 1 \in Places(t), NEW code \in Nat,
         CodeAt(t, SkipWs(t, a + 1)) = code
  PROVE  \E b \in Places(t) : b = SkipWs(t, SkipWs(t, a + 1) + 1) /\ b > i /\ b >= a + 1 /\ Parted(t, a, b, code)
<1>1. PICK k \in Places(t) : k = SkipWs(t, a + 1) /\ k >= a + 1
  BY SkipIs
<1>2. k \in Nat \ {0} /\ i \in Nat /\ Len(t) \in Nat
  BY PlacesAre
<1>3. k \in 1..Len(t) /\ CodeAt(t, k) = code
  BY <1>1, <1>2, CodeIs
<1>4. k + 1 \in Places(t) /\ SkipWs(t, k + 1) > a + 1 /\ Parted(t, a, SkipWs(t, k + 1), code)
  BY <1>1, <1>3, PartedIs
<1>5. PICK b \in Places(t) : b = SkipWs(t, k + 1) /\ b > a + 1
  BY <1>4, SkipIs
<1>6. b \in Nat
  BY PlacesAre
<1>7. b > i /\ b >= a + 1
  BY <1>2, <1>5, <1>6
<1> QED BY <1>1, <1>4, <1>5, <1>7

LEMMA PairSound ==
  ASSUME NEW t \in Json, NEW p \in Prologs, NEW i \in Places(t), NEW denotes, NEW read,
         SoundAfter(denotes, read, t, i), NEW one \in JsPair(read, p, t, i)
  PROVE  \E j : ReadTo(t, i, one, j) /\ one[1] \in PairsOf(denotes, p, t, i, j)
<1>1. PICK name \in JsString(p, t, i) :
        /\ CodeAt(t, SkipWs(t, name[2])) = 58
        /\ \E v \in read[SkipWs(t, SkipWs(t, name[2]) + 1)]["value"] : one = <<<<name[1], v[1]>>, v[2]>>
  BY DEF JsPair
<1>2. PICK a : ReadTo(t, i, name, a) /\ name[1] \in StringsOf(p, t, i, a)
  BY StringSound
<1>3. a \in Nat /\ i <= a /\ a + 1 \in Places(t) /\ name[2] = a + 1
  BY <1>2, ReadToIs
<1>4. PICK b \in Places(t) : b = SkipWs(t, SkipWs(t, a + 1) + 1) /\ b > i /\ b >= a + 1 /\ Parted(t, a, b, 58)
  BY <1>1, <1>3, AfterCode
<1>5. PICK v \in read[b]["value"] : one = <<<<name[1], v[1]>>, v[2]>>
  BY <1>1, <1>3, <1>4
<1>6. PICK j : ReadTo(t, b, v, j) /\ v[1] \in denotes[b]["value"][j]
  BY <1>4 DEF SoundAfter, SoundAt, Kinds
<1>7. j \in Nat /\ j <= Len(t) /\ b <= j /\ v[2] = j + 1 /\ i \in Nat /\ b \in Nat
  <2>1. j \in 1..Len(t) /\ b <= j /\ v[2] = j + 1 /\ j \in Nat
    BY <1>6, ReadToIs
  <2> QED BY <2>1, PlacesAre
<1>8. a \in i..j /\ b \in (a + 1)..j /\ i <= j
  BY <1>3, <1>4, <1>7, PlacesAre
<1>9. InPairs(denotes, p, t, i, j, <<name[1], v[1]>>)
  BY <1>2, <1>4, <1>6, <1>8, Zenon DEF InPairs
<1>10. one = <<<<name[1], v[1]>>, j + 1>> /\ one[1] = <<name[1], v[1]>>
  BY <1>5, <1>7
<1>11. ReadTo(t, i, <<<<name[1], v[1]>>, j + 1>>, j)
  BY <1>7, <1>8, PairReadTo
<1>12. one[1] \in PairsOf(denotes, p, t, i, j)
  <2>1. <<name[1], v[1]>> \in PairsOf(denotes, p, t, i, j)
    BY <1>9, PairIn
  <2> QED BY <1>10, <2>1
<1> QED BY <1>10, <1>11, <1>12

LEMMA OneSound ==
  ASSUME NEW t \in Json, NEW p \in Prologs, NEW i \in Places(t), NEW denotes, NEW read,
         SoundAfter(denotes, read, t, i), NEW kind, NEW one \in JsItem(read, kind, p, t, i)
  PROVE  \E j : ReadTo(t, i, one, j) /\ one[1] \in OneOf(denotes, kind, p, t, i, j)
<1>1. CASE kind = "json"
  <2>1. one \in JsPair(read, p, t, i)
    BY <1>1 DEF JsItem
  <2> QED BY <1>1, <2>1, PairSound DEF OneOf
<1>2. CASE kind # "json"
  <2>1. one \in JsValue(read, p, t, i)
    BY <1>2 DEF JsItem
  <2> QED BY <1>2, <2>1, ValueSound DEF OneOf
<1> QED BY <1>1, <1>2

LEMMA SeveralSound ==
  ASSUME NEW t \in Json, NEW p \in Prologs, NEW i \in Places(t), NEW denotes, NEW read,
         SoundAfter(denotes, read, t, i), NEW kind \in {"list", "json"}, NEW r \in JsItems(read, kind, p, t, i)
  PROVE  \E j : ReadTo(t, i, r, j) /\ r[1] \in SeveralOf(denotes, kind, p, t, i, j)
<1>1. PICK one \in JsItem(read, kind, p, t, i) : r \in JsMore(read, kind, t, one)
  BY DEF JsItems
<1>2. PICK a : ReadTo(t, i, one, a) /\ one[1] \in OneOf(denotes, kind, p, t, i, a)
  BY OneSound
<1>3. a \in Nat /\ i <= a /\ a + 1 \in Places(t) /\ one[2] = a + 1 /\ i \in Nat
  BY <1>2, ReadToIs, PlacesAre
<1>4. CASE CodeAt(t, SkipWs(t, a + 1)) # 44
  <2>1. PICK c \in Places(t) : c = SkipWs(t, a + 1) /\ c >= a + 1 /\ White(t, a + 1, c - 1)
    BY <1>3, SkippedIs
  <2>2. PICK j \in Nat : c = j + 1 /\ a <= j /\ j <= Len(t) /\ j = c - 1
    <3>1. c \in Nat \ {0} /\ c <= Len(t) + 1 /\ Len(t) \in Nat
      BY PlacesAre
    <3>2. c - 1 \in Nat /\ c = (c - 1) + 1 /\ a <= c - 1 /\ c - 1 <= Len(t)
      BY <1>3, <2>1, <3>1
    <3> QED BY <3>2
  <2>3. r = <<<<one[1]>>, j + 1>>
    BY <1>1, <1>3, <1>4, <2>1, <2>2 DEF JsMore
  <2>4. a \in i..j /\ i <= j
    BY <1>3, <2>2
  <2>5. White(t, a + 1, j)
    BY <2>1, <2>2
  <2>6. InSeveral(denotes, kind, p, t, i, j, <<one[1]>>)
    BY <1>2, <2>4, <2>5, Zenon DEF InSeveral
  <2>7. <<one[1]>> \in SeveralOf(denotes, kind, p, t, i, j)
    BY <2>6, SeveralIn
  <2>8. ReadTo(t, i, <<<<one[1]>>, j + 1>>, j)
    BY <2>2, <2>4, PairReadTo
  <2> QED BY <2>3, <2>7, <2>8
<1>5. CASE CodeAt(t, SkipWs(t, a + 1)) = 44
  <2>1. PICK b \in Places(t) : b = SkipWs(t, SkipWs(t, a + 1) + 1) /\ b > i /\ b >= a + 1 /\ Parted(t, a, b, 44)
    BY <1>3, <1>5, AfterCode
  <2>2. PICK rest \in read[b][kind] : r = <<<<one[1]>> \o rest[1], rest[2]>>
    BY <1>1, <1>3, <1>5, <2>1 DEF JsMore
  <2>3. PICK j : ReadTo(t, b, rest, j) /\ rest[1] \in denotes[b][kind][j]
    BY <2>1 DEF SoundAfter, SoundAt, Kinds
  <2>4. j \in Nat /\ j <= Len(t) /\ b <= j /\ rest[2] = j + 1 /\ b \in Nat
    <3>1. j \in 1..Len(t) /\ b <= j /\ rest[2] = j + 1 /\ j \in Nat
      BY <2>3, ReadToIs
    <3> QED BY <3>1, PlacesAre
  <2>5. a \in i..j /\ b \in (a + 1)..j /\ i <= j
    BY <1>3, <2>1, <2>4
  <2>6. PICK all : all = <<one[1]>> \o rest[1]
    OBVIOUS
  <2>7. InSeveral(denotes, kind, p, t, i, j, all)
    BY <1>2, <2>1, <2>3, <2>5, <2>6, Zenon DEF InSeveral
  <2>8. all \in SeveralOf(denotes, kind, p, t, i, j)
    BY <2>7, SeveralIn
  <2>9. ReadTo(t, i, <<all, j + 1>>, j)
    BY <2>4, <2>5, PairReadTo
  <2>10. r = <<all, j + 1>>
    BY <2>2, <2>4, <2>6
  <2> QED BY <2>8, <2>9, <2>10
<1> QED BY <1>4, <1>5

LEMMA Sound ==
  ASSUME NEW t \in Json, NEW p \in Prologs
  PROVE  \A i \in Places(t) : SoundAt(Denoted(p, t), JsRead(p, t), t, i)
<1> DEFINE T == {i \in Places(t) : SoundAt(Denoted(p, t), JsRead(p, t), t, i)}
<1>1. ASSUME NEW i \in Places(t), \A j \in Places(t) : j > i => j \in T
      PROVE  i \in T
  <2>1. PICK denotes : denotes = Denoted(p, t)
    OBVIOUS
  <2>2. PICK read : read = JsRead(p, t)
    OBVIOUS
  <2>3. SoundAfter(denotes, read, t, i)
    BY <1>1, <2>1, <2>2 DEF SoundAfter
  <2>4. ASSUME NEW r \in read[i]["value"]
        PROVE  \E j : ReadTo(t, i, r, j) /\ r[1] \in denotes[i]["value"][j]
    <3>1. r \in JsValue(read, p, t, i)
      BY <2>2, ReadIs
    <3>2. PICK j : ReadTo(t, i, r, j) /\ r[1] \in ValuesOf(denotes, p, t, i, j)
      BY <2>3, <3>1, ValueSound
    <3>3. j \in 0..Len(t)
      BY <3>2 DEF ReadTo
    <3>4. denotes[i]["value"][j] = ValuesOf(denotes, p, t, i, j)
      BY <2>1, <3>3, DenotedIs
    <3> QED BY <3>2, <3>4
  <2>5. ASSUME NEW kind \in {"list", "json"}, NEW r \in read[i][kind]
        PROVE  \E j : ReadTo(t, i, r, j) /\ r[1] \in denotes[i][kind][j]
    <3>1. r \in JsItems(read, kind, p, t, i)
      BY <2>2, ReadIs
    <3>2. PICK j : ReadTo(t, i, r, j) /\ r[1] \in SeveralOf(denotes, kind, p, t, i, j)
      BY <2>3, <3>1, SeveralSound
    <3>3. j \in 0..Len(t)
      BY <3>2 DEF ReadTo
    <3>4. denotes[i][kind][j] = SeveralOf(denotes, kind, p, t, i, j)
      BY <2>1, <3>3, DenotedIs
    <3> QED BY <3>2, <3>4
  <2>6. SoundAt(denotes, read, t, i)
    BY <2>4, <2>5 DEF SoundAt, Kinds
  <2> QED BY <2>1, <2>2, <2>6
<1>2. PICK n \in Nat : Places(t) = 1..n
  <2>1. PICK m \in Nat : m = Len(t)
    BY TextIs
  <2> QED BY <2>1 DEF Places
<1> HIDE DEF T
<1>3. \A i \in 1..n : i \in T
  <2>1. \A i \in 1..n : (\A j \in 1..n : j > i => j \in T) => i \in T
    BY <1>1, <1>2
  <2> QED BY <2>1, Backwards
<1> QED BY <1>2, <1>3 DEF T

(***************************************************************************)
(* What from_json/2 reads is what the text denotes.                        *)
(***************************************************************************)
DenotedWhole(p, t, i, j, d) ==
  White(t, 1, i - 1) /\ White(t, j + 1, Len(t)) /\ d \in Denoted(p, t)[i]["value"][j]

LEMMA DenotesIn ==
  ASSUME NEW p, NEW t, NEW d
  PROVE  d \in Denotes(p, t) <=> \E i \in 1..Len(t) : \E j \in i..Len(t) : DenotedWhole(p, t, i, j, d)
<1> DEFINE starts == {i \in 1..Len(t) : White(t, 1, i - 1)}
           ends(i) == {j \in i..Len(t) : White(t, j + 1, Len(t))}
           from(i) == UNION {Denoted(p, t)[i]["value"][j] : j \in ends(i)}
<1>1. Denotes(p, t) = UNION {from(i) : i \in starts}
  BY DEF Denotes
<1>2. ASSUME NEW i PROVE d \in from(i) <=> \E j \in ends(i) : d \in Denoted(p, t)[i]["value"][j]
  OBVIOUS
<1>3. ASSUME NEW i PROVE i \in starts <=> i \in 1..Len(t) /\ White(t, 1, i - 1)
  OBVIOUS
<1>4. ASSUME NEW i, NEW j PROVE j \in ends(i) <=> j \in i..Len(t) /\ White(t, j + 1, Len(t))
  OBVIOUS
<1> HIDE DEF starts, ends, from
<1>5. d \in Denotes(p, t) <=> \E i \in starts : d \in from(i)
  BY <1>1
<1> QED BY <1>2, <1>3, <1>4, <1>5, Zenon DEF DenotedWhole

LEMMA DenotedDecoded ==
  ASSUME NEW t \in Json, NEW p \in Prologs, NEW d \in Denotes(p, t)
  PROVE  Decode(p, t) = {d}
<1>1. PICK i \in 1..Len(t) : \E j \in i..Len(t) : DenotedWhole(p, t, i, j, d)
  BY DenotesIn
<1>2. PICK j \in i..Len(t) : DenotedWhole(p, t, i, j, d)
  BY <1>1
<1>3. PICK n \in Nat : n = Len(t) /\ Places(t) = 1..(n + 1)
  BY TextIs DEF Places
<1>4. /\ i \in Places(t) /\ 1 <= i /\ j \in 0..Len(t) /\ j + 1 \in Nat \ {0} /\ j + 1 \in Places(t)
      /\ j + 1 <= n + 1 /\ n + 1 \in Places(t) /\ n + 1 > n /\ n + 1 \in Nat \ {0} /\ (n + 1) - 1 = n
  BY <1>1, <1>2, <1>3
<1>5. SkipWs(t, 1) = i
  <2>1. StartsValue(CodeAt(t, i))
    BY <1>2, <1>4, DenotedStarts DEF DenotedWhole, Kinds
  <2>2. CodeAt(t, i) \notin Blank
    BY <2>1 DEF StartsValue, Blank
  <2> QED BY <1>2, <1>4, <2>2, SkipOver DEF DenotedWhole
<1>6. CodeAt(t, n + 1) = -1
  BY <1>3, <1>4, CodeIs
<1>7. SkipWs(t, j + 1) = n + 1
  <2>1. White(t, j + 1, (n + 1) - 1)
    BY <1>2, <1>3, <1>4 DEF DenotedWhole
  <2>2. CodeAt(t, n + 1) \notin Blank
    BY <1>6 DEF Blank
  <2> QED BY <1>4, <2>1, <2>2, SkipOver
<1>8. EndsValue(CodeAt(t, j + 1))
  <2>1. CASE j = n
    BY <1>6, <2>1 DEF EndsValue
  <2>2. CASE j # n
    <3>1. j + 1 \in (j + 1)..Len(t) /\ j + 1 <= Len(t)
      BY <1>3, <1>4, <2>2
    <3>2. CodeAt(t, j + 1) = t[j + 1]
      BY <1>4, <3>1, CodeIs
    <3> QED BY <1>2, <3>1, <3>2 DEF DenotedWhole, White, EndsValue
  <2> QED BY <2>1, <2>2
<1>9. Gives(JsRead(p, t)[i]["value"], d, j + 1)
  BY <1>2, <1>4, <1>8, Complete DEF CompleteAt, DenotedWhole
<1>10. PICK r : r = <<d, j + 1>>
  OBVIOUS
<1>11. r[1] = d /\ r[2] = j + 1
  BY <1>10
<1>12. SkipWs(t, r[2]) > Len(t)
  BY <1>3, <1>4, <1>7, <1>11
<1>13. Decode(p, t) = {x[1] : x \in {x \in {r} : SkipWs(t, x[2]) > Len(t)}}
  <2>1. Decode(p, t) =
          {x[1] : x \in {x \in JsRead(p, t)[SkipWs(t, 1)]["value"] : SkipWs(t, x[2]) > Len(t)}}
    BY Zenon DEF Decode
  <2>2. JsRead(p, t)[SkipWs(t, 1)]["value"] = {r}
    BY <1>5, <1>9, <1>10 DEF Gives
  <2> QED BY <2>1, <2>2, Zenon
<1> QED BY <1>11, <1>12, <1>13

LEMMA DecodedDenoted ==
  ASSUME NEW t \in Json, NEW p \in Prologs, NEW d \in Decode(p, t)
  PROVE  d \in Denotes(p, t)
<1>1. PICK n \in Nat : n = Len(t) /\ Places(t) = 1..(n + 1) /\ 1 \in Places(t)
  BY TextIs DEF Places
<1>2. PICK i \in Places(t) : i = SkipWs(t, 1) /\ White(t, 1, i - 1)
  BY <1>1, SkippedIs
<1>3. PICK v \in JsRead(p, t)[i]["value"] : SkipWs(t, v[2]) > Len(t) /\ d = v[1]
  BY <1>2 DEF Decode
<1>4. PICK j : ReadTo(t, i, v, j) /\ v[1] \in Denoted(p, t)[i]["value"][j]
  BY Sound DEF SoundAt, Kinds
<1>5. i \in 1..Len(t) /\ j \in i..Len(t) /\ j + 1 \in Places(t) /\ v[2] = j + 1
  BY <1>4, ReadToIs DEF ReadTo
<1>6. PICK z \in Places(t) : z = SkipWs(t, j + 1) /\ White(t, j + 1, z - 1) /\ z > Len(t)
  BY <1>3, <1>5, SkippedIs
<1>7. z - 1 = Len(t)
  BY <1>1, <1>6
<1>8. DenotedWhole(p, t, i, j, d)
  BY <1>2, <1>3, <1>4, <1>6, <1>7 DEF DenotedWhole
<1> QED BY <1>5, <1>8, DenotesIn

LEMMA DecodeExact ==
  ASSUME NEW t \in Json, NEW p \in Prologs
  PROVE  /\ Decode(p, t) = {} => Denotes(p, t) = {}
         /\ \A d \in Decode(p, t) : Denotes(p, t) = {d}
<1>1. ASSUME Decode(p, t) = {} PROVE Denotes(p, t) = {}
  <2>1. \A d \in Denotes(p, t) : Decode(p, t) = {d}
    BY DenotedDecoded
  <2> QED BY <1>1, <2>1
<1>2. ASSUME NEW d \in Decode(p, t) PROVE Denotes(p, t) = {d}
  <2>1. d \in Denotes(p, t)
    BY DecodedDenoted
  <2>2. \A e \in Denotes(p, t) : Decode(p, t) = {e}
    BY DenotedDecoded
  <2>3. \A e \in Denotes(p, t) : e = d
    BY <2>2
  <2> QED BY <2>1, <2>3
<1> QED BY <1>1, <1>2
-----------------------------------------------------------------------------
\* What a program has decoded and encoded is what its text and term say.
JsDocs == [prolog : {"swi", "gnu"}, pc : {"decode", "refused", "encode", "done"}, text : Json,
           pieces : SUBSET Json, room : Nat]
JsInv ==
  /\ doc \in JsDocs
  /\ doc.pc \in {"encode", "done"} => term \in Decode(doc.prolog, doc.text)
  /\ doc.pc = "refused" => Decode(doc.prolog, doc.text) = {}
  /\ doc.pc = "done" => encoded = Encode(Len(doc.text), term)

LEMMA JsInitial == JsInit => JsInv
<1> SUFFICES ASSUME JsInit PROVE JsInv
  OBVIOUS
<1>1. PICK corpus \in Corpora :
        doc = [prolog |-> corpus.prolog, pc |-> "decode", text |-> corpus.start,
               pieces |-> corpus.pieces, room |-> corpus.room]
  BY DEF JsInit, JsCalls
<1>2. /\ corpus.prolog \in {"swi", "gnu"} /\ corpus.room \in Nat
      /\ corpus.start \in Json /\ corpus.pieces \in SUBSET Json
  BY JsAssumption DEF Json
<1> QED BY <1>1, <1>2 DEF JsInv, JsDocs

LEMMA JsTextKeeps == JsInv /\ JsText => JsInv'
<1> SUFFICES ASSUME JsInv, JsText PROVE JsInv'
  OBVIOUS
<1>1. PICK piece \in doc.pieces : doc' = [doc EXCEPT !.text = @ \o piece, !.room = @ - 1]
  BY DEF JsText
<1>2. doc.text \o piece \in Json /\ doc.room - 1 \in Nat /\ doc \in JsDocs /\ doc.pc = "decode"
  <2>1. doc.text \in Json /\ piece \in Json /\ doc.room \in Nat /\ doc.room > 0
    BY DEF JsInv, JsDocs, JsText
  <2>2. doc.text \o piece \in Json
    BY <2>1, ConcatIs DEF IsConcat
  <2> QED BY <2>1, <2>2 DEF JsInv, JsText
<1>3. doc' \in JsDocs /\ doc'.pc = "decode"
  BY <1>1, <1>2 DEF JsDocs
<1> QED BY <1>3 DEF JsInv

LEMMA FromJsonKeeps == JsInv /\ FromJson => JsInv'
<1> SUFFICES ASSUME JsInv, FromJson PROVE JsInv'
  OBVIOUS
<1>1. CASE Decode(doc.prolog, doc.text) = {}
  <2>1. doc' = [doc EXCEPT !.pc = "refused"]
    BY <1>1 DEF FromJson
  <2>2. doc' \in JsDocs /\ doc'.pc = "refused" /\ doc'.prolog = doc.prolog /\ doc'.text = doc.text
    BY <2>1 DEF JsInv, JsDocs
  <2> QED BY <1>1, <2>2 DEF JsInv
<1>2. CASE Decode(doc.prolog, doc.text) # {}
  <2>1. doc' = [doc EXCEPT !.pc = "encode"] /\ term' \in Decode(doc.prolog, doc.text)
    BY <1>2 DEF FromJson
  <2>2. doc' \in JsDocs /\ doc'.pc = "encode" /\ doc'.prolog = doc.prolog /\ doc'.text = doc.text
    BY <2>1 DEF JsInv, JsDocs
  <2> QED BY <2>1, <2>2 DEF JsInv
<1> QED BY <1>1, <1>2

LEMMA ToJsonKeeps == JsInv /\ ToJson => JsInv'
<1> SUFFICES ASSUME JsInv, ToJson PROVE JsInv'
  OBVIOUS
<1>1. /\ doc.pc = "encode" /\ doc' = [doc EXCEPT !.pc = "done"] /\ term' = term
      /\ encoded' = Encode(Len(doc.text), term)
  BY DEF ToJson
<1>2. doc' \in JsDocs /\ doc'.pc = "done" /\ doc'.prolog = doc.prolog /\ doc'.text = doc.text
  BY <1>1 DEF JsInv, JsDocs
<1> QED BY <1>1, <1>2 DEF JsInv

LEMMA JsInvariant == JsSpec => []JsInv
<1>1. JsInv /\ [JsNext]_jsVars => JsInv'
  <2> SUFFICES ASSUME JsInv, [JsNext]_jsVars PROVE JsInv'
    OBVIOUS
  <2>1. CASE JsText
    BY <2>1, JsTextKeeps
  <2>2. CASE FromJson
    BY <2>2, FromJsonKeeps
  <2>3. CASE ToJson
    BY <2>3, ToJsonKeeps
  <2>4. CASE UNCHANGED jsVars
    BY <2>4 DEF jsVars, JsInv
  <2> QED BY <2>1, <2>2, <2>3, <2>4 DEF JsNext
<1> QED BY <1>1, JsInitial, PTL DEF JsSpec

LEMMA JsInvReadBack == JsInv => ReadBack
<1> SUFFICES ASSUME JsInv, doc.pc = "done" PROVE Decode(doc.prolog, encoded) = {term}
  BY DEF ReadBack
<1>1. doc.text \in Json /\ term \in Decode(doc.prolog, doc.text) /\ encoded = Encode(Len(doc.text), term)
  BY DEF JsInv, JsDocs
<1> QED BY <1>1, WrittenAndRead

(***************************************************************************)
(* Whatever from_json/2 makes of a text, in either Prolog system, to_json/2*)
(* writes as a text that from_json/2 reads as that term, and only as that: *)
(* strings with their escapes and surrogate pairs, numbers, and objects    *)
(* and arrays however deep they are nested (the last part of JsonExact).   *)
(***************************************************************************)
THEOREM ReadBackCorrect == JsSpec => []ReadBack
BY JsInvariant, JsInvReadBack, PTL

LEMMA JsInvExact == JsInv => JsonExact
<1> SUFFICES ASSUME JsInv PROVE JsonExact
  OBVIOUS
<1>1. doc.text \in Json /\ doc.prolog \in Prologs
  BY DEF JsInv, JsDocs, Prologs
<1>2. ASSUME doc.pc = "refused" PROVE Denotes(doc.prolog, doc.text) = {}
  <2>1. Decode(doc.prolog, doc.text) = {}
    BY <1>2 DEF JsInv
  <2> QED BY <1>1, <2>1, DecodeExact
<1>3. ASSUME doc.pc = "encode" PROVE Denotes(doc.prolog, doc.text) = {term}
  <2>1. term \in Decode(doc.prolog, doc.text)
    BY <1>3 DEF JsInv
  <2> QED BY <1>1, <2>1, DecodeExact
<1>4. ReadBack
  BY JsInvReadBack
<1> QED BY <1>2, <1>3, <1>4 DEF JsonExact

(***************************************************************************)
(* from_json/2 succeeds on exactly the texts that denote a term by the     *)
(* grammar of JSON, whatever the text and in either Prolog system, and     *)
(* gives the one term it denotes, though its cuts never let it go back on  *)
(* what it has read; to_json/2 writes that term as a text that is read as  *)
(* the same term.                                                          *)
(***************************************************************************)
THEOREM JsonExactCorrect == JsSpec => []JsonExact
BY JsInvariant, JsInvExact, PTL

=============================================================================
