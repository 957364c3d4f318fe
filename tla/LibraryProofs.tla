--------------------------- MODULE LibraryProofs ---------------------------
(***************************************************************************)
(* Proofs about TempFile, CgiTemplates and CgiRequest for every value of   *)
(* their constants: any number of callers, of names and of files that      *)
(* others make; any templates, of any length, and any depth of nesting;    *)
(* any requests and any limit on their length.                             *)
(***************************************************************************)
EXTENDS TempFile, CgiTemplates, CgiRequest,
  NaturalsInduction, WellFoundedInduction, SequenceTheorems, TLAPS

-----------------------------------------------------------------------------
(***************************************************************************)
(* Temporary files                                                         *)
(***************************************************************************)
USE TfAssumption

Errors == {<<"none">>, <<"type">>, <<"domain">>, <<"existence">>, <<"representation">>,
           <<"permission">>, <<"system">>}

TfTypeOK ==
  /\ files \in [Names -> Callers \cup {"other", "none"}]
  /\ step \in [Callers -> {"out", "make", "close"}]
  /\ mine \in [Callers -> Names \cup {"none"}]
  /\ open \in [Callers -> SUBSET Names]
  /\ answer \in [Callers -> Errors \cup {<<"file", n>> : n \in Names}]

\* A caller owns a file from mkstemp until the program removes it.
HasAnswer(c) == answer[c][1] = "file"
Owns(c) == step[c] = "close" \/ HasAnswer(c)

Owner(c) ==
  /\ \A n \in Names : files[n] = c => mine[c] = n
  /\ Owns(c) => mine[c] \in Names /\ files[mine[c]] = c
  /\ ~Owns(c) => mine[c] = "none"
  /\ open[c] = IF step[c] = "close" THEN {mine[c]} ELSE {}
  /\ HasAnswer(c) => step[c] = "out" /\ answer[c] = <<"file", mine[c]>>

TfInv == TfTypeOK /\ \A c \in Callers : Owner(c)

LEMMA NotOwner ==
  ASSUME TfInv, NEW c \in Callers, ~Owns(c)
  PROVE  open[c] = {} /\ mine[c] = "none" /\ \A n \in Names : files[n] # c
<1>1. Owner(c) /\ step[c] # "close"
  BY DEF TfInv, Owns
<1> QED BY <1>1 DEF Owner

LEMMA ErrorsAreNoFiles == \A e \in Errors : e[1] # "file"
BY DEF Errors

\* A step that does not concern a caller.
LEMMA Untouched ==
  ASSUME NEW d \in Callers, Owner(d),
         step'[d] = step[d], mine'[d] = mine[d], open'[d] = open[d], answer'[d] = answer[d],
         \A n \in Names : files'[n] = d <=> files[n] = d
  PROVE  Owner(d)'
<1>1. Owns(d)' = Owns(d) /\ HasAnswer(d)' = HasAnswer(d)
  BY DEF Owns, HasAnswer
<1> QED BY <1>1 DEF Owner

-----------------------------------------------------------------------------
\* A call answers an error, whether at its start or after mkstemp.
LEMMA ErrorKeeps ==
  ASSUME TfInv, NEW c \in Callers, NEW e \in Errors, ~Owns(c),
         AnswersWith(c, e), UNCHANGED <<files, mine, open>>
  PROVE  TfInv'
<1>1. /\ answer' = [answer EXCEPT ![c] = e] /\ step' = [step EXCEPT ![c] = "out"]
  BY DEF AnswersWith, Goes
<1>2. TfTypeOK'
  <2>1. answer' \in [Callers -> Errors \cup {<<"file", n>> : n \in Names}]
    BY <1>1 DEF TfInv, TfTypeOK
  <2>2. step' \in [Callers -> {"out", "make", "close"}]
    BY <1>1 DEF TfInv, TfTypeOK
  <2> QED BY <2>1, <2>2 DEF TfInv, TfTypeOK
<1>3. ASSUME NEW d \in Callers PROVE Owner(d)'
  <2>1. CASE d = c
    <3>1. step'[c] = "out" /\ answer'[c] = e /\ step[c] # "close"
      BY <1>1 DEF TfInv, TfTypeOK, Owns
    <3>2. ~HasAnswer(c)' /\ ~Owns(c)'
      BY <3>1, ErrorsAreNoFiles DEF HasAnswer, Owns
    <3>3. open[c] = {} /\ mine[c] = "none" /\ \A n \in Names : files[n] # c
      BY NotOwner
    <3> QED BY <2>1, <3>1, <3>2, <3>3 DEF Owner
  <2>2. CASE d # c
    BY <1>1, <2>2, Untouched DEF TfInv, TfTypeOK
  <2> QED BY <2>1, <2>2
<1> QED BY <1>2, <1>3 DEF TfInv

LEMMA ArgumentsKeeps ==
  ASSUME TfInv, NEW c \in Callers, TfArguments(c)
  PROVE  TfInv'
<1>1. step[c] = "out" /\ ~HasAnswer(c) /\ ~Owns(c) /\ UNCHANGED <<files, mine, open>>
  BY DEF TfArguments, HasAnswer, Owns
<1>2. ASSUME NEW e \in Errors, AnswersWith(c, e) PROVE TfInv'
  BY <1>1, <1>2, ErrorKeeps
<1>3. ASSUME Goes(c, "make"), UNCHANGED answer PROVE TfInv'
  <2>1. step' = [step EXCEPT ![c] = "make"]
    BY <1>3 DEF Goes
  <2>2. TfTypeOK'
    BY <1>1, <1>3, <2>1 DEF TfInv, TfTypeOK
  <2>3. ASSUME NEW d \in Callers PROVE Owner(d)'
    <3>1. CASE d = c
      <4>1. step'[c] = "make"
        BY <2>1 DEF TfInv, TfTypeOK
      <4>2. ~HasAnswer(c)' /\ ~Owns(c)'
        BY <1>1, <1>3, <4>1 DEF HasAnswer, Owns
      <4>3. open[c] = {} /\ mine[c] = "none" /\ \A n \in Names : files[n] # c
        BY <1>1, NotOwner
      <4> QED BY <1>1, <3>1, <4>1, <4>2, <4>3 DEF Owner
    <3>2. CASE d # c
      BY <1>1, <1>3, <2>1, <3>2, Untouched DEF TfInv, TfTypeOK
    <3> QED BY <3>1, <3>2
  <2> QED BY <2>2, <2>3 DEF TfInv
<1> QED BY <1>2, <1>3 DEF TfArguments, Errors

LEMMA MakeFailsKeeps ==
  ASSUME TfInv, NEW c \in Callers, TfMakeFails(c)
  PROVE  TfInv'
<1>1. step[c] = "make" /\ UNCHANGED <<files, mine, open>>
  BY DEF TfMakeFails
<1>2. ~Owns(c)
  BY <1>1 DEF TfInv, Owner, Owns
<1>3. AnswersWith(c, <<"permission">>) \/ AnswersWith(c, <<"system">>)
  BY DEF TfMakeFails
<1> QED BY <1>1, <1>2, <1>3, ErrorKeeps DEF Errors

\* mkstemp takes a name at which there is nothing.
LEMMA MakeKeeps ==
  ASSUME TfInv, NEW c \in Callers, TfMake(c)
  PROVE  TfInv'
<1>1. PICK n \in Names : /\ files[n] = "none" /\ files' = [files EXCEPT ![n] = c]
                         /\ mine' = [mine EXCEPT ![c] = n]
                         /\ open' = [open EXCEPT ![c] = @ \cup {n}]
  BY DEF TfMake
<1>2. step[c] = "make" /\ step' = [step EXCEPT ![c] = "close"] /\ answer' = answer
  BY DEF TfMake, Goes
<1>3. ~HasAnswer(c) /\ ~Owns(c)
  BY <1>2 DEF TfInv, Owner, Owns
<1>4. open[c] = {} /\ \A m \in Names : files[m] # c
  BY <1>3, NotOwner
<1>5. TfTypeOK'
  BY <1>1, <1>2 DEF TfInv, TfTypeOK
<1>6. files'[n] = c /\ \A m \in Names \ {n} : files'[m] = files[m]
  BY <1>1 DEF TfInv, TfTypeOK
<1>7. ASSUME NEW d \in Callers PROVE Owner(d)'
  <2>1. CASE d = c
    <3>1. step'[c] = "close" /\ mine'[c] = n /\ open'[c] = {n} /\ answer'[c] = answer[c]
      BY <1>1, <1>2, <1>4 DEF TfInv, TfTypeOK
    <3>2. Owns(c)' /\ ~HasAnswer(c)'
      BY <1>3, <3>1 DEF Owns, HasAnswer
    <3> QED BY <1>4, <1>6, <2>1, <3>1, <3>2 DEF Owner
  <2>2. CASE d # c
    <3>1. \A m \in Names : files'[m] = d <=> files[m] = d
      BY <1>1, <1>6, <2>2
    <3> QED BY <1>1, <1>2, <2>2, <3>1, Untouched DEF TfInv, TfTypeOK
  <2> QED BY <2>1, <2>2
<1> QED BY <1>5, <1>7 DEF TfInv

LEMMA ReturnKeeps ==
  ASSUME TfInv, NEW c \in Callers, TfReturn(c)
  PROVE  TfInv'
<1>1. /\ step[c] = "close" /\ open' = [open EXCEPT ![c] = @ \ {mine[c]}]
      /\ answer' = [answer EXCEPT ![c] = <<"file", mine[c]>>] /\ step' = [step EXCEPT ![c] = "out"]
      /\ UNCHANGED <<files, mine>>
  BY DEF TfReturn, AnswersWith, Goes
<1>2. mine[c] \in Names /\ files[mine[c]] = c /\ open[c] = {mine[c]}
      /\ \A n \in Names : files[n] = c => mine[c] = n
  BY <1>1 DEF TfInv, Owner, Owns
<1>3. TfTypeOK'
  <2>1. answer' \in [Callers -> Errors \cup {<<"file", n>> : n \in Names}]
    BY <1>1, <1>2 DEF TfInv, TfTypeOK
  <2>2. step' \in [Callers -> {"out", "make", "close"}] /\ open' \in [Callers -> SUBSET Names]
    BY <1>1 DEF TfInv, TfTypeOK
  <2> QED BY <1>1, <2>1, <2>2 DEF TfInv, TfTypeOK
<1>4. ASSUME NEW d \in Callers PROVE Owner(d)'
  <2>1. CASE d = c
    <3>1. step'[c] = "out" /\ open'[c] = {} /\ answer'[c] = <<"file", mine[c]>>
      BY <1>1, <1>2 DEF TfInv, TfTypeOK
    <3>2. HasAnswer(c)' /\ Owns(c)'
      BY <3>1 DEF HasAnswer, Owns
    <3> QED BY <1>1, <1>2, <2>1, <3>1, <3>2 DEF Owner
  <2>2. CASE d # c
    BY <1>1, <2>2, Untouched DEF TfInv, TfTypeOK
  <2> QED BY <2>1, <2>2
<1> QED BY <1>3, <1>4 DEF TfInv

LEMMA RemoveKeeps ==
  ASSUME TfInv, NEW c \in Callers, TfRemove(c)
  PROVE  TfInv'
<1>1. /\ step[c] = "out" /\ HasAnswer(c)
      /\ files' = [files EXCEPT ![mine[c]] = "none"] /\ mine' = [mine EXCEPT ![c] = "none"]
      /\ answer' = [answer EXCEPT ![c] = <<"none">>]
      /\ UNCHANGED <<step, open>>
  BY DEF TfRemove, HasAnswer
<1>2. mine[c] \in Names /\ files[mine[c]] = c /\ open[c] = {}
      /\ \A n \in Names : files[n] = c => mine[c] = n
  BY <1>1 DEF TfInv, Owner, Owns
<1>3. TfTypeOK'
  <2>1. answer' \in [Callers -> Errors \cup {<<"file", n>> : n \in Names}]
    BY <1>1 DEF TfInv, TfTypeOK, Errors
  <2>2. files' \in [Names -> Callers \cup {"other", "none"}] /\ mine' \in [Callers -> Names \cup {"none"}]
    BY <1>1 DEF TfInv, TfTypeOK
  <2> QED BY <1>1, <2>1, <2>2 DEF TfInv, TfTypeOK
<1> DEFINE n == mine[c]
<1>4. files'[n] = "none" /\ \A m \in Names \ {n} : files'[m] = files[m]
  BY <1>1, <1>2 DEF TfInv, TfTypeOK
<1>5. ASSUME NEW d \in Callers PROVE Owner(d)'
  <2>1. CASE d = c
    <3>1. step'[c] = "out" /\ mine'[c] = "none" /\ answer'[c] = <<"none">>
      BY <1>1 DEF TfInv, TfTypeOK
    <3>2. ~HasAnswer(c)' /\ ~Owns(c)'
      BY <3>1 DEF HasAnswer, Owns
    <3>3. \A m \in Names : files'[m] # c
      BY <1>2, <1>4
    <3> QED BY <1>1, <1>2, <2>1, <3>1, <3>2, <3>3 DEF Owner
  <2>2. CASE d # c
    <3>1. \A m \in Names : files'[m] = d <=> files[m] = d
      BY <1>2, <1>4, <2>2
    <3> QED BY <1>1, <2>2, <3>1, Untouched DEF TfInv, TfTypeOK
  <2> QED BY <2>1, <2>2
<1> QED BY <1>3, <1>5 DEF TfInv

\* The others touch no file that a call has made.
LEMMA OthersKeeps ==
  ASSUME TfInv, TfOthers
  PROVE  TfInv'
<1>1. UNCHANGED <<step, mine, open, answer>>
  BY DEF TfOthers
<1>2. /\ files' \in [Names -> Callers \cup {"other", "none"}]
      /\ \A d \in Callers : \A m \in Names : files'[m] = d <=> files[m] = d
  <2>1. \/ UNCHANGED files
        \/ \E n \in Names : files[n] = "none" /\ files' = [files EXCEPT ![n] = "other"]
        \/ \E n \in Names : files[n] = "other" /\ files' = [files EXCEPT ![n] = "none"]
    BY DEF TfOthers
  <2> QED BY <2>1 DEF TfInv, TfTypeOK
<1>3. \A d \in Callers : Owner(d)'
  BY <1>1, <1>2, Untouched DEF TfInv
<1> QED BY <1>1, <1>2, <1>3 DEF TfInv, TfTypeOK

-----------------------------------------------------------------------------
LEMMA TfInvCorrect == TfSpec => []TfInv
<1>1. TfInit => TfInv
  <2> SUFFICES ASSUME TfInit PROVE TfInv
    OBVIOUS
  <2>1. TfTypeOK
    BY DEF TfInit, TfStart, TfTypeOK, Errors
  <2>2. ASSUME NEW c \in Callers PROVE Owner(c)
    <3>1. step[c] = "out" /\ mine[c] = "none" /\ open[c] = {} /\ answer[c] = <<"none">>
          /\ \A n \in Names : files[n] = "none"
      BY DEF TfInit, TfStart
    <3>2. ~HasAnswer(c) /\ ~Owns(c)
      BY <3>1 DEF HasAnswer, Owns
    <3> QED BY <3>1, <3>2 DEF Owner
  <2> QED BY <2>1, <2>2 DEF TfInv
<1>2. TfInv /\ [TfNext]_tfVars => TfInv'
  <2> SUFFICES ASSUME TfInv, [TfNext]_tfVars PROVE TfInv'
    OBVIOUS
  <2>1. CASE UNCHANGED tfVars
    BY <2>1, Untouched DEF tfVars, TfInv, TfTypeOK
  <2>2. CASE TfNext
    BY <2>2, ArgumentsKeeps, MakeKeeps, MakeFailsKeeps, ReturnKeeps, RemoveKeeps, OthersKeeps
       DEF TfNext
  <2> QED BY <2>1, <2>2
<1> QED BY <1>1, <1>2, PTL DEF TfSpec

\* The file pl_temporary_file/3 answers was made by that call and is no one else's,
\* a call that fails leaves no file, and none leaves a descriptor open, for any
\* number of threads and processes and whatever others do in the directory.
THEOREM FileOwnedCorrect == TfSpec => []FileOwned
<1>1. TfInv => FileOwned
  <2> SUFFICES ASSUME TfInv PROVE FileOwned
    OBVIOUS
  <2>1. ASSUME NEW c \in Callers
        PROVE  /\ answer[c][1] = "file" => /\ mine[c] \in Names /\ files[mine[c]] = c
                                           /\ answer[c] = <<"file", mine[c]>>
               /\ step[c] = "out" => open[c] = {}
               /\ \A n \in Names : files[n] = c => mine[c] = n
    BY DEF TfInv, Owner, Owns, HasAnswer
  <2>2. ASSUME NEW c \in Callers, NEW d \in Callers, answer[c][1] = "file", answer[c] = answer[d]
        PROVE  c = d
    <3>1. answer[d][1] = "file" /\ answer[c][2] = mine[c] /\ answer[d][2] = mine[d]
      BY <2>1, <2>2
    <3> QED BY <2>1, <2>2, <3>1
  <2>3. ASSUME NEW c \in Callers, answer[c][1] = "file" PROVE files[answer[c][2]] = c
    <3>1. answer[c][2] = mine[c]
      BY <2>1, <2>3
    <3> QED BY <2>1, <2>3, <3>1
  <2> QED BY <2>1, <2>2, <2>3 DEF FileOwned
<1> QED BY <1>1, TfInvCorrect, PTL

HIDE TfAssumption

-----------------------------------------------------------------------------
(***************************************************************************)
(* Induction                                                               *)
(***************************************************************************)
\* A set of numbers that is not empty has a least one.
LEMMA Least ==
  ASSUME NEW T \in SUBSET Nat, T # {}
  PROVE  \E x \in T : \A y \in T : x <= y
<1> DEFINE R == OpToRel(<, Nat)
<1>1. IsWellFoundedOn(R, Nat)
  BY NatLessThanWellFounded
<1>2. ASSUME NEW x \in Nat, NEW y \in Nat, y < x PROVE <<y, x>> \in R
  BY <1>2 DEF OpToRel
<1> HIDE DEF R
<1>3. PICK x \in T : \A y \in T : ~ (<<y, x>> \in R)
  BY <1>1, WFMin
<1>4. \A y \in T : ~(y < x)
  BY <1>3, <1>2
<1> QED BY <1>4

\* Induction, for the set of the numbers that have a property.
LEMMA Induction ==
  ASSUME NEW T \in SUBSET Nat, 0 \in T, \A n \in T : n + 1 \in T
  PROVE  T = Nat
<1> SUFFICES ASSUME Nat \ T # {} PROVE FALSE
  OBVIOUS
<1>1. PICK x \in Nat \ T : \A y \in Nat \ T : x <= y
  BY Least
<1>2. x # 0 /\ x - 1 \in Nat
  BY <1>1
<1>3. x - 1 \in T
  BY <1>1, <1>2
<1> QED BY <1>1, <1>2, <1>3

-----------------------------------------------------------------------------
(***************************************************************************)
(* FlattenSeq: its value is that of a recursive function, which exists.    *)
(***************************************************************************)
FlatStep(f, seqs, i) == f[i] = IF i = 1 THEN seqs[i] ELSE f[i - 1] \o seqs[i]
FlatSteps(f, seqs, n) == \A i \in 1..n : FlatStep(f, seqs, i)
Flattens(f, seqs) == f = [i \in 1..Len(seqs) |-> IF i = 1 THEN seqs[i] ELSE f[i - 1] \o seqs[i]]

LEMMA FlattenExists ==
  ASSUME NEW S, NEW seqs \in Seq(Seq(S)), Len(seqs) > 0
  PROVE  \E f \in [1..Len(seqs) -> Seq(S)] : Flattens(f, seqs)
<1> DEFINE n == Len(seqs)
           Upto(f, k) == \A i \in 1..n : i <= k => FlatStep(f, seqs, i)
           T == {k \in Nat : \E f \in [1..n -> Seq(S)] : Upto(f, k)}
<1>1. n \in Nat \ {0} /\ \A i \in 1..n : seqs[i] \in Seq(S)
  OBVIOUS
<1> HIDE DEF n
<1>2. 0 \in T
  <2>1. [i \in 1..n |-> <<>>] \in [1..n -> Seq(S)] /\ Upto([i \in 1..n |-> <<>>], 0)
    BY <1>1
  <2> QED BY <2>1
<1>3. ASSUME NEW k \in T PROVE k + 1 \in T
  <2>1. PICK f \in [1..n -> Seq(S)] : Upto(f, k)
    OBVIOUS
  <2>4. k \in Nat
    OBVIOUS
  <2>2. CASE k + 1 > n
    <3>1. Upto(f, k + 1)
      BY <1>1, <2>1, <2>2
    <3> QED BY <3>1
  <2>3. CASE k + 1 <= n
    <3>1. PICK v \in Seq(S) : v = IF k + 1 = 1 THEN seqs[k + 1] ELSE f[k] \o seqs[k + 1]
      <4>1. k + 1 \in 1..n /\ seqs[k + 1] \in Seq(S) /\ (k # 0 => f[k] \in Seq(S))
        BY <1>1, <2>3
      <4>2. k # 0 => f[k] \o seqs[k + 1] \in Seq(S)
        BY <4>1, ConcatProperties
      <4>3. CASE k = 0
        BY <4>1, <4>3
      <4>4. CASE k # 0
        <5>1. k + 1 # 1
          BY <1>1, <4>4
        <5>2. (f[k] \o seqs[k + 1]) = IF k + 1 = 1 THEN seqs[k + 1] ELSE f[k] \o seqs[k + 1]
          BY <5>1
        <5> QED BY <4>2, <4>4, <5>2
      <4> QED BY <4>3, <4>4
    <3> DEFINE g == [i \in 1..n |-> IF i = k + 1 THEN v ELSE f[i]]
    <3>2. g \in [1..n -> Seq(S)] /\ g[k + 1] = v /\ \A i \in 1..n : i # k + 1 => g[i] = f[i]
      BY <1>1, <2>3
    <3> HIDE DEF g
    <3>3. ASSUME NEW i \in 1..n, i <= k + 1
          PROVE  FlatStep(g, seqs, i)
      <4>1. i # 1 => i - 1 \in 1..n /\ i - 1 # k + 1 /\ g[i - 1] = f[i - 1]
        BY <1>1, <3>2, <3>3
      <4>2. CASE i = k + 1
        <5>1. g[i] = v /\ i - 1 = k
          BY <3>2, <4>2
        <5>2. v = IF i = 1 THEN seqs[i] ELSE f[i - 1] \o seqs[i]
          BY <3>1, <4>2, <5>1
        <5> QED BY <4>1, <5>1, <5>2 DEF FlatStep
      <4>3. CASE i # k + 1
        <5>1. i <= k /\ g[i] = f[i]
          BY <3>2, <3>3, <4>3
        <5>2. f[i] = IF i = 1 THEN seqs[i] ELSE f[i - 1] \o seqs[i]
          BY <2>1, <5>1 DEF FlatStep
        <5> QED BY <4>1, <5>1, <5>2 DEF FlatStep
      <4> QED BY <4>2, <4>3
    <3> QED BY <3>2, <3>3
  <2> HIDE DEF T
  <2> QED BY <1>1, <2>2, <2>3, <2>4
<1>4. T = Nat
  <2> HIDE DEF T
  <2>1. T \in SUBSET Nat
    BY DEF T
  <2> QED BY <1>2, <1>3, <2>1, Induction
<1>5. PICK f \in [1..n -> Seq(S)] : Upto(f, n)
  <2>1. n \in T
    BY <1>1, <1>4
  <2> QED BY <2>1
<1>6. ASSUME NEW i \in 1..n PROVE f[i] = IF i = 1 THEN seqs[i] ELSE f[i - 1] \o seqs[i]
  <2>1. i <= n
    BY <1>1
  <2> QED BY <1>5, <2>1 DEF FlatStep
<1>7. f = [i \in 1..n |-> IF i = 1 THEN seqs[i] ELSE f[i - 1] \o seqs[i]]
  BY <1>5, <1>6
<1> QED BY <1>7 DEF Flattens, n

\* What has been flattened after each of the sequences.
IsFlattening(w, S, seqs) ==
  /\ w \in [0..Len(seqs) -> Seq(S)]
  /\ w[0] = <<>> /\ \A i \in 1..Len(seqs) : w[i] = w[i - 1] \o seqs[i]
  /\ w[Len(seqs)] = FlattenSeq(seqs)

LEMMA SameFlattening ==
  ASSUME NEW n \in Nat, NEW seqs, NEW f, NEW h, FlatSteps(f, seqs, n), FlatSteps(h, seqs, n)
  PROVE  \A i \in 1..n : f[i] = h[i]
<1> DEFINE T == {k \in Nat : k \in 1..n => f[k] = h[k]}
<1>1. 0 \in T
  OBVIOUS
<1>2. ASSUME NEW k \in T PROVE k + 1 \in T
  <2> SUFFICES ASSUME k + 1 \in 1..n PROVE f[k + 1] = h[k + 1]
    OBVIOUS
  <2>1. PICK i : i = k + 1
    OBVIOUS
  <2>2. i \in 1..n /\ i - 1 = k /\ (i # 1 => k \in 1..n /\ f[k] = h[k])
    BY <2>1
  <2>3. f[i] = IF i = 1 THEN seqs[i] ELSE f[k] \o seqs[i]
    BY <2>2 DEF FlatSteps, FlatStep
  <2>4. h[i] = IF i = 1 THEN seqs[i] ELSE h[k] \o seqs[i]
    BY <2>2 DEF FlatSteps, FlatStep
  <2> QED BY <2>1, <2>2, <2>3, <2>4
<1>3. T = Nat
  <2> HIDE DEF T
  <2>1. T \in SUBSET Nat
    BY DEF T
  <2> QED BY <1>1, <1>2, <2>1, Induction
<1> QED BY <1>3

LEMMA FlatteningExists ==
  ASSUME NEW S, NEW seqs \in Seq(Seq(S))
  PROVE  \E w : IsFlattening(w, S, seqs)
<1>1. PICK n \in Nat : n = Len(seqs)
  OBVIOUS
<1>2. \A i \in 1..n : seqs[i] \in Seq(S)
  BY <1>1
<1>3. CASE n = 0
  <2>1. seqs = <<>> /\ FlattenSeq(seqs) = <<>>
    <3>1. seqs = <<>>
      BY <1>1, <1>3, EmptySeq
    <3>2. FlattenSeq(seqs) = seqs
      BY <1>1, <1>3, Zenon DEF FlattenSeq
    <3> QED BY <3>1, <3>2
  <2>2. PICK w : w = [i \in 0..n |-> <<>>]
    OBVIOUS
  <2> QED BY <1>1, <1>3, <2>1, <2>2 DEF IsFlattening
<1>4. CASE n > 0
  <2> DEFINE f == CHOOSE h : Flattens(h, seqs)
  <2>1. FlattenSeq(seqs) = f[n]
    BY <1>1, <1>4 DEF FlattenSeq, Flattens
  <2>2. Flattens(f, seqs)
    BY <1>1, <1>4, FlattenExists
  <2> HIDE DEF f
  <2>3. PICK h \in [1..n -> Seq(S)] : Flattens(h, seqs)
    BY <1>1, <1>4, FlattenExists
  <2>4. FlatSteps(f, seqs, n)
    BY <1>1, <2>2 DEF Flattens, FlatSteps, FlatStep
  <2>5. FlatSteps(h, seqs, n)
    BY <1>1, <2>3 DEF Flattens, FlatSteps, FlatStep
  <2>6. \A i \in 1..n : f[i] = h[i]
    BY <2>4, <2>5, SameFlattening
  <2>8. \A i \in 1..n : f[i] \in Seq(S)
    BY <2>3, <2>6
  <2>9. PICK w : w = [i \in 0..n |-> IF i = 0 THEN <<>> ELSE f[i]]
    OBVIOUS
  <2>10. w \in [0..n -> Seq(S)] /\ w[0] = <<>> /\ \A i \in 1..n : w[i] = f[i]
    BY <2>8, <2>9
  <2>11. ASSUME NEW i \in 1..n PROVE w[i] = w[i - 1] \o seqs[i]
    <3>1. CASE i = 1
      <4>1. w[i - 1] = <<>> /\ w[i] = seqs[i] /\ seqs[i] \in Seq(S)
        BY <1>2, <2>4, <2>10, <3>1 DEF FlatSteps, FlatStep
      <4>2. <<>> \o seqs[i] = seqs[i]
        BY <4>1, ConcatEmptySeq
      <4> QED BY <4>1, <4>2
    <3>2. CASE i # 1
      <4>1. PICK j : j = i - 1
        OBVIOUS
      <4>2. j \in 1..n /\ w[j] = f[j] /\ w[i] = f[i]
        BY <2>10, <3>2, <4>1
      <4>3. f[i] = f[j] \o seqs[i]
        BY <2>4, <3>2, <4>1 DEF FlatSteps, FlatStep
      <4> QED BY <4>1, <4>2, <4>3
    <3> QED BY <3>1, <3>2
  <2>12. w[n] = FlattenSeq(seqs)
    BY <1>4, <2>1, <2>10
  <2> QED BY <1>1, <2>10, <2>11, <2>12 DEF IsFlattening
<1> QED BY <1>1, <1>3, <1>4

Flattening(S, seqs) == CHOOSE w : IsFlattening(w, S, seqs)

LEMMA FlatteningIs ==
  ASSUME NEW S, NEW seqs \in Seq(Seq(S))
  PROVE  IsFlattening(Flattening(S, seqs), S, seqs)
BY FlatteningExists DEF Flattening

\* Text a begins text b.
Begins(a, b) == Len(a) <= Len(b) /\ \A j \in 1..Len(a) : b[j] = a[j]

LEMMA ConcatBegins ==
  ASSUME NEW S, NEW a \in Seq(S), NEW b \in Seq(S)
  PROVE  a \o b \in Seq(S) /\ Begins(a, a \o b) /\ Len(a \o b) = Len(a) + Len(b)
         /\ \A j \in 1..Len(b) : (a \o b)[Len(a) + j] = b[j]
<1>1. PICK c \in Seq(S) : c = a \o b
  BY ConcatProperties
<1>2. Len(c) = Len(a) + Len(b) /\ \A j \in 1..Len(a) : c[j] = a[j]
  BY <1>1
<1>3. \A j \in 1..Len(b) : c[Len(a) + j] = b[j]
  BY <1>1
<1> QED BY <1>1, <1>2, <1>3 DEF Begins

LEMMA BeginsTransitive ==
  ASSUME NEW S, NEW a \in Seq(S), NEW b \in Seq(S), NEW c \in Seq(S), Begins(a, b), Begins(b, c)
  PROVE  Begins(a, c)
BY DEF Begins

LEMMA FlatteningBegins ==
  ASSUME NEW S, NEW seqs \in Seq(Seq(S)), NEW w, IsFlattening(w, S, seqs)
  PROVE  \A i \in 0..Len(seqs) : Begins(w[i], w[Len(seqs)])
<1>1. PICK n \in Nat : n = Len(seqs)
  OBVIOUS
<1>2. /\ w \in [0..n -> Seq(S)] /\ \A i \in 0..n : w[i] \in Seq(S)
      /\ \A i \in 1..n : w[i] = w[i - 1] \o seqs[i] /\ seqs[i] \in Seq(S)
  <2>1. w \in [0..n -> Seq(S)] /\ \A i \in 1..n : w[i] = w[i - 1] \o seqs[i]
    BY <1>1 DEF IsFlattening
  <2>2. \A i \in 1..n : seqs[i] \in Seq(S)
    BY <1>1
  <2>3. \A i \in 0..n : w[i] \in Seq(S)
    BY <2>1
  <2> QED BY <2>1, <2>2, <2>3
<1> DEFINE T == {k \in Nat : \A i \in 0..n : i >= n - k => Begins(w[i], w[n])}
<1>3. 0 \in T
  <2>1. w[n] \in Seq(S)
    BY <1>2
  <2>2. Begins(w[n], w[n])
    BY <2>1 DEF Begins
  <2> QED BY <2>2
<1>4. ASSUME NEW k \in T PROVE k + 1 \in T
  <2>1. ASSUME NEW i \in 0..n, i >= n - (k + 1) PROVE Begins(w[i], w[n])
    <3>1. CASE i >= n - k
      BY <3>1
    <3>2. CASE ~(i >= n - k)
      <4>1. PICK h \in 1..n : h = i + 1
        BY <3>2
      <4>2. h >= n - k /\ h \in 0..n /\ h - 1 = i
        BY <2>1, <4>1
      <4>3. Begins(w[h], w[n])
        BY <4>2
      <4>4. w[h] = w[i] \o seqs[h] /\ w[i] \in Seq(S) /\ w[h] \in Seq(S) /\ w[n] \in Seq(S)
            /\ seqs[h] \in Seq(S)
        <5>1. h \in 0..n /\ n \in 0..n
          BY <4>1
        <5>2. w[h] = w[h - 1] \o seqs[h] /\ seqs[h] \in Seq(S)
          BY <1>2, <4>1
        <5> QED BY <1>2, <4>2, <5>1, <5>2
      <4>5. Begins(w[i], w[h])
        BY <4>4, ConcatBegins
      <4> QED BY <4>3, <4>4, <4>5, BeginsTransitive
    <3> QED BY <3>1, <3>2
  <2> QED BY <2>1
<1>5. T = Nat
  <2> HIDE DEF T
  <2>1. T \in SUBSET Nat
    BY DEF T
  <2> QED BY <1>3, <1>4, <2>1, Induction
<1>6. n \in T
  BY <1>5
<1> QED BY <1>1, <1>6

-----------------------------------------------------------------------------
(***************************************************************************)
(* The files of pl_cgi and what they expand to                             *)
(***************************************************************************)
PiecesOf(p, e, f) ==
  [i \in 1..Len(p[f]) |-> IF p[f][i][1] = "nest" THEN e[p[f][i][2]] ELSE <<p[f][i]>>]
ExpandedOf(p) == CHOOSE e : e = [f \in DOMAIN p |-> FlattenSeq(PiecesOf(p, e, f))]

LEMMA PagesAre ==
  ASSUME NEW p \in Pages
  PROVE  /\ p \in Seq(Seq(Parts)) /\ Len(p) \in Nat \ {0} /\ DOMAIN p = 1..Len(p)
         /\ \A f \in 1..Len(p) : p[f] \in Seq(Parts)
         /\ \A f \in 1..Len(p) : \A i \in 1..Len(p[f]) : p[f][i][1] = "nest" =>
              p[f][i][2] \in 1..Len(p) /\ p[f][i][2] > f
<1>1. /\ p \in Seq(Seq(Parts)) /\ Len(p) > 0
      /\ \A f \in DOMAIN p : \A i \in DOMAIN p[f] :
           p[f][i][1] = "nest" => p[f][i][2] \in DOMAIN p /\ p[f][i][2] > f
  BY CtAssumption
<1> HIDE DEF Parts
<1>2. Len(p) \in Nat \ {0} /\ DOMAIN p = 1..Len(p) /\ \A f \in 1..Len(p) : p[f] \in Seq(Parts)
  BY <1>1
<1>3. \A f \in 1..Len(p) : DOMAIN p[f] = 1..Len(p[f])
  BY <1>2
<1> QED BY <1>1, <1>2, <1>3

\* A template is made of its parts and of the templates that follow it.
LEMMA PiecesAre ==
  ASSUME NEW p \in Pages, NEW f \in 1..Len(p), NEW e,
         \A t \in 1..Len(p) : t > f => e[t] \in Seq(Parts)
  PROVE  PiecesOf(p, e, f) \in Seq(Seq(Parts))
<1>1. p[f] \in Seq(Parts) /\ Len(p[f]) \in Nat
  BY PagesAre
<1>2. ASSUME NEW i \in 1..Len(p[f])
      PROVE  (IF p[f][i][1] = "nest" THEN e[p[f][i][2]] ELSE <<p[f][i]>>) \in Seq(Parts)
  <2>1. p[f][i] \in Parts
    BY <1>1
  <2>2. <<p[f][i]>> \in Seq(Parts)
    BY <2>1
  <2>3. p[f][i][1] = "nest" => p[f][i][2] \in 1..Len(p) /\ p[f][i][2] > f
    BY PagesAre
  <2> QED BY <2>2, <2>3
<1>3. PiecesOf(p, e, f) \in [1..Len(p[f]) -> Seq(Parts)]
  BY <1>2 DEF PiecesOf
<1> QED BY <1>1, <1>3, IsASeq

LEMMA SamePieces ==
  ASSUME NEW p \in Pages, NEW f \in 1..Len(p), NEW e, NEW d,
         \A t \in 1..Len(p) : t > f => e[t] = d[t]
  PROVE  PiecesOf(p, e, f) = PiecesOf(p, d, f)
<1>1. ASSUME NEW i \in 1..Len(p[f])
      PROVE  (IF p[f][i][1] = "nest" THEN e[p[f][i][2]] ELSE <<p[f][i]>>)
             = IF p[f][i][1] = "nest" THEN d[p[f][i][2]] ELSE <<p[f][i]>>
  <2>1. p[f][i][1] = "nest" => p[f][i][2] \in 1..Len(p) /\ p[f][i][2] > f
    BY PagesAre
  <2> QED BY <2>1
<1> QED BY <1>1 DEF PiecesOf

LEMMA FlattenedIs ==
  ASSUME NEW S, NEW seqs \in Seq(Seq(S))
  PROVE  FlattenSeq(seqs) \in Seq(S)
<1>1. PICK n \in Nat : n = Len(seqs)
  OBVIOUS
<1>2. PICK w : IsFlattening(w, S, seqs)
  BY FlatteningExists
<1>3. w \in [0..n -> Seq(S)] /\ w[n] = FlattenSeq(seqs)
  BY <1>1, <1>2 DEF IsFlattening
<1> QED BY <1>3

LEMMA ExpansionExists ==
  ASSUME NEW p \in Pages
  PROVE  \E e : e = [f \in DOMAIN p |-> FlattenSeq(PiecesOf(p, e, f))]
<1>1. PICK n \in Nat \ {0} : n = Len(p) /\ DOMAIN p = 1..n
  BY PagesAre
<1> DEFINE Upto(e, k) == \A f \in 1..n : f > n - k => e[f] = FlattenSeq(PiecesOf(p, e, f))
           T == {k \in Nat : \E e \in [1..n -> Seq(Parts)] : Upto(e, k)}
<1>2. 0 \in T
  <2>1. [f \in 1..n |-> <<>>] \in [1..n -> Seq(Parts)] /\ Upto([f \in 1..n |-> <<>>], 0)
    BY <1>1
  <2> QED BY <2>1
<1>3. ASSUME NEW k \in T PROVE k + 1 \in T
  <2>1. PICK e \in [1..n -> Seq(Parts)] : Upto(e, k)
    OBVIOUS
  <2>2. k \in Nat
    OBVIOUS
  <2>3. CASE n - k < 1
    <3>1. Upto(e, k + 1)
      BY <1>1, <2>1, <2>2, <2>3
    <3>2. k + 1 \in Nat
      BY <2>2
    <3> HIDE DEF Upto
    <3> QED BY <3>1, <3>2
  <2>4. CASE n - k >= 1
    <3>1. PICK g \in 1..n : g = n - k
      BY <1>1, <2>2, <2>4
    <3>2. PICK v : v = FlattenSeq(PiecesOf(p, e, g))
      OBVIOUS
    <3>3. v \in Seq(Parts)
      <4>1. PiecesOf(p, e, g) \in Seq(Seq(Parts))
        BY <1>1, <2>1, PiecesAre
      <4> QED BY <3>2, <4>1, FlattenedIs
    <3>4. PICK d : d = [f \in 1..n |-> IF f = g THEN v ELSE e[f]]
      OBVIOUS
    <3>5. d \in [1..n -> Seq(Parts)] /\ d[g] = v /\ \A f \in 1..n : f # g => d[f] = e[f]
      BY <3>3, <3>4
    <3>6. ASSUME NEW f \in 1..n, f > n - (k + 1)
          PROVE  d[f] = FlattenSeq(PiecesOf(p, d, f))
      <4>1. f >= g
        BY <2>2, <3>1, <3>6
      <4>2. \A t \in 1..Len(p) : t > f => e[t] = d[t]
        BY <1>1, <3>5, <4>1
      <4>3. PiecesOf(p, e, f) = PiecesOf(p, d, f)
        BY <1>1, <4>2, SamePieces
      <4>4. CASE f = g
        BY <3>2, <3>5, <4>3, <4>4
      <4>5. CASE f # g
        <5>1. f > n - k
          BY <2>2, <3>1, <4>1, <4>5
        <5> QED BY <2>1, <3>5, <4>3, <4>5, <5>1
      <4> QED BY <4>4, <4>5
    <3>7. Upto(d, k + 1)
      BY <3>6
    <3>8. k + 1 \in Nat
      BY <2>2
    <3> HIDE DEF Upto
    <3> QED BY <3>5, <3>7, <3>8
  <2>5. n - k < 1 \/ n - k >= 1
    BY <2>2
  <2> HIDE DEF T
  <2> QED BY <2>3, <2>4, <2>5
<1>4. T = Nat
  <2> HIDE DEF T
  <2>1. T \in SUBSET Nat
    BY DEF T
  <2> QED BY <1>2, <1>3, <2>1, Induction
<1>5. PICK e \in [1..n -> Seq(Parts)] : Upto(e, n)
  <2>1. n \in T
    BY <1>4
  <2> QED BY <2>1
<1>6. \A f \in 1..n : e[f] = FlattenSeq(PiecesOf(p, e, f))
  BY <1>5
<1>7. e = [f \in 1..n |-> FlattenSeq(PiecesOf(p, e, f))]
  BY <1>5, <1>6
<1> QED BY <1>1, <1>7

LEMMA ExpansionIs ==
  ASSUME NEW p \in Pages
  PROVE  \A f \in 1..Len(p) : /\ ExpandedOf(p)[f] = FlattenSeq(PiecesOf(p, ExpandedOf(p), f))
                              /\ ExpandedOf(p)[f] \in Seq(Parts)
<1>1. PICK n \in Nat \ {0} : n = Len(p) /\ DOMAIN p = 1..n
  BY PagesAre
<1>2. PICK e : e = ExpandedOf(p)
  OBVIOUS
<1>3. e = [f \in DOMAIN p |-> FlattenSeq(PiecesOf(p, e, f))]
  BY <1>2, ExpansionExists DEF ExpandedOf
<1>4. \A f \in 1..n : e[f] = FlattenSeq(PiecesOf(p, e, f))
  BY <1>1, <1>3
<1> DEFINE T == {k \in Nat : \A f \in 1..n : f > n - k => e[f] \in Seq(Parts)}
<1>5. 0 \in T
  BY <1>1
<1>6. ASSUME NEW k \in T PROVE k + 1 \in T
  <2>1. ASSUME NEW f \in 1..n, f > n - (k + 1) PROVE e[f] \in Seq(Parts)
    <3>1. \A t \in 1..Len(p) : t > f => e[t] \in Seq(Parts)
      BY <1>1, <2>1
    <3>2. PiecesOf(p, e, f) \in Seq(Seq(Parts))
      BY <1>1, <3>1, PiecesAre
    <3> QED BY <1>4, <3>2, FlattenedIs
  <2> QED BY <2>1
<1>7. T = Nat
  <2> HIDE DEF T
  <2>1. T \in SUBSET Nat
    BY DEF T
  <2> QED BY <1>5, <1>6, <2>1, Induction
<1>8. \A f \in 1..n : e[f] \in Seq(Parts)
  <2>1. n \in T
    BY <1>7
  <2> QED BY <2>1
<1> QED BY <1>1, <1>2, <1>4, <1>8

\* What can be written, and how it is put together.
Texts == Seq(Parts)

LEMMA TextsAre ==
  /\ <<>> \in Texts /\ \A x \in Texts : x \o <<>> = x /\ <<>> \o x = x
  /\ \A x \in Texts, y \in Texts : x \o y \in Texts
  /\ \A x \in Texts, y \in Texts, z \in Texts : (x \o y) \o z = x \o (y \o z)
  /\ \A part \in Parts : <<part>> \in Texts
  /\ \A x \in Texts, part \in Parts : Append(x, part) = x \o <<part>>
<1>1. <<>> \in Texts /\ \A x \in Texts : x \o <<>> = x /\ <<>> \o x = x
  BY EmptySeq, ConcatEmptySeq DEF Texts
<1>2. \A x \in Texts, y \in Texts : x \o y \in Texts
  BY ConcatProperties DEF Texts
<1>3. \A x \in Texts, y \in Texts, z \in Texts : (x \o y) \o z = x \o (y \o z)
  BY ConcatAssociative DEF Texts
<1>4. \A part \in Parts : <<part>> \in Texts
  BY DEF Texts
<1>5. \A x \in Texts, part \in Parts : Append(x, part) = x \o <<part>>
  BY AppendIsConcat DEF Texts
<1> QED BY <1>1, <1>2, <1>3, <1>4, <1>5

LEMMA Regroup ==
  ASSUME NEW x \in Texts, NEW y \in Texts, NEW z \in Texts
  PROVE  (x \o y) \o z = x \o (y \o z)
BY TextsAre

\* What a template has written after each of its parts.
Written(p, f) == Flattening(Parts, PiecesOf(p, ExpandedOf(p), f))

LEMMA WrittenIs ==
  ASSUME NEW p \in Pages, NEW f \in 1..Len(p)
  PROVE  /\ Len(p[f]) \in Nat
         /\ Written(p, f) \in [0..Len(p[f]) -> Texts]
         /\ Written(p, f)[0] = <<>>
         /\ Written(p, f)[Len(p[f])] = ExpandedOf(p)[f]
         /\ \A i \in 1..Len(p[f]) : Written(p, f)[i] = Written(p, f)[i - 1] \o
              (IF p[f][i][1] = "nest" THEN ExpandedOf(p)[p[f][i][2]] ELSE <<p[f][i]>>)
<1> DEFINE pieces == PiecesOf(p, ExpandedOf(p), f)
<1>1. pieces \in Seq(Seq(Parts))
  BY ExpansionIs, PiecesAre
<1>2. PICK n \in Nat : n = Len(p[f])
  BY PagesAre
<1>3. Len(pieces) = n /\ \A i \in 1..n : pieces[i] =
        IF p[f][i][1] = "nest" THEN ExpandedOf(p)[p[f][i][2]] ELSE <<p[f][i]>>
  <2>1. pieces = [i \in 1..n |-> IF p[f][i][1] = "nest" THEN ExpandedOf(p)[p[f][i][2]] ELSE <<p[f][i]>>]
    BY <1>2 DEF PiecesOf
  <2>2. DOMAIN pieces = 1..Len(pieces) /\ Len(pieces) \in Nat
    BY <1>1
  <2> HIDE DEF pieces
  <2> QED BY <2>1, <2>2
<1>4. ExpandedOf(p)[f] = FlattenSeq(pieces)
  BY ExpansionIs
<1>5. Written(p, f) = Flattening(Parts, pieces)
  BY DEF Written
<1> HIDE DEF pieces
<1>6. PICK w : w = Written(p, f) /\ IsFlattening(w, Parts, pieces)
  BY <1>1, <1>5, FlatteningIs
<1>7. w \in [0..n -> Seq(Parts)] /\ w[0] = <<>> /\ w[n] = ExpandedOf(p)[f]
      /\ \A i \in 1..n : w[i] = w[i - 1] \o pieces[i]
  BY <1>3, <1>4, <1>6 DEF IsFlattening
<1>8. \A i \in 1..n : w[i] = w[i - 1] \o
        (IF p[f][i][1] = "nest" THEN ExpandedOf(p)[p[f][i][2]] ELSE <<p[f][i]>>)
  BY <1>3, <1>7
<1> QED BY <1>2, <1>6, <1>7, <1>8 DEF Texts

LEMMA WrittenPart ==
  ASSUME NEW p \in Pages, NEW f \in 1..Len(p), NEW i \in 1..Len(p[f]), p[f][i][1] # "nest"
  PROVE  Written(p, f)[i] = Written(p, f)[i - 1] \o <<p[f][i]>> /\ p[f][i] \in Parts
<1>1. p[f][i] \in Parts
  BY PagesAre
<1> QED BY <1>1, WrittenIs

LEMMA WrittenNest ==
  ASSUME NEW p \in Pages, NEW f \in 1..Len(p), NEW i \in 1..Len(p[f]), NEW t,
         p[f][i] = <<"nest", t>>
  PROVE  Written(p, f)[i] = Written(p, f)[i - 1] \o ExpandedOf(p)[t] /\ t \in 1..Len(p)
<1>1. p[f][i][1] = "nest" /\ p[f][i][2] = t
  OBVIOUS
<1>2. t \in 1..Len(p)
  BY <1>1, PagesAre
<1> QED BY <1>1, <1>2, WrittenIs

-----------------------------------------------------------------------------
(***************************************************************************)
(* Calls that are under way, one within another                            *)
(***************************************************************************)
Streams(p) == [file : 1..Len(p), at : Nat \ {0}]
Levels(p) == [file : 1..Len(p), stream : Nat \ {0}, old : Nat]

\* The templates under way, each with the stream it reads; the ones around the
\* innermost have just read the goal that generates the next one.
At(n, o, k) == o[n[k].stream].at
Level(p, n, o, k) ==
  /\ n[k] \in Levels(p) /\ n[k].stream \in 1..Len(o)
  /\ o[n[k].stream].file = n[k].file /\ At(n, o, k) <= Len(p[n[k].file]) + 1
Link(p, n, o, k) ==
  /\ n[k + 1].old = n[k].stream
  /\ At(n, o, k) >= 2 /\ p[n[k].file][At(n, o, k) - 1] = <<"nest", n[k + 1].file>>
Apart(n) == \A k \in 1..Len(n) : \A j \in 1..Len(n) : j < k => n[j].stream < n[k].stream
Nested(p, n, o) ==
  /\ n \in Seq(Levels(p)) /\ o \in Seq(Streams(p))
  /\ Len(n) > 0 => n[1].file = 1 /\ n[1].old = 0
  /\ \A k \in 1..Len(n) : Level(p, n, o, k)
  /\ \A k \in 1..Len(n) : k < Len(n) => Link(p, n, o, k)
  /\ Apart(n)

\* The input is that of the innermost, and their streams are those that are open.
Read(n, in, l) ==
  /\ in = IF Len(n) = 0 THEN 0 ELSE n[Len(n)].stream
  /\ l = {n[k].stream : k \in 1..Len(n)}

\* Before is what was written when each began.
Writing(p, n, o, out, before) ==
  /\ before \in [1..Len(n) -> Texts] /\ before[1] = <<>>
  /\ \A k \in 1..Len(n) : k < Len(n) =>
       before[k + 1] = before[k] \o Written(p, n[k].file)[At(n, o, k) - 2]
  /\ out = before[Len(n)] \o Written(p, n[Len(n)].file)[At(n, o, Len(n)) - 1]

Underway(p, n, in, o, l, out, c) ==
  /\ Nested(p, n, o) /\ Read(n, in, l)
  /\ Len(n) > 0 => \E before : Writing(p, n, o, out, before)
  /\ Len(n) = 0 /\ c > 0 => out = ExpandedOf(p)[1]

CtInv == page \in Pages /\ (~escaped => Underway(page, nest, input, opened, live, output, calls))

\* The stream s is read on.
MovedOn(o, s) == [o EXCEPT ![s].at = @ + 1]

\* Reading moves the stream of the innermost template on.
LEMMA Moves ==
  ASSUME NEW p \in Pages, NEW o \in Seq(Streams(p)), NEW s \in 1..Len(o)
  PROVE  /\ MovedOn(o, s) \in Seq(Streams(p)) /\ Len(MovedOn(o, s)) = Len(o)
         /\ MovedOn(o, s)[s].at = o[s].at + 1 /\ MovedOn(o, s)[s].file = o[s].file
         /\ \A j \in 1..Len(o) : j # s => MovedOn(o, s)[j] = o[j]
<1>8. PICK o2 : o2 = MovedOn(o, s)
  OBVIOUS
<1>1. PICK m \in Nat : m = Len(o) /\ o \in [1..m -> Streams(p)]
  OBVIOUS
<1>2. o[s] \in Streams(p)
  BY <1>1
<1>3. [o[s] EXCEPT !.at = o[s].at + 1] \in Streams(p)
      /\ [o[s] EXCEPT !.at = o[s].at + 1].at = o[s].at + 1
      /\ [o[s] EXCEPT !.at = o[s].at + 1].file = o[s].file
  <2>1. o[s].at \in Nat \ {0} /\ o[s].file \in 1..Len(p)
        /\ o[s] = [file |-> o[s].file, at |-> o[s].at]
    BY <1>2 DEF Streams
  <2>2. [o[s] EXCEPT !.at = o[s].at + 1] = [file |-> o[s].file, at |-> o[s].at + 1]
    BY <2>1
  <2>3. o[s].at + 1 \in Nat \ {0}
    BY <2>1
  <2> QED BY <2>1, <2>2, <2>3 DEF Streams
<1> HIDE DEF Streams
<1>7. o2 = [o EXCEPT ![s] = [o[s] EXCEPT !.at = o[s].at + 1]]
  BY <1>8 DEF MovedOn
<1>4. o2[s] = [o[s] EXCEPT !.at = o[s].at + 1]
  BY <1>1, <1>7
<1>5. o2 \in [1..m -> Streams(p)] /\ \A j \in 1..m : j # s => o2[j] = o[j]
  BY <1>1, <1>3, <1>7
<1>6. o2 \in Seq(Streams(p)) /\ Len(o2) = m
  <2>1. o2 \in Seq(Streams(p))
    BY <1>5, IsASeq
  <2>2. DOMAIN o2 = 1..m
    BY <1>5
  <2> QED BY <2>1, <2>2
<1> QED BY <1>1, <1>3, <1>4, <1>5, <1>6, <1>8

LEMMA Innermost ==
  ASSUME NEW p \in Pages, NEW n, NEW in, NEW o, NEW l, Nested(p, n, o), Read(n, in, l), n # <<>>
  PROVE  /\ Len(n) \in Nat \ {0} /\ in = n[Len(n)].stream /\ in \in 1..Len(o)
         /\ o[in].file = n[Len(n)].file /\ n[Len(n)].file \in 1..Len(p)
         /\ o[in].at = At(n, o, Len(n)) /\ At(n, o, Len(n)) \in 1..(Len(p[n[Len(n)].file]) + 1)
         /\ \A k \in 1..Len(n) : k < Len(n) => n[k].stream # in
<1>1. PICK m \in Nat \ {0} : m = Len(n)
  <2>1. n \in Seq(Levels(p))
    BY DEF Nested
  <2> QED BY <2>1, EmptySeq
<1>2. in = n[m].stream /\ Level(p, n, o, m) /\ o \in Seq(Streams(p))
  BY <1>1 DEF Nested, Read
<1>3. in \in 1..Len(o) /\ o[in].file = n[m].file /\ o[in].at = At(n, o, m) /\ n[m] \in Levels(p)
      /\ At(n, o, m) <= Len(p[n[m].file]) + 1
  BY <1>2 DEF Level, At
<1>4. n[m].file \in 1..Len(p)
  BY <1>3 DEF Levels
<1>5. o[in].at \in Nat \ {0}
  <2>1. o[in] \in Streams(p)
    BY <1>2, <1>3
  <2> QED BY <2>1 DEF Streams
<1>6. \A k \in 1..m : k < m => n[k].stream < n[m].stream /\ n[k].stream \in Nat /\ n[m].stream \in Nat
  BY <1>1 DEF Nested, Apart, Level, Levels
<1>7. \A k \in 1..m : k < m => n[k].stream # in
  BY <1>2, <1>6
<1>8. Len(p[n[m].file]) \in Nat
  BY <1>4, WrittenIs
<1> QED BY <1>1, <1>2, <1>3, <1>4, <1>5, <1>7, <1>8

\* o2 is o with the stream of the innermost moved on by one.
Onwards(n, o, o2) ==
  /\ At(n, o2, Len(n)) = At(n, o, Len(n)) + 1
  /\ \A k \in 1..Len(n) : k < Len(n) => At(n, o2, k) = At(n, o, k)

\* The innermost reads one more part.
LEMMA StaysNested ==
  ASSUME NEW p \in Pages, NEW n, NEW in, NEW o, NEW l, Nested(p, n, o), Read(n, in, l), n # <<>>,
         o[in].at <= Len(p[o[in].file])
  PROVE  Nested(p, n, MovedOn(o, in)) /\ Onwards(n, o, MovedOn(o, in))
<1> PICK o2 : o2 = MovedOn(o, in)
  OBVIOUS
<1>1. PICK m \in Nat \ {0} : /\ m = Len(n) /\ in = n[m].stream /\ in \in 1..Len(o)
                             /\ \A k \in 1..m : k < m => n[k].stream # in
  BY Innermost
<1>2. o[in].file = n[m].file /\ At(n, o, m) <= Len(p[n[m].file]) /\ At(n, o, m) \in Nat
      /\ Len(p[n[m].file]) \in Nat
  <2>1. o[in].file = n[m].file /\ n[m].file \in 1..Len(p) /\ o[in].at = At(n, o, m)
        /\ At(n, o, m) \in 1..(Len(p[n[m].file]) + 1)
    BY <1>1, Innermost
  <2>2. Len(p[n[m].file]) \in Nat
    BY <2>1, WrittenIs
  <2> QED BY <2>1, <2>2
<1>3. /\ n \in Seq(Levels(p)) /\ o \in Seq(Streams(p))
      /\ n[1].file = 1 /\ n[1].old = 0 /\ Apart(n)
  BY <1>1 DEF Nested
<1>4. /\ o2 \in Seq(Streams(p)) /\ Len(o2) = Len(o)
      /\ o2[in].at = o[in].at + 1 /\ o2[in].file = o[in].file
      /\ \A j \in 1..Len(o) : j # in => o2[j] = o[j]
  <2>1. in \in 1..Len(o) /\ o \in Seq(Streams(p))
    BY <1>1, <1>3
  <2>2. /\ MovedOn(o, in) \in Seq(Streams(p)) /\ Len(MovedOn(o, in)) = Len(o)
        /\ MovedOn(o, in)[in].at = o[in].at + 1 /\ MovedOn(o, in)[in].file = o[in].file
        /\ \A j \in 1..Len(o) : j # in => MovedOn(o, in)[j] = o[j]
    BY <2>1, Moves
  <2> QED BY <2>2
<1>5. \A k \in 1..m : Level(p, n, o, k)
  <2>1. \A k \in 1..Len(n) : Level(p, n, o, k)
    BY DEF Nested
  <2> QED BY <1>1, <2>1
<1>6. \A k \in 1..m : k < m => Link(p, n, o, k)
  BY <1>1 DEF Nested
<1>7. At(n, o2, m) = At(n, o, m) + 1
  BY <1>1, <1>4 DEF At
<1>8. ASSUME NEW k \in 1..m, k < m
      PROVE  o2[n[k].stream] = o[n[k].stream] /\ At(n, o2, k) = At(n, o, k)
  <2>1. n[k].stream \in 1..Len(o) /\ n[k].stream # in
    BY <1>1, <1>5, <1>8 DEF Level
  <2> QED BY <1>4, <2>1 DEF At
<1>9. ASSUME NEW k \in 1..m PROVE Level(p, n, o2, k)
  <2>1. CASE k = m
    <3>1. At(n, o2, m) <= Len(p[n[m].file]) + 1
      BY <1>2, <1>7
    <3> QED BY <1>1, <1>2, <1>4, <1>5, <2>1, <3>1 DEF Level
  <2>2. CASE k # m
    <3>1. k < m
      BY <1>1, <2>2
    <3> QED BY <1>4, <1>5, <1>8, <3>1 DEF Level
  <2> QED BY <2>1, <2>2
<1>10. ASSUME NEW k \in 1..m, k < m PROVE Link(p, n, o2, k)
  BY <1>6, <1>8, <1>10 DEF Link
<1>11. Nested(p, n, o2)
  BY <1>1, <1>3, <1>4, <1>9, <1>10 DEF Nested
<1> QED BY <1>1, <1>7, <1>8, <1>11 DEF Onwards

\* n and o are what n2 and o2 were, up to level m.
SameUpto(n, o, n2, o2, m) == \A k \in 1..m : n2[k] = n[k] /\ At(n2, o2, k) = At(n, o, k)

\* A stream for f is opened and set as the input, after what m templates have read.
StartsAs(n, o, in, f, n2, o2) ==
  /\ n2 = Append(n, [file |-> f, stream |-> Len(o) + 1, old |-> in])
  /\ o2 = Append(o, [file |-> f, at |-> 1])
AfterGoal(p, n, o, f) ==
  IF Len(n) = 0 THEN f = 1
  ELSE At(n, o, Len(n)) >= 2 /\ p[n[Len(n)].file][At(n, o, Len(n)) - 1] = <<"nest", f>>

\* The levels there were are as they were, and there is one more, at the start of f.
OneMore(n, o, f, n2, o2) ==
  /\ Len(n2) = Len(n) + 1 /\ n2[Len(n) + 1].file = f /\ At(n2, o2, Len(n) + 1) = 1
  /\ SameUpto(n, o, n2, o2, Len(n))

\* A template begins: it reads a stream of its own.
LEMMA StartsNested ==
  ASSUME NEW p \in Pages, NEW n, NEW in, NEW o, NEW l, Nested(p, n, o), Read(n, in, l),
         NEW f \in 1..Len(p), AfterGoal(p, n, o, f),
         NEW n2, NEW o2, StartsAs(n, o, in, f, n2, o2)
  PROVE  /\ Nested(p, n2, o2) /\ Read(n2, Len(o) + 1, l \cup {Len(o) + 1})
         /\ OneMore(n, o, f, n2, o2)
<1>1. n \in Seq(Levels(p)) /\ o \in Seq(Streams(p))
  BY DEF Nested
<1>2. PICK m \in Nat : m = Len(n)
  BY <1>1
<1>3. PICK s \in Nat \ {0} : s = Len(o) + 1
  BY <1>1
<1>4. in \in Nat
  <2>1. CASE m = 0
    BY <1>2, <2>1 DEF Read
  <2>2. CASE m # 0
    <3>1. in = n[m].stream /\ n[m] \in Levels(p)
      BY <1>1, <1>2, <2>2 DEF Read
    <3> QED BY <3>1 DEF Levels
  <2> QED BY <2>1, <2>2
<1>5. PICK c \in Levels(p) : /\ c = [file |-> f, stream |-> s, old |-> in]
                             /\ c.file = f /\ c.stream = s /\ c.old = in
  <2>1. [file |-> f, stream |-> s, old |-> in] \in Levels(p)
    BY <1>3, <1>4 DEF Levels
  <2> QED BY <2>1
<1>6. PICK r \in Streams(p) : r = [file |-> f, at |-> 1] /\ r.file = f /\ r.at = 1
  <2>1. [file |-> f, at |-> 1] \in Streams(p)
    BY DEF Streams
  <2> QED BY <2>1
<1>7. /\ n2 \in Seq(Levels(p)) /\ Len(n2) = m + 1 /\ n2[m + 1] = c
      /\ \A k \in 1..m : n2[k] = n[k]
  BY <1>1, <1>2, <1>3, <1>5, AppendProperties DEF StartsAs
<1>8. /\ o2 \in Seq(Streams(p)) /\ Len(o2) = s /\ o2[s] = r
      /\ \A j \in 1..Len(o) : o2[j] = o[j]
  BY <1>1, <1>3, <1>6, AppendProperties DEF StartsAs
<1>9. \A k \in 1..m : Level(p, n, o, k)
  BY <1>2 DEF Nested
<1>10. \A k \in 1..m : k < m => Link(p, n, o, k)
  BY <1>2 DEF Nested
<1>11. ASSUME NEW k \in 1..m
       PROVE  /\ n2[k] = n[k] /\ n[k].stream \in 1..Len(o) /\ o2[n[k].stream] = o[n[k].stream]
              /\ At(n2, o2, k) = At(n, o, k)
  <2>1. n[k].stream \in 1..Len(o)
    BY <1>9 DEF Level
  <2> QED BY <1>7, <1>8, <2>1 DEF At
<1>12. At(n2, o2, m + 1) = 1 /\ n2[m + 1].file = f
  BY <1>5, <1>6, <1>7, <1>8 DEF At
<1>13. Len(o) \in Nat /\ 1..Len(o) \subseteq 1..s /\ s \in 1..s
  BY <1>1, <1>3
<1>14. ASSUME NEW k \in 1..Len(n2) PROVE Level(p, n2, o2, k)
  <2>1. CASE k = m + 1
    <3>1. Len(p[f]) \in Nat
      BY WrittenIs
    <3>2. 1 <= Len(p[f]) + 1
      BY <3>1
    <3>3. n2[k] = c /\ At(n2, o2, k) = 1 /\ o2[s].file = f
      BY <1>6, <1>7, <1>8, <1>12, <2>1
    <3>4. n2[k].file = f /\ n2[k].stream = s /\ n2[k] \in Levels(p)
      BY <1>5, <3>3
    <3>5. s \in 1..Len(o2)
      BY <1>8, <1>13
    <3> QED BY <3>2, <3>3, <3>4, <3>5 DEF Level
  <2>2. CASE k # m + 1
    <3>1. k \in 1..m
      BY <1>7, <2>2
    <3>2. Level(p, n, o, k)
      BY <1>9, <3>1
    <3>3. /\ n2[k] = n[k] /\ o2[n[k].stream] = o[n[k].stream] /\ At(n2, o2, k) = At(n, o, k)
          /\ n[k].stream \in 1..Len(o2)
      BY <1>8, <1>11, <1>13, <3>1
    <3> QED BY <3>2, <3>3 DEF Level
  <2> QED BY <2>1, <2>2
<1>15. ASSUME NEW k \in 1..Len(n2), k < Len(n2) PROVE Link(p, n2, o2, k)
  <2>1. k \in 1..m
    BY <1>7, <1>15
  <2>2. CASE k = m
    <3>1. in = n[m].stream
      BY <1>2, <2>1, <2>2 DEF Read
    <3>2. At(n, o, m) >= 2 /\ p[n[m].file][At(n, o, m) - 1] = <<"nest", f>>
      BY <1>2, <2>1, <2>2 DEF AfterGoal
    <3> QED BY <1>5, <1>7, <1>11, <2>1, <2>2, <3>1, <3>2 DEF Link
  <2>3. CASE k # m
    <3>1. k < m /\ k + 1 \in 1..m
      BY <2>1, <2>3
    <3>2. Link(p, n, o, k) /\ n2[k + 1] = n[k + 1]
      BY <1>10, <1>11, <2>1, <3>1
    <3> QED BY <1>11, <2>1, <3>2 DEF Link
  <2> QED BY <2>2, <2>3
<1>16. Apart(n2)
  <2> SUFFICES ASSUME NEW k \in 1..Len(n2), NEW j \in 1..Len(n2), j < k
               PROVE  n2[j].stream < n2[k].stream
    BY DEF Apart
  <2>1. j \in 1..m
    BY <1>7
  <2>2. CASE k = m + 1
    BY <1>3, <1>5, <1>7, <1>11, <1>13, <2>1, <2>2
  <2>3. CASE k # m + 1
    <3>1. k \in 1..m /\ Apart(n)
      BY <1>7, <2>3 DEF Nested
    <3> QED BY <1>2, <1>7, <2>1, <3>1 DEF Apart
  <2> QED BY <2>2, <2>3
<1>17. n2[1].file = 1 /\ n2[1].old = 0
  <2>1. CASE m = 0
    BY <1>2, <1>5, <1>7, <2>1 DEF Read, AfterGoal
  <2>2. CASE m # 0
    <3>1. n[1].file = 1 /\ n[1].old = 0 /\ 1 \in 1..m
      BY <1>2, <2>2 DEF Nested
    <3> QED BY <1>7, <3>1
  <2> QED BY <2>1, <2>2
<1>18. Nested(p, n2, o2)
  BY <1>7, <1>8, <1>14, <1>15, <1>16, <1>17 DEF Nested
<1>19. Read(n2, s, l \cup {s})
  <2>1. l = {n[k].stream : k \in 1..m}
    BY <1>2 DEF Read
  <2>2. {n2[k].stream : k \in 1..(m + 1)} = {n[k].stream : k \in 1..m} \cup {s}
    <3>1. \A k \in 1..(m + 1) : k \in 1..m \/ k = m + 1
      OBVIOUS
    <3>2. 1..m \subseteq 1..(m + 1) /\ m + 1 \in 1..(m + 1)
      OBVIOUS
    <3> QED BY <1>5, <1>7, <3>1, <3>2
  <2>3. n2[m + 1].stream = s /\ Len(n2) # 0
    BY <1>5, <1>7
  <2>4. l \cup {s} = {n2[k].stream : k \in 1..Len(n2)}
    BY <1>7, <2>1, <2>2
  <2>5. s = IF Len(n2) = 0 THEN 0 ELSE n2[Len(n2)].stream
    BY <1>7, <2>3
  <2> QED BY <2>4, <2>5 DEF Read
<1> QED BY <1>2, <1>3, <1>7, <1>11, <1>12, <1>18, <1>19 DEF SameUpto, OneMore

LEMMA FrontIs ==
  ASSUME NEW S, NEW s \in Seq(S), s # <<>>
  PROVE  /\ Front(s) \in Seq(S) /\ Len(Front(s)) = Len(s) - 1
         /\ \A k \in 1..(Len(s) - 1) : Front(s)[k] = s[k]
<1>1. PICK q \in Nat : q = Len(s) - 1
  BY EmptySeq
<1>2. \A k \in 1..q : s[k] \in S
  BY <1>1
<1>3. PICK t : t = SubSeq(s, 1, q)
  OBVIOUS
<1>4. t \in Seq(S)
  BY <1>1, <1>2, <1>3, SubSeqProperties
<1>5. Len(t) = q /\ \A k \in 1..q : t[k] = s[k]
  BY <1>1, <1>3
<1> QED BY <1>1, <1>3, <1>4, <1>5 DEF Front

\* The innermost ends: the one around it has its input again.
LEMMA EndsNested ==
  ASSUME NEW p \in Pages, NEW n, NEW in, NEW o, NEW l, Nested(p, n, o), Read(n, in, l), n # <<>>
  PROVE  /\ Nested(p, Front(n), o) /\ Read(Front(n), n[Len(n)].old, l \ {n[Len(n)].stream})
         /\ Len(Front(n)) = Len(n) - 1
         /\ SameUpto(n, o, Front(n), o, Len(n) - 1)
<1> PICK n2 : n2 = Front(n)
  OBVIOUS
<1>1. n \in Seq(Levels(p)) /\ o \in Seq(Streams(p)) /\ Apart(n)
  BY DEF Nested
<1>2. PICK m \in Nat \ {0} : m = Len(n)
  BY <1>1, EmptySeq
<1>3. PICK q \in Nat : q = m - 1 /\ m = q + 1
  <2>1. m - 1 \in Nat /\ m = (m - 1) + 1
    OBVIOUS
  <2> QED BY <2>1
<1>4. n2 \in Seq(Levels(p)) /\ Len(n2) = q /\ \A k \in 1..q : n2[k] = n[k]
  BY <1>1, <1>2, <1>3, FrontIs
<1>5. \A k \in 1..q : k \in 1..m /\ n2[k] = n[k] /\ At(n2, o, k) = At(n, o, k)
  BY <1>2, <1>3, <1>4 DEF At
<1>6. ASSUME NEW k \in 1..q PROVE Level(p, n2, o, k)
  <2>1. Level(p, n, o, k)
    BY <1>2, <1>5 DEF Nested
  <2> QED BY <1>5, <2>1 DEF Level
<1>7. ASSUME NEW k \in 1..q, k < q PROVE Link(p, n2, o, k)
  <2>1. k \in 1..m /\ k < m /\ k + 1 \in 1..q
    BY <1>3, <1>7
  <2>2. Link(p, n, o, k)
    BY <1>2, <2>1 DEF Nested
  <2>3. n2[k + 1] = n[k + 1]
    BY <1>5, <2>1
  <2> QED BY <1>5, <2>2, <2>3 DEF Link
<1>8. Apart(n2)
  <2> SUFFICES ASSUME NEW k \in 1..q, NEW j \in 1..q, j < k
               PROVE  n2[j].stream < n2[k].stream
    BY <1>4 DEF Apart
  <2> QED BY <1>1, <1>2, <1>5 DEF Apart
<1>9. q > 0 => n2[1].file = 1 /\ n2[1].old = 0
  <2> SUFFICES ASSUME q > 0 PROVE n2[1].file = 1 /\ n2[1].old = 0
    OBVIOUS
  <2>1. n[1].file = 1 /\ n[1].old = 0
    BY <1>2 DEF Nested
  <2>2. 1 \in 1..q
    OBVIOUS
  <2>3. n2[1] = n[1]
    BY <1>5, <2>2
  <2> QED BY <2>1, <2>3
<1>10. Nested(p, n2, o)
  BY <1>1, <1>4, <1>6, <1>7, <1>8, <1>9 DEF Nested
<1>11. n[m].old = IF q = 0 THEN 0 ELSE n2[q].stream
  <2>1. CASE q = 0
    <3>1. n[1].old = 0
      BY <1>2 DEF Nested
    <3>2. m = 1
      BY <1>2, <1>3, <2>1
    <3> QED BY <2>1, <3>1, <3>2
  <2>2. CASE q # 0
    <3>1. q \in 1..m /\ q < m /\ q + 1 = m /\ q \in 1..q
      BY <1>3, <2>2
    <3>2. Link(p, n, o, q)
      BY <1>2, <3>1 DEF Nested
    <3> QED BY <1>5, <2>2, <3>1, <3>2 DEF Link
  <2> QED BY <2>1, <2>2
<1>12. l \ {n[m].stream} = {n2[k].stream : k \in 1..q}
  <2>1. l = {n[k].stream : k \in 1..m}
    BY <1>2 DEF Read
  <2>2. \A k \in 1..q : k \in 1..m /\ n2[k].stream = n[k].stream /\ n[k].stream # n[m].stream
    <3>1. ASSUME NEW k \in 1..q PROVE n[k].stream # n[m].stream
      <4>1. k \in 1..m /\ m \in 1..m /\ k < m
        BY <1>3
      <4>2. n[k].stream < n[m].stream
        BY <1>1, <1>2, <4>1 DEF Apart
      <4>3. n[k] \in Levels(p) /\ n[m] \in Levels(p)
        BY <1>1, <1>2, <4>1
      <4>4. n[k].stream \in Nat /\ n[m].stream \in Nat
        BY <4>3 DEF Levels
      <4> QED BY <4>2, <4>4
    <3> QED BY <1>5, <3>1
  <2>3. \A k \in 1..m : k = m \/ k \in 1..q
    BY <1>3
  <2> QED BY <2>1, <2>2, <2>3
<1>13. Read(n2, n[m].old, l \ {n[m].stream})
  BY <1>4, <1>11, <1>12 DEF Read
<1> QED BY <1>2, <1>3, <1>4, <1>5, <1>10, <1>13 DEF SameUpto

-----------------------------------------------------------------------------
(***************************************************************************)
(* What they have written                                                  *)
(***************************************************************************)
LEMMA AtIs ==
  ASSUME NEW p \in Pages, NEW n, NEW o, Nested(p, n, o), NEW k \in 1..Len(n)
  PROVE  /\ n[k].file \in 1..Len(p) /\ At(n, o, k) \in 1..(Len(p[n[k].file]) + 1)
         /\ Len(p[n[k].file]) \in Nat
         /\ k < Len(n) => At(n, o, k) - 2 \in 0..Len(p[n[k].file])
<1>1. Level(p, n, o, k) /\ o \in Seq(Streams(p)) /\ (k < Len(n) => Link(p, n, o, k))
  BY DEF Nested
<1>2. n[k] \in Levels(p) /\ n[k].stream \in 1..Len(o) /\ At(n, o, k) <= Len(p[n[k].file]) + 1
  BY <1>1 DEF Level
<1>3. n[k].file \in 1..Len(p)
  BY <1>2 DEF Levels
<1>4. o[n[k].stream] \in Streams(p)
  BY <1>1, <1>2
<1>5. At(n, o, k) \in Nat \ {0}
  BY <1>4 DEF At, Streams
<1>6. Len(p[n[k].file]) \in Nat
  BY <1>3, WrittenIs
<1>7. k < Len(n) => At(n, o, k) >= 2
  BY <1>1 DEF Link
<1> QED BY <1>2, <1>3, <1>5, <1>6, <1>7

\* What is written is what was written before the innermost began, and its text up to i.
Adds(p, f, i, before, out) == out = before \o Written(p, f)[i]
Before(p, n, o, before) ==
  /\ before \in [1..Len(n) -> Texts] /\ before[1] = <<>>
  /\ \A k \in 1..Len(n) : k < Len(n) =>
       Adds(p, n[k].file, At(n, o, k) - 2, before[k], before[k + 1])

LEMMA WritingIs ==
  ASSUME NEW p \in Pages, NEW n, NEW o, NEW out, NEW before
  PROVE  Writing(p, n, o, out, before) <=>
           /\ Before(p, n, o, before)
           /\ Adds(p, n[Len(n)].file, At(n, o, Len(n)) - 1, before[Len(n)], out)
BY DEF Writing, Before, Adds

LEMMA AddsPart ==
  ASSUME NEW p \in Pages, NEW f \in 1..Len(p), NEW i \in 1..Len(p[f]), NEW part, part = p[f][i],
         part[1] # "nest", NEW before \in Texts, NEW out, Adds(p, f, i - 1, before, out)
  PROVE  Adds(p, f, i, before, Append(out, part))
<1>1. PICK w : w = Written(p, f)
  OBVIOUS
<1>2. Len(p[f]) \in Nat /\ w \in [0..Len(p[f]) -> Texts]
  BY <1>1, WrittenIs
<1>3. i - 1 \in 0..Len(p[f])
  BY <1>2
<1>4. part \in Parts /\ w[i] = w[i - 1] \o <<part>> /\ w[i - 1] \in Texts
  BY <1>1, <1>2, <1>3, WrittenPart
<1>5. PICK x : x = w[i - 1] /\ x \in Texts /\ w[i] = x \o <<part>> /\ out = before \o x
  BY <1>1, <1>4 DEF Adds
<1>6. Append(before \o x, part) = before \o (x \o <<part>>)
  <2>1. PICK y : y = <<part>>
    OBVIOUS
  <2>2. y \in Texts
    BY <1>4, <2>1, TextsAre
  <2>3. before \o x \in Texts
    BY <1>5, TextsAre
  <2>4. Append(before \o x, part) = (before \o x) \o y
    BY <1>4, <2>1, <2>3, TextsAre
  <2>5. (before \o x) \o y = before \o (x \o y)
    BY <1>5, <2>2, Regroup
  <2> QED BY <2>1, <2>4, <2>5
<1> QED BY <1>1, <1>5, <1>6 DEF Adds

LEMMA AddsNest ==
  ASSUME NEW p \in Pages, NEW f \in 1..Len(p), NEW i \in 1..Len(p[f]), NEW t, p[f][i] = <<"nest", t>>,
         NEW first \in Texts, NEW before, Adds(p, f, i - 1, first, before),
         NEW out, out = before \o ExpandedOf(p)[t]
  PROVE  Adds(p, f, i, first, out)
<1>1. PICK w : w = Written(p, f)
  OBVIOUS
<1>2. Len(p[f]) \in Nat /\ w \in [0..Len(p[f]) -> Texts]
  BY <1>1, WrittenIs
<1>3. i - 1 \in 0..Len(p[f])
  BY <1>2
<1>4. t \in 1..Len(p) /\ w[i] = w[i - 1] \o ExpandedOf(p)[t] /\ w[i - 1] \in Texts
  <2>1. t \in 1..Len(p) /\ Written(p, f)[i] = Written(p, f)[i - 1] \o ExpandedOf(p)[t]
    BY WrittenNest
  <2>2. w[i - 1] \in Texts
    BY <1>2, <1>3
  <2> QED BY <1>1, <2>1, <2>2
<1>5. ExpandedOf(p)[t] \in Texts
  BY <1>4, ExpansionIs DEF Texts
<1>6. PICK x, y : x = w[i - 1] /\ x \in Texts /\ y = ExpandedOf(p)[t] /\ y \in Texts
                  /\ w[i] = x \o y /\ before = first \o x
  BY <1>1, <1>4, <1>5 DEF Adds
<1>7. (first \o x) \o y = first \o (x \o y)
  BY <1>6, Regroup
<1> QED BY <1>1, <1>6, <1>7 DEF Adds

LEMMA AddsText ==
  ASSUME NEW p \in Pages, NEW f \in 1..Len(p), NEW i \in 0..Len(p[f]), NEW before \in Texts,
         NEW out, Adds(p, f, i, before, out)
  PROVE  out \in Texts
<1>1. PICK w : w = Written(p, f)
  OBVIOUS
<1>2. w \in [0..Len(p[f]) -> Texts]
  BY <1>1, WrittenIs
<1>3. w[i] \in Texts /\ out = before \o w[i]
  BY <1>1, <1>2 DEF Adds
<1> QED BY <1>3, TextsAre

\* The output of the innermost grows by the part it has read.
LEMMA WritesPart ==
  ASSUME NEW p \in Pages, NEW n, NEW in, NEW o, NEW l, Nested(p, n, o), Read(n, in, l), n # <<>>,
         o[in].at <= Len(p[o[in].file]),
         NEW part, part = p[o[in].file][o[in].at], part[1] # "nest",
         NEW out, NEW before, Writing(p, n, o, out, before)
  PROVE  Writing(p, n, MovedOn(o, in), Append(out, part), before)
<1>10. PICK o2 : o2 = MovedOn(o, in)
  OBVIOUS
<1>1. PICK m \in Nat \ {0} : m = Len(n)
  BY Innermost
<1>2. PICK f \in 1..Len(p) : f = n[m].file /\ o[in].file = f
  BY <1>1, Innermost
<1>3. PICK i \in 1..Len(p[f]) : i = At(n, o, m) /\ part = p[f][i]
  <2>1. o[in].at = At(n, o, m) /\ At(n, o, m) \in 1..(Len(p[f]) + 1)
    BY <1>1, <1>2, Innermost
  <2>2. Len(p[f]) \in Nat
    BY WrittenIs
  <2> QED BY <1>2, <2>1, <2>2
<1>4. /\ At(n, o2, m) = i + 1 /\ \A k \in 1..m : k < m => At(n, o2, k) = At(n, o, k)
  <2>1. Onwards(n, o, o2)
    BY <1>10, StaysNested
  <2> QED BY <1>1, <1>3, <2>1 DEF Onwards
<1>5. Before(p, n, o, before) /\ Adds(p, f, i - 1, before[m], out)
  BY <1>1, <1>2, <1>3, WritingIs
<1>6. before[m] \in Texts
  <2>1. m \in 1..m
    OBVIOUS
  <2> QED BY <1>1, <1>5, <2>1 DEF Before
<1>7. Adds(p, f, i, before[m], Append(out, part))
  BY <1>3, <1>5, <1>6, AddsPart
<1>8. Before(p, n, o2, before)
  BY <1>1, <1>4, <1>5 DEF Before
<1>9. At(n, o2, m) - 1 = i
  BY <1>4
<1> QED BY <1>1, <1>2, <1>7, <1>8, <1>9, <1>10, WritingIs

\* A nested template begins where the goal stands: o1 is o with the goal read.
LEMMA WritesNested ==
  ASSUME NEW p \in Pages, NEW n, NEW o, Nested(p, n, o), NEW m \in Nat \ {0}, m = Len(n),
         NEW o1, Onwards(n, o, o1),
         NEW n2, NEW o2, Nested(p, n2, o2), Len(n2) = m + 1, At(n2, o2, m + 1) = 1,
         SameUpto(n, o1, n2, o2, m),
         NEW out, NEW before, Writing(p, n, o, out, before)
  PROVE  \E b : Writing(p, n2, o2, out, b)
<1>1. m \in 1..m /\ m + 1 \in 1..(m + 1) /\ 1 \in 1..m /\ m + 1 # 1
  OBVIOUS
<1>2. PICK f \in 1..Len(p) : f = n[m].file
  BY <1>1, AtIs
<1>15. PICK i \in 1..(Len(p[f]) + 1) : i = At(n, o, m)
  BY <1>1, <1>2, AtIs
<1>3. Before(p, n, o, before) /\ Adds(p, f, i - 1, before[m], out)
  BY <1>2, <1>15, WritingIs
<1>4. \A k \in 1..m : before[k] \in Texts
  BY <1>3 DEF Before
<1>5. out \in Texts
  <2>1. i - 1 \in 0..Len(p[f])
    BY WrittenIs
  <2> QED BY <1>1, <1>3, <1>4, <2>1, AddsText
<1>6. PICK b : b = [k \in 1..(m + 1) |-> IF k = m + 1 THEN out ELSE before[k]]
  OBVIOUS
<1>7. \A k \in 1..(m + 1) : k = m + 1 \/ (k \in 1..m /\ k # m + 1)
  OBVIOUS
<1>8. b \in [1..(m + 1) -> Texts]
  BY <1>4, <1>5, <1>6, <1>7
<1>9. b[m + 1] = out /\ \A k \in 1..m : b[k] = before[k]
  <2>1. \A k \in 1..m : k \in 1..(m + 1) /\ k # m + 1
    OBVIOUS
  <2> QED BY <1>1, <1>6, <2>1
<1>10. b[1] = <<>>
  BY <1>1, <1>3, <1>9 DEF Before
<1>11. ASSUME NEW k \in 1..(m + 1), k < m + 1
       PROVE  Adds(p, n2[k].file, At(n2, o2, k) - 2, b[k], b[k + 1])
  <2>1. k \in 1..m
    BY <1>11
  <2>2. n2[k] = n[k] /\ At(n2, o2, k) = At(n, o1, k) /\ b[k] = before[k]
    BY <1>9, <2>1 DEF SameUpto
  <2>3. CASE k = m
    <3>1. At(n2, o2, k) = i + 1
      BY <1>15, <2>2, <2>3 DEF Onwards
    <3>2. At(n2, o2, k) - 2 = i - 1
      BY <3>1
    <3> QED BY <1>2, <1>3, <1>9, <2>2, <2>3, <3>2
  <2>4. CASE k # m
    <3>1. k < m /\ k + 1 \in 1..m
      BY <2>1, <2>4
    <3>2. At(n2, o2, k) = At(n, o, k) /\ b[k + 1] = before[k + 1]
      BY <1>9, <2>1, <2>2, <3>1 DEF Onwards
    <3>3. Adds(p, n[k].file, At(n, o, k) - 2, before[k], before[k + 1])
      BY <1>3, <2>1, <3>1 DEF Before
    <3> QED BY <2>2, <3>2, <3>3
  <2> QED BY <2>3, <2>4
<1>12. Adds(p, n2[m + 1].file, At(n2, o2, m + 1) - 1, b[m + 1], out)
  <2>1. n2[m + 1].file \in 1..Len(p)
    BY <1>1, AtIs
  <2>2. Written(p, n2[m + 1].file)[0] = <<>>
    BY <2>1, WrittenIs
  <2>3. out \o <<>> = out
    BY <1>5, TextsAre
  <2>4. At(n2, o2, m + 1) - 1 = 0
    OBVIOUS
  <2> QED BY <1>9, <2>2, <2>3, <2>4 DEF Adds
<1>13. Before(p, n2, o2, b)
  BY <1>8, <1>10, <1>11 DEF Before
<1>14. Writing(p, n2, o2, out, b)
  BY <1>12, <1>13, WritingIs
<1> QED BY <1>14

LEMMA OneLess ==
  ASSUME NEW s \in Nat, NEW a \in 1..(s + 1), a - 2 \in 0..s
  PROVE  a - 1 \in 1..s /\ (a - 1) - 1 = a - 2
OBVIOUS

LEMMA Below ==
  ASSUME NEW q \in Nat, NEW m, q + 1 = m, NEW k \in 1..q, k < q
  PROVE  k \in 1..m /\ k < m /\ k + 1 \in 1..q
OBVIOUS

\* A nested template has ended: what it wrote is what its goal was to write.
LEMMA WritesEnd ==
  ASSUME NEW p \in Pages, NEW n, NEW o, Nested(p, n, o), NEW m \in Nat \ {0}, m = Len(n),
         At(n, o, m) = Len(p[n[m].file]) + 1,
         NEW n2, NEW q \in Nat, q = m - 1, Len(n2) = q, SameUpto(n, o, n2, o, q),
         NEW out, NEW before, Writing(p, n, o, out, before)
  PROVE  /\ q = 0 => out = ExpandedOf(p)[1]
         /\ q > 0 => \E b : Writing(p, n2, o, out, b)
<1>1. m \in 1..m /\ 1 \in 1..m
  OBVIOUS
<1>2. PICK f \in 1..Len(p) : f = n[m].file
  BY <1>1, AtIs
<1>3. Len(p[f]) \in Nat /\ Written(p, f)[Len(p[f])] = ExpandedOf(p)[f]
  BY WrittenIs
<1>4. At(n, o, m) - 1 = Len(p[f])
  BY <1>2, <1>3
<1>5. Before(p, n, o, before) /\ out = before[m] \o ExpandedOf(p)[f]
  <2>1. Before(p, n, o, before) /\ Adds(p, n[m].file, At(n, o, m) - 1, before[m], out)
    BY WritingIs
  <2>2. Adds(p, f, Len(p[f]), before[m], out)
    BY <1>2, <1>4, <2>1
  <2> QED BY <1>3, <2>1, <2>2 DEF Adds
<1>6. ASSUME q = 0 PROVE out = ExpandedOf(p)[1]
  <2>1. m = 1
    BY <1>6
  <2>2. f = 1
    BY <1>2, <2>1 DEF Nested
  <2>3. before[m] = <<>>
    BY <1>5, <2>1 DEF Before
  <2>4. ExpandedOf(p)[f] \in Texts
    BY ExpansionIs DEF Texts
  <2>5. <<>> \o ExpandedOf(p)[f] = ExpandedOf(p)[f]
    BY <2>4, TextsAre
  <2> QED BY <1>5, <2>2, <2>3, <2>5
<1>7. ASSUME q > 0 PROVE \E b : Writing(p, n2, o, out, b)
  <2>1. q \in 1..m /\ q < m /\ q + 1 = m /\ q \in 1..q /\ 1 \in 1..q
    BY <1>7
  <2>16. PICK g \in 1..Len(p) : g = n[q].file
    BY <2>1, AtIs
  <2>2. PICK a \in 1..(Len(p[g]) + 1) : g = n[q].file /\ a = At(n, o, q) /\ a - 2 \in 0..Len(p[g])
    BY <2>1, <2>16, AtIs
  <2>3. PICK i \in 1..Len(p[g]) : i = a - 1 /\ i - 1 = a - 2
    <3>1. Len(p[g]) \in Nat
      BY WrittenIs
    <3>2. a - 1 \in 1..Len(p[g]) /\ (a - 1) - 1 = a - 2
      BY <2>2, <3>1, OneLess
    <3> QED BY <3>2
  <2>4. p[g][i] = <<"nest", f>>
    <3>1. Link(p, n, o, q)
      BY <2>1 DEF Nested
    <3>2. p[n[q].file][At(n, o, q) - 1] = <<"nest", n[q + 1].file>>
      BY <3>1 DEF Link
    <3> QED BY <1>2, <2>1, <2>2, <2>3, <3>2
  <2>5. before[q] \in Texts /\ Adds(p, g, i - 1, before[q], before[m])
    <3>1. Adds(p, n[q].file, At(n, o, q) - 2, before[q], before[q + 1])
      BY <1>5, <2>1 DEF Before
    <3>2. before[q] \in Texts
      BY <1>5, <2>1 DEF Before
    <3> QED BY <2>1, <2>2, <2>3, <3>1, <3>2
  <2>6. Adds(p, g, i, before[q], out)
    BY <1>5, <2>4, <2>5, AddsNest
  <2>7. PICK b : b = [k \in 1..q |-> before[k]]
    OBVIOUS
  <2>8. \A k \in 1..q : b[k] = before[k]
    BY <2>7
  <2>9. \A k \in 1..q : k \in 1..m
    BY <2>1
  <2>10. \A k \in 1..q : before[k] \in Texts
    BY <1>5, <2>9 DEF Before
  <2>11. b \in [1..q -> Texts] /\ b[1] = <<>>
    BY <1>5, <2>1, <2>7, <2>10 DEF Before
  <2>12. ASSUME NEW k \in 1..q, k < q
         PROVE  Adds(p, n2[k].file, At(n2, o, k) - 2, b[k], b[k + 1])
    <3>1. k \in 1..m /\ k < m /\ k + 1 \in 1..q
      BY <2>1, <2>12, Below
    <3>2. n2[k] = n[k] /\ At(n2, o, k) = At(n, o, k) /\ b[k] = before[k] /\ b[k + 1] = before[k + 1]
      BY <2>8, <3>1 DEF SameUpto
    <3>3. Adds(p, n[k].file, At(n, o, k) - 2, before[k], before[k + 1])
      BY <1>5, <3>1 DEF Before
    <3> QED BY <3>2, <3>3
  <2>13. Before(p, n2, o, b)
    BY <2>11, <2>12 DEF Before
  <2>14. Adds(p, n2[q].file, At(n2, o, q) - 1, b[q], out)
    <3>1. n2[q] = n[q] /\ At(n2, o, q) = At(n, o, q)
      BY <2>1 DEF SameUpto
    <3> QED BY <2>1, <2>2, <2>3, <2>6, <2>8, <3>1
  <2>15. Writing(p, n2, o, out, b)
    BY <2>13, <2>14, WritingIs
  <2> QED BY <2>15
<1> QED BY <1>6, <1>7

-----------------------------------------------------------------------------
(***************************************************************************)
(* The steps                                                               *)
(***************************************************************************)
LEMMA CtInitially == CtInit => CtInv
<1> SUFFICES ASSUME CtInit PROVE CtInv
  OBVIOUS
<1>1. page \in Pages /\ nest = <<>> /\ input = 0 /\ opened = <<>> /\ live = {} /\ calls = 0
  BY DEF CtInit, CtStart
<1>2. nest \in Seq(Levels(page)) /\ opened \in Seq(Streams(page)) /\ Len(nest) = 0
  BY <1>1, EmptySeq
<1>3. Nested(page, nest, opened)
  BY <1>2 DEF Nested, Apart
<1>4. Read(nest, input, live)
  <2>1. {nest[k].stream : k \in 1..0} = {}
    OBVIOUS
  <2> QED BY <1>1, <1>2, <2>1 DEF Read
<1>5. Underway(page, nest, input, opened, live, output, calls)
  BY <1>1, <1>2, <1>3, <1>4 DEF Underway
<1> QED BY <1>1, <1>5 DEF CtInv

LEMMA GenerateKeeps ==
  ASSUME CtInv, Generate
  PROVE  CtInv'
<1> SUFFICES ASSUME ~escaped PROVE CtInv'
  BY DEF CtInv, Generate
<1>1. page \in Pages /\ Underway(page, nest, input, opened, live, output, calls)
  BY DEF CtInv
<1>2. nest = <<>> /\ page' = page /\ output' = <<>> /\ escaped' = escaped
      /\ opened' = Append(opened, [file |-> 1, at |-> 1])
      /\ nest' = Append(nest, [file |-> 1, stream |-> Len(opened) + 1, old |-> input])
      /\ live' = live \cup {Len(opened) + 1} /\ input' = Len(opened) + 1
  BY DEF Generate, Started, InTemplate
<1>3. Len(nest) = 0 /\ Nested(page, nest, opened) /\ Read(nest, input, live)
  BY <1>1, <1>2 DEF Underway
<1>4. 1 \in 1..Len(page)
  BY <1>1, PagesAre
<1>12. PICK f \in 1..Len(page) : f = 1
  BY <1>4
<1>5. /\ Nested(page, nest', opened') /\ Read(nest', input', live')
      /\ Len(nest') = 1 /\ nest'[1].file = 1 /\ At(nest', opened', 1) = 1
  <2>1. /\ Nested(page, nest', opened') /\ Read(nest', input', live')
        /\ Len(nest') = Len(nest) + 1 /\ nest'[Len(nest) + 1].file = 1
        /\ At(nest', opened', Len(nest) + 1) = 1
    <3>1. StartsAs(nest, opened, input, f, nest', opened')
      BY <1>2, <1>12 DEF StartsAs
    <3>2. AfterGoal(page, nest, opened, f)
      BY <1>3, <1>12 DEF AfterGoal
    <3>3. /\ Nested(page, nest', opened')
          /\ Read(nest', Len(opened) + 1, live \cup {Len(opened) + 1})
          /\ Len(nest') = Len(nest) + 1 /\ nest'[Len(nest) + 1].file = f
          /\ At(nest', opened', Len(nest) + 1) = 1
      <4>1. page \in Pages
        BY <1>1
      <4>2. Nested(page, nest, opened) /\ Read(nest, input, live)
        BY <1>3
      <4>3. Nested(page, nest', opened')
        BY <3>1, <3>2, <4>1, <4>2, StartsNested
      <4>4. Read(nest', Len(opened) + 1, live \cup {Len(opened) + 1})
        BY <3>1, <3>2, <4>1, <4>2, StartsNested
      <4>5. OneMore(nest, opened, f, nest', opened')
        BY <3>1, <3>2, <4>1, <4>2, StartsNested
      <4> QED BY <4>3, <4>4, <4>5 DEF OneMore
    <3> QED BY <1>2, <1>12, <3>3
  <2> QED BY <1>3, <2>1
<1>6. PICK before : before = [k \in 1..1 |-> <<>>]
  OBVIOUS
<1>7. before \in [1..1 -> Texts] /\ before[1] = <<>>
  BY <1>6, TextsAre
<1>8. Before(page, nest', opened', before)
  BY <1>5, <1>7 DEF Before
<1>9. Adds(page, nest'[1].file, At(nest', opened', 1) - 1, before[1], output')
  <2>1. Written(page, 1)[0] = <<>> /\ <<>> \o <<>> = <<>>
    BY <1>1, <1>4, WrittenIs, TextsAre
  <2> QED BY <1>2, <1>5, <1>7, <2>1 DEF Adds
<1>10. Writing(page, nest', opened', output', before)
  BY <1>1, <1>5, <1>8, <1>9, WritingIs
<1>11. Underway(page, nest', input', opened', live', output', calls')
  BY <1>5, <1>10 DEF Underway
<1> QED BY <1>1, <1>2, <1>11 DEF CtInv

\* What the innermost template is about to read.
LEMMA Reading ==
  ASSUME CtInv, ~escaped, InTemplate
  PROVE  /\ page \in Pages /\ Nested(page, nest, opened) /\ Read(nest, input, live) /\ nest # <<>>
         /\ \E before : Writing(page, nest, opened, output, before)
         /\ ~AtEof => opened[input].at <= Len(page[opened[input].file])
<1>1. page \in Pages /\ Underway(page, nest, input, opened, live, output, calls) /\ nest # <<>>
  BY DEF CtInv, InTemplate
<1>2. Nested(page, nest, opened) /\ Read(nest, input, live)
  BY <1>1 DEF Underway
<1>3. Len(nest) > 0 /\ opened[input].at \in Nat /\ Len(page[opened[input].file]) \in Nat
  <2>1. /\ Len(nest) \in Nat \ {0} /\ opened[input].file \in 1..Len(page)
        /\ opened[input].at = At(nest, opened, Len(nest))
        /\ At(nest, opened, Len(nest)) \in 1..(Len(page[nest[Len(nest)].file]) + 1)
    BY <1>1, <1>2, Innermost
  <2>2. Len(page[opened[input].file]) \in Nat
    BY <1>1, <2>1, WrittenIs
  <2>3. opened[input].at \in Nat
    BY <2>1
  <2> QED BY <2>1, <2>2, <2>3
<1>4. \E before : Writing(page, nest, opened, output, before)
  BY <1>1, <1>3 DEF Underway
<1>5. ~AtEof => opened[input].at <= Len(page[opened[input].file])
  BY <1>3 DEF AtEof, Position
<1> QED BY <1>1, <1>2, <1>4, <1>5

LEMMA PartKeeps ==
  ASSUME CtInv, CtPart
  PROVE  CtInv'
<1> SUFFICES ASSUME ~escaped PROVE CtInv'
  BY DEF CtInv, CtPart
<1>1. InTemplate /\ ~AtEof
  BY DEF CtPart
<1>2. /\ page \in Pages /\ Nested(page, nest, opened) /\ Read(nest, input, live) /\ nest # <<>>
      /\ opened[input].at <= Len(page[opened[input].file])
  BY <1>1, Reading
<1>3. PICK before : Writing(page, nest, opened, output, before)
  BY <1>1, Reading
<1>4. PICK part : part = Part
  OBVIOUS
<1>5. part = page[opened[input].file][opened[input].at] /\ part[1] # "nest"
  BY <1>4 DEF CtPart, Part, Position
<1>6. page' = page /\ nest' = nest /\ input' = input /\ live' = live
      /\ output' = Append(output, part) /\ opened' = MovedOn(opened, input)
  BY <1>4 DEF CtPart, Writes, Moved, MovedOn
<1>7. Nested(page, nest, opened')
  BY <1>2, <1>6, StaysNested
<1>8. Writing(page, nest, opened', output', before)
  BY <1>2, <1>3, <1>5, <1>6, WritesPart
<1>9. Len(nest) # 0
  BY <1>2, Innermost
<1>10. Underway(page, nest, input, opened', live, output', calls')
  BY <1>2, <1>7, <1>8, <1>9 DEF Underway
<1> QED BY <1>2, <1>6, <1>10 DEF CtInv

LEMMA NestKeeps ==
  ASSUME CtInv, CtNest
  PROVE  CtInv'
<1> SUFFICES ASSUME ~escaped PROVE CtInv'
  BY DEF CtInv, CtNest
<1>1. InTemplate /\ ~AtEof
  BY DEF CtNest
<1>2. /\ page \in Pages /\ Nested(page, nest, opened) /\ Read(nest, input, live) /\ nest # <<>>
      /\ opened[input].at <= Len(page[opened[input].file])
  BY <1>1, Reading
<1>3. PICK before : Writing(page, nest, opened, output, before)
  BY <1>1, Reading
<1>4. PICK m \in Nat \ {0} : m = Len(nest)
  BY <1>2, Innermost
<1>5. PICK o1 : o1 = MovedOn(opened, input)
  OBVIOUS
<1>6. Nested(page, nest, o1) /\ Onwards(nest, opened, o1)
  BY <1>2, <1>5, StaysNested
<1>7. PICK f \in 1..Len(page) :
        /\ f = Part[2] /\ At(nest, o1, m) >= 2
        /\ page[nest[m].file][At(nest, o1, m) - 1] = <<"nest", f>>
  <2>1. /\ opened[input].file = nest[m].file /\ nest[m].file \in 1..Len(page)
        /\ opened[input].at = At(nest, opened, m) /\ input \in 1..Len(opened)
        /\ At(nest, opened, m) \in 1..(Len(page[nest[m].file]) + 1)
    BY <1>2, <1>4, Innermost
  <2>2. Len(page[nest[m].file]) \in Nat
    BY <1>2, <2>1, WrittenIs
  <2>3. PICK i \in 1..Len(page[nest[m].file]) : i = At(nest, opened, m)
    BY <1>2, <2>1, <2>2
  <2>4. At(nest, o1, m) >= 2 /\ At(nest, o1, m) - 1 = i
    BY <1>4, <1>6, <2>3 DEF Onwards
  <2>5. PICK part \in Parts : part = Part /\ part = page[nest[m].file][i] /\ part[1] = "nest"
    <3>1. page[nest[m].file][i] \in Parts
      <4>1. PICK g \in 1..Len(page) : g = nest[m].file /\ i \in 1..Len(page[g])
        BY <2>1
      <4>2. page[g] \in Seq(Parts)
        BY <1>2, PagesAre
      <4>3. page[g][i] \in Parts
        BY <4>1, <4>2, ElementOfSeq
      <4> QED BY <4>1, <4>3
    <3> QED BY <2>1, <2>3, <3>1 DEF CtNest, Part, Position
  <2>6. part = <<"nest", part[2]>>
    BY <2>5 DEF Parts
  <2>7. part[2] \in 1..Len(page)
    BY <1>2, <2>1, <2>5, PagesAre
  <2> QED BY <2>4, <2>5, <2>6, <2>7
<1>8. page' = page /\ output' = output /\ escaped' = escaped
      /\ opened' = Append(o1, [file |-> f, at |-> 1])
      /\ nest' = Append(nest, [file |-> f, stream |-> Len(o1) + 1, old |-> input])
      /\ live' = live \cup {Len(o1) + 1} /\ input' = Len(o1) + 1
  BY <1>5, <1>7 DEF CtNest, Started, Moved, MovedOn
<1>9. /\ Nested(page, nest', opened') /\ Read(nest', input', live')
      /\ Len(nest') = m + 1 /\ At(nest', opened', m + 1) = 1
      /\ SameUpto(nest, o1, nest', opened', m)
  <2>1. StartsAs(nest, o1, input, f, nest', opened')
    BY <1>8 DEF StartsAs
  <2>2. AfterGoal(page, nest, o1, f)
    BY <1>4, <1>7 DEF AfterGoal
  <2>3. /\ Nested(page, nest', opened') /\ Read(nest', Len(o1) + 1, live \cup {Len(o1) + 1})
        /\ OneMore(nest, o1, f, nest', opened')
    BY <1>2, <1>6, <2>1, <2>2, StartsNested
  <2> QED BY <1>4, <1>8, <2>3 DEF OneMore
<1>10. PICK b : Writing(page, nest', opened', output, b)
  BY <1>2, <1>3, <1>4, <1>6, <1>9, WritesNested
<1>11. Underway(page, nest', input', opened', live', output', calls')
  BY <1>8, <1>9, <1>10 DEF Underway
<1> QED BY <1>2, <1>8, <1>11 DEF CtInv

LEMMA EndKeeps ==
  ASSUME CtInv, CtEnd
  PROVE  CtInv'
<1> SUFFICES ASSUME ~escaped PROVE CtInv'
  BY DEF CtInv, CtEnd
<1>1. InTemplate /\ AtEof
  BY DEF CtEnd
<1>2. /\ page \in Pages /\ Nested(page, nest, opened) /\ Read(nest, input, live) /\ nest # <<>>
  BY <1>1, Reading
<1>3. PICK before : Writing(page, nest, opened, output, before)
  BY <1>1, Reading
<1>4. PICK m \in Nat \ {0} : m = Len(nest)
  BY <1>2, Innermost
<1>5. PICK q \in Nat : q = m - 1
  OBVIOUS
<1>6. page' = page /\ output' = output /\ escaped' = escaped /\ opened' = opened
      /\ nest' = Front(nest) /\ input' = nest[m].old /\ live' = live \ {nest[m].stream}
  BY <1>4 DEF CtEnd, Inner, Last
<1>7. /\ Nested(page, nest', opened) /\ Read(nest', input', live') /\ Len(nest') = q
      /\ SameUpto(nest, opened, nest', opened, q)
  <2>1. /\ Nested(page, Front(nest), opened)
        /\ Read(Front(nest), nest[Len(nest)].old, live \ {nest[Len(nest)].stream})
        /\ Len(Front(nest)) = Len(nest) - 1
        /\ SameUpto(nest, opened, Front(nest), opened, Len(nest) - 1)
    BY <1>2, EndsNested
  <2> QED BY <1>4, <1>5, <1>6, <2>1
<1>8. At(nest, opened, m) = Len(page[nest[m].file]) + 1
  <2>1. /\ opened[input].file = nest[m].file /\ nest[m].file \in 1..Len(page)
        /\ opened[input].at = At(nest, opened, m)
        /\ At(nest, opened, m) \in 1..(Len(page[nest[m].file]) + 1)
    BY <1>2, <1>4, Innermost
  <2>2. Len(page[nest[m].file]) \in Nat
    BY <1>2, <2>1, WrittenIs
  <2>3. At(nest, opened, m) > Len(page[nest[m].file])
    BY <1>1, <2>1 DEF AtEof, Position
  <2> QED BY <2>1, <2>2, <2>3
<1>9. /\ q = 0 => output = ExpandedOf(page)[1]
      /\ q > 0 => \E b : Writing(page, nest', opened, output, b)
  BY <1>2, <1>3, <1>4, <1>5, <1>7, <1>8, WritesEnd
<1>10. Underway(page, nest', input', opened', live', output', calls')
  BY <1>6, <1>7, <1>9 DEF Underway
<1> QED BY <1>2, <1>6, <1>10 DEF CtInv

LEMMA CtKept == CtInv /\ [CtNext]_ctVars => CtInv'
<1> SUFFICES ASSUME CtInv, [CtNext]_ctVars PROVE CtInv'
  OBVIOUS
<1>1. CASE Generate
  BY <1>1, GenerateKeeps
<1>2. CASE CtPart
  BY <1>2, PartKeeps
<1>3. CASE CtNest
  BY <1>3, NestKeeps
<1>4. CASE CtRaises
  BY <1>4 DEF CtInv, CtRaises
<1>5. CASE CtEnd
  BY <1>5, EndKeeps
<1>6. CASE UNCHANGED ctVars
  BY <1>6 DEF CtInv, ctVars
<1> QED BY <1>1, <1>2, <1>3, <1>4, <1>5, <1>6 DEF CtNext

\* What the check expects is the expansion that exists.
LEMMA ExpandedIs == Expanded = ExpandedOf(page)
BY DEF Expanded, ExpandedOf, PiecesOf

LEMMA CtInvWhole == CtInv => TemplatesWhole
<1> SUFFICES ASSUME CtInv, BackInProgram, ~escaped PROVE Whole
  BY DEF TemplatesWhole
<1>1. nest = <<>> /\ calls > 0 /\ page \in Pages
  BY DEF BackInProgram, InTemplate, CtInv
<1>2. Underway(page, nest, input, opened, live, output, calls)
  BY DEF CtInv
<1>3. Len(nest) = 0
  BY <1>1
<1>4. output = ExpandedOf(page)[1] /\ input = 0
  BY <1>1, <1>2, <1>3 DEF Underway, Read
<1>5. live = {}
  <2>1. live = {nest[k].stream : k \in 1..0}
    BY <1>2, <1>3 DEF Underway, Read
  <2> QED BY <2>1
<1> QED BY <1>4, <1>5, ExpandedIs DEF Whole

\* A call writes the whole of its template, with every nested one where it stands,
\* closes what it opened and leaves the program its input, as long as no error has
\* left a template: for any files, and any depth of nesting.
THEOREM TemplatesWholeCorrect == CtSpec => []TemplatesWhole
<1>1. CtSpec => []CtInv
  BY CtInitially, CtKept, PTL DEF CtSpec
<1> QED BY <1>1, CtInvWhole, PTL

-----------------------------------------------------------------------------
(***************************************************************************)
(* Files in which every goal is a term.  No error leaves a template then:  *)
(* those of goals are caught where the goal stands (common.pl).            *)
(***************************************************************************)
NoRaises == \A p \in Pages : \A f \in DOMAIN p : \A i \in DOMAIN p[f] : p[f][i][1] # "raises"

\* Each part that is no template is written.
LEMMA PartWritten ==
  ASSUME NEW p \in Pages, NEW f \in 1..Len(p), NEW i \in 1..Len(p[f]), p[f][i][1] # "nest"
  PROVE  p[f][i] \in ToSet(ExpandedOf(p)[f])
<1> DEFINE pieces == PiecesOf(p, ExpandedOf(p), f)
<1>1. pieces \in Seq(Seq(Parts)) /\ Len(pieces) = Len(p[f]) /\ Len(p[f]) \in Nat
  <2>1. pieces \in Seq(Seq(Parts))
    BY ExpansionIs, PiecesAre
  <2>2. PICK n \in Nat : n = Len(p[f])
    BY PagesAre
  <2>3. DOMAIN pieces = 1..n
    BY <2>2 DEF PiecesOf
  <2>4. DOMAIN pieces = 1..Len(pieces) /\ Len(pieces) \in Nat
    BY <2>1
  <2> HIDE DEF pieces
  <2>5. Len(pieces) = n
    BY <2>3, <2>4
  <2> QED BY <2>1, <2>2, <2>5
<1> HIDE DEF pieces
<1>2. PICK w : w = Written(p, f) /\ IsFlattening(w, Parts, pieces)
  BY <1>1, FlatteningIs DEF Written, pieces
<1>3. PICK n \in Nat : n = Len(p[f])
  BY <1>1
<1>4. w \in [0..n -> Texts] /\ w[n] = ExpandedOf(p)[f]
  BY <1>2, <1>3, WrittenIs
<1>5. w[i] = w[i - 1] \o <<p[f][i]>> /\ p[f][i] \in Parts
  BY <1>2, WrittenPart
<1>6. PICK a \in Texts : a = w[i - 1]
  BY <1>3, <1>4
<1>7. PICK b \in Texts : b = w[i] /\ Begins(b, w[n])
  <2>1. i \in 0..Len(pieces) /\ w[i] \in Texts
    BY <1>1, <1>3, <1>4
  <2> QED BY <1>1, <1>2, <1>3, <2>1, FlatteningBegins
<1>8. PICK part \in Parts : part = p[f][i]
  BY <1>5
<1>9. Len(a) \in Nat /\ Len(b) = Len(a) + 1 /\ b[Len(a) + 1] = part
  <2>1. b = a \o <<part>> /\ a \in Seq(Parts) /\ <<part>> \in Seq(Parts)
    BY <1>5, <1>6, <1>7, <1>8, TextsAre DEF Texts
  <2>2. Len(<<part>>) = 1 /\ <<part>>[1] = part
    OBVIOUS
  <2> QED BY <2>1, <2>2, ConcatBegins
<1>10. PICK c \in Seq(Parts) : c = ExpandedOf(p)[f] /\ Begins(b, c)
  BY <1>3, <1>4, <1>7 DEF Texts
<1>11. Len(a) + 1 \in 1..Len(b) /\ Len(a) + 1 \in DOMAIN c /\ c[Len(a) + 1] = part
  BY <1>9, <1>10 DEF Begins
<1> QED BY <1>8, <1>10, <1>11 DEF ToSet

LEMMA NothingRaised ==
  ASSUME NoRaises, CtInv, ~escaped
  PROVE  ~CtRaises
<1> SUFFICES ASSUME CtRaises PROVE FALSE
  OBVIOUS
<1>1. InTemplate /\ ~AtEof /\ Part[1] = "raises"
  BY DEF CtRaises
<1>2. /\ page \in Pages /\ nest # <<>> /\ Nested(page, nest, opened) /\ Read(nest, input, live)
      /\ opened[input].at <= Len(page[opened[input].file])
  BY <1>1, Reading
<1>3. /\ opened[input].file \in 1..Len(page)
      /\ opened[input].at = At(nest, opened, Len(nest))
      /\ At(nest, opened, Len(nest)) \in 1..(Len(page[nest[Len(nest)].file]) + 1)
  BY <1>2, Innermost
<1>4. PICK f \in 1..Len(page) : f = opened[input].file
  BY <1>3
<1>5. PICK i \in Nat \ {0} : i = opened[input].at
  <2>1. Len(page[nest[Len(nest)].file]) + 1 \in Int
    BY <1>2, Innermost, WrittenIs
  <2> QED BY <1>3
<1>6. page[f] \in Seq(Parts) /\ i <= Len(page[f]) /\ DOMAIN page = 1..Len(page)
  BY <1>2, <1>4, <1>5, PagesAre
<1>7. i \in DOMAIN page[f]
  BY <1>6
<1>8. page[f][i][1] # "raises"
  BY <1>2, <1>6, <1>7 DEF NoRaises
<1> QED BY <1>1, <1>4, <1>5, <1>8 DEF Part, Position

\* Every text of a template is written, whatever its goals and those of the templates
\* nested in it throw, if each goal is a term; with one that is none, the run cgi_nested
\* finds an outer template that is left behind (generate_html_output).
THEOREM OuterTemplateWholeCorrect ==
  ASSUME NoRaises
  PROVE  CtSpec => []OuterTemplateWhole
<1>1. CtInit => CtInv /\ ~escaped
  BY CtInitially DEF CtInit, CtStart
<1>2. CtInv /\ ~escaped /\ [CtNext]_ctVars => CtInv' /\ ~escaped'
  <2> SUFFICES ASSUME CtInv, ~escaped, [CtNext]_ctVars PROVE CtInv' /\ ~escaped'
    OBVIOUS
  <2>1. CtInv'
    BY CtKept
  <2>2. ~CtRaises
    BY NothingRaised
  <2>3. escaped' = escaped
    BY <2>2 DEF CtNext, Generate, CtPart, CtNest, CtEnd, ctVars
  <2> QED BY <2>1, <2>3
<1>3. CtInv /\ ~escaped => OuterTemplateWhole
  <2> SUFFICES ASSUME CtInv, ~escaped, BackInProgram PROVE OuterTemplateWhole
    BY DEF OuterTemplateWhole
  <2>1. page \in Pages /\ output = ExpandedOf(page)[1]
    BY CtInvWhole, ExpandedIs DEF TemplatesWhole, Whole, CtInv
  <2>2. 1 \in 1..Len(page) /\ page[1] \in Seq(Parts)
    BY <2>1, PagesAre
  <2>3. ASSUME NEW i \in DOMAIN page[1], page[1][i][1] = "text" PROVE page[1][i] \in ToSet(output)
    <3>1. i \in 1..Len(page[1])
      BY <2>2
    <3>2. page[1][i][1] # "nest"
      BY <2>3
    <3> QED BY <2>1, <2>2, <3>1, <3>2, PartWritten
  <2> QED BY <2>3 DEF OuterTemplateWhole
<1> QED BY <1>1, <1>2, <1>3, PTL DEF CtSpec

-----------------------------------------------------------------------------
(***************************************************************************)
(* Requests: the text of the parameters and where each of them stands in   *)
(* it.                                                                     *)
(***************************************************************************)
Codes == Tokens \cup {"=", "&"}
Pairs == [name : Seq(Tokens), value : Seq(Tokens)]

LEMMA SeparatorsAre ==
  "=" \in Codes /\ "&" \in Codes /\ \A t \in Tokens : t \in Codes /\ t # "=" /\ t # "&"
BY DEF Codes, Tokens

\* What follows the text before a parameter: an & unless it is the first, and itself.
Section(p, i) == IF i = 1 THEN Joined(p[i]) ELSE <<"&">> \o Joined(p[i])
Sections(p) == [i \in 1..Len(p) |-> Section(p, i)]

LEMMA JoinedIs ==
  ASSUME NEW x \in Pairs
  PROVE  /\ Joined(x) \in Seq(Codes)
         /\ Len(Joined(x)) = Len(x.name) + 1 + Len(x.value)
         /\ \A j \in 1..Len(x.name) : Joined(x)[j] = x.name[j]
         /\ Joined(x)[Len(x.name) + 1] = "="
         /\ \A j \in 1..Len(x.value) : Joined(x)[Len(x.name) + 1 + j] = x.value[j]
<1>1. PICK a \in Seq(Codes), b \in Seq(Codes), e \in Seq(Codes) :
        a = x.name /\ b = x.value /\ e = <<"=">>
  <2>1. x.name \in Seq(Tokens) /\ x.value \in Seq(Tokens)
    BY DEF Pairs
  <2>2. Tokens \subseteq Codes
    BY SeparatorsAre
  <2>3. x.name \in Seq(Codes) /\ x.value \in Seq(Codes)
    BY <2>1, <2>2, SeqMonotonic
  <2>4. <<"=">> \in Seq(Codes)
    BY SeparatorsAre
  <2> QED BY <2>3, <2>4
<1>2. Len(e) = 1 /\ e[1] = "="
  BY <1>1
<1>3. PICK c \in Seq(Codes) : c = a \o e
  BY ConcatProperties
<1>4. Len(c) = Len(a) + 1 /\ c[Len(a) + 1] = "=" /\ \A j \in 1..Len(a) : c[j] = a[j]
  <2>1. Len(c) = Len(a) + Len(e) /\ \A j \in 1..Len(e) : c[Len(a) + j] = e[j]
    BY <1>3, ConcatBegins
  <2>2. \A j \in 1..Len(a) : c[j] = a[j]
    BY <1>3, ConcatBegins DEF Begins
  <2> QED BY <1>2, <2>1, <2>2
<1>5. Joined(x) = c \o b
  BY <1>1, <1>3 DEF Joined
<1>6. PICK d \in Seq(Codes) : d = c \o b
  BY ConcatProperties
<1>7. Len(d) = Len(c) + Len(b) /\ \A j \in 1..Len(b) : d[Len(c) + j] = b[j]
  BY <1>6, ConcatBegins
<1>8. \A j \in 1..Len(c) : d[j] = c[j]
  BY <1>6, ConcatBegins DEF Begins
<1>9. PICK m \in Nat : m = Len(a) /\ Len(c) = m + 1
  BY <1>4
<1>10. (\A j \in 1..m : d[j] = a[j]) /\ d[m + 1] = "="
  BY <1>4, <1>8, <1>9
<1>11. Len(d) = m + 1 + Len(b) /\ \A j \in 1..Len(b) : d[m + 1 + j] = b[j]
  BY <1>7, <1>9
<1> QED BY <1>1, <1>5, <1>6, <1>9, <1>10, <1>11

LEMMA SectionsAre ==
  ASSUME NEW p \in Seq(Pairs)
  PROVE  /\ Sections(p) \in Seq(Seq(Codes)) /\ Len(Sections(p)) = Len(p)
         /\ \A i \in 1..Len(p) : Sections(p)[i] = Section(p, i)
         /\ Body(p) = FlattenSeq(Sections(p))
<1>1. PICK n \in Nat : n = Len(p)
  OBVIOUS
<1>2. \A i \in 1..n : Section(p, i) \in Seq(Codes)
  <2> TAKE i \in 1..n
  <2>1. Joined(p[i]) \in Seq(Codes)
    <3>1. p[i] \in Pairs
      BY <1>1
    <3> QED BY <3>1, JoinedIs
  <2>2. <<"&">> \in Seq(Codes)
    BY SeparatorsAre
  <2>3. <<"&">> \o Joined(p[i]) \in Seq(Codes)
    BY <2>1, <2>2, ConcatProperties
  <2> QED BY <2>1, <2>3 DEF Section
<1>3. Sections(p) = [i \in 1..n |-> Section(p, i)]
  BY <1>1 DEF Sections
<1> HIDE DEF Section
<1>4. Sections(p) \in [1..n -> Seq(Codes)]
  BY <1>2, <1>3
<1>5. Sections(p) \in Seq(Seq(Codes)) /\ Len(Sections(p)) = n
  BY <1>4, IsASeq, LenProperties
<1>6. Body(p) = FlattenSeq(Sections(p))
  BY DEF Body, Sections, Section
<1> QED BY <1>1, <1>3, <1>5, <1>6

-----------------------------------------------------------------------------
\* Parameter q stands in text t at s[q]: its name, a =, its value, and then an & and the
\* next parameter or the end of the text.
StandsAt(t, p, s, q) ==
  /\ \A j \in 1..Len(p[q].name) : t[s[q] + j - 1] = p[q].name[j]
  /\ t[s[q] + Len(p[q].name)] = "="
  /\ \A j \in 1..Len(p[q].value) : t[s[q] + Len(p[q].name) + j] = p[q].value[j]
  /\ s[q] + Len(p[q].name) + Len(p[q].value) <= Len(t)
FollowedBy(t, p, s, q, past) ==
  IF q < Len(p)
  THEN t[past] = "&" /\ past <= Len(t) /\ s[q + 1] = past + 1
  ELSE past = Len(t) + 1
Laid(t, p, s) ==
  /\ t \in Seq(Codes) /\ s \in [1..Len(p) -> Nat \ {0}]
  /\ IF Len(p) = 0 THEN Len(t) = 0 ELSE s[1] = 1
  /\ \A q \in 1..Len(p) : /\ StandsAt(t, p, s, q)
                          /\ FollowedBy(t, p, s, q, s[q] + Len(p[q].name) + Len(p[q].value) + 1)

LEMMA SectionAt ==
  ASSUME NEW p \in Seq(Pairs), NEW w, IsFlattening(w, Codes, Sections(p)), NEW q \in 1..Len(p)
  PROVE  /\ Len(w[q - 1]) \in Nat /\ Len(w[q]) \in Nat
         /\ Len(w[q]) = Len(w[q - 1]) + Len(Section(p, q)) /\ Len(w[q]) <= Len(w[Len(p)])
         /\ \A j \in 1..Len(Section(p, q)) :
              w[Len(p)][Len(w[q - 1]) + j] = Section(p, q)[j]
<1>1. PICK n \in Nat : n = Len(p)
  OBVIOUS
<1>2. PICK x \in Seq(Codes) : x = Section(p, q)
  <2>1. Sections(p)[q] \in Seq(Codes) /\ Sections(p)[q] = Section(p, q)
    BY SectionsAre
  <2> QED BY <2>1
<1>3. PICK a \in Seq(Codes), b \in Seq(Codes), t \in Seq(Codes) :
        a = w[q - 1] /\ b = w[q] /\ t = w[n]
  <2>1. w \in [0..n -> Seq(Codes)]
    BY <1>1, SectionsAre DEF IsFlattening
  <2>2. q - 1 \in 0..n /\ q \in 0..n /\ n \in 0..n
    BY <1>1
  <2> QED BY <2>1, <2>2
<1>4. b = a \o x
  <2>1. \A i \in 1..n : w[i] = w[i - 1] \o Sections(p)[i] /\ Sections(p)[i] = Section(p, i)
    BY <1>1, SectionsAre DEF IsFlattening
  <2> QED BY <1>1, <1>2, <1>3, <2>1
<1>5. Len(b) = Len(a) + Len(x) /\ \A j \in 1..Len(x) : b[Len(a) + j] = x[j]
  BY <1>4, ConcatBegins
<1>6. Len(b) <= Len(t) /\ \A j \in 1..Len(b) : t[j] = b[j]
  <2>1. Begins(b, t)
    BY <1>1, <1>3, SectionsAre, FlatteningBegins
  <2> QED BY <2>1 DEF Begins
<1>7. \A j \in 1..Len(x) : t[Len(a) + j] = x[j]
  <2>1. \A j \in 1..Len(x) : Len(a) + j \in 1..Len(b)
    BY <1>5
  <2> QED BY <1>5, <1>6, <2>1
<1>8. Len(a) \in Nat /\ Len(b) \in Nat
  OBVIOUS
<1> QED BY <1>1, <1>2, <1>3, <1>5, <1>6, <1>7, <1>8

\* Text x stands in text t after its first o tokens.
StandsAfter(t, o, x) == \A j \in 1..Len(x) : t[o + j] = x[j]

\* The place of a parameter, given what comes before it.
Offset(w, q) == IF q = 1 THEN 0 ELSE Len(w[q - 1]) + 1

LEMMA OffsetIs ==
  ASSUME NEW p \in Seq(Pairs), NEW w, IsFlattening(w, Codes, Sections(p)), NEW q \in 1..Len(p)
  PROVE  /\ Offset(w, q) \in Nat
         /\ Len(w[q]) = Offset(w, q) + Len(Joined(p[q])) /\ Len(w[q]) <= Len(w[Len(p)])
         /\ StandsAfter(w[Len(p)], Offset(w, q), Joined(p[q]))
         /\ q # 1 => w[Len(p)][Len(w[q - 1]) + 1] = "&" /\ Len(w[q - 1]) + 1 <= Len(w[Len(p)])
<1>1. PICK x \in Seq(Codes) : x = Joined(p[q])
  <2>1. p[q] \in Pairs
    OBVIOUS
  <2> QED BY <2>1, JoinedIs
<1>0. PICK t : t = w[Len(p)]
  OBVIOUS
<1>2. PICK a \in Nat, b \in Nat, c \in Nat :
        a = Len(w[q - 1]) /\ b = Len(w[q]) /\ b <= c /\ c = Len(w[Len(p)]) /\ t = w[Len(p)]
  <2>1. Len(w[Len(p)]) \in Nat
    <3>1. Len(p) \in 1..Len(p)
      OBVIOUS
    <3> QED BY <3>1, SectionAt
  <2> QED BY <1>0, <2>1, SectionAt
<1>3. b = a + Len(Section(p, q)) /\ \A j \in 1..Len(Section(p, q)) : t[a + j] = Section(p, q)[j]
  BY <1>2, SectionAt
<1>4. CASE q = 1
  <2>1. a = 0
    BY <1>2, <1>4, EmptySeq DEF IsFlattening
  <2>2. Section(p, q) = x
    BY <1>1, <1>4 DEF Section
  <2>3. StandsAfter(t, 0, x) /\ b = 0 + Len(x) /\ Offset(w, q) = 0
    BY <1>3, <1>4, <2>1, <2>2 DEF Offset, StandsAfter
  <2> QED BY <1>1, <1>2, <1>4, <2>3
<1>5. CASE q # 1
  <2>1. PICK e \in Seq(Codes) : e = <<"&">> /\ Len(e) = 1 /\ e[1] = "&"
    <3>1. <<"&">> \in Seq(Codes)
      BY SeparatorsAre
    <3> QED BY <3>1
  <2>2. Section(p, q) = e \o x
    BY <1>1, <1>5, <2>1 DEF Section
  <2>3. PICK y \in Seq(Codes) : y = e \o x /\ Len(y) = 1 + Len(x) /\ y[1] = "&"
                                /\ \A j \in 1..Len(x) : y[1 + j] = x[j]
    <3>1. PICK y \in Seq(Codes) : y = e \o x
      BY ConcatProperties
    <3>2. Len(y) = 1 + Len(x) /\ \A j \in 1..Len(x) : y[1 + j] = x[j]
      BY <2>1, <3>1, ConcatBegins
    <3>3. y[1] = "&"
      BY <2>1, <3>1, ConcatBegins DEF Begins
    <3> QED BY <3>1, <3>2, <3>3
  <2>4. b = a + 1 + Len(x) /\ \A j \in 1..(1 + Len(x)) : t[a + j] = y[j]
    BY <1>3, <2>2, <2>3
  <2>5. t[a + 1] = "&"
    BY <2>3, <2>4
  <2>6. StandsAfter(t, a + 1, x)
    <3> SUFFICES ASSUME NEW j \in 1..Len(x) PROVE t[a + 1 + j] = x[j]
      BY DEF StandsAfter
    <3>1. 1 + j \in 1..(1 + Len(x)) /\ a + (1 + j) = a + 1 + j
      OBVIOUS
    <3> QED BY <2>3, <2>4, <3>1
  <2>7. Offset(w, q) = a + 1
    BY <1>2, <1>5 DEF Offset
  <2>8. a + 1 <= b /\ b = (a + 1) + Len(x) /\ a + 1 \in Nat
    BY <2>4
  <2>9. q # 1 => t[a + 1] = "&" /\ a + 1 <= c
    BY <1>2, <2>5, <2>8
  <2>10. b = (a + 1) + Len(x) /\ b <= c
    BY <1>2, <2>8
  <2> QED BY <1>1, <1>2, <2>6, <2>7, <2>8, <2>9, <2>10
<1> QED BY <1>4, <1>5

LEMMA LaidOut ==
  ASSUME NEW p \in Seq(Pairs)
  PROVE  \E s : Laid(Body(p), p, s)
<1>1. PICK n \in Nat : n = Len(p)
  OBVIOUS
<1>2. PICK w : IsFlattening(w, Codes, Sections(p))
  BY SectionsAre, FlatteningExists
<1>3. PICK t \in Seq(Codes) : t = Body(p) /\ t = w[n]
  BY <1>1, <1>2, SectionsAre DEF IsFlattening
<1>4. PICK s : s = [q \in 1..n |-> Offset(w, q) + 1]
  OBVIOUS
<1>5. s \in [1..n -> Nat \ {0}] /\ \A q \in 1..n : s[q] = Offset(w, q) + 1
  BY <1>1, <1>2, <1>4, OffsetIs
<1>6. ASSUME NEW q \in 1..n
      PROVE  StandsAt(t, p, s, q)
             /\ FollowedBy(t, p, s, q, s[q] + Len(p[q].name) + Len(p[q].value) + 1)
  <2>1. PICK a \in Nat, b \in Nat : a = Len(p[q].name) /\ b = Len(p[q].value)
    <3>1. p[q] \in Pairs
      BY <1>1
    <3>2. p[q].name \in Seq(Tokens) /\ p[q].value \in Seq(Tokens)
      BY <3>1 DEF Pairs
    <3>3. Len(p[q].name) \in Nat /\ Len(p[q].value) \in Nat
      BY <3>2, LenProperties
    <3> QED BY <3>3
  <2>2. PICK x : x = Joined(p[q])
    OBVIOUS
  <2>3. /\ Len(x) = a + 1 + b /\ x[a + 1] = "="
        /\ \A j \in 1..a : x[j] = p[q].name[j]
        /\ \A j \in 1..b : x[a + 1 + j] = p[q].value[j]
    <3>1. p[q] \in Pairs
      BY <1>1
    <3>2. PICK y : y = p[q]
      OBVIOUS
    <3>3. /\ Len(Joined(y)) = Len(y.name) + 1 + Len(y.value)
          /\ \A j \in 1..Len(y.name) : Joined(y)[j] = y.name[j]
          /\ Joined(y)[Len(y.name) + 1] = "="
          /\ \A j \in 1..Len(y.value) : Joined(y)[Len(y.name) + 1 + j] = y.value[j]
      BY <3>1, <3>2, JoinedIs
    <3> QED BY <2>1, <2>2, <3>2, <3>3
  <2>4. PICK o \in Nat : o = Offset(w, q) /\ s[q] = o + 1
    BY <1>1, <1>2, <1>5, OffsetIs
  <2>5. /\ Len(w[q]) = o + Len(x) /\ Len(w[q]) <= Len(t)
        /\ \A j \in 1..Len(x) : t[o + j] = x[j]
    <3>1. q \in 1..Len(p)
      BY <1>1
    <3>2. /\ Len(w[q]) = Offset(w, q) + Len(Joined(p[q])) /\ Len(w[q]) <= Len(w[Len(p)])
          /\ StandsAfter(w[Len(p)], Offset(w, q), Joined(p[q]))
      BY <1>2, <3>1, OffsetIs
    <3>3. StandsAfter(t, o, x)
      BY <1>1, <1>3, <2>2, <2>4, <3>2, Zenon
    <3>4. Len(w[q]) = o + Len(x) /\ Len(w[q]) <= Len(t)
      BY <1>1, <1>3, <2>2, <2>4, <3>2
    <3> QED BY <3>3, <3>4 DEF StandsAfter
  <2>6. \A j \in 1..a : t[s[q] + j - 1] = p[q].name[j]
    <3> TAKE j \in 1..a
    <3>1. s[q] + j - 1 = o + j /\ j \in 1..Len(x)
      BY <2>3, <2>4
    <3> QED BY <2>3, <2>5, <3>1
  <2>7. t[s[q] + a] = "="
    <3>1. PICK i \in 1..Len(x) : i = a + 1 /\ o + i = s[q] + a
      BY <2>3, <2>4
    <3>2. x[i] = "=" /\ t[o + i] = x[i]
      BY <2>3, <2>5, <3>1
    <3> QED BY <3>1, <3>2
  <2>8. \A j \in 1..b : t[s[q] + a + j] = p[q].value[j]
    <3> TAKE j \in 1..b
    <3>1. s[q] + a + j = o + (a + 1 + j) /\ a + 1 + j \in 1..Len(x)
      BY <2>3, <2>4
    <3> QED BY <2>3, <2>5, <3>1
  <2>9. s[q] + a + b = Len(w[q]) /\ s[q] + a + b + 1 = Len(w[q]) + 1
    <3>1. Len(w[q]) = o + (a + 1 + b)
      BY <2>3, <2>5
    <3>2. PICK e, m : e = s[q] /\ m = Len(w[q])
      OBVIOUS
    <3>3. e = o + 1 /\ m = o + (a + 1 + b)
      BY <2>4, <3>1, <3>2
    <3>4. e + a + b = m /\ e + a + b + 1 = m + 1
      BY <3>3
    <3> QED BY <3>2, <3>4
  <2>10. s[q] + Len(p[q].name) + Len(p[q].value) + 1 = Len(w[q]) + 1
    BY <2>1, <2>9
  <2>11. StandsAt(t, p, s, q)
    BY <2>1, <2>5, <2>6, <2>7, <2>8, <2>9 DEF StandsAt
  <2>12. CASE q < n
    <3>1. PICK h \in 1..n : h = q + 1 /\ h - 1 = q /\ h # 1
      BY <2>12
    <3>2. t[Len(w[q]) + 1] = "&" /\ Len(w[q]) + 1 <= Len(t)
      <4>1. h \in 1..Len(p) /\ h # 1
        BY <1>1, <3>1
      <4>2. w[Len(p)][Len(w[h - 1]) + 1] = "&" /\ Len(w[h - 1]) + 1 <= Len(w[Len(p)])
        BY <1>2, <4>1, OffsetIs
      <4> QED BY <1>1, <1>3, <3>1, <4>2
    <3>3. s[q + 1] = Len(w[q]) + 1 + 1
      BY <1>5, <3>1 DEF Offset
    <3>4. FollowedBy(t, p, s, q, Len(w[q]) + 1)
      <4>1. PICK e : e = Len(w[q]) + 1
        OBVIOUS
      <4>2. q < Len(p)
        BY <1>1, <2>12
      <4>3. FollowedBy(t, p, s, q, e)
        BY <3>2, <3>3, <4>1, <4>2, Zenon DEF FollowedBy
      <4> QED BY <4>1, <4>3
    <3> QED BY <2>10, <2>11, <3>4
  <2>13. CASE ~(q < n)
    <3>1. q = n /\ w[q] = t
      BY <1>3, <2>13
    <3>2. FollowedBy(t, p, s, q, Len(w[q]) + 1)
      BY <1>1, <2>13, <3>1 DEF FollowedBy
    <3> QED BY <2>10, <2>11, <3>2
  <2> QED BY <2>12, <2>13
<1>7. IF n = 0 THEN Len(t) = 0 ELSE s[1] = 1
  <2>1. CASE n = 0
    <3>1. t = <<>>
      BY <1>2, <1>3, <2>1 DEF IsFlattening
    <3> QED BY <2>1, <3>1, EmptySeq
  <2>2. CASE n # 0
    <3>1. 1 \in 1..n /\ Offset(w, 1) = 0
      BY <2>2 DEF Offset
    <3> QED BY <1>5, <2>2, <3>1
  <2> QED BY <2>1, <2>2
<1> QED BY <1>1, <1>3, <1>5, <1>6, <1>7 DEF Laid

Starts(p) == CHOOSE s : Laid(Body(p), p, s)

LEMMA StartsAre ==
  ASSUME NEW p \in Seq(Pairs)
  PROVE  Laid(Body(p), p, Starts(p))
BY LaidOut DEF Starts

-----------------------------------------------------------------------------
(***************************************************************************)
(* What is read of a text                                                  *)
(***************************************************************************)
\* The parameters before the first that cannot be told apart.
Broken(p) == {i \in 1..Len(p) : ~Plain(p[i])}
Intact(p) ==
  IF Broken(p) = {} THEN Len(p) ELSE (CHOOSE i \in Broken(p) : \A j \in Broken(p) : i <= j) - 1

LEMMA IntactIs ==
  ASSUME NEW p, Len(p) \in Nat
  PROVE  /\ Intact(p) \in 0..Len(p) /\ (Intact(p) = Len(p) => Broken(p) = {})
         /\ \A i \in 1..Intact(p) : Plain(p[i])
<1>1. PICK T \in SUBSET Nat : T = Broken(p) /\ T \subseteq 1..Len(p)
  <2>1. Broken(p) \subseteq 1..Len(p)
    BY DEF Broken
  <2> HIDE DEF Broken
  <2>2. Broken(p) \in SUBSET Nat
    BY <2>1
  <2> QED BY <2>1, <2>2
<1>2. CASE T = {}
  <2>1. Intact(p) = Len(p) /\ \A i \in 1..Len(p) : Plain(p[i])
    BY <1>1, <1>2 DEF Intact, Broken
  <2> QED BY <1>1, <1>2, <2>1
<1>3. CASE T # {}
  <2>1. PICK x \in T : x = CHOOSE i \in T : \A j \in T : i <= j
    BY <1>3, Least
  <2>2. \A j \in T : x <= j
    BY <1>3, <2>1, Least
  <2>3. Intact(p) = x - 1
    BY <1>1, <1>3, <2>1 DEF Intact
  <2>4. \A i \in 1..(x - 1) : Plain(p[i])
    <3> TAKE i \in 1..(x - 1)
    <3>1. ~(i \in T) /\ i \in 1..Len(p)
      BY <1>1, <2>1, <2>2
    <3> QED BY <1>1, <3>1 DEF Broken
  <2>5. x - 1 \in 0..Len(p) /\ x - 1 # Len(p)
    BY <1>1, <2>1
  <2> QED BY <2>3, <2>4, <2>5
<1> QED BY <1>2, <1>3

LEMMA EmptyFiltered == Filter(<<>>) = <<>>
<1>1. PICK f : f = [i \in 1..Len(<<>>) |-> FilterOne(<<>>[i])]
  OBVIOUS
<1>2. f = <<>> /\ Len(<<>>) = 0
  BY <1>1
<1>3. Filter(<<>>) = FlattenSeq(f)
  BY <1>1 DEF Filter
<1> QED BY <1>2, <1>3 DEF FlattenSeq

\* Text c is text a and one token more, x, and begins text b.
Grown(a, x, b, c, S) ==
  /\ c \in Seq(S) /\ c = Append(a, x) /\ Begins(c, b)
  /\ Len(c) = Len(a) + 1 /\ Ends(c) = x

LEMMA BeginsGrows ==
  ASSUME NEW S, NEW a \in Seq(S), NEW b \in Seq(S), Begins(a, b), Len(a) # Len(b), NEW x,
         x = b[Len(a) + 1]
  PROVE  Grown(a, x, b, Append(a, x), S)
<1>1. x \in S /\ Len(a) + 1 <= Len(b)
  BY DEF Begins
<1>2. PICK c \in Seq(S) : c = Append(a, x)
  BY <1>1, AppendProperties
<1>3. Len(c) = Len(a) + 1 /\ c[Len(a) + 1] = x /\ \A j \in 1..Len(a) : c[j] = a[j]
  BY <1>1, <1>2, AppendProperties
<1>4. Begins(c, b)
  BY <1>1, <1>3 DEF Begins
<1>5. c # <<>> /\ Last(c) = x
  BY <1>3, EmptySeq DEF Last
<1> QED BY <1>1, <1>2, <1>3, <1>4, <1>5 DEF Ends, Grown

LEMMA BeginsWhole ==
  ASSUME NEW S, NEW a \in Seq(S), NEW b \in Seq(S), Begins(a, b), Len(a) = Len(b)
  PROVE  a = b
BY SeqEqual DEF Begins

LEMMA NothingBegins ==
  ASSUME NEW S, NEW b \in Seq(S)
  PROVE  <<>> \in Seq(S) /\ Begins(<<>>, b) /\ Len(<<>>) = 0 /\ Ends(<<>>) = "start"
BY EmptySeq DEF Begins, Ends

-----------------------------------------------------------------------------
\* Where the scan is when w has been read of the name, or of the value, of parameter q.
NameAt(p, s, q, w) == s[q] + Len(w)
ValueAt(p, s, q, w) == s[q] + Len(p[q].name) + 1 + Len(w)

LEMMA PairIs ==
  ASSUME NEW p \in Seq(Pairs), NEW q \in 1..Len(p)
  PROVE  p[q].name \in Seq(Tokens) /\ p[q].value \in Seq(Tokens)
<1>1. p[q] \in Pairs
  OBVIOUS
<1> QED BY <1>1 DEF Pairs

LEMMA PlaceIs ==
  ASSUME NEW p \in Seq(Pairs), NEW t, NEW s, Laid(t, p, s), NEW q \in 1..Len(p)
  PROVE  s[q] \in Nat /\ Len(p[q].name) \in Nat /\ Len(p[q].value) \in Nat
<1>1. PICK x \in Seq(Tokens), y \in Seq(Tokens) : x = p[q].name /\ y = p[q].value
  BY PairIs
<1>2. Len(x) \in Nat /\ Len(y) \in Nat
  OBVIOUS
<1>3. s[q] \in Nat
  BY DEF Laid
<1> QED BY <1>1, <1>2, <1>3

LEMMA NameNext ==
  ASSUME NEW p \in Seq(Pairs), NEW t, NEW s, Laid(t, p, s), NEW q \in 1..Len(p),
         NEW w \in Seq(Tokens), Begins(w, p[q].name)
  PROVE  /\ NameAt(p, s, q, w) \in Nat /\ NameAt(p, s, q, w) <= Len(t)
         /\ IF Len(w) = Len(p[q].name)
            THEN t[NameAt(p, s, q, w)] = "="
            ELSE t[NameAt(p, s, q, w)] = p[q].name[Len(w) + 1] /\ p[q].name[Len(w) + 1] \in Tokens
<1>1. PICK x \in Seq(Tokens), y \in Seq(Tokens) : x = p[q].name /\ y = p[q].value
  BY PairIs
<1>2. PICK a \in Nat, b \in Nat, k \in Nat : a = Len(x) /\ b = Len(y) /\ k = Len(w)
  OBVIOUS
<1>3. PICK o \in Nat \ {0} : o = s[q]
  BY DEF Laid
<1>4. k <= a
  BY <1>1, <1>2 DEF Begins
<1>5. StandsAt(t, p, s, q) /\ Len(t) \in Nat
  BY DEF Laid
<1>6. (\A j \in 1..a : t[o + j - 1] = x[j]) /\ t[o + a] = "=" /\ o + a + b <= Len(t)
  BY <1>1, <1>2, <1>3, <1>5 DEF StandsAt
<1>7. NameAt(p, s, q, w) = o + k
  BY <1>2, <1>3 DEF NameAt
<1>8. o + k \in Nat /\ o + k <= Len(t)
  BY <1>4, <1>5, <1>6
<1>9. k # a => t[o + k] = x[k + 1] /\ x[k + 1] \in Tokens
  <2> HAVE k # a
  <2>1. PICK j \in 1..a : j = k + 1 /\ o + j - 1 = o + k
    BY <1>4
  <2>2. x[j] \in Tokens
    BY <1>2
  <2>3. t[o + j - 1] = x[j]
    BY <1>6
  <2> QED BY <2>1, <2>2, <2>3
<1>10. k = a => t[o + k] = "="
  BY <1>6
<1> QED BY <1>1, <1>2, <1>7, <1>8, <1>9, <1>10

LEMMA ValueNext ==
  ASSUME NEW p \in Seq(Pairs), NEW t, NEW s, Laid(t, p, s), NEW q \in 1..Len(p),
         NEW w \in Seq(Tokens), Begins(w, p[q].value)
  PROVE  /\ ValueAt(p, s, q, w) \in Nat
         /\ IF Len(w) = Len(p[q].value)
            THEN FollowedBy(t, p, s, q, ValueAt(p, s, q, w))
            ELSE /\ ValueAt(p, s, q, w) <= Len(t)
                 /\ t[ValueAt(p, s, q, w)] = p[q].value[Len(w) + 1]
                 /\ p[q].value[Len(w) + 1] \in Tokens
<1>1. PICK x \in Seq(Tokens), y \in Seq(Tokens) : x = p[q].name /\ y = p[q].value
  BY PairIs
<1>2. PICK a \in Nat, b \in Nat, k \in Nat : a = Len(x) /\ b = Len(y) /\ k = Len(w)
  OBVIOUS
<1>3. PICK o \in Nat \ {0} : o = s[q]
  BY DEF Laid
<1>4. k <= b
  BY <1>1, <1>2 DEF Begins
<1>5. StandsAt(t, p, s, q) /\ Len(t) \in Nat
  BY DEF Laid
<1>6. (\A j \in 1..b : t[o + a + j] = y[j]) /\ o + a + b <= Len(t)
  BY <1>1, <1>2, <1>3, <1>5 DEF StandsAt
<1>7. PICK m \in Nat : m = ValueAt(p, s, q, w) /\ m = o + a + 1 + k
  BY <1>1, <1>2, <1>3 DEF ValueAt
<1>8. k # b => m <= Len(t) /\ t[m] = y[k + 1] /\ y[k + 1] \in Tokens
  <2> HAVE k # b
  <2>1. PICK j \in 1..b : j = k + 1 /\ o + a + j = m /\ m <= o + a + b
    BY <1>4, <1>7
  <2>2. y[j] \in Tokens
    BY <1>2
  <2>3. t[o + a + j] = y[j]
    BY <1>6
  <2> QED BY <1>5, <1>6, <2>1, <2>2, <2>3
<1>9. k = b => FollowedBy(t, p, s, q, m)
  <2> HAVE k = b
  <2>1. FollowedBy(t, p, s, q, s[q] + Len(p[q].name) + Len(p[q].value) + 1)
    BY DEF Laid
  <2>2. s[q] + Len(p[q].name) + Len(p[q].value) + 1 = o + a + b + 1
    BY <1>1, <1>2, <1>3
  <2>3. o + a + b + 1 = m
    BY <1>7
  <2> QED BY <2>1, <2>2, <2>3, Zenon
<1> QED BY <1>1, <1>2, <1>7, <1>8, <1>9

-----------------------------------------------------------------------------
\* The facts of the first q parameters, below the others.
IsSequence(in) == \E S : in \in Seq(S)
Facts(p, in, q) ==
  q <= Len(in) /\ \A i \in 1..q : in[Len(in) + 1 - i] = Decoded(p[i])

LEMMA FactAdded ==
  ASSUME NEW p, NEW in, IsSequence(in), NEW q \in Nat, Facts(p, in, q), NEW x
  PROVE  /\ IsSequence(<<x>> \o in) /\ Len(<<x>> \o in) = Len(in) + 1 /\ Len(in) \in Nat
         /\ Facts(p, <<x>> \o in, q)
         /\ Len(in) = q /\ x = Decoded(p[q + 1]) => Facts(p, <<x>> \o in, q + 1)
<1>1. PICK S : in \in Seq(S)
  BY DEF IsSequence
<1>2. PICK R : R = S \cup {x}
  OBVIOUS
<1>3. in \in Seq(R) /\ <<x>> \in Seq(R)
  <2>1. S \subseteq R /\ x \in R
    BY <1>2
  <2>2. in \in Seq(R)
    BY <1>1, <2>1, SeqMonotonic
  <2> QED BY <2>1, <2>2
<1>4. PICK y \in Seq(R) : y = <<x>> \o in
  BY <1>3, ConcatProperties
<1>5. PICK n \in Nat : n = Len(in)
  BY <1>3
<1>6. Len(y) = n + 1 /\ \A j \in 1..n : y[1 + j] = in[j]
  <2>1. Len(<<x>>) = 1
    OBVIOUS
  <2> QED BY <1>3, <1>4, <1>5, <2>1, ConcatBegins
<1>7. y[1] = x
  <2>1. Len(<<x>>) = 1 /\ <<x>>[1] = x
    OBVIOUS
  <2> QED BY <1>3, <1>4, <2>1, ConcatBegins DEF Begins
<1>8. q <= n /\ \A i \in 1..q : in[n + 1 - i] = Decoded(p[i])
  BY <1>5 DEF Facts
<1>9. ASSUME NEW i \in 1..q PROVE y[n + 2 - i] = Decoded(p[i])
  <2>1. PICK j \in 1..n : j = n + 1 - i /\ 1 + j = n + 2 - i
    BY <1>8
  <2> QED BY <1>6, <1>8, <2>1
<1>10. Facts(p, y, q)
  <2>1. \A i \in 1..q : Len(y) + 1 - i = n + 2 - i
    BY <1>6
  <2> QED BY <1>6, <1>8, <1>9, <2>1 DEF Facts
<1>11. n = q /\ x = Decoded(p[q + 1]) => Facts(p, y, q + 1)
  <2> HAVE n = q /\ x = Decoded(p[q + 1])
  <2>1. ASSUME NEW i \in 1..(q + 1) PROVE y[Len(y) + 1 - i] = Decoded(p[i])
    <3>1. CASE i = q + 1
      <4>1. Len(y) + 1 - i = 1
        BY <1>6, <3>1
      <4> QED BY <1>7, <3>1, <4>1
    <3>2. CASE i # q + 1
      <4>1. i \in 1..q /\ Len(y) + 1 - i = n + 2 - i
        BY <1>6, <3>2
      <4> QED BY <1>9, <4>1
    <3> QED BY <3>1, <3>2
  <2> QED BY <1>6, <2>1 DEF Facts
<1> QED BY <1>4, <1>5, <1>6, <1>10, <1>11 DEF IsSequence

-----------------------------------------------------------------------------
(***************************************************************************)
(* How far the scan is: within a parameter that can be told apart, past    *)
(* the first that cannot, or at the end.                                   *)
(***************************************************************************)
InName(p, s, q, pc, at, prev, w) ==
  /\ pc = "name" /\ w \in Seq(Tokens) /\ Begins(w, p[q].name)
  /\ at = NameAt(p, s, q, w) /\ prev = Ends(w)
InValue(p, s, q, pc, at, prev, name, w) ==
  /\ pc = "value" /\ name = Filter(p[q].name) /\ w \in Seq(Tokens) /\ Begins(w, p[q].value)
  /\ at = ValueAt(p, s, q, w) /\ prev = Ends(w)
Within(p, s, q, pc, at, prev, name, w, in) ==
  /\ Len(in) = q - 1 /\ Facts(p, in, q - 1)
  /\ InName(p, s, q, pc, at, prev, w) \/ InValue(p, s, q, pc, at, prev, name, w)
Beyond(p, in) == Intact(p) < Len(p) /\ Facts(p, in, Intact(p))
AtEnd(p, t, pc, at, name, w, in) ==
  /\ Intact(p) = Len(p) /\ Len(in) = Len(p) /\ Facts(p, in, Len(p))
  /\ w = <<>> /\ at = Len(t) + 1 /\ (pc = "value" => name = <<>>)
Progress(p, s, t, pc, at, prev, name, w, in) ==
  \/ \E q \in 1..Intact(p) : Within(p, s, q, pc, at, prev, name, w, in)
  \/ Beyond(p, in)
  \/ AtEnd(p, t, pc, at, name, w, in)

LEMMA PlainIs ==
  ASSUME NEW p \in Seq(Pairs), NEW q \in 1..Intact(p)
  PROVE  /\ q \in 1..Len(p) /\ Intact(p) \in Nat /\ Len(p) \in Nat /\ Intact(p) <= Len(p)
         /\ Filter(p[q].name) # <<>> \/ Filter(p[q].value) # <<>>
         /\ Ends(p[q].name) # "\\" /\ Ends(p[q].value) # "\\"
<1>1. PICK n \in Nat : n = Len(p)
  OBVIOUS
<1>2. Intact(p) \in 0..n /\ Plain(p[q])
  BY <1>1, IntactIs
<1> QED BY <1>1, <1>2 DEF Plain

\* The start of a parameter, or of what is past them.
LEMMA NextParameter ==
  ASSUME NEW p \in Seq(Pairs), NEW t, NEW s, Laid(t, p, s), NEW q \in 0..Intact(p),
         NEW in, Len(in) = q, Facts(p, in, q), NEW at,
         IF q < Len(p) THEN at = s[q + 1] ELSE at = Len(t) + 1
  PROVE  Progress(p, s, t, "name", at, "start", <<>>, <<>>, in)
<1>1. PICK n \in Nat, m \in Nat : n = Len(p) /\ m = Intact(p) /\ m <= n
  BY IntactIs
<1>2. CASE q < m
  <2>1. PICK h \in 1..m : h = q + 1 /\ h - 1 = q
    BY <1>1, <1>2
  <2>2. p[h].name \in Seq(Tokens)
    BY <1>1, <2>1, PairIs
  <2>3. <<>> \in Seq(Tokens) /\ Begins(<<>>, p[h].name) /\ Ends(<<>>) = "start" /\ Len(<<>>) = 0
    BY <2>2, NothingBegins
  <2>4. s[h] \in Nat
    BY <1>1, <2>1 DEF Laid
  <2>5. at = NameAt(p, s, h, <<>>)
    BY <1>1, <1>2, <2>1, <2>3, <2>4 DEF NameAt
  <2>6. InName(p, s, h, "name", at, "start", <<>>)
    BY <2>3, <2>5 DEF InName
  <2>7. Within(p, s, h, "name", at, "start", <<>>, <<>>, in)
    BY <2>1, <2>6 DEF Within
  <2> QED BY <1>1, <2>7 DEF Progress
<1>3. CASE q = m /\ m < n
  <2>1. Beyond(p, in)
    BY <1>1, <1>3 DEF Beyond
  <2> QED BY <2>1 DEF Progress
<1>4. CASE q = m /\ m = n
  <2>1. AtEnd(p, t, "name", at, <<>>, <<>>, in)
    BY <1>1, <1>4 DEF AtEnd
  <2> QED BY <2>1 DEF Progress
<1> QED BY <1>1, <1>2, <1>3, <1>4

-----------------------------------------------------------------------------
SeparatorOf(pc) == IF pc = "name" THEN "=" ELSE "&"
Stops(t, pc, at, prev) == t[at] = SeparatorOf(pc) /\ prev # "\\"
More(t, at) == ~(at > Len(t))
After(t, at) == IF at > Len(t) THEN at ELSE at + 1

LEMMA LaidIs ==
  ASSUME NEW p \in Seq(Pairs), NEW t, NEW s, Laid(t, p, s)
  PROVE  Len(t) \in Nat /\ Len(p) \in Nat
BY DEF Laid

\* The next token of a name or of a value.
LEMMA ScanReadsOn ==
  ASSUME NEW p \in Seq(Pairs), NEW t, NEW s, Laid(t, p, s),
         NEW pc, NEW at, NEW prev, NEW name, NEW w, NEW in,
         Progress(p, s, t, pc, at, prev, name, w, in), More(t, at), ~Stops(t, pc, at, prev)
  PROVE  Progress(p, s, t, pc, at + 1, t[at], name, Append(w, t[at]), in)
<1>1. CASE \E q \in 1..Intact(p) : Within(p, s, q, pc, at, prev, name, w, in)
  <2>1. PICK q \in 1..Intact(p) : Within(p, s, q, pc, at, prev, name, w, in)
    BY <1>1
  <2>2. q \in 1..Len(p) /\ Ends(p[q].name) # "\\" /\ Ends(p[q].value) # "\\"
    BY PlainIs
  <2>3. PICK x \in Seq(Tokens), y \in Seq(Tokens) : x = p[q].name /\ y = p[q].value
    BY <2>2, PairIs
  <2>4. Len(t) \in Nat
    BY LaidIs
  <2>5. CASE InName(p, s, q, pc, at, prev, w)
    <3>1. /\ pc = "name" /\ w \in Seq(Tokens) /\ Begins(w, x) /\ at = NameAt(p, s, q, w)
          /\ prev = Ends(w)
      BY <2>3, <2>5 DEF InName
    <3>2. at \in Nat /\ IF Len(w) = Len(x) THEN t[at] = "=" ELSE t[at] = x[Len(w) + 1]
      BY <2>2, <2>3, <3>1, NameNext
    <3>3. Len(w) # Len(x)
      <4> SUFFICES ASSUME Len(w) = Len(x) PROVE FALSE
        OBVIOUS
      <4>1. w = x
        BY <3>1, BeginsWhole
      <4>2. prev # "\\" /\ t[at] = "="
        BY <2>2, <2>3, <3>1, <3>2, <4>1
      <4> QED BY <3>1, <4>2 DEF Stops, SeparatorOf
    <3>4. t[at] = x[Len(w) + 1]
      BY <3>2, <3>3
    <3>5. PICK v \in Seq(Tokens) :
             v = Append(w, t[at]) /\ Begins(v, x) /\ Len(v) = Len(w) + 1 /\ Ends(v) = t[at]
      <4>1. Grown(w, t[at], x, Append(w, t[at]), Tokens)
        BY <3>1, <3>3, <3>4, BeginsGrows
      <4> QED BY <4>1 DEF Grown
    <3>6. at + 1 = NameAt(p, s, q, v)
      <4>1. PICK o \in Nat, k \in Nat : o = s[q] /\ k = Len(w)
        BY <2>2, <3>1, PlaceIs
      <4>2. at = o + k /\ NameAt(p, s, q, v) = o + (k + 1)
        BY <3>1, <3>5, <4>1 DEF NameAt
      <4> QED BY <4>2
    <3>7. InName(p, s, q, pc, at + 1, t[at], v)
      BY <2>3, <3>1, <3>5, <3>6 DEF InName
    <3>8. Within(p, s, q, pc, at + 1, t[at], name, v, in)
      BY <2>1, <3>7 DEF Within
    <3> QED BY <3>5, <3>8 DEF Progress
  <2>6. CASE InValue(p, s, q, pc, at, prev, name, w)
    <3>1. /\ pc = "value" /\ w \in Seq(Tokens) /\ Begins(w, y) /\ at = ValueAt(p, s, q, w)
          /\ prev = Ends(w) /\ name = Filter(p[q].name)
      BY <2>3, <2>6 DEF InValue
    <3>2. at \in Nat /\ IF Len(w) = Len(y) THEN FollowedBy(t, p, s, q, at) ELSE t[at] = y[Len(w) + 1]
      BY <2>2, <2>3, <3>1, ValueNext
    <3>3. Len(w) # Len(y)
      <4> SUFFICES ASSUME Len(w) = Len(y) PROVE FALSE
        OBVIOUS
      <4>1. w = y
        BY <3>1, BeginsWhole
      <4>2. prev # "\\" /\ FollowedBy(t, p, s, q, at)
        BY <2>2, <2>3, <3>1, <3>2, <4>1
      <4>3. CASE q < Len(p)
        <5>1. t[at] = "&"
          BY <4>2, <4>3 DEF FollowedBy
        <5> QED BY <3>1, <4>2, <5>1 DEF Stops, SeparatorOf
      <4>4. CASE ~(q < Len(p))
        <5>1. at = Len(t) + 1
          BY <4>2, <4>4 DEF FollowedBy
        <5> QED BY <2>4, <5>1 DEF More
      <4> QED BY <4>3, <4>4
    <3>4. t[at] = y[Len(w) + 1]
      BY <3>2, <3>3
    <3>5. PICK v \in Seq(Tokens) :
             v = Append(w, t[at]) /\ Begins(v, y) /\ Len(v) = Len(w) + 1 /\ Ends(v) = t[at]
      <4>1. Grown(w, t[at], y, Append(w, t[at]), Tokens)
        BY <3>1, <3>3, <3>4, BeginsGrows
      <4> QED BY <4>1 DEF Grown
    <3>6. at + 1 = ValueAt(p, s, q, v)
      <4>1. PICK o \in Nat, k \in Nat, a \in Nat : o = s[q] /\ k = Len(w) /\ a = Len(p[q].name)
        BY <2>2, <3>1, PlaceIs
      <4>2. at = o + a + 1 + k /\ ValueAt(p, s, q, v) = o + a + 1 + (k + 1)
        BY <3>1, <3>5, <4>1 DEF ValueAt
      <4> QED BY <4>2
    <3>7. InValue(p, s, q, pc, at + 1, t[at], name, v)
      BY <2>3, <3>1, <3>5, <3>6 DEF InValue
    <3>8. Within(p, s, q, pc, at + 1, t[at], name, v, in)
      BY <2>1, <3>7 DEF Within
    <3> QED BY <3>5, <3>8 DEF Progress
  <2> QED BY <2>1, <2>5, <2>6 DEF Within
<1>2. CASE Beyond(p, in)
  BY <1>2 DEF Progress
<1>3. CASE AtEnd(p, t, pc, at, name, w, in)
  <2>1. at = Len(t) + 1 /\ Len(t) \in Nat
    BY <1>3, LaidIs DEF AtEnd
  <2> QED BY <2>1 DEF More
<1> QED BY <1>1, <1>2, <1>3 DEF Progress

\* The end of a name, or of the text.
LEMMA ScanReadsName ==
  ASSUME NEW p \in Seq(Pairs), NEW t, NEW s, Laid(t, p, s),
         NEW at, NEW prev, NEW name, NEW w, NEW in,
         Progress(p, s, t, "name", at, prev, name, w, in), ~More(t, at) \/ Stops(t, "name", at, prev)
  PROVE  Progress(p, s, t, "value", After(t, at), "start", Filter(w), <<>>, in)
<1>1. CASE \E q \in 1..Intact(p) : Within(p, s, q, "name", at, prev, name, w, in)
  <2>1. PICK q \in 1..Intact(p) : Within(p, s, q, "name", at, prev, name, w, in)
    BY <1>1
  <2>2. q \in 1..Len(p)
    BY PlainIs
  <2>3. PICK x \in Seq(Tokens), y \in Seq(Tokens) : x = p[q].name /\ y = p[q].value
    BY <2>2, PairIs
  <2>4. Len(t) \in Nat
    BY LaidIs
  <2>5. w \in Seq(Tokens) /\ Begins(w, x) /\ at = NameAt(p, s, q, w)
    BY <2>1, <2>3 DEF Within, InName, InValue
  <2>6. at \in Nat /\ at <= Len(t) /\ IF Len(w) = Len(x) THEN t[at] = "="
                                     ELSE t[at] = x[Len(w) + 1] /\ x[Len(w) + 1] \in Tokens
    BY <2>2, <2>3, <2>5, NameNext
  <2>7. More(t, at) /\ t[at] = "="
    BY <2>4, <2>6 DEF More, Stops, SeparatorOf
  <2>8. Len(w) = Len(x)
    BY <2>6, <2>7, SeparatorsAre
  <2>9. w = x
    BY <2>5, <2>8, BeginsWhole
  <2>10. After(t, at) = at + 1
    BY <2>7 DEF After, More
  <2>11. <<>> \in Seq(Tokens) /\ Begins(<<>>, y) /\ Ends(<<>>) = "start" /\ Len(<<>>) = 0
    BY NothingBegins
  <2>12. at + 1 = ValueAt(p, s, q, <<>>)
    <3>1. PICK o \in Nat, a \in Nat : o = s[q] /\ a = Len(p[q].name)
      BY <2>2, PlaceIs
    <3>2. at = o + a
      BY <2>3, <2>5, <2>9, <3>1 DEF NameAt
    <3>3. ValueAt(p, s, q, <<>>) = o + a + 1 + 0
      BY <2>11, <3>1 DEF ValueAt
    <3> QED BY <3>2, <3>3
  <2>13. InValue(p, s, q, "value", at + 1, "start", Filter(w), <<>>)
    BY <2>3, <2>9, <2>11, <2>12 DEF InValue
  <2>14. Within(p, s, q, "value", at + 1, "start", Filter(w), <<>>, in)
    BY <2>1, <2>13 DEF Within
  <2> QED BY <2>10, <2>14 DEF Progress
<1>2. CASE Beyond(p, in)
  BY <1>2 DEF Progress
<1>3. CASE AtEnd(p, t, "name", at, name, w, in)
  <2>1. at = Len(t) + 1 /\ Len(t) \in Nat /\ w = <<>>
    BY <1>3, LaidIs DEF AtEnd
  <2>2. After(t, at) = at /\ Filter(w) = <<>>
    BY <2>1, EmptyFiltered DEF After
  <2>3. AtEnd(p, t, "value", After(t, at), Filter(w), <<>>, in)
    BY <1>3, <2>1, <2>2 DEF AtEnd
  <2> QED BY <2>3 DEF Progress
<1> QED BY <1>1, <1>2, <1>3 DEF Progress
\* The end of a value, or of the text: the scan is done, or a fact is asserted.
LEMMA ScanReadsValue ==
  ASSUME NEW p \in Seq(Pairs), NEW t, NEW s, Laid(t, p, s),
         NEW at, NEW prev, NEW name, NEW w, NEW in, IsSequence(in),
         Progress(p, s, t, "value", at, prev, name, w, in), ~More(t, at) \/ Stops(t, "value", at, prev)
  PROVE  IF name = <<>> /\ Filter(w) = <<>>
         THEN Progress(p, s, t, "done", at, prev, name, <<>>, in)
         ELSE Progress(p, s, t, "name", After(t, at), "start", <<>>, <<>>,
                       <<[name |-> name, value |-> Filter(w)]>> \o in)
<1> DEFINE fact == [name |-> name, value |-> Filter(w)]
           above == <<fact>> \o in
<1>1. CASE \E q \in 1..Intact(p) : Within(p, s, q, "value", at, prev, name, w, in)
  <2>1. PICK q \in 1..Intact(p) : Within(p, s, q, "value", at, prev, name, w, in)
    BY <1>1
  <2>2. q \in 1..Len(p) /\ Intact(p) \in Nat /\ Len(p) \in Nat /\ Intact(p) <= Len(p)
    BY PlainIs
  <2>3. PICK y \in Seq(Tokens) : y = p[q].value
    BY <2>2, PairIs
  <2>4. Len(t) \in Nat
    BY LaidIs
  <2>5. w \in Seq(Tokens) /\ Begins(w, y) /\ at = ValueAt(p, s, q, w) /\ name = Filter(p[q].name)
    BY <2>1, <2>3 DEF Within, InName, InValue
  <2>6. at \in Nat /\ IF Len(w) = Len(y) THEN FollowedBy(t, p, s, q, at)
                     ELSE at <= Len(t) /\ t[at] = y[Len(w) + 1] /\ y[Len(w) + 1] \in Tokens
    BY <2>2, <2>3, <2>5, ValueNext
  <2>7. Len(w) = Len(y)
    <3> SUFFICES ASSUME Len(w) # Len(y) PROVE FALSE
      OBVIOUS
    <3>1. More(t, at) /\ t[at] # "&"
      BY <2>4, <2>6, SeparatorsAre DEF More
    <3> QED BY <3>1 DEF Stops, SeparatorOf
  <2>8. w = y /\ FollowedBy(t, p, s, q, at)
    BY <2>5, <2>6, <2>7, BeginsWhole
  <2>9. ~(name = <<>> /\ Filter(w) = <<>>) /\ fact = Decoded(p[q])
    BY <2>3, <2>5, <2>8, PlainIs DEF Decoded
  <2>10. PICK k \in Nat : k = q - 1 /\ k + 1 = q
    BY <2>2
  <2>11. Len(in) = k /\ Facts(p, in, k)
    BY <2>1, <2>10 DEF Within
  <2>12. Len(above) = q /\ Facts(p, above, q)
    <3> HIDE DEF fact
    <3> QED BY <2>9, <2>10, <2>11, FactAdded
  <2>13. IF q < Len(p) THEN After(t, at) = s[q + 1] ELSE After(t, at) = Len(t) + 1
    <3>1. CASE q < Len(p)
      <4>1. at <= Len(t) /\ s[q + 1] = at + 1
        BY <2>8, <3>1 DEF FollowedBy
      <4> QED BY <2>4, <2>6, <3>1, <4>1 DEF After
    <3>2. CASE ~(q < Len(p))
      <4>1. at = Len(t) + 1
        BY <2>8, <3>2 DEF FollowedBy
      <4> QED BY <2>4, <3>2, <4>1 DEF After
    <3> QED BY <3>1, <3>2
  <2>14. q \in 0..Intact(p)
    BY <2>2
  <2> HIDE DEF above
  <2>15. Progress(p, s, t, "name", After(t, at), "start", <<>>, <<>>, above)
    BY <2>12, <2>13, <2>14, NextParameter
  <2> QED BY <2>9, <2>15 DEF above
<1>2. CASE Beyond(p, in)
  <2>1. Beyond(p, above)
    <3>1. Intact(p) \in Nat
      <4>1. Len(p) \in Nat
        BY LaidIs
      <4> QED BY <4>1, IntactIs
    <3> HIDE DEF fact
    <3> QED BY <1>2, <3>1, FactAdded DEF Beyond
  <2> HIDE DEF above
  <2>2. Progress(p, s, t, "name", After(t, at), "start", <<>>, <<>>, above)
    BY <2>1 DEF Progress
  <2>3. Progress(p, s, t, "done", at, prev, name, <<>>, in)
    BY <1>2 DEF Progress
  <2> QED BY <2>2, <2>3 DEF above
<1>3. CASE AtEnd(p, t, "value", at, name, w, in)
  <2>1. name = <<>> /\ w = <<>> /\ Filter(w) = <<>>
    BY <1>3, EmptyFiltered DEF AtEnd
  <2>2. AtEnd(p, t, "done", at, name, <<>>, in)
    BY <1>3, <2>1 DEF AtEnd
  <2> QED BY <2>1, <2>2 DEF Progress
<1> QED BY <1>1, <1>2, <1>3 DEF Progress

\* When the scan is done, every parameter that can be told apart has its fact.
LEMMA ScanDone ==
  ASSUME NEW p \in Seq(Pairs), NEW t, NEW s, NEW at, NEW prev, NEW name, NEW w, NEW in,
         IsSequence(in), Progress(p, s, t, "done", at, prev, name, w, in)
  PROVE  /\ Len(in) >= Intact(p)
         /\ \A i \in 1..Intact(p) : in[Len(in) + 1 - i] = Decoded(p[i])
         /\ Broken(p) = {} => Len(in) = Intact(p)
<1>1. PICK n \in Nat, m \in Nat : n = Len(p) /\ m = Intact(p) /\ m <= n
  BY IntactIs
<1>2. Len(in) \in Nat
  BY DEF IsSequence
<1>3. ~ \E q \in 1..Intact(p) : Within(p, s, q, "done", at, prev, name, w, in)
  BY DEF Within, InName, InValue
<1>4. CASE Beyond(p, in)
  <2>1. Broken(p) # {}
    BY <1>1, <1>4 DEF Beyond, Intact
  <2> QED BY <1>1, <1>2, <1>4, <2>1 DEF Beyond, Facts
<1>5. CASE AtEnd(p, t, "done", at, name, w, in)
  BY <1>1, <1>2, <1>5 DEF AtEnd, Facts
<1> QED BY <1>3, <1>4, <1>5 DEF Progress

-----------------------------------------------------------------------------
(***************************************************************************)
(* The inductive invariant of a request: what was read of it is all of it  *)
(* unless it said less, and the scan stands within a parameter that can be *)
(* told apart, past the first that cannot, or at the end, with the facts   *)
(* of those before.                                                        *)
(***************************************************************************)
ScanIs(sc) == sc = [pc |-> sc.pc, at |-> sc.at, prev |-> sc.prev, name |-> sc.name]
ProgressOf(p, t, sc, w, in) ==
  Progress(p, Starts(p), t, sc.pc, sc.at, sc.prev, sc.name, w, in)

CqInv ==
  /\ request \in CqCalls
  /\ ScanIs(scan) /\ scan.pc \in {"read", "refused", "name", "value", "done"}
  /\ IsSequence(cgi_in)
  /\ scan.pc = "read" => CqStart
  /\ scan.pc = "refused" => Len(Text) + (IF request.source = "long" THEN 1 ELSE 0) > MaxInput
  /\ scan.pc \notin {"read", "refused"} =>
       /\ Len(codes) <= MaxInput
       /\ AllRead => /\ codes = Text /\ Len(Text) <= MaxInput
                     /\ ProgressOf(request.pairs, codes, scan, word, cgi_in)

LEMMA RequestIs ==
  ASSUME NEW r \in CqCalls
  PROVE  /\ r.pairs \in Seq(Pairs) /\ Body(r.pairs) \in Seq(Codes) /\ Len(Body(r.pairs)) \in Nat
         /\ Laid(Body(r.pairs), r.pairs, Starts(r.pairs))
         /\ r.source \in {"GET", "absent", "exact", "short", "long"} /\ MaxInput \in Nat
<1>1. r.pairs \in Requests /\ r.source \in Sources
  BY DEF CqCalls
<1>2. /\ r.pairs \in Seq(Pairs) /\ MaxInput \in Nat
      /\ r.source \in {"GET", "absent", "exact", "short", "long"}
  BY <1>1, CqAssumption DEF Pairs
<1>3. Laid(Body(r.pairs), r.pairs, Starts(r.pairs))
  BY <1>2, StartsAre
<1>4. Body(r.pairs) \in Seq(Codes)
  BY <1>3 DEF Laid
<1> QED BY <1>2, <1>3, <1>4

\* How much of a request is read.
LEMMA TakenIs ==
  ASSUME request \in CqCalls
  PROVE  /\ TooLong => Len(Text) + (IF request.source = "long" THEN 1 ELSE 0) > MaxInput
         /\ ~TooLong => Len(Taken) <= MaxInput
         /\ ~TooLong /\ AllRead => Taken = Text /\ Len(Text) <= MaxInput
<1>1. PICK t \in Seq(Codes), n \in Nat : t = Text /\ n = Len(t)
  BY RequestIs DEF Text
<1>2. PICK m \in Nat : m = MaxInput
  BY RequestIs
<1>3. PICK c : c = request.source
  OBVIOUS
<1>4. c \in {"GET", "absent", "exact", "short", "long"}
  BY <1>3, RequestIs
<1>5. CASE c = "GET"
  <2>1. Taken = t /\ ~HasLength
    BY <1>1, <1>3, <1>5 DEF Taken, HasLength
  <2> QED BY <1>1, <1>2, <1>3, <1>5, <2>1 DEF TooLong
<1>6. CASE c # "GET"
  <2>1. PICK l \in Int : l = ContentLength /\ l <= n + (IF c = "long" THEN 1 ELSE 0)
                         /\ (c # "short" => l >= n) /\ l >= 0
    <3>1. CASE c = "short"
      <4>1. ContentLength = IF n > 0 THEN n - 1 ELSE n
        BY <1>1, <1>3, <3>1 DEF ContentLength
      <4> QED BY <3>1, <4>1
    <3>2. CASE c = "long"
      <4>1. ContentLength = n + 1
        BY <1>1, <1>3, <3>2 DEF ContentLength
      <4> QED BY <3>2, <4>1
    <3>3. CASE c # "short" /\ c # "long"
      <4>1. ContentLength = n
        BY <1>1, <1>3, <3>3 DEF ContentLength
      <4> QED BY <3>3, <4>1
    <3> QED BY <3>1, <3>2, <3>3
  <2>2. PICK a \in Nat : a = Amount /\ a = IF c = "absent" THEN m + 1 ELSE l
    <3>1. HasLength <=> c # "absent"
      BY <1>3, <1>4, <1>6 DEF HasLength
    <3> QED BY <1>2, <2>1, <3>1 DEF Amount
  <2>3. PICK k \in Nat : k = LowerOf(a, n) /\ k = IF a <= n THEN a ELSE n
    BY DEF LowerOf
  <2>4. Taken = SubSeq(t, 1, k)
    BY <1>1, <1>3, <1>6, <2>2, <2>3 DEF Taken
  <2>5. Len(Taken) = k /\ k <= n
    <3>1. k <= n
      BY <2>3
    <3> QED BY <1>1, <2>4, <3>1, SubSeqProperties
  <2>6. k = n => Taken = t
    BY <1>1, <2>4, SubSeqFull
  <2>7. TooLong <=> k > m \/ (c # "absent" /\ l > m)
    <3>1. HasLength <=> c # "absent"
      BY <1>3, <1>4, <1>6 DEF HasLength
    <3> QED BY <1>2, <2>1, <2>5, <3>1 DEF TooLong
  <2>8. AllRead <=> c # "short"
    BY <1>3, <1>4 DEF AllRead
  <2>9. TooLong => n + (IF c = "long" THEN 1 ELSE 0) > m
    BY <2>1, <2>5, <2>7
  <2>10. ~TooLong => k <= m
    BY <2>7
  <2>11. ~TooLong /\ AllRead => k = n /\ n <= m
    BY <2>1, <2>2, <2>3, <2>7, <2>8
  <2> QED BY <1>1, <1>2, <1>3, <2>5, <2>6, <2>9, <2>10, <2>11
<1> QED BY <1>5, <1>6

LEMMA CqInitially == CqInit => CqInv
<1> SUFFICES ASSUME CqInit PROVE CqInv
  OBVIOUS
<1>1. <<>> \in Seq(Nat)
  OBVIOUS
<1>2. IsSequence(cgi_in)
  BY <1>1 DEF CqInit, CqStart, IsSequence
<1>3. request \in CqCalls /\ CqStart
  BY DEF CqInit
<1>4. ScanIs(scan) /\ scan.pc = "read"
  BY <1>3 DEF CqStart, ScanIs
<1> QED BY <1>2, <1>3, <1>4 DEF CqInv

LEMMA ReadInputKeeps == CqInv /\ ReadInput => CqInv'
<1> SUFFICES ASSUME CqInv, ReadInput PROVE CqInv'
  OBVIOUS
<1>1. /\ request \in CqCalls /\ request' = request /\ cgi_in' = cgi_in /\ word' = word
      /\ codes' = Taken /\ ~TooLong /\ CqStart /\ IsSequence(cgi_in)
  BY DEF CqInv, ReadInput
<1>2. scan' = [pc |-> "name", at |-> 1, prev |-> "start", name |-> <<>>] /\ word = <<>> /\ cgi_in = <<>>
  BY <1>1 DEF ReadInput, CqStart
<1>3. Text' = Text /\ (AllRead' <=> AllRead)
  BY <1>1 DEF Text, AllRead
<1>4. Len(codes') <= MaxInput /\ (AllRead => codes' = Text /\ Len(Text) <= MaxInput)
  BY <1>1, TakenIs
<1>5. PICK p \in Seq(Pairs) : p = request.pairs /\ Text = Body(p) /\ Laid(Body(p), p, Starts(p))
  BY <1>1, RequestIs DEF Text
<1>6. Progress(p, Starts(p), Text, "name", 1, "start", <<>>, <<>>, <<>>)
  <2>1. PICK n \in Nat, m \in Nat : n = Len(p) /\ m = Intact(p)
    BY IntactIs
  <2>2. IF 0 < Len(p) THEN 1 = Starts(p)[0 + 1] ELSE 1 = Len(Text) + 1
    BY <1>5, <2>1 DEF Laid
  <2>3. Len(<<>>) = 0 /\ Facts(p, <<>>, 0)
    BY DEF Facts
  <2>4. 0 \in 0..Intact(p)
    BY <2>1
  <2> QED BY <1>5, <2>2, <2>3, <2>4, NextParameter
<1>7. ProgressOf(p, Text, scan', word', cgi_in')
  BY <1>1, <1>2, <1>6 DEF ProgressOf
<1>8. ScanIs(scan') /\ scan'.pc = "name"
  BY <1>2 DEF ScanIs
<1> QED BY <1>1, <1>3, <1>4, <1>5, <1>7, <1>8 DEF CqInv

LEMMA InputTooLongKeeps == CqInv /\ InputTooLong => CqInv'
<1> SUFFICES ASSUME CqInv, InputTooLong PROVE CqInv'
  OBVIOUS
<1>1. /\ request \in CqCalls /\ request' = request /\ cgi_in' = cgi_in
      /\ TooLong /\ CqStart /\ IsSequence(cgi_in)
  BY DEF CqInv, InputTooLong
<1>2. ScanIs(scan') /\ scan'.pc = "refused"
  BY <1>1 DEF InputTooLong, CqStart, ScanIs
<1>3. Text' = Text
  BY <1>1 DEF Text
<1>4. Len(Text) + (IF request.source = "long" THEN 1 ELSE 0) > MaxInput
  BY <1>1, TakenIs
<1> QED BY <1>1, <1>2, <1>3, <1>4 DEF CqInv

\* What the steps of the scan start from.
LEMMA ScanningIs ==
  ASSUME CqInv, Scanning
  PROVE  /\ request \in CqCalls /\ ScanIs(scan) /\ scan.pc \in {"name", "value"} /\ IsSequence(cgi_in)
         /\ Len(codes) <= MaxInput
         /\ AllRead => /\ codes = Text /\ Len(Text) <= MaxInput
                       /\ request.pairs \in Seq(Pairs)
                       /\ Laid(codes, request.pairs, Starts(request.pairs))
                       /\ ProgressOf(request.pairs, codes, scan, word, cgi_in)
<1>1. scan.pc \in {"name", "value"} /\ request \in CqCalls
  BY DEF CqInv, Scanning
<1>2. request.pairs \in Seq(Pairs) /\ Laid(Text, request.pairs, Starts(request.pairs))
  BY <1>1, RequestIs DEF Text
<1> QED BY <1>1, <1>2 DEF CqInv

\* What they must have kept.
LEMMA ScanningKept ==
  ASSUME CqInv, Scanning, UNCHANGED <<request, codes>>, ScanIs(scan'),
         scan'.pc \in {"name", "value", "done"}, IsSequence(cgi_in'),
         AllRead => ProgressOf(request.pairs, codes, scan', word', cgi_in')
  PROVE  CqInv'
<1>1. Text' = Text /\ (AllRead' <=> AllRead)
  BY DEF Text, AllRead
<1> QED BY <1>1, ScanningIs DEF CqInv

LEMMA ReadOnKeeps == CqInv /\ ReadOn => CqInv'
<1> SUFFICES ASSUME CqInv, ReadOn PROVE CqInv'
  OBVIOUS
<1>1. /\ Scanning /\ ~NoMore /\ ~Matches /\ UNCHANGED <<request, codes>> /\ cgi_in' = cgi_in
      /\ word' = Append(word, codes[scan.at])
  BY DEF ReadOn
<1>2. scan.pc \in {"name", "value"} /\ ScanIs(scan) /\ IsSequence(cgi_in)
  BY <1>1, ScanningIs
<1>3. /\ scan' = [pc |-> scan.pc, at |-> scan.at + 1, prev |-> codes[scan.at], name |-> scan.name]
  BY <1>2 DEF ReadOn, ScanIs
<1>4. ASSUME AllRead PROVE ProgressOf(request.pairs, codes, scan', word', cgi_in')
  <2>1. PICK p \in Seq(Pairs) : p = request.pairs /\ Laid(codes, p, Starts(p))
                                /\ ProgressOf(p, codes, scan, word, cgi_in)
    BY <1>1, <1>4, ScanningIs
  <2>2. More(codes, scan.at) /\ ~Stops(codes, scan.pc, scan.at, scan.prev)
    BY <1>1 DEF NoMore, Matches, Separator, More, Stops, SeparatorOf
  <2>3. Progress(p, Starts(p), codes, scan.pc, scan.at + 1, codes[scan.at], scan.name,
                 Append(word, codes[scan.at]), cgi_in)
    BY <2>1, <2>2, ScanReadsOn DEF ProgressOf
  <2> QED BY <1>1, <1>3, <2>1, <2>3 DEF ProgressOf
<1>5. ScanIs(scan') /\ scan'.pc \in {"name", "value", "done"}
  BY <1>2, <1>3 DEF ScanIs
<1> QED BY <1>1, <1>2, <1>4, <1>5, ScanningKept

LEMMA NameReadKeeps == CqInv /\ NameRead => CqInv'
<1> SUFFICES ASSUME CqInv, NameRead PROVE CqInv'
  OBVIOUS
<1>1. /\ scan.pc = "name" /\ (NoMore \/ Matches) /\ UNCHANGED <<request, codes>>
      /\ cgi_in' = cgi_in /\ word' = <<>>
      /\ scan' = [pc |-> "value", at |-> Past, prev |-> "start", name |-> Filter(word)]
  BY DEF NameRead
<1>2. Scanning
  BY <1>1 DEF Scanning
<1>3. IsSequence(cgi_in)
  BY <1>2, ScanningIs
<1>4. ASSUME AllRead PROVE ProgressOf(request.pairs, codes, scan', word', cgi_in')
  <2>1. PICK p \in Seq(Pairs) : p = request.pairs /\ Laid(codes, p, Starts(p))
                                /\ ProgressOf(p, codes, scan, word, cgi_in)
    BY <1>2, <1>4, ScanningIs
  <2>2. ~More(codes, scan.at) \/ Stops(codes, "name", scan.at, scan.prev)
    BY <1>1 DEF NoMore, Matches, Separator, More, Stops, SeparatorOf
  <2>3. Progress(p, Starts(p), codes, "value", After(codes, scan.at), "start", Filter(word), <<>>, cgi_in)
    BY <1>1, <2>1, <2>2, ScanReadsName DEF ProgressOf
  <2>4. Past = After(codes, scan.at)
    BY DEF Past, NoMore, After
  <2> QED BY <1>1, <2>1, <2>3, <2>4 DEF ProgressOf
<1>5. ScanIs(scan') /\ scan'.pc \in {"name", "value", "done"}
  BY <1>1 DEF ScanIs
<1> QED BY <1>1, <1>2, <1>3, <1>4, <1>5, ScanningKept

LEMMA ValueReadKeeps == CqInv /\ ValueRead => CqInv'
<1> SUFFICES ASSUME CqInv, ValueRead PROVE CqInv'
  OBVIOUS
<1>1. scan.pc = "value" /\ (NoMore \/ Matches) /\ UNCHANGED <<request, codes>> /\ word' = <<>>
  BY DEF ValueRead
<1>2. Scanning
  BY <1>1 DEF Scanning
<1>3. IsSequence(cgi_in) /\ ScanIs(scan)
  BY <1>2, ScanningIs
<1>4. ~More(codes, scan.at) \/ Stops(codes, "value", scan.at, scan.prev)
  BY <1>1 DEF NoMore, Matches, Separator, More, Stops, SeparatorOf
<1>5. PICK fact : fact = [name |-> scan.name, value |-> Filter(word)]
  OBVIOUS
<1>6. ASSUME AllRead
      PROVE  IF scan.name = <<>> /\ Filter(word) = <<>>
             THEN Progress(request.pairs, Starts(request.pairs), codes, "done", scan.at, scan.prev,
                           scan.name, <<>>, cgi_in)
             ELSE Progress(request.pairs, Starts(request.pairs), codes, "name",
                           After(codes, scan.at), "start", <<>>, <<>>, <<fact>> \o cgi_in)
  <2>1. PICK p \in Seq(Pairs) : p = request.pairs /\ Laid(codes, p, Starts(p))
                                /\ ProgressOf(p, codes, scan, word, cgi_in)
    BY <1>2, <1>6, ScanningIs
  <2>2. Progress(p, Starts(p), codes, "value", scan.at, scan.prev, scan.name, word, cgi_in)
    BY <1>1, <2>1 DEF ProgressOf
  <2> QED BY <1>3, <1>4, <1>5, <2>1, <2>2, ScanReadsValue
<1>7. CASE scan.name = <<>> /\ Filter(word) = <<>>
  <2>1. scan' = [pc |-> "done", at |-> scan.at, prev |-> scan.prev, name |-> scan.name]
    BY <1>3, <1>7 DEF ValueRead, ScanIs
  <2>2. cgi_in' = cgi_in
    BY <1>7 DEF ValueRead
  <2>3. ScanIs(scan') /\ scan'.pc \in {"name", "value", "done"}
    BY <2>1 DEF ScanIs
  <2>4. AllRead => ProgressOf(request.pairs, codes, scan', word', cgi_in')
    BY <1>1, <1>6, <1>7, <2>1, <2>2 DEF ProgressOf
  <2> QED BY <1>1, <1>2, <1>3, <2>2, <2>3, <2>4, ScanningKept
<1>8. CASE ~(scan.name = <<>> /\ Filter(word) = <<>>)
  <2>1. scan' = [pc |-> "name", at |-> Past, prev |-> "start", name |-> <<>>]
    BY <1>8 DEF ValueRead
  <2>2. cgi_in' = <<fact>> \o cgi_in
    BY <1>5, <1>8 DEF ValueRead
  <2>3. ScanIs(scan') /\ scan'.pc \in {"name", "value", "done"}
    BY <2>1 DEF ScanIs
  <2>4. Past = After(codes, scan.at)
    BY DEF Past, NoMore, After
  <2>5. AllRead => ProgressOf(request.pairs, codes, scan', word', cgi_in')
    BY <1>1, <1>6, <1>8, <2>1, <2>2, <2>4 DEF ProgressOf
  <2>6. IsSequence(cgi_in')
    <3>1. Facts(request.pairs, cgi_in, 0)
      <4>1. Len(cgi_in) \in Nat
        BY <1>3 DEF IsSequence
      <4> QED BY <4>1 DEF Facts
    <3> QED BY <1>3, <2>2, <3>1, FactAdded
  <2> QED BY <1>1, <1>2, <2>3, <2>5, <2>6, ScanningKept
<1> QED BY <1>7, <1>8

LEMMA CqKept == CqInv /\ [CqNext]_cqVars => CqInv'
<1> SUFFICES ASSUME CqInv, [CqNext]_cqVars PROVE CqInv'
  OBVIOUS
<1>1. CASE ReadInput
  BY <1>1, ReadInputKeeps
<1>2. CASE InputTooLong
  BY <1>2, InputTooLongKeeps
<1>3. CASE ReadOn
  BY <1>3, ReadOnKeeps
<1>4. CASE NameRead
  BY <1>4, NameReadKeeps
<1>5. CASE ValueRead
  BY <1>5, ValueReadKeeps
<1>6. CASE UNCHANGED cqVars
  BY <1>6 DEF cqVars, CqInv, CqStart, Text, AllRead
<1> QED BY <1>1, <1>2, <1>3, <1>4, <1>5, <1>6 DEF CqNext

LEMMA CqInvWhole == CqInv => ParamsWhole
<1> SUFFICES ASSUME CqInv PROVE ParamsWhole
  OBVIOUS
<1>1. ASSUME scan.pc = "done", AllRead
      PROVE  /\ Len(cgi_in) >= Intact(request.pairs)
             /\ \A i \in 1..Intact(request.pairs) :
                  cgi_in[Len(cgi_in) + 1 - i] = Decoded(request.pairs[i])
             /\ Broken(request.pairs) = {} => Len(cgi_in) = Intact(request.pairs)
  <2>1. request.pairs \in Seq(Pairs)
    BY RequestIs DEF CqInv
  <2>2. IsSequence(cgi_in) /\ ProgressOf(request.pairs, codes, scan, word, cgi_in)
    BY <1>1 DEF CqInv
  <2> QED BY <1>1, <2>1, <2>2, ScanDone DEF ProgressOf
<1>2. /\ scan.pc = "refused" => Len(Text) + (IF request.source = "long" THEN 1 ELSE 0) > MaxInput
      /\ scan.pc \notin {"read", "refused"} => Len(codes) <= MaxInput
      /\ scan.pc \notin {"read", "refused"} /\ AllRead => Len(Text) <= MaxInput
  BY DEF CqInv
<1> QED BY <1>1, <1>2 DEF ParamsWhole, Intact, Broken

\* ParamsWhole holds in every behaviour: init_cgi of pl_cgi refuses a request only if it, or
\* the length it says, exceeds the limit, reads any other whole unless it says less, and
\* turns each parameter that can be told apart into one fact with its own name and value.
THEOREM ParamsWholeCorrect == CqSpec => []ParamsWhole
<1>1. CqSpec => []CqInv
  BY CqInitially, CqKept, PTL DEF CqSpec
<1> QED BY <1>1, CqInvWhole, PTL

=============================================================================
