---------------------------- MODULE JsonGrammar ----------------------------
(***************************************************************************)
(* from_json/2 and to_json/2 of pl_toolbox (json.pl) on codes: the grammar *)
(* with its cuts, which decide at each character and never try again, and  *)
(* what atoms hold in the two Prolog systems ("swi": characters, "gnu":    *)
(* the bytes of UTF-8).                                                    *)
(*                                                                         *)
(* A term is <<"atom", codes>>, <<"int", n>>, <<"float", m, k>> (m * 10^k, *)
(* m not a multiple of 10), <<"list", terms>> or <<"json", pairs>> with    *)
(* pairs <<codes, term>>.  A parser gives the set of what it reads at a    *)
(* position: none, or one <<result, position after it>>.  Code 48 and up   *)
(* are the digits.                                                         *)
(***************************************************************************)
EXTENDS Integers, SequencesExt

CONSTANTS
  Corpora,     \* the texts to decode, by how they are made: records with the Prolog
               \* system, a start, the pieces that may follow and how many may
  JsIntMax     \* the greatest integer of GNU Prolog (2^60 - 1)

ASSUME JsAssumption ==
  /\ \A corpus \in Corpora :
       /\ corpus.prolog \in {"swi", "gnu"} /\ corpus.room \in Nat
       /\ corpus.start \in Seq(Nat) /\ \A piece \in corpus.pieces : piece \in Seq(Nat)
  /\ JsIntMax \in Nat

VARIABLES
  doc,       \* the text, the Prolog system, the step, and what the text may get
  term,      \* what from_json has made of it
  encoded    \* what to_json has made of that

jsVars == <<doc, term, encoded>>

CodeAt(t, i) == IF i <= Len(t) THEN t[i] ELSE -1
IsDigit(c) == c \in 48..57

True == <<116, 114, 117, 101>>
False == <<102, 97, 108, 115, 101>>
Null == <<110, 117, 108, 108>>
Literals == {True, False, Null}

\* The first position from i on that has none of these codes.
PastAll(t, i, skipped) ==
  CHOOSE k \in i..(Len(t) + 1) :
    CodeAt(t, k) \notin skipped /\ \A j \in i..(k - 1) : t[j] \in skipped

SkipWs(t, i) == PastAll(t, i, {32, 9, 10, 13})
DigitsEnd(t, i) == PastAll(t, i, 48..57)

-----------------------------------------------------------------------------
(***************************************************************************)
(* Strings                                                                 *)
(***************************************************************************)
HexVal(c) ==
  IF IsDigit(c) THEN c - 48
  ELSE IF c \in 97..102 THEN c - 87
  ELSE IF c \in 65..70 THEN c - 55 ELSE -1

\* The number after \u at a position, -1 if there is none.
Escaped(t, i) ==
  LET h == [k \in 1..4 |-> HexVal(CodeAt(t, i + 1 + k))]
  IN  IF CodeAt(t, i) # 92 \/ CodeAt(t, i + 1) # 117 \/ \E k \in 1..4 : h[k] < 0 THEN -1
      ELSE ((h[1] * 16 + h[2]) * 16 + h[3]) * 16 + h[4]

IsHigh(cp) == cp \in 55296..56319
IsLow(cp) == cp \in 56320..57343
Surrogates(hi, lo) == 65536 + (hi - 55296) * 1024 + (lo - 56320)

\* The codes of a code point in an atom.
CodePoint(p, cp) ==
  IF cp < 128 \/ p = "swi" THEN <<cp>>
  ELSE IF cp < 2048  THEN <<192 + cp \div 64, 128 + (cp % 64)>>
  ELSE IF cp < 65536 THEN <<224 + cp \div 4096, 128 + ((cp \div 64) % 64), 128 + (cp % 64)>>
  ELSE <<240 + cp \div 262144, 128 + ((cp \div 4096) % 64),
         128 + ((cp \div 64) % 64), 128 + (cp % 64)>>

Unescape == [e \in {34, 92, 47, 98, 102, 110, 114, 116} |->
  IF e = 98 THEN 8 ELSE IF e = 102 THEN 12 ELSE IF e = 110 THEN 10
  ELSE IF e = 114 THEN 13 ELSE IF e = 116 THEN 9 ELSE e]

JsChar(p, t, i) ==
  LET hi == Escaped(t, i)
      lo == Escaped(t, i + 6)
      next == CodeAt(t, i + 1)
  IN  IF CodeAt(t, i) \in {34, -1} THEN {}
      ELSE IF CodeAt(t, i) # 92 THEN {<<<<t[i]>>, i + 1>>}
      ELSE IF next # 117 THEN {<<<<Unescape[e]>>, i + 2>> : e \in DOMAIN Unescape \cap {next}}
      ELSE IF hi < 0 THEN {}
      ELSE IF IsHigh(hi) /\ IsLow(lo) THEN {<<CodePoint(p, Surrogates(hi, lo)), i + 12>>}
      ELSE {<<CodePoint(p, hi), i + 6>>}

\* atom_codes (external): in GNU Prolog the atom '[]' is the empty list.
AtomOf(p, codes) ==
  IF p = "gnu" /\ codes = <<91, 93>> THEN <<"list", <<>>>> ELSE <<"atom", codes>>

\* As many characters as there are.
JsChars(p, t) ==
  LET chars[i \in 1..(Len(t) + 1)] ==
        IF JsChar(p, t, i) = {} THEN <<<<>>, i>>
        ELSE LET char == CHOOSE char \in JsChar(p, t, i) : TRUE
             IN  <<char[1] \o chars[char[2]][1], chars[char[2]][2]>>
  IN  chars

JsString(p, t, i) ==
  IF CodeAt(t, i) # 34 THEN {}
  ELSE {<<chars[1], chars[2] + 1>> :
          chars \in {chars \in {JsChars(p, t)[i + 1]} : CodeAt(t, chars[2]) = 34}}

-----------------------------------------------------------------------------
(***************************************************************************)
(* Numbers                                                                 *)
(***************************************************************************)
DigitsValue(digits) ==
  LET value[n \in 0..Len(digits)] == IF n = 0 THEN 0 ELSE 10 * value[n - 1] + digits[n] - 48
  IN  value[Len(digits)]

\* A number without the zeros at its end, and how many these are.
Shortened(m) ==
  LET short[n \in 0..m] == IF n = 0 \/ n % 10 # 0 THEN <<n, 0>>
                           ELSE <<short[n \div 10][1], short[n \div 10][2] + 1>>
  IN  short[m]

Float(m, k) == <<"float", Shortened(m)[1], IF m = 0 THEN 0 ELSE k + Shortened(m)[2]>>

Signed(digits) ==
  IF digits = <<>> THEN 0
  ELSE IF Head(digits) = 45 THEN -DigitsValue(Tail(digits))
  ELSE IF Head(digits) = 43 THEN DigitsValue(Tail(digits)) ELSE DigitsValue(digits)

\* number_codes (external): the number of an integer, the digits of a fraction and
\* an exponent, each empty if it is not there; an error for an exponent without a
\* fraction, and for integers out of range, in GNU Prolog.
NumberCodes(p, int, frac, exp) ==
  LET neg == Head(int) = 45
      m == DigitsValue((IF neg THEN Tail(int) ELSE int) \o frac)
      f == Float(m, Signed(exp) - Len(frac))
  IN  IF p = "gnu" /\ frac = <<>> /\ (exp # <<>> \/ m > JsIntMax) THEN <<"error">>
      ELSE IF frac = <<>> /\ exp = <<>> THEN <<"int", IF neg THEN -m ELSE m>>
      ELSE <<"float", IF neg THEN -f[2] ELSE f[2], f[3]>>

IsoFrac(frac, exp) == IF frac = <<>> /\ exp # <<>> THEN <<48>> ELSE frac

JsNumber(p, t, i) ==
  LET d == IF CodeAt(t, i) = 45 THEN i + 1 ELSE i
      e == DigitsEnd(t, d)
      point == CodeAt(t, e) = 46
      f == IF point THEN DigitsEnd(t, e + 1) ELSE e
      power == CodeAt(t, f) \in {101, 69}
      s == IF CodeAt(t, f + 1) \in {43, 45} THEN f + 2 ELSE f + 1
      g == IF power THEN DigitsEnd(t, s) ELSE f
      frac == IF point THEN SubSeq(t, e + 1, f - 1) ELSE <<>>
      exp == IF power THEN SubSeq(t, f + 1, g - 1) ELSE <<>>
      n == NumberCodes(p, SubSeq(t, i, e - 1), IsoFrac(frac, exp), exp)
  IN  IF e = d \/ (point /\ f = e + 1) \/ (power /\ g = s) THEN {}
      ELSE {<<IF n = <<"error">> THEN <<"atom", SubSeq(t, i, g - 1)>> ELSE n, g>>}

-----------------------------------------------------------------------------
(***************************************************************************)
(* Values.  read[i] is what can be read at the positions after this one:   *)
(* a value, the elements of a list or the pairs of an object.              *)
(***************************************************************************)
JsPair(read, p, t, i) ==
  UNION {{<<<<name[1], v[1]>>, v[2]>> : v \in read[SkipWs(t, SkipWs(t, name[2]) + 1)]["value"]} :
           name \in {name \in JsString(p, t, i) : CodeAt(t, SkipWs(t, name[2])) = 58}}

\* What follows an item that has been read: a comma and more, or nothing.
JsMore(read, kind, t, one) ==
  LET comma == SkipWs(t, one[2])
  IN  IF CodeAt(t, comma) # 44 THEN {<<<<one[1]>>, comma>>}
      ELSE {<<<<one[1]>> \o rest[1], rest[2]>> : rest \in read[SkipWs(t, comma + 1)][kind]}

\* object and array
JsBrackets(read, kind, close, t, i) ==
  LET first == SkipWs(t, i + 1)
  IN  IF CodeAt(t, first) = close THEN {<<<<kind, <<>>>>, first + 1>>}
      ELSE {<<<<kind, items[1]>>, items[2] + 1>> :
              items \in {items \in read[first][kind] : CodeAt(t, items[2]) = close}}

JsValue(read, p, t, i) ==
  LET literal == {w \in Literals : \A k \in DOMAIN w : CodeAt(t, i + k - 1) = w[k]}
  IN  IF CodeAt(t, i) = 34 THEN {<<AtomOf(p, string[1]), string[2]>> : string \in JsString(p, t, i)}
      ELSE IF CodeAt(t, i) = 123 THEN JsBrackets(read, "json", 125, t, i)
      ELSE IF CodeAt(t, i) = 91 THEN JsBrackets(read, "list", 93, t, i)
      ELSE IF literal # {} THEN {<<<<"atom", w>>, i + Len(w)>> : w \in literal}
      ELSE JsNumber(p, t, i)

JsItem(read, kind, p, t, i) ==
  IF kind = "json" THEN JsPair(read, p, t, i) ELSE JsValue(read, p, t, i)

\* pair and members, value and elements.  Mutation: a comma may be the last.
JsItemsLastComma(read, kind, p, t, i) ==
  IF JsItem(read, kind, p, t, i) = {} THEN {<<<<>>, i>>}
  ELSE UNION {JsMore(read, kind, t, one) : one \in JsItem(read, kind, p, t, i)}

JsItems(read, kind, p, t, i) ==
  UNION {JsMore(read, kind, t, one) : one \in JsItem(read, kind, p, t, i)}

Kinds == {"value", "list", "json"}

JsRead(p, t) ==
  LET read[i \in 1..(Len(t) + 1)] == [kind \in Kinds |->
        IF kind = "value" THEN JsValue(read, p, t, i) ELSE JsItems(read, kind, p, t, i)]
  IN  read

\* The terms a whole text is read as: none or one.
Decode(p, t) ==
  {v[1] : v \in {v \in JsRead(p, t)[SkipWs(t, 1)]["value"] : SkipWs(t, v[2]) > Len(t)}}

-----------------------------------------------------------------------------
(***************************************************************************)
(* to_json                                                                 *)
(***************************************************************************)
HexDigit(v) == IF v < 10 THEN 48 + v ELSE 87 + v

EscapeChar(c) ==
  IF c \in {34, 92, 8, 9, 10, 12, 13}
  THEN <<92, CHOOSE e \in DOMAIN Unescape : Unescape[e] = c>>
  ELSE IF c < 32 THEN <<92, 117, 48, 48, HexDigit(c \div 16), HexDigit(c % 16)>> ELSE <<c>>

EncodeString(codes) ==
  <<34>> \o FlattenSeq([i \in DOMAIN codes |-> EscapeChar(codes[i])]) \o <<34>>

\* number_codes (external): a spelling it reads as the same number.
Decimal(n) ==
  LET digits[m \in 0..n] == IF m < 10 THEN <<48 + m>> ELSE digits[m \div 10] \o <<48 + (m % 10)>>
  IN  digits[n]

Spelled(n) == IF n < 0 THEN <<45>> \o Decimal(-n) ELSE Decimal(n)

NumberText(n) == IF n[1] = "int" THEN Spelled(n[2])
                 ELSE Spelled(n[2]) \o <<46, 48, 101>> \o Spelled(n[3])

Separated(texts) ==
  FlattenSeq([i \in DOMAIN texts |-> IF i = 1 THEN texts[i] ELSE <<44>> \o texts[i]])

\* The terms of these leaves, by how deep they are nested.
Leaves == ({"atom"} \X Seq(Nat)) \cup ({"int"} \X Int) \cup ({"float"} \X Int \X Int)

Terms(leaves) ==
  LET terms[n \in Nat] ==
        leaves \cup
        (IF n = 0 THEN {} ELSE ({"list"} \X Seq(terms[n - 1])) \cup
                               ({"json"} \X Seq(Seq(Nat) \X terms[n - 1])))
  IN  terms

EncodeMember(encode, pair) == EncodeString(pair[1]) \o <<58>> \o encode[pair[2]]

EncodeValue(encode, v) ==
  IF v[1] = "json"
  THEN <<123>> \o Separated([i \in DOMAIN v[2] |-> EncodeMember(encode, v[2][i])]) \o <<125>>
  ELSE IF v[1] = "list" THEN <<91>> \o Separated([i \in DOMAIN v[2] |-> encode[v[2][i]]]) \o <<93>>
  ELSE IF v[1] # "atom" THEN NumberText(v)
  ELSE IF v[2] \in Literals THEN v[2] ELSE EncodeString(v[2])

\* A term that is nested this deep at most.
Encode(depth, v) ==
  LET encode[n \in 0..depth] == [w \in Terms(Leaves)[n] |-> EncodeValue(encode[n - 1], w)]
  IN  encode[depth][v]

-----------------------------------------------------------------------------
JsCalls == {[prolog |-> corpus.prolog, pc |-> "decode", text |-> corpus.start,
             pieces |-> corpus.pieces, room |-> corpus.room] : corpus \in Corpora}
JsStart == term = <<"none">> /\ encoded = <<>>
JsInit == doc \in JsCalls /\ JsStart

\* The text is a longer one (external: what the program passes).
JsText ==
  /\ doc.pc = "decode" /\ doc.room > 0
  /\ \E piece \in doc.pieces : doc' = [doc EXCEPT !.text = @ \o piece, !.room = @ - 1]
  /\ UNCHANGED <<term, encoded>>

FromJson ==
  /\ doc.pc = "decode"
  /\ IF Decode(doc.prolog, doc.text) = {} THEN doc' = [doc EXCEPT !.pc = "refused"] /\ UNCHANGED term
     ELSE doc' = [doc EXCEPT !.pc = "encode"] /\ term' \in Decode(doc.prolog, doc.text)
  /\ UNCHANGED encoded

\* A term that was read of a text is not nested deeper than the text is long.
ToJson ==
  /\ doc.pc = "encode"
  /\ encoded' = Encode(Len(doc.text), term)
  /\ doc' = [doc EXCEPT !.pc = "done"]
  /\ UNCHANGED term

JsNext == JsText \/ FromJson \/ ToJson

JsSpec == JsInit /\ [][JsNext]_jsVars

-----------------------------------------------------------------------------
\* to_json writes a text that is read as the term it was given, to the code
\* (json.pl: "inverse of from_json/2").
ReadBack == doc.pc = "done" => Decode(doc.prolog, encoded) = {term}

=============================================================================
