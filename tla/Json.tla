-------------------------------- MODULE Json --------------------------------
(***************************************************************************)
(* What a text denotes, by the grammar of JSON: the terms for which there  *)
(* is some way to divide the text.  As in the code strings may hold        *)
(* control characters and numbers leading zeros.  What stands from code i  *)
(* to code j of a text is named by i and j.                                *)
(***************************************************************************)
EXTENDS JsonGrammar

\* One of the first ones, then one of the others.
Together(firsts, rests) == {first \o rest : first \in firsts, rest \in rests}

White(t, i, j) == \A k \in i..j : t[k] \in {32, 9, 10, 13}

\* Between the codes a and b stands this one, with white space around it.
Parted(t, a, b, code) ==
  \E k \in (a + 1)..(b - 1) : t[k] = code /\ White(t, a + 1, k - 1) /\ White(t, k + 1, b - 1)

-----------------------------------------------------------------------------
(***************************************************************************)
(* Strings                                                                 *)
(***************************************************************************)
\* The codes of a code point: the shortest form of UTF-8 is a first byte, and six
\* bits in each of the others.
Utf8(cp) ==
  LET more == IF cp < 128 THEN 0 ELSE IF cp < 2048 THEN 1 ELSE IF cp < 65536 THEN 2 ELSE 3
      mark == <<0, 192, 224, 240>>[more + 1]
      power == <<1, 64, 4096, 262144>>
  IN  [k \in 1..(more + 1) |->
         IF k = 1 THEN mark + cp \div power[more + 1]
         ELSE 128 + ((cp \div power[more + 2 - k]) % 64)]

AtomCodes(p, cp) == IF p = "gnu" THEN Utf8(cp) ELSE <<cp>>

ShortEscape(t, i) ==
  IF t[i] = 92 THEN {<<Unescape[e]>> : e \in DOMAIN Unescape \cap {t[i + 1]}} ELSE {}

UnicodeEscape(p, t, i) == {AtomCodes(p, cp) : cp \in {Escaped(t, i)} \ {-1}}

\* The halves of a pair have ten bits each.
Paired(hi, lo) == 65536 + (hi % 1024) * 1024 + (lo % 1024)

SurrogatePair(p, t, i) ==
  LET hi == Escaped(t, i)
      lo == Escaped(t, i + 6)
  IN  IF IsHigh(hi) /\ IsLow(lo) THEN {AtomCodes(p, Paired(hi, lo))} ELSE {}

\* What n codes stand for as one character: the codes of an atom, or nothing.
Unit(p, t, i, n) ==
  CASE n = 1  -> {<<c>> : c \in {t[i]} \ {34, 92}}
    [] n = 2  -> ShortEscape(t, i)
    [] n = 6  -> UnicodeEscape(p, t, i)
    [] n = 12 -> SurrogatePair(p, t, i)

\* The longest character at a place.
Longest(p, t, i, j) ==
  LET sizes == {n \in {1, 2, 6, 12} : i + n - 1 <= j /\ Unit(p, t, i, n) # {}}
  IN  {n \in sizes : \A other \in sizes : other <= n}

CharsOf(p, t, j) ==
  LET chars[i \in 1..(Len(t) + 1)] ==
        IF i > j THEN {<<>>}
        ELSE UNION {Together(Unit(p, t, i, n), chars[i + n]) : n \in Longest(p, t, i, j)}
  IN  chars

StringsOf(p, t, i, j) ==
  IF i < j /\ t[i] = 34 /\ t[j] = 34 THEN CharsOf(p, t, j - 1)[i + 1] ELSE {}

-----------------------------------------------------------------------------
(***************************************************************************)
(* Numbers: an integer up to a, a fraction up to b, an exponent.           *)
(***************************************************************************)
Digits(t, i, j) == i <= j /\ \A k \in i..j : IsDigit(t[k])
Unsigned(t, i, signs) == IF CodeAt(t, i) \in signs THEN i + 1 ELSE i

IsNumber(t, i, a, b, j) ==
  /\ Digits(t, Unsigned(t, i, {45}), a)
  /\ a = b \/ (t[a + 1] = 46 /\ Digits(t, a + 2, b))
  /\ b = j \/ (t[b + 1] \in {69, 101} /\ Digits(t, Unsigned(t, b + 2, {43, 45}), j))

Number(p, t, i, a, b, j) ==
  LET frac == SubSeq(t, a + 2, b)
      n == DigitsValue(SubSeq(t, Unsigned(t, i, {45}), a) \o frac)
      f == Float(n, Signed(SubSeq(t, b + 2, j)) - Len(frac))
      neg == t[i] = 45
  IN  IF a = j THEN IF p = "gnu" /\ n > JsIntMax THEN <<"atom", SubSeq(t, i, j)>>
                    ELSE <<"int", IF neg THEN -n ELSE n>>
      ELSE <<"float", IF neg THEN -f[2] ELSE f[2], f[3]>>

NumbersOf(p, t, i, j) ==
  UNION {{Number(p, t, i, a, b, j) : b \in {b \in a..j : IsNumber(t, i, a, b, j)}} : a \in i..j}

-----------------------------------------------------------------------------
(***************************************************************************)
(* Values, the elements of a list and the pairs of an object, with the     *)
(* white space that follows them                                           *)
(***************************************************************************)
BracketsOf(denotes, kind, left, right, t, i, j) ==
  IF i < j /\ t[i] = left /\ t[j] = right
  THEN {<<kind, items>> :
          items \in {none \in {<<>>} : White(t, i + 1, j - 1)} \cup
                   UNION {denotes[a][kind][j - 1] :
                            a \in {a \in (i + 1)..(j - 1) : White(t, i + 1, a - 1)}}}
  ELSE {}

ValuesOf(denotes, p, t, i, j) ==
  BracketsOf(denotes, "json", 123, 125, t, i, j) \cup BracketsOf(denotes, "list", 91, 93, t, i, j)
  \cup {<<"atom", w>> : w \in Literals \cap {SubSeq(t, i, j)}}
  \cup {AtomOf(p, s) : s \in StringsOf(p, t, i, j)} \cup NumbersOf(p, t, i, j)

PairsOf(denotes, p, t, i, j) ==
  UNION {UNION {StringsOf(p, t, i, a) \X denotes[b]["value"][j] :
                  b \in {b \in (a + 1)..j : Parted(t, a, b, 58)}} : a \in i..j}

OneOf(denotes, kind, p, t, i, j) ==
  IF kind = "json" THEN PairsOf(denotes, p, t, i, j) ELSE ValuesOf(denotes, p, t, i, j)

FirstOf(denotes, kind, p, t, i, j) == {<<one>> : one \in OneOf(denotes, kind, p, t, i, j)}

SeveralOf(denotes, kind, p, t, i, j) ==
  UNION {{only \in FirstOf(denotes, kind, p, t, i, a) : White(t, a + 1, j)} \cup
         UNION {Together(FirstOf(denotes, kind, p, t, i, a), denotes[b][kind][j]) :
                  b \in {b \in (a + 1)..j : Parted(t, a, b, 44)}} : a \in i..j}

Denoted(p, t) ==
  LET denotes[i \in 1..(Len(t) + 1)] == [kind \in Kinds |-> [j \in 0..Len(t) |->
        IF kind = "value" THEN ValuesOf(denotes, p, t, i, j) ELSE SeveralOf(denotes, kind, p, t, i, j)]]
  IN  denotes

Denotes(p, t) ==
  UNION {UNION {Denoted(p, t)[i]["value"][j] : j \in {j \in i..Len(t) : White(t, j + 1, Len(t))}} :
           i \in {i \in 1..Len(t) : White(t, 1, i - 1)}}

-----------------------------------------------------------------------------
\* from_json succeeds on the texts that denote a term, with that term, though it
\* never goes back on what it has read; to_json writes a text that denotes the same
\* term again and is read as the same codes.
JsonExact ==
  /\ doc.pc = "refused" => Denotes(doc.prolog, doc.text) = {}
  /\ doc.pc = "encode" => Denotes(doc.prolog, doc.text) = {term}
  /\ ReadBack

=============================================================================
