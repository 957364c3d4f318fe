----------------------------- MODULE CgiRequest -----------------------------
(***************************************************************************)
(* init_cgi of pl_cgi (common.pl, and read_txtuntil of pl_toolbox's        *)
(* stream.pl): how much of a request is read, how it is split at = and &,  *)
(* and what is decoded.  The text is a sequence of tokens: "x" stands for  *)
(* an ordinary character, "%26" for the three of an encoded &, "lf" for a  *)
(* line feed; the value "and" is the character an encoded & stands for.    *)
(***************************************************************************)
EXTENDS Naturals, SequencesExt

CONSTANTS
  Requests,   \* the parameters: sequences of records with name and value
  Sources,    \* how they come: "GET", "absent", "exact", "short" or "long"
  MaxInput    \* max_input_length

\* What a name or a value consists of: a browser encodes the separators in them.
Tokens == STRING \ {"=", "&"}

ASSUME CqAssumption ==
  /\ \A pairs \in Requests : pairs \in Seq([name : Seq(Tokens), value : Seq(Tokens)])
  /\ Sources \subseteq {"GET", "absent", "exact", "short", "long"}
  /\ MaxInput \in Nat

VARIABLES
  request,  \* the parameters and how they come
  codes,    \* what was read of them
  scan,     \* setup_environment: its step, the position, the last token, the name
  word,     \* the text until the separator, as far as it was read
  cgi_in    \* the facts, the last one asserted first

cqVars == <<request, codes, scan, word, cgi_in>>

Joined(pair) == pair.name \o <<"=">> \o pair.value
Body(pairs) ==
  FlattenSeq([i \in 1..Len(pairs) |-> IF i = 1 THEN Joined(pairs[i]) ELSE <<"&">> \o Joined(pairs[i])])

CqCalls == [pairs : Requests, source : Sources]

CqStart ==
  /\ codes = <<>> /\ word = <<>> /\ cgi_in = <<>>
  /\ scan = [pc |-> "read", at |-> 1, prev |-> "start", name |-> <<>>]

CqInit == request \in CqCalls /\ CqStart

-----------------------------------------------------------------------------
(***************************************************************************)
(* read_cgi_input                                                          *)
(***************************************************************************)
Text == Body(request.pairs)

\* CONTENT_LENGTH, if it is a number: that of the body, or one less or more.
HasLength == request.source \in {"exact", "short", "long"}
ContentLength ==
  CASE request.source = "short" /\ Len(Text) > 0 -> Len(Text) - 1
    [] request.source = "long"                   -> Len(Text) + 1
    [] OTHER                                     -> Len(Text)

LowerOf(m, n) == IF m <= n THEN m ELSE n

\* Mutation: without a length exactly Max are read, so that too much is not noticed.
AmountUpToMax == IF HasLength THEN ContentLength ELSE MaxInput

Amount == IF HasLength THEN ContentLength ELSE MaxInput + 1

Taken == IF request.source = "GET" THEN Text ELSE SubSeq(Text, 1, LowerOf(Amount, Len(Text)))

TooLong ==
  \/ Len(Taken) > MaxInput
  \/ HasLength /\ ContentLength > MaxInput

ReadInput ==
  /\ scan.pc = "read" /\ ~TooLong
  /\ codes' = Taken
  /\ scan' = [scan EXCEPT !.pc = "name"]
  /\ UNCHANGED <<request, word, cgi_in>>

\* resource_error(cgi_input_length(Max))
InputTooLong ==
  /\ scan.pc = "read" /\ TooLong
  /\ scan' = [scan EXCEPT !.pc = "refused"]
  /\ UNCHANGED <<request, codes, word, cgi_in>>

-----------------------------------------------------------------------------
(***************************************************************************)
(* setup_environment and make_env                                          *)
(***************************************************************************)
Scanning == scan.pc \in {"name", "value"}
Separator == IF scan.pc = "name" THEN "=" ELSE "&"
NoMore == scan.at > Len(codes)

\* A separator after a \ is not one.
Matches == ~NoMore /\ codes[scan.at] = Separator /\ scan.prev # "\\"

ReadOn ==
  /\ Scanning /\ ~NoMore /\ ~Matches
  /\ word' = Append(word, codes[scan.at])
  /\ scan' = [scan EXCEPT !.at = @ + 1, !.prev = codes[scan.at]]
  /\ UNCHANGED <<request, codes, cgi_in>>

\* filter: what is encoded is decoded, a line feed is dropped.
FilterOne(token) == IF token = "lf" THEN <<>> ELSE IF token = "%26" THEN <<"and">> ELSE <<token>>
Filter(text) == FlattenSeq([i \in 1..Len(text) |-> FilterOne(text[i])])

\* The separator, or the end of the text.
Past == IF NoMore THEN scan.at ELSE scan.at + 1

NameRead ==
  /\ scan.pc = "name" /\ (NoMore \/ Matches)
  /\ scan' = [pc |-> "value", at |-> Past, prev |-> "start", name |-> Filter(word)]
  /\ word' = <<>>
  /\ UNCHANGED <<request, codes, cgi_in>>

\* An empty name with an empty value is the end, whatever follows.
ValueRead ==
  /\ scan.pc = "value" /\ (NoMore \/ Matches)
  /\ IF scan.name = <<>> /\ Filter(word) = <<>>
     THEN scan' = [scan EXCEPT !.pc = "done"] /\ UNCHANGED cgi_in
     ELSE /\ cgi_in' = <<[name |-> scan.name, value |-> Filter(word)]>> \o cgi_in
          /\ scan' = [pc |-> "name", at |-> Past, prev |-> "start", name |-> <<>>]
  /\ word' = <<>>
  /\ UNCHANGED <<request, codes>>

CqNext == ReadInput \/ InputTooLong \/ ReadOn \/ NameRead \/ ValueRead

CqSpec == CqInit /\ [][CqNext]_cqVars

-----------------------------------------------------------------------------
\* A pair that can be told apart: not empty once decoded, and no \ before the separator.
Ends(text) == IF text = <<>> THEN "start" ELSE Last(text)
Plain(pair) ==
  /\ Filter(pair.name) # <<>> \/ Filter(pair.value) # <<>>
  /\ Ends(pair.name) # "\\" /\ Ends(pair.value) # "\\"

Decoded(pair) == [name |-> Filter(pair.name), value |-> Filter(pair.value)]
AllRead == request.source \in {"GET", "absent", "exact", "long"}

\* Every parameter becomes one fact with its own name and value, in the order of the
\* request seen from its end, and an encoded separator separates nothing; this holds
\* up to the first parameter that is empty or ends with a \.  A request longer than
\* the limit is refused and none within it is, whether it says its length or not
\* (pl_cgi/README.md: "Input longer than 1 MiB makes init_cgi throw").
ParamsWhole ==
  /\ scan.pc = "done" /\ AllRead =>
       LET broken == {i \in 1..Len(request.pairs) : ~Plain(request.pairs[i])}
           n == IF broken = {} THEN Len(request.pairs)
                ELSE (CHOOSE i \in broken : \A j \in broken : i <= j) - 1
       IN  /\ Len(cgi_in) >= n
           /\ \A i \in 1..n : cgi_in[Len(cgi_in) + 1 - i] = Decoded(request.pairs[i])
           /\ broken = {} => Len(cgi_in) = n
  /\ scan.pc = "refused" => Len(Text) + (IF request.source = "long" THEN 1 ELSE 0) > MaxInput
  /\ scan.pc \notin {"read", "refused"} => Len(codes) <= MaxInput
  /\ scan.pc \notin {"read", "refused"} /\ AllRead => Len(Text) <= MaxInput

=============================================================================
