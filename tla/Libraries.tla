------------------------------ MODULE Libraries ------------------------------
(***************************************************************************)
(* A program and the library it uses: the WebSocket predicates of the GNU  *)
(* Prolog bridge, the fetches of several threads, an option list, a        *)
(* regular expression, the arguments of a query, a temporary file, a       *)
(* request, a template or a JSON text.  These share no state, and each is  *)
(* checked in all its behaviours while the others have not been called;    *)
(* the inputs TLC gives them are defined here.                             *)
(***************************************************************************)
EXTENDS GpCurl, CurlGet, Memory, TempFile, CgiTemplates, CgiRequest, Json, TLC

VARIABLE lib    \* the library the program uses

libVars == <<lib, gpVars, getVars, optVars, rxVars, paVars, tfVars, ctVars, cqVars, jsVars>>

\* What a library is called with when it is not the one looked at.
AnyOf(S) == CHOOSE x \in S : TRUE
QuietAsk == AnyOf(OptCalls)
QuietRx == AnyOf(RxCalls)
QuietPa == AnyOf(PaCalls)
QuietPage == AnyOf(Pages)
QuietRequest == AnyOf(CqCalls)
QuietDoc == AnyOf(JsCalls)

LibInit ==
  /\ lib \in {"websockets", "fetch", "options", "regexp", "pgargs", "tempfile", "templates",
             "request", "json"}
  /\ GpInit /\ GetInit
  /\ IF lib = "options" THEN ask \in OptCalls ELSE ask = QuietAsk
  /\ OptStart
  /\ IF lib = "regexp" THEN rx \in RxCalls ELSE rx = QuietRx
  /\ RxStart
  /\ IF lib = "pgargs" THEN pa \in PaCalls ELSE pa = QuietPa
  /\ PaStart
  /\ IF lib = "tempfile" THEN dir \in {"there", "closed", "gone"} ELSE dir = "there"
  /\ TfStart
  /\ IF lib = "templates" THEN page \in Pages ELSE page = QuietPage
  /\ CtStart
  /\ IF lib = "request" THEN request \in CqCalls ELSE request = QuietRequest
  /\ CqStart
  /\ IF lib = "json" THEN doc \in JsCalls ELSE doc = QuietDoc
  /\ JsStart

LibNext ==
  /\ UNCHANGED lib
  /\ \/ /\ lib = "websockets" /\ GpNext
        /\ UNCHANGED <<getVars, optVars, rxVars, paVars, tfVars, ctVars, cqVars, jsVars>>
     \/ /\ lib = "fetch" /\ GetNext
        /\ UNCHANGED <<gpVars, optVars, rxVars, paVars, tfVars, ctVars, cqVars, jsVars>>
     \/ /\ lib = "options" /\ OptNext
        /\ UNCHANGED <<gpVars, getVars, rxVars, paVars, tfVars, ctVars, cqVars, jsVars>>
     \/ /\ lib = "regexp" /\ RxNext
        /\ UNCHANGED <<gpVars, getVars, optVars, paVars, tfVars, ctVars, cqVars, jsVars>>
     \/ /\ lib = "pgargs" /\ PaNext
        /\ UNCHANGED <<gpVars, getVars, optVars, rxVars, tfVars, ctVars, cqVars, jsVars>>
     \/ /\ lib = "tempfile" /\ TfNext
        /\ UNCHANGED <<gpVars, getVars, optVars, rxVars, paVars, ctVars, cqVars, jsVars>>
     \/ /\ lib = "templates" /\ CtNext
        /\ UNCHANGED <<gpVars, getVars, optVars, rxVars, paVars, tfVars, cqVars, jsVars>>
     \/ /\ lib = "request" /\ CqNext
        /\ UNCHANGED <<gpVars, getVars, optVars, rxVars, paVars, tfVars, ctVars, jsVars>>
     \/ /\ lib = "json" /\ JsNext
        /\ UNCHANGED <<gpVars, getVars, optVars, rxVars, paVars, tfVars, ctVars, cqVars>>

LibSpec == LibInit /\ [][LibNext]_libVars

-----------------------------------------------------------------------------
(***************************************************************************)
(* The inputs TLC gives the modules.                                       *)
(***************************************************************************)
\* A fetch of the URL alone, and others with what the cached handle must forget.
PlainFetch == [ua |-> FALSE, auth |-> "none", header |-> FALSE, param |-> FALSE,
               follow |-> FALSE, bad |-> FALSE, max |-> 1]
MCFetches ==
  {PlainFetch,
   [PlainFetch EXCEPT !.auth = "basic", !.ua = TRUE, !.follow = TRUE, !.max = 2],
   [PlainFetch EXCEPT !.auth = "bearer", !.header = TRUE, !.param = TRUE],
   [PlainFetch EXCEPT !.bad = TRUE]}
Symmetry == Permutations(Threads) \cup Permutations(Handles)

AllWords(tokens, n) == UNION {[1..k -> tokens] : k \in 0..n}

Opt(name, args) == [name |-> name, args |-> args]
MCLists == AllWords({Opt("param", <<"ok", "ok">>), Opt("header", <<"ok", "ok">>),
                     Opt("header", <<"ok", "list">>), Opt("header", <<"bad", "ok">>),
                     Opt("basic_auth", <<"ok", "ok">>), Opt("bearer_auth", <<"ok">>),
                     Opt("user_agent", <<"ok">>), Opt("user_agent", <<"bad">>),
                     Opt("number", <<"ok">>), Opt("as", <<"bad">>),
                     Opt("bool", <<"bad">>), Opt("other", <<>>), Opt("junk", <<>>)}, 3)

MCLogins == {<<h, p, "text", u, w>> :
               h \in {"text", "other"}, p \in {"text", "number", "list"},
               u \in {"text", "var", "nil", "other"}, w \in {"text", "var", "number"}}
MCParamLists == AllWords({"text", "number", "nil", "list", "other"}, 3)

OuterParts == {<<kind, 1>> : kind \in {"text", "throws", "missing", "raises"}} \cup {<<"nest", 2>>}
MiddleParts == {<<kind, 2>> : kind \in {"text", "throws", "raises"}} \cup {<<"nest", 3>>}
MCPages == {<<first, second, <<<<"text", 3>>>>>> :
              first \in AllWords(OuterParts, 3), second \in AllWords(MiddleParts, 2)}

MCRequests == AllWords([name : AllWords({"x", "%26", "lf", "\\"}, 1),
                        value : AllWords({"x", "%26", "\\"}, 2)], 2)

Escape(h) == <<92, 117>> \o h
Corpus(prolog, start, pieces, n) ==
  [prolog |-> prolog, start |-> start, pieces |-> pieces, room |-> n]
ShapePieces == {<<123>>, <<125>>, <<91>>, <<93>>, <<44>>, <<58>>, <<34, 97, 34>>, <<49>>, <<32>>}
\* Escapes at the bounds of the ranges of UTF-8 and of the surrogates.
StringPieces ==
  {<<34>>, <<92>>, <<110>>, <<10>>, <<1>>} \cup
  {Escape(h) : h \in {<<48, 48, 55, 70>>, <<48, 48, 56, 48>>, <<48, 55, 102, 102>>,
                      <<48, 56, 48, 48>>, <<70, 70, 70, 70>>, <<100, 56, 48, 48>>,
                      <<68, 66, 70, 70>>, <<68, 67, 48, 48>>, <<100, 102, 102, 102>>}}
NumberPieces == {<<45>>, <<49>>, <<48>>, <<46>>, <<101>>, <<69, 43>>}
MCCorpora ==
  {Corpus("swi", <<>>, ShapePieces, 5)} \cup
  UNION {{Corpus(p, <<34>>, StringPieces, 3), Corpus(p, <<>>, NumberPieces, 5),
          Corpus(p, <<>>, Literals \cup {<<91>>, <<93>>, <<34, 91, 93, 34>>}, 3)} : p \in {"swi", "gnu"}}

=============================================================================
