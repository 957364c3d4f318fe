----------------------------- MODULE GnuProgram -----------------------------
(***************************************************************************)
(* A program of GNU Prolog that calls one predicate after the other: it    *)
(* fetches a URL or opens a WebSocket, then logs in to a database or       *)
(* queries it, then matches a regular expression.  What the repository     *)
(* says of the bridges is stated here without the exceptions GNU Prolog's  *)
(* make to it, which RequestFaithful, MemoryExact and ArgumentsFaithful    *)
(* name; both properties fail.                                             *)
(***************************************************************************)
EXTENDS Memory

gnuVars == <<optVars, paVars, rxVars>>

OptReturned == parse.pc \in {"done", "failed"}
PaReturned == pa.pc \in {"done", "failed"}
RxReturned == rx.pc \in {"true", "failed", "raised"}

\* The lists it passes are proper ones.
GnuInit == OptInit /\ PaInit /\ RxInit /\ ask.tail = "nil" /\ pa.closed

GnuNext ==
  \/ OptNext /\ UNCHANGED <<paVars, rxVars>>
  \/ OptReturned /\ PaNext /\ UNCHANGED <<optVars, rxVars>>
  \/ OptReturned /\ PaReturned /\ RxNext /\ UNCHANGED <<optVars, paVars>>

GnuSpec == GnuInit /\ [][GnuNext]_gnuVars

-----------------------------------------------------------------------------
\* Every parameter and header of the list is in the request, once and in order.
KvAsAsked == \A name \in KvNames : InOrder(req[name], Asked(name))

\* The core finds every text of the request where the parser has left it.
TextsAsAsked == \A i \in Carried : \A t \in TextsAt(i) : Reads(t) = t

\* A fetch and a login that have succeeded were made as the program asked: with every
\* parameter and header of the list, as they are with SWI-Prolog, which refuses a list
\* there is no room for ("so the two Prolog systems stay behaviourally identical",
\* pl_curl/README.md); with the text of each, although GNU Prolog's is "only valid until
\* the next such call" (gp-pgsql-c.c); and as the user whose name it gave, or no one
\* if that is no text ("so the caller can pick the right error", gp-pgsql-c.c).
GnuAsAsked ==
  parse.pc = "done" /\ pa.pc = "done" => KvAsAsked /\ TextsAsAsked /\ LoginFaithful

\* When its calls have returned, in whichever way, the program has lost no memory to them
\* (gp-curl-c.c: "every copied string, freed at the end", "a type error here frees what
\* was copied"; gp-pgsql-c.c: "an exception is raised" and "p is left empty"), and no
\* more copies were kept than the array that keeps them has room for.
GnuMemoryExact ==
  OptReturned /\ PaReturned /\ RxReturned =>
    /\ lost = {} /\ response # "lost" /\ parse.strs <= StrsRoom
    /\ adrift = {} /\ stray = {}

-----------------------------------------------------------------------------
(***************************************************************************)
(* What TLC's program calls the predicates with.                           *)
(***************************************************************************)
Given(name, args) == [name |-> name, args |-> args]

TwoParams == {<<Given("param", <<"ok", "ok">>), Given("param", <<"ok", "ok">>)>>}
OtherUser == {<<"text", "number", "text", "other", "text">>}

\* Five times user_agent and a header whose value is a list that is no text.
ManyTexts ==
  {[i \in 1..6 |-> IF i < 6 THEN Given("user_agent", <<"ok">>) ELSE Given("header", <<"ok", "list">>)]}
TextThenOther == {<<"text", "other">>}

=============================================================================
