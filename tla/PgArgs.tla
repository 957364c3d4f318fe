------------------------------- MODULE PgArgs -------------------------------
(***************************************************************************)
(* The arguments of pl_pgsql_connect/6 and of the queries with parameters, *)
(* from Prolog terms to what libpq is given, in both bridges (swi-pgsql.c, *)
(* gp-pgsql-c.c).  An argument is known by its position: host, port,       *)
(* database, user and password, or the parameters and after them the       *)
(* query.                                                                  *)
(*                                                                         *)
(* A kind of term is "text", "number", "var", "nil" (the empty list),      *)
(* "list" (one that is no text) or "other".                                *)
(***************************************************************************)
EXTENDS Integers, Sequences

CONSTANTS
  PaBridges,    \* a subset of {"swi", "gp"}
  Logins,       \* the arguments of connect/6: sequences of five kinds
  ParamLists,   \* the lists of parameters: sequences of kinds
  Queries,      \* the kinds of a query
  ParamLimit,   \* the most parameters the protocol has room for (65535)
  PaFailures    \* what can go wrong: "memory"

PaKinds == {"text", "number", "var", "nil", "list", "other"}

ASSUME PaAssumption ==
  /\ PaBridges \subseteq {"swi", "gp"}
  /\ \A login \in Logins : login \in Seq(PaKinds) /\ Len(login) = 5
  /\ \A params \in ParamLists : params \in Seq(PaKinds)
  /\ Queries \subseteq PaKinds
  /\ ParamLimit \in Nat

VARIABLES
  pa,        \* the call: its bridge, its predicate, the kinds of its arguments
  passed,    \* what has been converted: where the text of each is, or "NULL"
  shared,    \* the argument whose text is in the buffer all conversions share
  copies,    \* the blocks malloc has given out for the call; 0 is the array
  adrift     \* the blocks nothing refers to any more and that were not freed

paVars == <<pa, passed, shared, copies, adrift>>

\* closed: the list of parameters is a proper one.
ConnectCalls ==
  [bridge : PaBridges, pred : {"connect"}, pc : {"read"}, args : Logins, closed : {TRUE}]
QueryCalls ==
  [bridge : PaBridges, pred : {"exec"}, pc : {"list"}, closed : BOOLEAN,
   args : {Append(params, query) : params \in ParamLists, query \in Queries}]
PaCalls == ConnectCalls \cup QueryCalls

PaStart == passed = <<>> /\ shared = 0 /\ copies = {} /\ adrift = {}

PaInit == pa \in PaCalls /\ PaStart

InGp == pa.bridge = "gp"
Connects == pa.pred = "connect"
Params == Len(pa.args) - 1
NextArg == Len(passed) + 1          \* the argument to be converted
IsQuery == ~Connects /\ NextArg = Params + 1
Kind == pa.args[NextArg]
PaTo(pc) == pa' = [pa EXCEPT !.pc = pc]
Reading == pa.pc = "read" /\ NextArg <= Len(pa.args)

\* Everything the call has is freed, then it fails or raises an error.
PaFail == PaTo("failed") /\ copies' = {} /\ UNCHANGED <<passed, shared, adrift>>

\* An error raised before anything is freed does not return in GNU Prolog.
PaRaise(extra) ==
  /\ PaTo("failed")
  /\ copies' = {} /\ adrift' = adrift \cup copies \cup extra
  /\ UNCHANGED <<passed, shared>>

-----------------------------------------------------------------------------
(***************************************************************************)
(* The list of parameters: get_params, gp_pgsql_params_build               *)
(***************************************************************************)
ListLimit == pa.closed /\ Params <= ParamLimit

ListTaken ==
  /\ pa.pc = "list" /\ ListLimit
  /\ PaTo("read")
  /\ copies' = IF Params > 0 THEN {0} ELSE {}
  /\ UNCHANGED <<passed, shared, adrift>>

\* No list, too long a list, or no memory for the array.
ListRefused ==
  /\ pa.pc = "list"
  /\ \/ ~ListLimit
     \/ Params > 0 /\ "memory" \in PaFailures
  /\ PaFail

-----------------------------------------------------------------------------
(***************************************************************************)
(* One argument                                                            *)
(***************************************************************************)
\* An unbound user or password, and the parameter [], are NULL.
Absent(i) ==
  \/ Connects /\ i \in {4, 5} /\ pa.args[i] = "var"
  \/ ~Connects /\ i <= Params /\ pa.args[i] = "nil"

\* GNU Prolog takes any constant for a text; SWI-Prolog wants an integer for the
\* port, and takes numbers otherwise only as parameters.  Both read [] as a text.
IsText ==
  IF InGp THEN Kind \in {"text", "number", "nil"}
  ELSE IF ~Connects /\ ~IsQuery THEN Kind \in {"text", "number"}
  ELSE IF Connects /\ NextArg = 2 THEN Kind = "number"
  ELSE Kind \in {"text", "nil"}

\* Where the text is put: in a block of its own, in one of several buffers (BUF_STACK),
\* or, the query of SWI-Prolog, in the buffer every conversion uses.
\* Mutation: BUF_STACK is not asked for.
PlaceAllShared == IF ~InGp /\ (Connects \/ IsQuery) THEN "shared" ELSE "block"

Place ==
  IF InGp THEN "block"
  ELSE IF Connects THEN "stack"
  ELSE IF IsQuery THEN "shared"
  ELSE "block"

TextTaken ==
  /\ Reading /\ IsText /\ ~Absent(NextArg)
  /\ passed' = Append(passed, Place)
  /\ copies' = IF Place = "block" THEN copies \cup {NextArg} ELSE copies
  /\ shared' = IF InGp THEN shared ELSE NextArg
  /\ UNCHANGED <<pa, adrift>>

AbsentTaken ==
  /\ Reading /\ Absent(NextArg)
  /\ passed' = Append(passed, "NULL")
  /\ UNCHANGED <<pa, shared, copies, adrift>>

\* gp_pgsql_text_owned gives NULL, for want of a text or of memory: connect/6 goes
\* on without it; a parameter is a type_error, raised before gp_pgsql_params_free;
\* the query is one after it.
Nothing ==
  \/ ~IsText /\ Kind # "list"
  \/ IsText /\ "memory" \in PaFailures

GpNothing ==
  /\ Reading /\ InGp /\ ~Absent(NextArg) /\ Nothing
  /\ IF Connects THEN passed' = Append(passed, "NULL") /\ UNCHANGED <<pa, shared, copies, adrift>>
     ELSE IF IsQuery THEN PaFail
     ELSE PaRaise({})

GpListRaises == Reading /\ InGp /\ Kind = "list" /\ PaRaise({NextArg})

\* Mutation: the parameters before the wrong one are not freed.
SwiRefusedUnfreed ==
  /\ Reading /\ ~InGp /\ ~Absent(NextArg)
  /\ \/ ~IsText
     \/ "memory" \in PaFailures /\ Place = "block"
  /\ PaTo("failed") /\ copies' = copies \cap {0}
  /\ UNCHANGED <<passed, shared, adrift>>

SwiRefused ==
  /\ Reading /\ ~InGp /\ ~Absent(NextArg)
  /\ \/ ~IsText
     \/ "memory" \in PaFailures /\ Place = "block"
  /\ PaFail

-----------------------------------------------------------------------------
(***************************************************************************)
(* libpq                                                                   *)
(***************************************************************************)
\* The bridge of GNU Prolog looks for host, port and database at the end.
Lacks == InGp /\ Connects /\ \E i \in 1..3 : passed[i] = "NULL"

ReadAll == pa.pc = "read" /\ NextArg > Len(pa.args)

PaIncomplete == ReadAll /\ Lacks /\ PaFail

PaSend ==
  /\ ReadAll /\ ~Lacks
  /\ PaTo("sent")
  /\ UNCHANGED <<passed, shared, copies, adrift>>

\* Whatever libpq answers.
PaReturns ==
  /\ pa.pc = "sent"
  /\ PaTo("done") /\ copies' = {}
  /\ UNCHANGED <<passed, shared, adrift>>

PaNext ==
  \/ ListTaken \/ ListRefused
  \/ TextTaken \/ AbsentTaken \/ GpNothing \/ GpListRaises \/ SwiRefused
  \/ PaIncomplete \/ PaSend \/ PaReturns

PaSpec == PaInit /\ [][PaNext]_paVars

-----------------------------------------------------------------------------
\* The argument libpq reads at a position: 0 is NULL, -1 is memory that was freed.
Read(i) ==
  IF passed[i] = "NULL" THEN 0
  ELSE IF passed[i] = "shared" THEN shared
  ELSE IF passed[i] = "block" /\ i \notin copies THEN -1
  ELSE i

\* What GNU Prolog's connect/6 does not refuse when it has no text: NULL is an unbound
\* user or password.
Unchecked(i) == InGp /\ Connects /\ i \in {4, 5}

\* libpq is given every argument at its place, each with its own text and none that was
\* freed or overwritten; NULL for [] among the parameters and for an unbound user or
\* password; any other argument that has no text is refused, apart from the user and the
\* password of GNU Prolog's connect/6: whether those are NULL only if they are unbound
\* is what LoginFaithful asks.
ArgumentsFaithful ==
  pa.pc = "sent" =>
    /\ Len(passed) = Len(pa.args)
    /\ ~Connects => Params <= ParamLimit
    /\ \A i \in 1..Len(passed) :
         /\ Read(i) \in {0, i}
         /\ Absent(i) => Read(i) = 0
         /\ ~Absent(i) /\ ~Unchecked(i) => Read(i) = i /\ pa.args[i] \in {"text", "number", "nil"}

\* Whoever logs in does so with the user and the password it gave: NULL, which libpq
\* replaces by the account the process runs under, is for unbound ones.
LoginFaithful ==
  pa.pc \in {"sent", "done"} /\ Connects =>
    \A i \in {4, 5} : passed[i] = "NULL" => pa.args[i] = "var"

\* A call that has returned holds no copy of an argument.  Copies are lost in the GNU
\* Prolog bridge alone, by a call that fails: at a list that is no text, or at a
\* parameter that has no text or cannot be copied, which gp_pgsql_params_build raises
\* an error for before it frees the others.  That these are losses is what
\* GnuMemoryExact says.
ArgumentsFreed ==
  /\ pa.pc \in {"done", "failed"} => copies = {}
  /\ adrift # {} =>
       /\ InGp /\ pa.pc = "failed" /\ NextArg <= Len(pa.args)
       /\ \/ Kind = "list"
          \/ ~Connects /\ ~IsQuery

=============================================================================
