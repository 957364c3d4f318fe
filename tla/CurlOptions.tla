---------------------------- MODULE CurlOptions ----------------------------
(***************************************************************************)
(* The option lists of pl_curl: the parsers of pl_curl_get and             *)
(* pl_curl_ws_open in both bridges ("swi_get", "gp_get", "swi_ws",         *)
(* "gp_ws"), the texts they copy, and what the call returns with.          *)
(*                                                                         *)
(* An option is its name and the kinds of its arguments: "ok", "bad" (no   *)
(* text, no number) or "list" (a list that is no text, which GNU Prolog    *)
(* finds out only while it copies).  The text of argument k of option i is *)
(* <<i, k>>; the URL is option 0.                                          *)
(***************************************************************************)
EXTENDS Naturals, FiniteSets, Sequences

CONSTANTS
  Parsers,      \* a subset of the four
  Lists,        \* the option lists a program passes
  Tails,        \* how they end: "nil" or "partial"
  MaxKv,        \* the parameters, and the headers, a request has room for (64)
  OptFailures   \* what can go wrong: "memory", "transport"

KvNames == {"param", "header"}
AuthNames == {"basic_auth", "bearer_auth"}
Settings == {"number", "as", "bool"}
TextNames == KvNames \cup AuthNames \cup {"user_agent"}

\* An option is known by its name and number of arguments; "junk" is no compound.
ArgKinds == {"ok", "bad", "list"}
Pairs == KvNames \cup {"basic_auth"}
Singles == {"bearer_auth", "user_agent"} \cup Settings
Options == [name : Pairs, args : [1..2 -> ArgKinds]] \cup [name : Singles, args : [1..1 -> ArgKinds]]
           \cup [name : {"other", "junk"}, args : Seq(ArgKinds)]

ASSUME OptAssumption ==
  /\ \A list \in Lists : list \in Seq(Options)
  /\ Parsers \subseteq {"swi_get", "gp_get", "swi_ws", "gp_ws"}
  /\ Tails \subseteq {"nil", "partial"} /\ MaxKv \in Nat \ {0}

VARIABLES
  ask,      \* the call: its parser, url (the kind of its text), list and tail
  parse,    \* where the parser is: a step, a position in the list, n_headers and n_strs
  req,      \* the request built so far
  owned,    \* the texts malloc has given out for the call
  lost,     \* the texts nothing refers to any more and that were not freed
  response  \* of pl_curl_get: "none", "held", "freed" or "lost"

optVars == <<ask, parse, req, owned, lost, response>>

\* memset and the defaults; a setting is the option it was set by, 0 for none.
NoRequest == [param |-> <<>>, header |-> <<>>, mode |-> 0, user |-> 0, pass |-> 0,
              user_agent |-> 0, number |-> 0, as |-> 0, bool |-> 0]

\* gp_get keeps what Pl_Rd_String_Check returns: "one global buffer" that, as the
\* comments of both GNU Prolog bridges have it, the next such call overwrites.
Copies == ask.parser # "gp_get"
GetCall == ask.parser \in {"swi_get", "gp_get"}
Known == IF GetCall THEN TextNames \cup Settings
         ELSE {"header", "user_agent"} \cup Settings

OptCalls == [parser : Parsers, url : {"ok", "bad"}, list : Lists, tail : Tails]

OptStart ==
  /\ parse = [pc |-> IF ask.parser = "gp_ws" THEN "check" ELSE "url", at |-> 1,
              headers |-> 0, strs |-> 0]
  /\ req = NoRequest
  /\ owned = {} /\ lost = {} /\ response = "none"

OptInit == ask \in OptCalls /\ OptStart

AtEnd == parse.at > Len(ask.list)
Option == ask.list[parse.at]
Step(pc) == parse' = [parse EXCEPT !.pc = pc, !.at = 1]
Advance == parse' = [parse EXCEPT !.at = @ + 1]
TextsOf(i) == {<<i, k>> : k \in 1..Len(ask.list[i].args)}

\* strings_free and gp_ws_free_strings, with the error raised after them.
\* Mutation: a path that returns at once.
FailUnfreed ==
  /\ Step("failed")
  /\ UNCHANGED <<ask, req, owned, lost, response>>

Fail ==
  /\ Step("failed") /\ owned' = {}
  /\ UNCHANGED <<ask, req, lost, response>>

\* GNU Prolog raises an error out of the copying: nothing is freed.
Raise(copied) ==
  /\ Step("failed") /\ owned' = {} /\ lost' = lost \cup owned \cup copied
  /\ UNCHANGED <<ask, req, response>>

\* What an option with texts makes of the request.
With(r, name, i) ==
  CASE name \in KvNames       -> [r EXCEPT ![name] = Append(@, i)]
    [] name = "basic_auth"    -> [r EXCEPT !.mode = i, !.user = i, !.pass = i]
    [] name = "bearer_auth"   -> [r EXCEPT !.mode = i, !.pass = i]
    [] OTHER                  -> [r EXCEPT ![name] = i]

\* A parameter or header for which there is no room.  Mutation: one too many.
NoRoomByOne(name) == name \in KvNames /\ Len(req[name]) > MaxKv
NoRoom(name) == name \in KvNames /\ Len(req[name]) >= MaxKv

-----------------------------------------------------------------------------
(***************************************************************************)
(* swi_curl_get, swi_curl_ws_open and pl_curl_get of gp-curl-c.c           *)
(***************************************************************************)
OnePass == ask.parser # "gp_ws"

OptUrl ==
  /\ OnePass /\ parse.pc = "url"
  /\ \/ /\ ask.url = "ok" /\ Step("options")
        /\ owned' = IF Copies THEN {<<0, 1>>} ELSE {}
        /\ UNCHANGED <<ask, req, lost, response>>
     \/ ask.url = "bad" /\ Fail
     \/ Copies /\ "memory" \in OptFailures /\ Fail

\* SWI-Prolog passes over what is no compound and takes any term for a bool.
Refuses ==
  \/ /\ Option.name \in TextNames \cup {"number", "as"}
     /\ \E k \in 1..Len(Option.args) : Option.args[k] # "ok"
  \/ ask.parser = "gp_get" /\ Option.name = "junk"
  \/ ask.parser = "gp_get" /\ Option.name = "bool" /\ Option.args[1] # "ok"

\* The SWI-Prolog bridge refuses what is too many; the GNU Prolog one passes over it.
Ignored ==
  \/ Option.name \notin Known
  \/ ask.parser = "gp_get" /\ NoRoom(Option.name)

OptRefused ==
  /\ OnePass /\ parse.pc = "options" /\ ~AtEnd
  /\ IF Ignored THEN Option.name = "junk" /\ Refuses
     ELSE \/ Refuses \/ NoRoom(Option.name)
          \/ Option.name \in TextNames /\ Copies /\ "memory" \in OptFailures
  /\ Fail

OptTaken ==
  /\ OnePass /\ parse.pc = "options" /\ ~AtEnd /\ ~Ignored
  /\ ~Refuses /\ ~NoRoom(Option.name)
  /\ req' = With(req, Option.name, parse.at)
  /\ owned' = IF Copies /\ Option.name \in TextNames THEN owned \cup TextsOf(parse.at) ELSE owned
  /\ Advance
  /\ UNCHANGED <<ask, lost, response>>

OptIgnored ==
  /\ OnePass /\ parse.pc = "options" /\ ~AtEnd /\ Ignored
  /\ ~(Option.name = "junk" /\ Refuses)
  /\ Advance
  /\ UNCHANGED <<ask, req, owned, lost, response>>

OptEnd ==
  /\ OnePass /\ parse.pc = "options" /\ AtEnd
  /\ IF ask.tail = "partial" THEN Fail
     ELSE Step("perform") /\ UNCHANGED <<ask, req, owned, lost, response>>

-----------------------------------------------------------------------------
(***************************************************************************)
(* gp_curl_ws_open: what raises an error by itself is looked at first, then *)
(* the texts are copied.                                                   *)
(***************************************************************************)
CheckRefused ==
  \/ ask.tail = "partial"
  \/ ~AtEnd /\ \/ Option.name = "junk"
               \/ Option.name \in Settings /\ Option.args[1] # "ok"
               \/ Option.name = "header" /\ parse.headers >= MaxKv

GpCheck ==
  /\ parse.pc = "check" /\ ~CheckRefused /\ ~AtEnd
  /\ req' = IF Option.name \in Settings THEN With(req, Option.name, parse.at) ELSE req
  /\ parse' = [parse EXCEPT !.at = @ + 1,
                            !.headers = IF Option.name = "header" THEN @ + 1 ELSE @]
  /\ UNCHANGED <<ask, owned, lost, response>>

GpCheckFails == parse.pc = "check" /\ CheckRefused /\ Fail

GpChecked ==
  /\ parse.pc = "check" /\ ~CheckRefused /\ AtEnd
  /\ Step("copy")
  /\ UNCHANGED <<ask, req, owned, lost, response>>

HasTexts == Option.name \in {"header", "user_agent"}

\* An argument that is neither an atom nor a list, or no memory.
GpCopyFails ==
  /\ parse.pc = "copy" /\ ~AtEnd /\ HasTexts
  /\ \/ \E k \in 1..Len(Option.args) : Option.args[k] = "bad"
     \/ "memory" \in OptFailures
  /\ Fail

\* A list that is no text: Pl_Rd_Codes_Str_Check raises the error; the copy it was
\* made for and a name that was copied before are in no array yet.
GpCopyRaises ==
  /\ parse.pc = "copy" /\ ~AtEnd /\ HasTexts
  /\ \A k \in 1..Len(Option.args) : Option.args[k] # "bad"
  /\ \E k \in 1..Len(Option.args) :
       /\ Option.args[k] = "list" /\ \A n \in 1..(k - 1) : Option.args[n] = "ok"
       /\ Raise({<<parse.at, n>> : n \in 1..k})

GpCopy ==
  /\ parse.pc = "copy" /\ ~AtEnd
  /\ IF HasTexts
     THEN /\ \A k \in 1..Len(Option.args) : Option.args[k] = "ok"
          /\ req' = With(req, Option.name, parse.at)
          /\ owned' = owned \cup TextsOf(parse.at)
     ELSE UNCHANGED <<req, owned>>
  /\ parse' = [parse EXCEPT !.at = @ + 1,
                            !.strs = IF HasTexts THEN @ + Len(Option.args) ELSE @]
  /\ UNCHANGED <<ask, lost, response>>

GpUrl ==
  /\ parse.pc = "copy" /\ AtEnd
  /\ \/ /\ ask.url = "ok" /\ owned' = owned \cup {<<0, 1>>}
        /\ parse' = [parse EXCEPT !.pc = "perform", !.at = 1, !.strs = @ + 1]
        /\ UNCHANGED <<ask, req, lost, response>>
     \/ ask.url = "bad" /\ Raise({})
     \/ "memory" \in OptFailures /\ Fail

\* The places of strs: two for every header there is room for, one for a user_agent
\* and one for the URL.
StrsRoom == 2 * MaxKv + 2

\* A write past strs is undefined: the process ends, or the call goes on.
GpOverrun ==
  /\ parse.pc \in {"copy", "perform"} /\ parse.strs > StrsRoom
  /\ Step("crashed")
  /\ UNCHANGED <<ask, req, owned, lost, response>>

-----------------------------------------------------------------------------
(***************************************************************************)
(* pl_curl_get_perform or pl_curl_ws_open, and what is returned.           *)
(***************************************************************************)
\* The core frees the response of a request that fails.
Performs ==
  /\ parse.pc = "perform"
  /\ \/ "transport" \in OptFailures /\ Fail
     \/ /\ Step(IF GetCall THEN "answer" ELSE "done") /\ owned' = {}
        /\ response' = IF GetCall THEN "held" ELSE "none"
        /\ UNCHANGED <<ask, req, lost>>

\* Status, Headers and Body are unified, or are something else.
Answers ==
  /\ parse.pc = "answer"
  /\ response' = "freed"
  /\ Step("done")
  /\ UNCHANGED <<ask, req, owned, lost>>

\* GNU Prolog raises an error when one of them is of another type.
AnswerRaises ==
  /\ parse.pc = "answer" /\ ask.parser = "gp_get"
  /\ response' = "lost"
  /\ Step("failed")
  /\ UNCHANGED <<ask, req, owned, lost>>

OptNext ==
  \/ OptUrl \/ OptRefused \/ OptTaken \/ OptIgnored \/ OptEnd
  \/ GpCheck \/ GpCheckFails \/ GpChecked
  \/ GpCopyFails \/ GpCopyRaises \/ GpCopy \/ GpUrl \/ GpOverrun
  \/ Performs \/ Answers \/ AnswerRaises

OptSpec == OptInit /\ [][OptNext]_optVars

-----------------------------------------------------------------------------
(***************************************************************************)
(* What a list of options asks for.                                        *)
(***************************************************************************)
Asked(name) == {i \in DOMAIN ask.list : ask.list[i].name = name /\ name \in Known}
LastOf(S) == CHOOSE i \in S \cup {0} : \A j \in S : j <= i

\* s is S in order, each once.
InOrder(s, S) ==
  /\ \A j, k \in DOMAIN s : j < k => s[j] < s[k]
  /\ \A k \in DOMAIN s : s[k] \in S
  /\ \A i \in S : \E k \in DOMAIN s : s[k] = i

Wellformed(o) == \A k \in 1..Len(o.args) : o.args[k] = "ok"

Auth(r) == <<r.mode, r.pass, IF r.mode \in Asked("basic_auth") THEN r.user ELSE 0>>

TextsAt(i) == IF i = 0 THEN {<<0, 1>>} ELSE TextsOf(i)

\* The options a request has texts of; the URL is one.
Carried ==
  {0, req.mode, req.user_agent}
    \cup UNION {{req[name][k] : k \in DOMAIN req[name]} : name \in KvNames}

\* What the core reads where the request has text t: gp_get has read one text after the
\* other into the same buffer.
Reads(t) ==
  IF Copies THEN t
  ELSE LET last == CHOOSE i \in Carried : \A j \in Carried : j <= i
       IN  <<last, Cardinality(TextsAt(last))>>

\* A list with something that cannot be sent, or with more parameters or headers than
\* a request has room for, is refused and nothing is sent.  What is sent is what was
\* asked for: every parameter and header, once and in order, the last of each setting,
\* of two authentications the later with its own user and password, and no text a
\* parser copied has been freed by then.  What pl_curl_get/5 of GNU Prolog does with
\* too long a list, and whether its texts, which it does not copy, are still there, is
\* what GnuAsAsked asks (GnuProgram).
RequestFaithful ==
  parse.pc = "perform" =>
    /\ \A name \in KvNames :
         \/ ask.parser = "gp_get" /\ Cardinality(Asked(name)) > MaxKv
         \/ InOrder(req[name], Asked(name)) /\ Cardinality(Asked(name)) <= MaxKv
    /\ \A name \in Settings \cup {"user_agent"} : req[name] = LastOf(Asked(name))
    /\ LET last == LastOf(Asked("basic_auth") \cup Asked("bearer_auth"))
       IN  Auth(req) = <<last, last, IF last \in Asked("basic_auth") THEN last ELSE 0>>
    /\ \A i \in DOMAIN ask.list :
         ask.list[i].name \in Known \ (KvNames \cup {"bool"}) => Wellformed(ask.list[i])
    /\ Copies => \A i \in DOMAIN ask.list \cup {0} :
         i = 0 \/ ask.list[i].name \in Known \cap TextNames => TextsAt(i) \subseteq owned

\* A text option of gp_ws with an argument only Pl_Rd_Codes_Str_Check finds out about.
RaisesInCopy ==
  \E i \in DOMAIN ask.list :
    /\ ask.list[i].name \in {"header", "user_agent"}
    /\ \E k \in DOMAIN ask.list[i].args : ask.list[i].args[k] = "list"

\* A call that has returned holds no copied text and no response, whichever way it
\* returned.  Texts are lost in pl_curl_ws_open of GNU Prolog alone, and only if the
\* URL is no text or an argument is a list that is none; a response is lost in its
\* pl_curl_get/5 alone, by a call that fails; strs is overrun only if user_agent is
\* given twice or more.  That these are losses is what GnuMemoryExact says.
OptionsFreed ==
  /\ parse.pc \in {"done", "failed"} => owned = {} /\ response # "held"
  /\ lost # {} => ask.parser = "gp_ws" /\ parse.pc = "failed" /\ (ask.url = "bad" \/ RaisesInCopy)
  /\ response = "lost" => ask.parser = "gp_get" /\ parse.pc = "failed"
  /\ parse.strs > StrsRoom \/ parse.pc = "crashed"
       => ask.parser = "gp_ws" /\ Cardinality(Asked("user_agent")) > 1

=============================================================================
