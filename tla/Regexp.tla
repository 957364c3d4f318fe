------------------------------- MODULE Regexp -------------------------------
(***************************************************************************)
(* pl_regexp(String, Pattern, Matches) in both bridges (swi-regexp.c and   *)
(* gp-regexp-c.c): the blocks of memory a call owns on each of its ways    *)
(* out, and the list of matches it makes.  regcomp, regexec and the Prolog *)
(* functions are external.  The text a group matched is the number of the  *)
(* group, counted from 1 for the whole match; 0 is the empty atom.         *)
(***************************************************************************)
EXTENDS Naturals, Sequences

CONSTANTS
  RxBridges,    \* a subset of {"swi", "gp"}
  RxKinds,      \* of String and Pattern: "atom", "codes", "list" or "other"
  MaxGroups,    \* bound on the groups of a pattern
  RxFailures    \* what can go wrong: "memory", "syntax", "regexec", "raise"

ASSUME RxAssumption ==
  /\ RxBridges \subseteq {"swi", "gp"}
  /\ RxKinds \subseteq {"atom", "codes", "list", "other"}
  /\ MaxGroups \in Nat

VARIABLES
  rx,         \* the call: its bridge, its step, the kinds of its arguments and the
              \* groups of the pattern
  blocks,     \* the blocks it owns
  stray,      \* the blocks nothing refers to any more and that were not freed
  matches,    \* what regexec found: for each match TRUE if the group took part
  vals,       \* the list of matches as far as it is made
  misused     \* a block has been used that the call does not own

rxVars == <<rx, blocks, stray, matches, vals, misused>>
made == <<matches, vals>>

RxCalls == [bridge : RxBridges, pc : {"str"}, str : RxKinds, pattern : RxKinds,
            groups : 0..MaxGroups]

RxStart ==
  /\ blocks = {} /\ stray = {}
  /\ matches = <<>> /\ vals = <<>> /\ misused = FALSE

RxInit == rx \in RxCalls /\ RxStart

RxAt(pc) == rx.pc = pc
RxTo(pc) == rx' = [rx EXCEPT !.pc = pc]
Gp == rx.bridge = "gp"

\* String and Pattern are on the Prolog side unless a GNU Prolog list was copied.
Needs(S) == S \cap {b \in {"str", "pattern"} : ~(Gp /\ rx[b] = "codes")}
Uses(S) == misused' = (misused \/ ~(S \subseteq blocks \cup Needs(S)))

\* Every return but one of this call's own.
Frees(S) ==
  /\ blocks' = blocks \ S
  /\ UNCHANGED <<stray, made>>

\* A library function raises an error and does not come back.
Throws(extra) ==
  /\ RxTo("raised")
  /\ stray' = stray \cup blocks \cup extra /\ blocks' = {}
  /\ UNCHANGED <<made, misused>>

-----------------------------------------------------------------------------
(***************************************************************************)
(* regexp_text, PL_get_chars                                               *)
(***************************************************************************)
Copied(arg) == IF Gp /\ rx[arg] = "codes" THEN {arg} ELSE {}

RxText(arg, then) ==
  /\ RxAt(arg) /\ rx[arg] \in {"atom", "codes"}
  /\ RxTo(then) /\ blocks' = blocks \cup Copied(arg)
  /\ UNCHANGED <<stray, made, misused>>

\* A list of something else is copied to until the error; what is no list is not.
RxNoText(arg) ==
  /\ RxAt(arg) /\ rx[arg] \in {"list", "other"}
  /\ Throws(IF Gp /\ rx[arg] = "list" THEN {arg} ELSE {})

RxTextNoMemory(arg) ==
  /\ RxAt(arg) /\ Copied(arg) # {} /\ "memory" \in RxFailures
  /\ RxTo("failed") /\ Frees({"str"}) /\ UNCHANGED misused

-----------------------------------------------------------------------------
(***************************************************************************)
(* regcomp, which needs the pattern only until it returns                  *)
(***************************************************************************)
\* re_nsub groups, and the whole match.  Mutation: the whole match is not counted.
CompileNoWhole ==
  /\ RxAt("compile") /\ Uses({"pattern"})
  /\ matches' = [i \in 1..rx.groups |-> FALSE]
  /\ RxTo("matches")
  /\ blocks' = (blocks \ {"pattern"}) \cup {"regex"}
  /\ UNCHANGED <<stray, vals>>

Compile ==
  /\ RxAt("compile") /\ Uses({"pattern"})
  /\ matches' = [i \in 1..(rx.groups + 1) |-> FALSE]
  /\ RxTo("matches")
  /\ blocks' = (blocks \ {"pattern"}) \cup {"regex"}
  /\ UNCHANGED <<stray, vals>>

CompileFails ==
  /\ RxAt("compile") /\ "syntax" \in RxFailures /\ Uses({"pattern"})
  /\ RxTo("failed") /\ Frees({"pattern", "str"})

-----------------------------------------------------------------------------
(***************************************************************************)
(* regexec and the list                                                    *)
(***************************************************************************)
AllocMatches ==
  /\ RxAt("matches")
  /\ \/ RxTo("match") /\ blocks' = blocks \cup {"matches"} /\ UNCHANGED <<stray, made>>
     \/ "memory" \in RxFailures /\ RxTo("failed") /\ Frees({"str", "regex"})
  /\ UNCHANGED misused

\* A group takes part in the match or does not; the whole does.
Match ==
  /\ RxAt("match") /\ Uses({"str", "regex", "matches"})
  /\ \E part \in [DOMAIN matches -> BOOLEAN] : (part # <<>> => part[1]) /\ matches' = part
  /\ RxTo(IF Gp THEN "buffers" ELSE "collect")
  /\ UNCHANGED <<blocks, stray, vals>>

\* No match, or an error, whose text is made from the compiled pattern.
NoMatch ==
  /\ RxAt("match") /\ Uses({"str", "regex", "matches"})
  /\ RxTo("failed") /\ Frees({"str", "matches", "regex"})

MatchFails ==
  /\ RxAt("match") /\ "regexec" \in RxFailures /\ Uses({"str", "regex", "matches"})
  /\ RxTo("failed") /\ Frees({"str", "matches", "regex"})

\* vals and buffer are asked for together and looked at together.  Mutation: the
\* one that was given is forgotten.
BuffersHalfFreed ==
  /\ RxAt("buffers")
  /\ \/ RxTo("collect") /\ blocks' = blocks \cup {"vals", "buffer"} /\ UNCHANGED <<stray, made>>
     \/ /\ "memory" \in RxFailures /\ RxTo("failed")
        /\ \E got \in {{}, {"vals"}, {"buffer"}} : blocks' = got
        /\ UNCHANGED <<stray, made>>
  /\ UNCHANGED misused

Buffers ==
  /\ RxAt("buffers")
  /\ \/ RxTo("collect") /\ blocks' = blocks \cup {"vals", "buffer"} /\ UNCHANGED <<stray, made>>
     \/ "memory" \in RxFailures /\ RxTo("failed") /\ Frees({"str", "matches", "regex"})
  /\ UNCHANGED misused

\* One element; SWI-Prolog unifies it at once, which may fail.
Collect ==
  /\ RxAt("collect") /\ Len(vals) < Len(matches)
  /\ Uses({"str", "matches"} \cup (IF Gp THEN {"vals", "buffer"} ELSE {}))
  /\ vals' = Append(vals, IF matches[Len(vals) + 1] THEN Len(vals) + 1 ELSE 0)
  /\ UNCHANGED <<rx, blocks, stray, matches>>

\* The list is Matches, or Matches is another list.
Unify ==
  /\ RxAt("collect") /\ Len(vals) = Len(matches)
  /\ \E pc \in {"true", "failed"} : RxTo(pc)
  /\ Frees({"str", "vals", "buffer", "matches", "regex"}) /\ UNCHANGED misused

UnifyFails ==
  /\ RxAt("collect") /\ ~Gp /\ Len(vals) < Len(matches)
  /\ RxTo("failed") /\ Frees({"matches", "regex"}) /\ UNCHANGED misused

\* GNU Prolog raises an error when Matches is no list.
UnifyRaises ==
  /\ RxAt("collect") /\ Gp /\ Len(vals) = Len(matches) /\ "raise" \in RxFailures
  /\ Throws({})

RxNext ==
  \/ RxText("str", "pattern") \/ RxText("pattern", "compile")
  \/ RxNoText("str") \/ RxNoText("pattern")
  \/ RxTextNoMemory("str") \/ RxTextNoMemory("pattern")
  \/ Compile \/ CompileFails \/ AllocMatches
  \/ Match \/ NoMatch \/ MatchFails \/ Buffers
  \/ Collect \/ Unify \/ UnifyFails \/ UnifyRaises

RxSpec == RxInit /\ [][RxNext]_rxVars

-----------------------------------------------------------------------------
\* A call that has returned owns nothing and has used nothing it did not own.  It
\* loses blocks in the GNU Prolog bridge only and when a library function raises the
\* error itself: String or Pattern is no text, or, all being done, Matches is no list.
\* That these are losses is what GnuMemoryExact says.
RegexpFreed ==
  /\ rx.pc \in {"true", "failed", "raised"} => blocks = {}
  /\ ~misused
  /\ stray # {} =>
       /\ Gp /\ rx.pc = "raised"
       /\ \/ rx.str \in {"list", "other"} \/ rx.pattern \in {"list", "other"}
          \/ vals # <<>> /\ Len(vals) = Len(matches)

\* Matches has the whole match and then every group of the pattern in order, ''
\* for those that took no part (pl_regexp/README.md: "followed by one atom per
\* parenthesised group of the pattern, in order"; a bridge once left out the last).
MatchesComplete ==
  rx.pc = "true" =>
    vals = [i \in 1..(rx.groups + 1) |-> IF i = 1 \/ matches[i] THEN i ELSE 0]

=============================================================================
