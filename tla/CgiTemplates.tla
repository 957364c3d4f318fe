---------------------------- MODULE CgiTemplates ----------------------------
(***************************************************************************)
(* generate_html_output of pl_cgi (common.pl): a template is read from the *)
(* current input, of which Prolog has one, and a {Goal} may itself write   *)
(* another template.  A template is the sequence of its parts:             *)
(*   <<"text", k>>      text, a tag, an escaped character, or a goal that  *)
(*                      writes or fails                                    *)
(*   <<"throws", k>>    a goal that raises an error                        *)
(*   <<"nest", file>>   {generate_html_output(file, ...)}                  *)
(*   <<"missing", k>>   the same with a file that is not there             *)
(*   <<"raises", k>>    a goal that is no Prolog term, or a \ at the end:  *)
(*                      an error no catch/3 of this template stands around *)
(***************************************************************************)
EXTENDS Naturals, SequencesExt

CONSTANTS
  Pages,      \* what the files may hold: sequences of templates, each a sequence of parts
  MaxCalls    \* bound on the calls of the program

Parts == {"text", "throws", "nest", "missing", "raises"} \X Nat

\* A template that nests itself, directly or through others, never ends and nothing is
\* asked of it; the others can be numbered so that each nests later ones only.
ASSUME CtAssumption ==
  /\ MaxCalls \in Nat
  /\ \A pages \in Pages :
       /\ pages \in Seq(Seq(Parts)) /\ Len(pages) > 0
       /\ \A file \in DOMAIN pages : \A i \in DOMAIN pages[file] :
            pages[file][i][1] = "nest" => pages[file][i][2] \in DOMAIN pages
                                          /\ pages[file][i][2] > file

VARIABLES
  page,       \* the files
  nest,       \* the calls under way, the innermost last: file, stream and OldCI
  input,      \* current_input: a stream, or 0 for the program's own
  opened,     \* of each stream that was ever opened: its file and position
  live,       \* the streams that are open
  output,     \* what this call of the program has written
  escaped,    \* an error has left a template since the program started
  calls       \* the calls of the program that have returned

ctVars == <<page, nest, input, opened, live, output, escaped, calls>>

CtStart ==
  /\ nest = <<>> /\ input = 0 /\ opened = <<>> /\ live = {}
  /\ output = <<>> /\ escaped = FALSE /\ calls = 0

CtInit == page \in Pages /\ CtStart

InTemplate == nest # <<>>
Inner == Last(nest)
Position == opened[input].at
AtEof == Position > Len(page[opened[input].file])
Part == page[opened[input].file][Position]

\* get_code and its like move the current input, whichever stream that is.
Moved == [opened EXCEPT ![input].at = @ + 1]

\* open, current_input, set_input; then parse_html.
Started(file, streams) ==
  /\ opened' = Append(streams, [file |-> file, at |-> 1])
  /\ nest' = Append(nest, [file |-> file, stream |-> Len(streams) + 1, old |-> input])
  /\ live' = live \cup {Len(streams) + 1}
  /\ input' = Len(streams) + 1

Generate ==
  /\ ~InTemplate /\ calls < MaxCalls
  /\ Started(1, opened) /\ output' = <<>>
  /\ UNCHANGED <<page, escaped, calls>>

Writes(part) == output' = Append(output, part) /\ opened' = Moved

CtPart ==
  /\ InTemplate /\ ~AtEof /\ Part[1] \in {"text", "throws", "missing"}
  /\ Writes(Part)
  /\ UNCHANGED <<page, nest, input, live, escaped, calls>>

CtNest ==
  /\ InTemplate /\ ~AtEof /\ Part[1] = "nest"
  /\ Started(Part[2], Moved)
  /\ UNCHANGED <<page, output, escaped, calls>>

\* The error is caught around the goal this template was generated by, if there is
\* one: the template around it goes on reading the current input.
CtRaises ==
  /\ InTemplate /\ ~AtEof /\ Part[1] = "raises"
  /\ opened' = Moved /\ nest' = Front(nest)
  /\ output' = IF Len(nest) > 1 THEN Append(output, Part) ELSE output
  /\ escaped' = TRUE
  /\ calls' = IF Len(nest) > 1 THEN calls ELSE calls + 1
  /\ UNCHANGED <<page, input, live>>

\* Mutation: the old input is not set again.
CtEndKeepsInput ==
  /\ InTemplate /\ AtEof
  /\ live' = live \ {Inner.stream} /\ nest' = Front(nest)
  /\ calls' = IF Len(nest) > 1 THEN calls ELSE calls + 1
  /\ UNCHANGED <<page, input, opened, output, escaped>>

\* close(Stream), set_input(OldCI)
CtEnd ==
  /\ InTemplate /\ AtEof
  /\ live' = live \ {Inner.stream} /\ input' = Inner.old /\ nest' = Front(nest)
  /\ calls' = IF Len(nest) > 1 THEN calls ELSE calls + 1
  /\ UNCHANGED <<page, opened, output, escaped>>

CtNext == Generate \/ CtPart \/ CtNest \/ CtRaises \/ CtEnd

CtSpec == CtInit /\ [][CtNext]_ctVars

-----------------------------------------------------------------------------
\* What a file is to write: a nested one at its place.
Expanded[file \in DOMAIN page] ==
  FlattenSeq([i \in 1..Len(page[file]) |->
    IF page[file][i][1] = "nest" THEN Expanded[page[file][i][2]] ELSE <<page[file][i]>>])

BackInProgram == ~InTemplate /\ calls > 0

Whole == output = Expanded[1] /\ input = 0 /\ live = {}

\* A call writes the whole of its template, with every nested one where it stands,
\* closes what it opened and leaves the program its input, as long as no error has
\* left a template.
TemplatesWhole == BackInProgram /\ ~escaped => Whole

\* The same when an error was raised in a nested template and caught around it
\* (pl_cgi/README.md: "copies the template File to the output, replacing [...]
\* {Goal} with whatever Goal writes").
OuterTemplateWhole == BackInProgram /\ input = 0 => \A i \in DOMAIN page[1] :
  page[1][i][1] = "text" => page[1][i] \in ToSet(output)

=============================================================================
