------------------------------ MODULE TempFile ------------------------------
(***************************************************************************)
(* pl_temporary_file(Dir, Prefix, File) of pl_toolbox                      *)
(* (lowlevelroutines.c), called by several threads and processes in a      *)
(* directory they share with others, who make and remove files of their    *)
(* own and may remove the directory or take the right to write in it.      *)
(* stat, mkstemp and close are external.                                   *)
(***************************************************************************)
EXTENDS Naturals

CONSTANTS
  Callers,      \* the threads and processes that call the predicate
  Names,        \* the names Dir/<Prefix>XXXXXX can become
  MaxOthers     \* bound on the files the others make

ASSUME TfAssumption == "other" \notin Callers /\ "none" \notin Callers \cup Names

VARIABLES
  dir,      \* "there", "closed" (no right to write) or "gone"
  files,    \* of a name: who made the file there, or "none"
  others,   \* how many files the others have made
  step,     \* of a caller: where its call is
  mine,     \* the name mkstemp has given a call, or "none"
  open,     \* the descriptors of a caller that are open
  answer    \* what the last call of a caller answered

tfVars == <<dir, files, others, step, mine, open, answer>>

TfStart ==
  /\ files = [n \in Names |-> "none"] /\ others = 0
  /\ step = [c \in Callers |-> "out"]
  /\ mine = [c \in Callers |-> "none"]
  /\ open = [c \in Callers |-> {}]
  /\ answer = [c \in Callers |-> <<"none">>]

TfInit == dir \in {"there", "closed", "gone"} /\ TfStart

Goes(c, s) == step' = [step EXCEPT ![c] = s]
AnswersWith(c, what) == answer' = [answer EXCEPT ![c] = what] /\ Goes(c, "out")

\* The checks of the arguments and stat.  A prefix is cut to five characters before
\* it is looked at.
TfArguments(c) ==
  /\ step[c] = "out" /\ answer[c][1] # "file"
  /\ \/ AnswersWith(c, <<"type">>) \/ AnswersWith(c, <<"domain">>)
     \/ dir = "gone" /\ AnswersWith(c, <<"existence">>)
     \/ dir # "gone" /\ AnswersWith(c, <<"representation">>)
     \/ dir # "gone" /\ Goes(c, "make") /\ UNCHANGED answer
  /\ UNCHANGED <<dir, files, others, mine, open>>

\* mkstemp: a name at which there is nothing, taken at once.  Mutation: a name is
\* looked for as mktemp does, and opened afterwards, whatever is there by then.
TfMakeNotExclusive(c) ==
  /\ step[c] = "make" /\ dir = "there"
  /\ IF mine[c] = "none"
     THEN /\ \E n \in Names : files[n] = "none" /\ mine' = [mine EXCEPT ![c] = n]
          /\ UNCHANGED <<files, open, step>>
     ELSE /\ files' = [files EXCEPT ![mine[c]] = IF @ = "none" THEN c ELSE @]
          /\ open' = [open EXCEPT ![c] = @ \cup {mine[c]}]
          /\ Goes(c, "close")
          /\ UNCHANGED mine
  /\ UNCHANGED <<dir, others, answer>>

TfMake(c) ==
  /\ step[c] = "make" /\ dir = "there"
  /\ \E n \in Names :
       /\ files[n] = "none"
       /\ files' = [files EXCEPT ![n] = c]
       /\ mine' = [mine EXCEPT ![c] = n]
       /\ open' = [open EXCEPT ![c] = @ \cup {n}]
  /\ Goes(c, "close")
  /\ UNCHANGED <<dir, others, answer>>

\* The directory went since it was looked at or was closed, every name is taken, or
\* there is no descriptor or no room left.
TfMakeFails(c) ==
  /\ step[c] = "make"
  /\ \/ dir = "closed" /\ AnswersWith(c, <<"permission">>)
     \/ AnswersWith(c, <<"system">>)
  /\ UNCHANGED <<dir, files, others, mine, open>>

TfReturn(c) ==
  /\ step[c] = "close"
  /\ open' = [open EXCEPT ![c] = @ \ {mine[c]}]
  /\ AnswersWith(c, <<"file", mine[c]>>)
  /\ UNCHANGED <<dir, files, others, mine>>

\* The program removes its file and may call again.
TfRemove(c) ==
  /\ step[c] = "out" /\ answer[c][1] = "file" /\ dir # "closed"
  /\ files' = [files EXCEPT ![mine[c]] = "none"]
  /\ mine' = [mine EXCEPT ![c] = "none"] /\ answer' = [answer EXCEPT ![c] = <<"none">>]
  /\ UNCHANGED <<dir, others, step, open>>

\* Anyone may make files under any name and remove their own.
TfOthers ==
  /\ \/ /\ others < MaxOthers /\ dir = "there"
        /\ \E n \in Names : files[n] = "none" /\ files' = [files EXCEPT ![n] = "other"]
        /\ others' = others + 1
        /\ UNCHANGED dir
     \/ /\ \E n \in Names : files[n] = "other" /\ files' = [files EXCEPT ![n] = "none"]
        /\ UNCHANGED <<dir, others>>
     \/ dir' = "closed" /\ dir = "there" /\ UNCHANGED <<files, others>>
     \/ dir' = "there" /\ dir = "closed" /\ UNCHANGED <<files, others>>
     \/ dir' = "gone" /\ (\A n \in Names : files[n] = "none") /\ UNCHANGED <<files, others>>
  /\ UNCHANGED <<step, mine, open, answer>>

TfNext ==
  \/ \E c \in Callers :
       TfArguments(c) \/ TfMake(c) \/ TfMakeFails(c) \/ TfReturn(c) \/ TfRemove(c)
  \/ TfOthers

TfSpec == TfInit /\ [][TfNext]_tfVars

-----------------------------------------------------------------------------
\* The file a call answers was made by that call and is no one else's, whoever makes
\* and removes files meanwhile; a call that answers an error has left no file, and
\* none leaves a descriptor open (README.md: "creates a new empty file").
FileOwned ==
  /\ \A c \in Callers :
       /\ answer[c][1] = "file" => files[answer[c][2]] = c
       /\ step[c] = "out" => open[c] = {}
       /\ \A n \in Names : files[n] = c => mine[c] = n
  /\ \A c, d \in Callers : answer[c][1] = "file" /\ answer[c] = answer[d] => c = d

=============================================================================
