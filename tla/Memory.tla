------------------------------ MODULE Memory ------------------------------
(***************************************************************************)
(* What the calls that copy Prolog terms to memory of their own leave of   *)
(* it: the option lists of pl_curl, pl_regexp/3 and the arguments of       *)
(* pl_postgresql.  They share no state; what is asked of all three is.     *)
(***************************************************************************)
EXTENDS CurlOptions, Regexp, PgArgs

\* A call that has returned, whichever way, holds no memory it asked for and none uses
\* what it has freed: the options of pl_curl, pl_regexp/3 and the arguments of
\* pl_postgresql.  Blocks nothing refers to any more are left by calls of the GNU Prolog
\* bridges alone and in the cases each part names, where a library function raises an
\* error that does not return; that no call leaves any is GnuMemoryExact (GnuProgram),
\* which fails.
MemoryExact == OptionsFreed /\ RegexpFreed /\ ArgumentsFreed

=============================================================================
