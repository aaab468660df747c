------------------------------- MODULE Lookup -------------------------------
(***************************************************************************)
(* The three searches of a path for a program: execvpe() and find_path()   *)
(* (PathSearch), and the which command (Which).  One of them runs.         *)
(***************************************************************************)
EXTENDS PathSearch

CONSTANT MaxArgs

VARIABLES tool,        \* what runs: "search" or "which"
          allmatches, slash, found, dirs, n, i, rval, notfound, printed, status

whichVars == <<allmatches, slash, found, dirs, n, i, rval, notfound, printed, status>>

W == INSTANCE Which WITH path <- dirs

\* What does not run has its variables at some value: one is enough.
Idle == /\ search = "execvpe" /\ name = "empty" /\ path = <<Empty>>
        /\ file = [d \in Places |-> "absent"] /\ bshell = "runs"
WhichIdle == allmatches = FALSE /\ slash = <<>>

LookupInit == /\ \/ tool = "search" /\ WhichIdle
                 \/ tool = "which" /\ Idle
              /\ Init /\ W!Init

LookupNext == \/ tool = "search" /\ Next /\ UNCHANGED <<tool, whichVars>>
              \/ tool = "which" /\ W!Next /\ UNCHANGED <<tool, vars>>

LookupSpec == LookupInit /\ [][LookupNext]_<<tool, vars, whichVars>>

\* What holds at every entry of the path: the types; and a too long entry costs
\* execvpe() nothing that is behind it.
LookupInv == TypeOK /\ W!TypeOK /\ LongCostsNothing

\* Which: what is printed is the first match of each name, or with -a every
\* match, and the exit status is the one the header promises.
WhichAnswers == W!PrintsMatches /\ W!ExitMeans
=============================================================================
