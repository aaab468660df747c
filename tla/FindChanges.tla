---------------------------- MODULE FindChanges ----------------------------
(***************************************************************************)
(* patches_find_changes: compares the builds patches_do_build has left,    *)
(* each with the one before it.  It works in phases; the jobs of a phase   *)
(* run in the background all at once, and the script waits for them all    *)
(* before the next phase, whose jobs read what they wrote.                 *)
(*                                                                         *)
(* Builds are known by their numbers, which have three digits, so that the *)
(* shell sorts them as numbers; a job is <<phase, place in its list>>.     *)
(* readelf, diff, objdump and gcc are external.  Each diff of two builds'  *)
(* readelf output is kept, an empty one removed, and one left by an        *)
(* earlier use of the script on other builds is taken for one of its own.  *)
(***************************************************************************)
EXTENDS Integers, SequencesExt

CONSTANT NumBuilds

Pairs == {q \in (1..NumBuilds) \X (1..NumBuilds) : q[1] < q[2]}
Sorted(pairs) ==
  SetToSortSeq(pairs, LAMBDA a, b : a[1] < b[1] \/ (a[1] = b[1] /\ a[2] < b[2]))

VARIABLES
  builds,      \* the builds, in order
  changed,     \* the pairs of successive builds that differ
  left,        \* the pairs with a diff of an earlier use
  diffs,       \* the pairs with a readelf diff that is not empty
  PATCH_CHG,
  PATCH_DIFF,
  phase,
  launched,    \* the jobs of the phase started so far
  running,     \* the jobs that run
  written      \* what the jobs have written, in this use of the script

vars == <<builds, changed, left, diffs, PATCH_CHG, PATCH_DIFF, phase, launched, running, written>>
given == <<builds, changed, left>>

Successive == {<<builds[i], builds[i + 1]>> : i \in 1..(Len(builds) - 1)}

-----------------------------------------------------------------------------
(* The jobs of each phase, what one reads and what it writes. *)

List(ph) == CASE ph = "readelf" -> builds
              [] ph = "diff"    -> [i \in 1..(Len(builds) - 1) |-> <<builds[i], builds[i + 1]>>]
              [] ph \in {"objdump", "gcc"} -> PATCH_CHG
              [] ph \in {"objdiff", "srcdiff"} -> PATCH_DIFF
              [] OTHER -> <<>>

Item(job) == List(job[1])[job[2]]

\* Both kinds of diff of two builds go to the directory of the second.
Writes(job) ==
  LET x == Item(job) IN
  IF job[1] \in {"objdiff", "srcdiff"} THEN <<job[1], x[2]>> ELSE <<job[1], x>>

Reads(job) ==
  LET x == Item(job) IN
  CASE job[1] = "diff"    -> {<<"readelf", x[1]>>, <<"readelf", x[2]>>}
    [] job[1] = "objdiff" -> {<<"objdump", x[1]>>, <<"objdump", x[2]>>}
    [] job[1] = "srcdiff" -> {<<"gcc", x[1]>>, <<"gcc", x[2]>>}
    [] OTHER -> {}

Follows(ph) == CASE ph = "readelf" -> "diff"    [] ph = "diff"    -> "dirs"
                 [] ph = "dirs"    -> "objdump" [] ph = "objdump" -> "objdiff"
                 [] ph = "objdiff" -> "gcc"     [] ph = "gcc"     -> "srcdiff"
                 [] ph = "srcdiff" -> "done"

-----------------------------------------------------------------------------
(* The script. *)

\* ( ... ) &
Launch ==
  /\ phase # "dirs" /\ launched < Len(List(phase))
  /\ launched' = launched + 1
  /\ running' = running \cup {<<phase, launched + 1>>}
  /\ UNCHANGED <<given, diffs, PATCH_CHG, PATCH_DIFF, phase, written>>

\* A job ends; a readelf diff is empty or not.
Finish(job) ==
  /\ running' = running \ {job}
  /\ written' = written \cup {Writes(job)}
  /\ diffs' = IF job[1] # "diff" THEN diffs
              ELSE IF Item(job) \in changed THEN diffs \cup {Item(job)}
              ELSE diffs \ {Item(job)}
  /\ UNCHANGED <<given, PATCH_CHG, PATCH_DIFF, phase, launched>>

\* Mutant: the script goes on while jobs of the phase still run.
NoWait ==
  /\ phase \notin {"dirs", "done"} /\ launched = Len(List(phase))
  /\ phase' = Follows(phase)
  /\ launched' = 0
  /\ UNCHANGED <<given, diffs, PATCH_CHG, PATCH_DIFF, running, written>>

\* wait
Wait ==
  /\ phase \notin {"dirs", "done"} /\ launched = Len(List(phase))
  /\ running = {}
  /\ phase' = Follows(phase)
  /\ launched' = 0
  /\ UNCHANGED <<given, diffs, PATCH_CHG, PATCH_DIFF, running, written>>

\* The first of a pair is added unless it is there; the second always is.
AddPair(chg, q) ==
  (IF q[1] \in Range(chg) THEN chg ELSE Append(chg, q[1])) \o <<q[2]>>

\* The loop over the diffs, in the order of their names.
FindDirs ==
  /\ phase = "dirs"
  /\ PATCH_DIFF' = Sorted(diffs)
  /\ PATCH_CHG' = FoldLeft(AddPair, <<>>, PATCH_DIFF')
  /\ phase' = Follows(phase)
  /\ UNCHANGED <<given, diffs, launched, running, written>>

Init ==
  /\ \E bs \in SUBSET (1..NumBuilds) : builds = SetToSortSeq(bs, <)
  /\ changed \in SUBSET Successive
  /\ left \in {{}} \cup {{q} : q \in Pairs}
  /\ diffs = left
  /\ PATCH_CHG = <<>> /\ PATCH_DIFF = <<>>
  /\ phase = "readelf"
  /\ launched = 0 /\ running = {} /\ written = {}

Next == Launch \/ Wait \/ FindDirs \/ \E job \in running : Finish(job)

Spec == Init /\ [][Next]_vars

-----------------------------------------------------------------------------
TypeOK ==
  /\ diffs \subseteq Pairs
  /\ PATCH_CHG \in Seq(1..NumBuilds) /\ PATCH_DIFF \in Seq(Pairs)
  /\ launched \in 0..Len(List(phase))

\* No job reads what another has yet to write: while it runs, all it reads has
\* been written by this use of the script and nothing writes it again.
InputsReady ==
  \A job \in running :
    Reads(job) \subseteq written \ {Writes(other) : other \in running}

\* With no diff left by an earlier use, no two jobs that run at once write the
\* same files: a build named by two diffs, as the second of one and the first
\* of the next, is listed once.
NoTwoWriters ==
  left = {} => \A a, b \in running : a # b => Writes(a) # Writes(b)

\* In the end every build that differs from the one before it has been
\* compared with it, in its object files and in its sources.
AllCompared ==
  phase = "done" =>
    \A q \in changed : {<<"objdiff", q[2]>>, <<"srcdiff", q[2]>>} \subseteq written

Inv == TypeOK /\ InputsReady /\ NoTwoWriters /\ AllCompared
=============================================================================
