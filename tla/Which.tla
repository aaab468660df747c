-------------------------------- MODULE Which --------------------------------
(***************************************************************************)
(* which and whereis (code_test/which-bsd.c): every argument is looked for *)
(* along the path, what is found is printed, and the exit status says      *)
(* whether all, some or none were found.                                   *)
(*                                                                         *)
(* A path is a sequence of entries: a directory, the empty entry (the      *)
(* current directory), or one with which the file name does not fit        *)
(* MAXPATHLEN.  found[n][d] says that argument n is an executable regular  *)
(* file in directory d.                                                    *)
(***************************************************************************)
EXTENDS Naturals, Sequences, FiniteSetsExt

CONSTANTS Dirs, Cwd, Empty, Long,
          MaxPath,     \* bound: the entries of the path
          MaxArgs      \* bound: the names on the command line

VARIABLES allmatches,  \* option -a
          slash,       \* argument -> whether it contains a slash
          found,       \* argument -> directory -> whether it is there
          path,        \* the path, <<>> while there is none
          n, i,        \* the argument and the entry looked at
          rval,        \* of the findprog that runs
          notfound,
          printed,     \* the <<argument, directory>> pairs put out
          status       \* the exit status, Running before

vars == <<allmatches, slash, found, path, n, i, rval, notfound, printed, status>>

Places == Dirs \cup {Cwd}
Entries == Dirs \cup {Empty, Long}
Paths == UNION {[1..k -> Entries] : k \in 1..MaxPath}
Running == 3
argc == Len(slash)

TypeOK ==
  /\ allmatches \in BOOLEAN
  /\ slash \in Seq(BOOLEAN) /\ argc <= MaxArgs
  /\ found \in [1..argc -> [Places -> BOOLEAN]]
  /\ path \in Paths \cup {<<>>}
  /\ n \in 1..(argc + 1) /\ i \in 1..(Len(path) + 1)
  /\ rval \in 0..1 /\ notfound \in 0..argc
  /\ printed \subseteq (1..argc) \X Places
  /\ status \in {0, 1, 2, Running}

Init ==
  /\ allmatches \in BOOLEAN
  /\ \E k \in 0..MaxArgs :
       slash \in [1..k -> BOOLEAN] /\ found \in [1..k -> [Places -> BOOLEAN]]
  /\ path = <<>> /\ n = 1 /\ i = 1 /\ rval = 0
  /\ notfound = 0 /\ printed = {} /\ status = Running

Exit(s) == status' = s

\* usage() when there is no name; err(1) when $PATH is not set, when sysctl
\* gives no user.cs_path or when the ids cannot be set.
Refuse ==
  /\ status = Running /\ path = <<>> /\ Exit(1)
  /\ UNCHANGED <<allmatches, slash, found, path, n, i, rval, notfound, printed>>

\* The path comes from $PATH (which) or from user.cs_path (whereis).
Begin ==
  /\ status = Running /\ path = <<>> /\ argc > 0
  /\ path' \in Paths
  /\ UNCHANGED <<allmatches, slash, found, n, i, rval, notfound, printed, status>>

At(k, d) == found[k][d]
Looking == status = Running /\ path # <<>> /\ n <= argc

\* findprog returns r: the main loop counts a name that was not found.
Return(r) ==
  /\ notfound' = IF r = 0 THEN notfound + 1 ELSE notfound
  /\ n' = n + 1 /\ i' = 1 /\ rval' = 0

\* A name with a slash is not searched for, but looked up as it stands.
NoSearch ==
  /\ Looking /\ slash[n]
  /\ IF At(n, Cwd) THEN printed' = printed \cup {<<n, Cwd>>} /\ Return(1)
                   ELSE UNCHANGED printed /\ Return(0)
  /\ UNCHANGED <<allmatches, slash, found, path, status>>

Searching == Looking /\ ~slash[n]
Here == IF path[i] = Empty THEN Cwd ELSE path[i]

\* The name that does not fit the buffer ends the search of this argument.
NameTooLong ==
  /\ Searching /\ i <= Len(path) /\ path[i] = Long
  /\ Return(0)
  /\ UNCHANGED <<allmatches, slash, found, path, printed, status>>

\* err(1) when strdup() has no copy of the path to search.
NoCopy ==
  /\ Searching /\ i = 1 /\ Exit(1)
  /\ UNCHANGED <<allmatches, slash, found, path, n, i, rval, notfound, printed>>

\* Mutant: the first match ends the search with -a too.
LookOnce ==
  /\ Searching /\ i <= Len(path) /\ path[i] # Long
  /\ IF At(n, Here)
     THEN printed' = printed \cup {<<n, Here>>} /\ Return(1)
     ELSE i' = i + 1 /\ UNCHANGED <<n, rval, notfound, printed>>
  /\ UNCHANGED <<allmatches, slash, found, path, status>>

\* One entry of the path; the search goes on after a match only with -a.
Look ==
  /\ Searching /\ i <= Len(path) /\ path[i] # Long
  /\ IF At(n, Here)
     THEN /\ printed' = printed \cup {<<n, Here>>}
          /\ IF allmatches THEN rval' = 1 /\ i' = i + 1 /\ UNCHANGED <<n, notfound>>
                           ELSE Return(1)
     ELSE i' = i + 1 /\ UNCHANGED <<n, rval, notfound, printed>>
  /\ UNCHANGED <<allmatches, slash, found, path, status>>

PathEnds ==
  /\ Searching /\ i > Len(path)
  /\ Return(rval)
  /\ UNCHANGED <<allmatches, slash, found, path, printed, status>>

Finish ==
  /\ status = Running /\ path # <<>> /\ n > argc
  /\ Exit(IF notfound = 0 THEN 0 ELSE IF notfound = argc THEN 2 ELSE 1)
  /\ UNCHANGED <<allmatches, slash, found, path, n, i, rval, notfound, printed>>

Done == status # Running /\ UNCHANGED vars

Next == Refuse \/ Begin \/ NoSearch \/ NoCopy \/ NameTooLong \/ Look \/ PathEnds \/ Finish \/ Done

Spec == Init /\ [][Next]_vars

-----------------------------------------------------------------------------
(***************************************************************************)
(* Properties.                                                             *)
(***************************************************************************)
\* The command has ended, with every argument looked for.
Searched == status # Running /\ path # <<>> /\ n > argc
Found == {k \in 1..argc : \E d \in Places : <<k, d>> \in printed}
Fits == \A j \in 1..Len(path) : path[j] # Long

\* The exit status is the one the header promises (which-bsd.c 43-46): 0 if
\* every name was found, 2 if none was, 1 otherwise, where a name is found
\* when it was printed.  Where an entry is too long the search of -a may end
\* after a match, and only the first match is held to it.
ExitMeans ==
  (Searched /\ (Fits \/ ~allmatches)) =>
    /\ status = 0 <=> Found = 1..argc
    /\ status = 2 <=> Found = {}

\* The entries of the path that are looked at: those before one too long.
Reached == {j \in 1..Len(path) : \A k \in 1..j : path[k] # Long}
Place(j) == IF path[j] = Empty THEN Cwd ELSE path[j]
Matches(k) == {j \in Reached : found[k][Place(j)]}

\* What is printed for a name is its first match on the path, all of them
\* with -a, and the file itself for a name with a slash (which-bsd.c 116-164).
PrintsMatches ==
  Searched => \A k \in 1..argc :
    {d \in Places : <<k, d>> \in printed} =
      CASE slash[k] -> {d \in {Cwd} : found[k][d]}
        [] ~slash[k] /\ allmatches -> {Place(j) : j \in Matches(k)}
        [] ~slash[k] /\ ~allmatches ->
             IF Matches(k) = {} THEN {} ELSE {Place(Min(Matches(k)))}

=============================================================================
