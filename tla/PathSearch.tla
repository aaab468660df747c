----------------------------- MODULE PathSearch -----------------------------
(***************************************************************************)
(* The two searches of $PATH kept in code_test: __execvpe (execvpe.c, the  *)
(* GNU C library's) and find_path (find_path.c), which was made from it    *)
(* and stats each candidate instead of executing it.                       *)
(*                                                                         *)
(* A path is a sequence of entries: a directory, the empty entry (between  *)
(* two colons, the current directory) or an entry of PATH_MAX characters   *)
(* or more.  file[d] says what the name that is looked for is in directory *)
(* d, as far as execve and stat tell it apart: a program; a script without *)
(* #!; denied, a file the caller may not execute, or a directory; busy, a  *)
(* program that cannot be started, for lack of memory or whatever reason;  *)
(* closed, when d may not be searched; near, when d fits the buffer and    *)
(* with the name makes a path of PATH_MAX or more; notdir, when d is no    *)
(* directory, or its server does not answer; absent.  One step is one      *)
(* iteration of the loop, and p is the entry it is at; colon says that p   *)
(* still points at the colon that ends the entry before.                   *)
(***************************************************************************)
EXTENDS Naturals, Sequences, FiniteSetsExt

CONSTANTS Dirs,        \* the directories a path can name
          Cwd,         \* the current directory
          Empty, Long, \* the empty entry; one of PATH_MAX characters or more
          MaxPath      \* bound: the entries of a path

ASSUME PathAssumption ==
  /\ Cwd \notin Dirs /\ Empty \notin Dirs /\ Long \notin Dirs
  /\ Cwd # Empty /\ Empty # Long /\ Cwd # Long
  /\ MaxPath \in Nat \ {0}

VARIABLES search,      \* which of the two functions runs
          name,        \* the kind of name it is given
          path,        \* the path it walks
          file,        \* directory -> what the name is there
          bshell,      \* what execve of _PATH_BSHELL does: "runs", or its error
          p, colon,    \* the entry the loop is at
          got_eacces,
          errno,       \* of the last __execve the search went on after, or "before"
          outcome      \* what the function did

vars == <<search, name, path, file, bshell, p, colon, got_eacces, errno, outcome>>

Places == Dirs \cup {Cwd}
Entries == Dirs \cup {Empty, Long}
Kinds == {"program", "script", "denied", "busy", "closed", "near", "notdir", "absent"}
Names == {"empty", "slash", "long", "plain"}

Running == [did : {"runs", "shell", "resolves"}, where : Places]
Errors == {"ENOENT", "ENOTDIR", "EACCES", "ETXTBSY", "ENAMETOOLONG"}
Failing == [did : {"fails"}, why : Errors \cup {"before", "-1"}]
Undecided == [did |-> "searching"]

TypeOK ==
  /\ search \in {"execvpe", "find_path"} /\ name \in Names
  /\ path \in Seq(Entries) /\ path # <<>>
  /\ file \in [Places -> Kinds] /\ bshell \in Errors \cup {"runs"}
  /\ p \in 0..Len(path) /\ colon \in BOOLEAN /\ got_eacces \in BOOLEAN
  /\ errno \in Errors \cup {"before"}
  /\ outcome \in Running \cup Failing \cup {Undecided}

(***************************************************************************)
(* A call with any name, any file system and any path of up to MaxPath     *)
(* entries: $PATH, or confstr's where it is not set; "" is the path of one *)
(* empty entry.  Where the path or the shell is not looked at, one value   *)
(* is enough.                                                              *)
(***************************************************************************)
Init ==
  /\ search \in {"execvpe", "find_path"} /\ name \in Names
  /\ path \in UNION {[1..n -> Entries] : n \in 1..MaxPath}
  /\ name # "plain" => path = <<Empty>>
  /\ file \in [Places -> Kinds] /\ bshell \in {"runs", "ENOENT", "EACCES", "ETXTBSY"}
  /\ search = "find_path" => bshell = "runs"
  /\ p = 0 /\ colon = FALSE /\ got_eacces = FALSE
  /\ errno = "before" /\ outcome = Undecided

Ends(o) == outcome' = o
Fails(e) == Ends([did |-> "fails", why |-> e])

\* A file execve finds no program in is handed to the shell, which may fail.
maybe_script_execute(d) ==
  IF bshell = "runs" THEN [did |-> "shell", where |-> d] ELSE [did |-> "fails", why |-> bshell]

\* What execve of the name in d, and the shell's after ENOEXEC, gives.  ENOTDIR
\* stands for ESTALE, ENODEV and ETIMEDOUT too, and ETXTBSY for the errors that
\* the switch does not name.
Execve(d) ==
  CASE file[d] = "program" -> [did |-> "runs", where |-> d]
    [] file[d] = "script" -> maybe_script_execute(d)
    [] file[d] \in {"denied", "closed"} -> [did |-> "fails", why |-> "EACCES"]
    [] file[d] = "busy" -> [did |-> "fails", why |-> "ETXTBSY"]
    [] file[d] = "near" -> [did |-> "fails", why |-> "ENAMETOOLONG"]
    [] file[d] = "notdir" -> [did |-> "fails", why |-> "ENOTDIR"]
    [] file[d] = "absent" -> [did |-> "fails", why |-> "ENOENT"]

\* The switch: an execve that returns ends the search unless its error is one of
\* those of a file that is missing or not executable.
Decides(d) == Execve(d).did = "fails" => Execve(d).why \notin {"EACCES", "ENOENT", "ENOTDIR"}

\* Whether stat of the name in d succeeds.
There(d) == file[d] \in {"program", "script", "denied", "busy"}

\* The cases decided before the search: no name, one with a slash (looked up
\* from the current directory), one too long for a directory entry.
BeginExecvpe ==
  /\ search = "execvpe" /\ p = 0 /\ outcome = Undecided
  /\ CASE name = "empty" -> Fails("ENOENT") /\ UNCHANGED p
       [] name = "slash" -> Ends(Execve(Cwd)) /\ UNCHANGED p
       [] name = "long" -> Fails("ENAMETOOLONG") /\ UNCHANGED p
       [] name = "plain" -> p' = 1 /\ UNCHANGED outcome
  /\ UNCHANGED <<search, name, path, file, bshell, colon, got_eacces, errno>>

\* find_path gives a name with a slash back without looking at the file.
BeginFindPath ==
  /\ search = "find_path" /\ p = 0 /\ outcome = Undecided
  /\ CASE name = "empty" -> Fails("ENOENT") /\ UNCHANGED p
       [] name = "slash" -> Ends([did |-> "resolves", where |-> Cwd]) /\ UNCHANGED p
       [] name = "long" -> Fails("ENAMETOOLONG") /\ UNCHANGED p
       [] name = "plain" -> p' = 1 /\ UNCHANGED outcome
  /\ UNCHANGED <<search, name, path, file, bshell, colon, got_eacces, errno>>

Looking(s) == search = s /\ p > 0 /\ outcome = Undecided

\* The directory of the entry at p: nothing lies between p and the colon it
\* points at when the entry before was passed over.
Here == IF colon \/ path[p] = Empty THEN Cwd ELSE path[p]
TooLong == ~colon /\ path[p] = Long
Last == p = Len(path)
Advance == p' = p + 1 /\ colon' = FALSE

\* Mutant: the access that was denied is forgotten.
GivesUpMissing(denied, err) == Fails(IF search = "execvpe" THEN err ELSE "ENOENT")

\* The end of the path: execvpe leaves the last errno unless access was denied.
GivesUp(denied, err) ==
  Fails(IF denied THEN "EACCES" ELSE IF search = "execvpe" THEN err ELSE "ENOENT")

\* Mutant: the search ends at such an entry wherever it is.
PassOverEnds ==
  /\ outcome = Undecided /\ p > 0 /\ TooLong
  /\ GivesUp(got_eacces, errno)
  /\ UNCHANGED <<search, name, path, file, bshell, p, colon, got_eacces, errno>>

\* An entry that may not fit the buffer: the search stops there if it is the
\* last one, and otherwise goes on with p at the colon that ends it.
PassOver ==
  /\ outcome = Undecided /\ p > 0 /\ TooLong
  /\ IF Last THEN GivesUp(got_eacces, errno) /\ UNCHANGED colon
             ELSE colon' = TRUE /\ UNCHANGED outcome
  /\ UNCHANGED <<search, name, path, file, bshell, p, got_eacces, errno>>

\* An entry that cannot be used: try the next one, or report after the last.
TryNext(denied, err) ==
  /\ got_eacces' = denied /\ errno' = err
  /\ IF Last THEN GivesUp(denied, err) /\ UNCHANGED <<p, colon>>
             ELSE Advance /\ UNCHANGED outcome

TryExecve ==
  /\ Looking("execvpe") /\ ~TooLong
  /\ \/ /\ Decides(Here) /\ Ends(Execve(Here))
        /\ UNCHANGED <<p, colon, got_eacces, errno>>
     \/ /\ ~Decides(Here)
        /\ TryNext(got_eacces \/ Execve(Here).why = "EACCES", Execve(Here).why)
  /\ UNCHANGED <<search, name, path, file, bshell>>

\* Mutant: the result of stat is not looked at.
TryStatBlind ==
  /\ Looking("find_path") /\ ~TooLong
  /\ Ends([did |-> "resolves", where |-> Here])
  /\ UNCHANGED <<search, name, path, file, bshell, p, colon, got_eacces, errno>>

(***************************************************************************)
(* A stat that succeeds is taken as the answer.  When it fails, the mode   *)
(* that is then examined was never written: it may look like that of a     *)
(* directory or of a file that is not executable (EACCES), or like that of *)
(* a program, and then stat's -1 is an error the search stops at.          *)
(***************************************************************************)
TryStat ==
  /\ Looking("find_path") /\ ~TooLong
  /\ \/ /\ There(Here)
        /\ Ends([did |-> "resolves", where |-> Here])
        /\ UNCHANGED <<p, colon, got_eacces, errno>>
     \/ /\ ~There(Here)
        /\ Fails("-1")
        /\ UNCHANGED <<p, colon, got_eacces, errno>>
     \/ /\ ~There(Here)
        /\ TryNext(TRUE, errno)
  /\ UNCHANGED <<search, name, path, file, bshell>>

Done == outcome # Undecided /\ UNCHANGED vars

Next == BeginExecvpe \/ BeginFindPath \/ PassOver \/ TryExecve \/ TryStat \/ Done

Spec == Init /\ [][Next]_vars

-----------------------------------------------------------------------------
(***************************************************************************)
(* Properties.                                                             *)
(***************************************************************************)
Searched == name = "plain" /\ outcome # Undecided
NoneTooLong == \A i \in 1..Len(path) : path[i] # Long

Place(i) == IF path[i] = Empty THEN Cwd ELSE path[i]

\* The entries at which execvpe has its answer, and those where it is denied.
Decisive == {i \in 1..Len(path) : Decides(Place(i))}
Denied == {i \in 1..Len(path) : Execve(Place(i)) = [did |-> "fails", why |-> "EACCES"]}

\* What execvpe promises when every entry fits: it executes the first file on
\* the path that can be executed, through the shell if it is a script; a
\* program that cannot be started, or a path too long for the kernel, ends the
\* search with its error; when there is neither, EACCES is reported if a file
\* was found and denied, and otherwise what the last entry gave (execvpe.c
\* 107-174, the comments at 140-142 and 169-171).
RunsFirst ==
  (search = "execvpe" /\ Searched /\ NoneTooLong) =>
    outcome = IF Decisive # {} THEN Execve(Place(Min(Decisive)))
              ELSE IF Denied # {} THEN [did |-> "fails", why |-> "EACCES"]
              ELSE Execve(Place(Len(path)))

\* An entry of PATH_MAX or more costs the search nothing but itself: if some
\* entry that fits has an answer, execvpe gives that one, one of an entry before
\* it, or one of the current directory, and never reports that there is none
\* (execvpe.c 111-120).  An entry just under PATH_MAX is no such entry: the path
\* it makes is the kernel's to refuse, and ENAMETOOLONG is its answer (157-161).
LongCostsNothing ==
  (search = "execvpe" /\ Searched) =>
    \A i \in 1..Len(path) :
      path[i] # Long /\ Decides(Place(i)) =>
        \E d \in {Cwd} \cup {Place(j) : j \in {k \in 1..i : path[k] # Long}} :
          Decides(d) /\ outcome = Execve(d)

\* Where no file of the name is one that cannot be executed, a name find_path
\* resolves is there, in a directory that comes before any other on the path
\* that has one, and an absent file is never the answer (find_path.c 87-126).
\* Of one that cannot be executed the comment at 139-141 says that it is passed
\* over and the test at 112 that it is the answer, and nothing is claimed.
ResolvesFirst ==
  (search = "find_path" /\ Searched /\ NoneTooLong /\ outcome.did = "resolves"
     /\ \A d \in Places : file[d] # "denied") =>
    /\ There(outcome.where)
    /\ \E i \in 1..Len(path) :
         Place(i) = outcome.where /\ \A j \in 1..(i - 1) : ~There(Place(j))
=============================================================================
