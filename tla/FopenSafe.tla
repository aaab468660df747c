----------------------------- MODULE FopenSafe -----------------------------
(***************************************************************************)
(* code_test/fopen_safe.c: opens a file for root to write a line to, while *)
(* a user replaces what the name stands for, opens the file, and changes   *)
(* the permissions of files that are the user's.  One step is one system   *)
(* call.                                                                   *)
(***************************************************************************)
EXTENDS FiniteSets

CONSTANT Files

VARIABLES
  mode,        \* "r", "r+", "w" (also "w+"), "a" (also "a+") or "bad"
  path,        \* what the name stands for: a file, or NoFile
  link,        \* through a symbolic link
  owner, open, \* of each file: "root" or "user"; whether all may open it
  text,        \* of each file: "", "old", and with the "line" written
  held,        \* the files the user has open
  pc, fd,
  late         \* history: the user opened the file after it was made root's alone

vars == <<mode, path, link, owner, open, text, held, pc, fd, late>>

NoFile == "no file"

TypeOK ==
  /\ path \in Files \cup {NoFile} /\ fd \in Files \cup {NoFile}
  /\ owner \in [Files -> {"root", "user"}] /\ open \in [Files -> BOOLEAN]
  /\ text \in [Files -> {"", "old", "line", "old line"}] /\ held \subseteq Files
  /\ pc \in {"open", "fchown", "fchmod", "fdopen", "write", "done", "failed"}

Init ==
  /\ mode \in {"r", "r+", "w", "a", "bad"} /\ path \in Files \cup {NoFile} /\ link \in BOOLEAN
  /\ owner \in [Files -> {"root", "user"}] /\ open = [f \in Files |-> TRUE]
  /\ text = [f \in Files |-> IF f = path THEN "old" ELSE ""] /\ held = {}
  /\ pc = "open" /\ fd = NoFile /\ late = FALSE

Protected(f) == owner[f] = "root" /\ ~open[f]

World == <<mode, path, link, held, late>>

\* fopen(), through a link too, for what starts with r; O_NOFOLLOW, O_CREAT, and
\* O_TRUNC or O_APPEND otherwise.  What "r" opened takes no line.
fopen_safe ==
  /\ pc = "open"
  /\ \/ mode = "bad" /\ pc' = "failed" /\ UNCHANGED <<fd, text>>
     \/ /\ mode \in {"r", "r+"} /\ path # NoFile
        /\ fd' = path /\ pc' = (IF mode = "r" THEN "done" ELSE "write") /\ UNCHANGED text
     \/ mode # "bad" /\ pc' = "failed" /\ UNCHANGED <<fd, text>>
     \/ /\ mode \in {"w", "a"} /\ ~link /\ path # NoFile
        /\ fd' = path /\ pc' = "fchown"
        /\ text' = IF mode = "w" THEN [text EXCEPT ![path] = ""] ELSE text
  /\ UNCHANGED <<World, owner, open>>

\* O_CREAT: the name stands for a new file from now on.
Create(f) ==
  /\ pc = "open" /\ mode \in {"w", "a"} /\ path = NoFile /\ ~link
  /\ text[f] = "" /\ f \notin held
  /\ path' = f /\ fd' = f /\ pc' = "fchown"
  /\ owner' = [owner EXCEPT ![f] = "root"] /\ open' = [open EXCEPT ![f] = TRUE]
  /\ UNCHANGED <<mode, link, text, held, late>>

\* Mutant: the file is left to whom it belongs.
FchownNot ==
  /\ pc = "fchown" /\ pc' = "fchmod"
  /\ UNCHANGED <<World, owner, open, text, fd>>

\* fchown(), fchmod() and fdopen(): each may fail, and the file is then closed.
Fchown ==
  /\ pc = "fchown"
  /\ \/ owner' = [owner EXCEPT ![fd] = "root"] /\ pc' = "fchmod"
     \/ pc' = "failed" /\ UNCHANGED owner
  /\ UNCHANGED <<World, open, text, fd>>

Fchmod ==
  /\ pc = "fchmod"
  /\ \/ open' = [open EXCEPT ![fd] = FALSE] /\ pc' = "fdopen"
     \/ pc' = "failed" /\ UNCHANGED open
  /\ UNCHANGED <<World, owner, text, fd>>

Fdopen ==
  /\ pc = "fdopen" /\ pc' \in {"write", "failed"}
  /\ UNCHANGED <<World, owner, open, text, fd>>

\* fputs(); fclose().  With "r+" the line goes over the start of the old text,
\* of which something may be left.
main ==
  /\ pc = "write" /\ pc' = "done"
  /\ \E t \in {"line", "old line"} :
       /\ text[fd] = "" => t = "line"
       /\ text[fd] # "" /\ mode # "r+" => t = "old line"
       /\ text' = [text EXCEPT ![fd] = t]
  /\ UNCHANGED <<World, owner, open, fd>>

Program ==
  fopen_safe \/ (\E f \in Files : Create(f)) \/ Fchown \/ Fchmod \/ Fdopen \/ main

\* The user.
Replace ==
  /\ path' \in Files \cup {NoFile} /\ link' \in BOOLEAN /\ <<path, link>>' # <<path, link>>
  /\ UNCHANGED <<mode, owner, open, text, held, pc, fd, late>>

Opens(f) ==
  /\ owner[f] = "user" \/ open[f]
  /\ f \notin held /\ held' = held \cup {f}
  /\ late' = (late \/ (f = fd /\ pc \in {"fdopen", "write", "done"} /\ mode \in {"w", "a"}))
  /\ UNCHANGED <<mode, path, link, owner, open, text, pc, fd>>

Chmod(f) ==
  /\ owner[f] = "user" /\ open' = [open EXCEPT ![f] = ~@]
  /\ UNCHANGED <<mode, path, link, owner, text, held, pc, fd, late>>

Next == Program \/ Replace \/ \E f \in Files : Opens(f) \/ Chmod(f)

-----------------------------------------------------------------------------
\* In the modes that fopen_safe() takes care of, the line goes to a file that is
\* root's alone by then, and stays so, whatever the user does in between; who
\* reads it had the file open before: the question of the comment above main()
\* (fopen_safe.c 26-62, 64).  "r+" is left to fopen() (16-17), and its line may
\* go to any file.
Inv ==
  /\ TypeOK
  /\ \A f \in Files : text[f] \in {"line", "old line"} =>
       f = fd /\ (mode \in {"w", "a"} => Protected(f))
  /\ ~late
=============================================================================
