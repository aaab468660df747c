--------------------------- MODULE RenameProcess ---------------------------
(***************************************************************************)
(* code_test/set_cmdline.c: rename_process() gives the process a new name  *)
(* in four places: the kernel's comm, glibc's program_invocation_name, the *)
(* argument area the kernel shows in /proc/self/cmdline, and argv[0].      *)
(* It is called again and again, and any prctl() or mmap() may fail.       *)
(*                                                                         *)
(* A name is its length.  A string in memory is <<name, length>>, the name *)
(* it is the start of and how much of it there is.  Memory is a set of     *)
(* regions: region 0 holds the original arguments, the others are mapped.  *)
(* The kernel lets the start of the area not pass its end; which of two    *)
(* regions is the lower one is up to it, so either prctl() may be refused. *)
(***************************************************************************)
EXTENDS Integers

CONSTANTS
  Names,           \* the lengths of the names
  Argv0,           \* the length of the original argv[0]
  TASK_COMM_LEN,
  Page,
  MaxCalls         \* bound on the calls

NoRegion == -1
PAGE_ALIGN(n) == ((n + Page - 1) \div Page) * Page

VARIABLES
  comm,            \* the kernel's name of the process
  invocation,      \* program_invocation_name
  argv0,           \* saved_argv[0]
  others,          \* the other arguments: "given", or "zero"
  mm, mm_size,     \* the mapped copy of the name
  start, end,      \* the regions in which the kernel's area starts and ends
  mapped,          \* the regions that are mapped
  name,            \* the argument of the call
  truncated,
  pc,              \* "idle", "invocation", "cmdline", "argv"
  calls,
  refused,         \* history: PR_SET_MM_ARG_END failed after ARG_START had succeeded
  result           \* what the last call returned

vars == <<comm, invocation, argv0, others, mm, mm_size, start, end, mapped, name, truncated, pc,
          calls, refused, result>>

\* strncpy() over a string of length k, which it never makes longer.
Copied(k) == <<name, IF name < k THEN name ELSE k>>
Whole(s) == s = <<name, name>>

\* The name is not empty, and this is the main thread.  prctl(PR_SET_NAME).
Call ==
  /\ pc = "idle" /\ calls < MaxCalls
  /\ calls' = calls + 1
  /\ name' \in Names
  /\ truncated' = (name' >= TASK_COMM_LEN)
  /\ \/ comm' = <<name', IF name' < TASK_COMM_LEN THEN name' ELSE TASK_COMM_LEN - 1>>
     \/ UNCHANGED comm
  /\ pc' = "invocation"
  /\ UNCHANGED <<invocation, argv0, others, mm, mm_size, start, end, mapped, refused, result>>

SetInvocation ==
  /\ pc = "invocation"
  /\ invocation' = Copied(invocation[2])
  /\ truncated' = (truncated \/ name > invocation[2])
  /\ pc' = "cmdline"
  /\ UNCHANGED <<comm, argv0, others, mm, mm_size, start, end, mapped, name, calls, refused, result>>

-----------------------------------------------------------------------------
(* The third step, of which every outcome leads to the fourth. *)

ToArgv == pc' = "argv" /\ UNCHANGED <<comm, invocation, argv0, others, name, truncated, calls, result>>

\* geteuid() is not 0, or mmap() fails, or both ways to set the start are
\* refused before anything has changed.
KeepArea ==
  /\ pc = "cmdline"
  /\ ToArgv
  /\ UNCHANGED <<mm, mm_size, start, end, mapped, refused>>

\* The copy is large enough, and is overwritten; the end may not be moved.
Overwrite ==
  /\ pc = "cmdline" /\ mm_size >= name + 1
  /\ end' \in {end, mm}
  /\ ToArgv
  /\ UNCHANGED <<mm, mm_size, start, mapped, refused>>

New == CHOOSE r \in 1..(MaxCalls + 1) : r \notin mapped

Replace(unmapped) ==
  /\ mm' = New
  /\ mm_size' = PAGE_ALIGN(name + 1)
  /\ mapped' = (mapped \cup {New}) \ unmapped

\* ARG_START is set, and ARG_END after it; the second may fail.
Remap ==
  /\ pc = "cmdline" /\ mm_size < name + 1
  /\ start' = New
  /\ end' \in {end, New}
  /\ refused' = (refused \/ end' # New)
  /\ Replace({mm})
  /\ ToArgv

\* ARG_START is refused, ARG_END is set, and ARG_START tried again: when that
\* fails too the new region stays mapped and is not the copy.
RemapByEnd ==
  /\ pc = "cmdline" /\ mm_size < name + 1
  /\ end' = New
  /\ \/ start' = New /\ Replace({mm})
     \/ UNCHANGED <<start, mm, mm_size>> /\ mapped' = mapped \cup {New}
  /\ UNCHANGED refused
  /\ ToArgv

-----------------------------------------------------------------------------
\* The fourth step, and the return.
SetArgv ==
  /\ pc = "argv"
  /\ argv0' = Copied(argv0[2])
  /\ others' = "zero"
  /\ truncated' = (truncated \/ name > argv0[2])
  /\ result' = IF truncated' THEN 0 ELSE 1
  /\ pc' = "idle"
  /\ UNCHANGED <<comm, invocation, mm, mm_size, start, end, mapped, name, calls, refused>>

Init ==
  /\ comm = <<Argv0, IF Argv0 < TASK_COMM_LEN THEN Argv0 ELSE TASK_COMM_LEN - 1>>
  /\ invocation = <<Argv0, Argv0>> /\ argv0 = <<Argv0, Argv0>> /\ others = "given"
  /\ mm = NoRegion /\ mm_size = 0
  /\ start = 0 /\ end = 0 /\ mapped = {0}
  /\ name = Argv0 /\ truncated = FALSE
  /\ pc = "idle" /\ calls = 0 /\ refused = FALSE /\ result = -1

Next == Call \/ SetInvocation \/ KeepArea \/ Overwrite \/ Remap \/ RemapByEnd \/ SetArgv

Spec == Init /\ [][Next]_vars

-----------------------------------------------------------------------------
TypeOK ==
  /\ mm \in {NoRegion} \cup mapped /\ (mm = NoRegion) = (mm_size = 0)
  /\ mm_size % Page = 0
  /\ pc \in {"idle", "invocation", "cmdline", "argv"}
  /\ result \in -1..1

\* A result above 0 means that glibc's name and argv[0] hold the whole name,
\* and 0 that one of the three places could not: also after a shorter name,
\* which leaves less room for every name that follows.
ResultIsTrue ==
  pc = "idle" =>
    /\ result = 1 => Whole(invocation) /\ Whole(argv0) /\ name < TASK_COMM_LEN
    /\ result = 0 => ~Whole(invocation) \/ ~Whole(argv0) \/ name >= TASK_COMM_LEN

\* Whatever fails, the area the kernel shows starts in memory that is mapped,
\* and ends in such memory unless its end could not be moved after its start.
AreaIsMapped ==
  /\ start \in mapped
  /\ ~refused => end \in mapped

Inv == TypeOK /\ ResultIsTrue /\ AreaIsMapped
=============================================================================
