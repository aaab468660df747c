------------------------------ MODULE RunProc ------------------------------
(***************************************************************************)
(* run_proc: processes for keepalived to track.  The one a tester starts   *)
(* starts the others, by the same script without its options but with what *)
(* follows them, and all are to sleep for the same time; /tmp/run_proc.slp *)
(* carries that time.  The process that makes the file removes it when it  *)
(* ends.                                                                   *)
(*                                                                         *)
(* Testers start several at once, and kill them.  A sleep takes any time;  *)
(* `sleep` with no operand fails at once.                                  *)
(***************************************************************************)
EXTENDS Integers

CONSTANTS
  Roots,      \* the processes testers start
  Times       \* the values of -s

Kid(r) == <<"kid", r>>
Kids == {Kid(r) : r \in Roots}
Procs == Roots \cup Kids
Default == 10
NoTime == 0        \* an empty SLEEP_TIME, or an empty file
NoFile == -1

VARIABLES
  file,       \* SLEEP_FILE
  at,         \* the next step of each process
  time,       \* SLEEP_TIME
  rm,         \* the processes with RM_SLEEP_FILE set
  rest,       \* the testers' processes with a -s t behind a --, left in $*
  before,     \* history: the file was there at first
  late,       \* history: the processes begun after the one that started them ended
  killed      \* history: a process was killed

vars == <<file, at, time, rm, rest, before, late, killed>>

To(p, step) == at' = [at EXCEPT ![p] = step]

\* [[ -f $SLEEP_FILE ]]
Test(p) ==
  /\ at[p] = "test"
  /\ To(p, IF file # NoFile THEN "cat" ELSE "opts")
  /\ late' = IF p \in Kids /\ \E r \in Roots : p = Kid(r) /\ at[r] = "done"
             THEN late \cup {p} ELSE late
  /\ UNCHANGED <<file, time, rm, rest, before, killed>>

\* SLEEP_TIME=$(cat $SLEEP_FILE), of a file that may be gone by now.
Cat(p) ==
  /\ at[p] = "cat"
  /\ time' = [time EXCEPT ![p] = IF file = NoFile THEN NoTime ELSE file]
  /\ late' = IF p \in Kids /\ \E r \in Roots : p = Kid(r) /\ at[r] = "done"
             THEN late \cup {p} ELSE late
  /\ To(p, "opts")
  /\ UNCHANGED <<file, rm, rest, before, killed>>

\* The options: -s t, or none; the processes that the script starts have what
\* their starter had behind its own.  -h and an unknown option end the process.
Opts(p) ==
  /\ at[p] = "opts"
  /\ \/ To(p, "check")
        /\ \/ (\A r \in rest : p # Kid(r)) /\ UNCHANGED time
           \/ /\ p \in Roots \/ \E r \in rest : p = Kid(r)
              /\ \E t \in Times : time' = [time EXCEPT ![p] = t]
        /\ rest' \in {rest, rest \cup ({p} \cap Roots)}
     \/ p \in Roots /\ To(p, "done") /\ UNCHANGED <<time, rest>>
  /\ UNCHANGED <<file, rm, before, late, killed>>

\* [[ ! -f $SLEEP_FILE ]] && echo $SLEEP_TIME >$SLEEP_FILE && RM_SLEEP_FILE=1
Check(p) ==
  /\ at[p] = "check"
  /\ To(p, IF file = NoFile THEN "truncate" ELSE "start")
  /\ UNCHANGED <<file, time, rm, rest, before, late, killed>>

Truncate(p) ==
  /\ at[p] = "truncate"
  /\ file' = NoTime
  /\ To(p, "write")
  /\ UNCHANGED <<time, rm, rest, before, late, killed>>

\* What is written to a file removed since it was opened is lost.
Write(p) ==
  /\ at[p] \in {"write", "lost"}
  /\ file' = IF at[p] = "write" THEN time[p] ELSE file
  /\ rm' = rm \cup {p}
  /\ To(p, "start")
  /\ UNCHANGED <<time, rest, before, late, killed>>

\* for p in $(seq 2 $NUM_PROC); do $0 $* & done
Start(p) ==
  /\ at[p] = "start"
  /\ \/ To(p, "sleep")
     \/ p \in Roots /\ at' = [at EXCEPT ![p] = "sleep", ![Kid(p)] = "test"]
  /\ UNCHANGED <<file, time, rm, rest, before, late, killed>>

\* The sleep is over: the maker removes the file.
End(p) ==
  /\ at[p] = "sleep"
  /\ file' = IF p \in rm THEN NoFile ELSE file
  /\ at' = [q \in Procs |-> IF q = p THEN "done"
                            ELSE IF p \in rm /\ at[q] = "write" THEN "lost" ELSE at[q]]
  /\ UNCHANGED <<time, rm, rest, before, late, killed>>

Kill(p) ==
  /\ at[p] = "sleep"
  /\ To(p, "done")
  /\ killed' = TRUE
  /\ UNCHANGED <<file, time, rm, rest, before, late>>

Init ==
  /\ file \in {NoFile, Default}
  /\ at = [p \in Procs |-> IF p \in Kids THEN "none" ELSE "test"]
  /\ time = [p \in Procs |-> Default]
  /\ rm = {} /\ rest = {} /\ late = {}
  /\ before = (file # NoFile)
  /\ killed = FALSE

Next ==
  \E p \in Procs : \/ Test(p) \/ Cat(p) \/ Opts(p) \/ Check(p) \/ Truncate(p)
                   \/ Write(p) \/ Start(p) \/ End(p) \/ Kill(p)

Spec == Init /\ [][Next]_vars

-----------------------------------------------------------------------------
TypeOK ==
  /\ file \in {NoFile, NoTime, Default} \cup Times
  /\ time \in [Procs -> {NoTime, Default} \cup Times]
  /\ rm \subseteq Procs /\ rest \subseteq Roots /\ late \subseteq Kids

\* However the processes overlap, once all have ended and none was killed the
\* file is there if it was there at first, and gone if it was not: processes
\* that both found no file both remove it, and none removes a tester's own.
FileAsBefore ==
  ~killed /\ (\A p \in Procs : at[p] \in {"none", "done"}) => (file # NoFile) = before

\* With one tester, no file at first and nothing killed, a process that looks
\* for the file before the one that started it has ended, and is given no time
\* of its own, sleeps as long.
SleepsAsTold ==
  \A r \in Roots :
    /\ ~before /\ Kid(r) \notin late /\ r \notin rest
    /\ \A q \in Roots \ {r} : at[q] = "test"
    /\ at[Kid(r)] \in {"check", "start", "sleep"}
    => time[Kid(r)] = time[r]

Inv == TypeOK /\ FileAsBefore /\ SleepsAsTold
=============================================================================
