---------------------------- MODULE TrackProcess ----------------------------
(***************************************************************************)
(* code_test/track_process.c: finds the process that runs a named program  *)
(* and follows it through the kernel's exec and exit events.  It           *)
(* subscribes to the events, then scans /proc, then handles the events;    *)
(* processes come and go meanwhile, and each event is handled by looking   *)
(* at /proc as it is by then.                                              *)
(*                                                                         *)
(* A command line is abstracted to whether it equals the name looked for.  *)
(* The events the program only prints (fork, uid, comm...) are left out.   *)
(***************************************************************************)
EXTENDS Integers, Sequences, FiniteSets

CONSTANTS MaxPid,       \* the process ids are 1..MaxPid
          NinePids,     \* the ones whose decimal form starts with a 9
          BufLen,       \* messages the socket's receive buffer holds
          MaxEvents     \* bound: what the other processes do

Pids == 1..MaxPid

ASSUME ConstantsAssumption ==
  /\ MaxPid \in Nat
  /\ NinePids \subseteq Pids
  /\ BufLen \in Nat \ {0}
  /\ MaxEvents \in Nat

VARIABLES
  proc,        \* each pid: "none", "named" or "other" (by its command line), "zombie"
  events,      \* what the other processes have done so far
  rcvbuf,      \* the socket's receive buffer
  enobufs,     \* the socket's pending error
  need_exit,   \* set by on_sigint()
  eintr,       \* recv() was interrupted by the signal
  pc,
  pos,         \* read_procs(): the pid readdir() has got to
  fd,          \* the pid whose cmdline file is open, 0 if none
  fdGone,      \* that process has been reaped since open()
  proc_pid,    \* the process tracked, 0 if none
  crowded,     \* history: two processes ran the program at once
  misled       \* history: read_procs() passed over the program, its pid being in
               \* NinePids, or check_process() matched after a read() that failed

osVars == <<proc, events, crowded>>
sockVars == <<rcvbuf, enobufs>>
sigVars == <<need_exit, eintr>>
vars == <<proc, events, rcvbuf, enobufs, need_exit, eintr, pc, pos, fd, fdGone,
          proc_pid, crowded, misled>>

Running == {"named", "other"}
Message == [what : {"exec", "exit"}, pid : Pids]
Listening == pc \notin {"start", "failed", "done"}

-----------------------------------------------------------------------------
(* The other processes, and the kernel's messages about them. *)

Send(m) ==
  IF ~Listening THEN UNCHANGED sockVars
  ELSE IF Len(rcvbuf) < BufLen THEN rcvbuf' = Append(rcvbuf, m) /\ UNCHANGED enobufs
  ELSE enobufs' = TRUE /\ UNCHANGED rcvbuf

Becomes(p, s) ==
  /\ events < MaxEvents
  /\ events' = events + 1
  /\ proc' = [proc EXCEPT ![p] = s]
  /\ crowded' = (crowded \/ Cardinality({q \in Pids : proc'[q] = "named"}) > 1)
  /\ UNCHANGED <<sigVars, pc, pos, fd, proc_pid, misled>>

\* The child has its parent's command line; no exec event says so.
Fork(p, q) ==
  /\ proc[p] \in Running
  /\ proc[q] = "none"
  /\ Becomes(q, proc[p])
  /\ UNCHANGED <<sockVars, fdGone>>

Exec(p, s) ==
  /\ proc[p] \in Running
  /\ Becomes(p, s)
  /\ Send([what |-> "exec", pid |-> p])
  /\ UNCHANGED fdGone

Exit(p) ==
  /\ proc[p] \in Running
  /\ Becomes(p, "zombie")
  /\ Send([what |-> "exit", pid |-> p])
  /\ UNCHANGED fdGone

Reap(p) ==
  /\ proc[p] = "zombie"
  /\ Becomes(p, "none")
  /\ fdGone' = (fdGone \/ fd = p)
  /\ UNCHANGED sockVars

on_sigint ==
  /\ ~need_exit
  /\ pc \notin {"failed", "done"}
  /\ need_exit' = TRUE
  /\ \/ UNCHANGED eintr
     \/ pc = "recv" /\ rcvbuf = <<>> /\ ~enobufs /\ eintr' = TRUE
  /\ UNCHANGED <<osVars, sockVars, pc, pos, fd, fdGone, proc_pid, misled>>

Environment ==
  \/ \E p, q \in Pids : Fork(p, q)
  \/ \E p \in Pids, s \in Running : Exec(p, s)
  \/ \E p \in Pids : Exit(p) \/ Reap(p)
  \/ on_sigint

-----------------------------------------------------------------------------
(* The program. *)

\* open() of /proc/pid/cmdline, for a pid that readdir() or an event named.
OpenCmdline(p) == fd' = p /\ fdGone' = FALSE

\* What strcmp() may say after read() and buf[len] = '\0': the command line is
\* the name or not, and a zombie has none.  When the process was reaped since
\* open(), read() fails and what the buffer held before is compared: in
\* read_procs() a command line that did not match, in check_process() whatever
\* an earlier call left on the stack.
Matches(stale) == IF fdGone THEN stale ELSE {proc[fd] = "named"}

CloseCmdline == fd' = 0 /\ fdGone' = FALSE

\* The socket is bound and subscribed, or one of the calls fails.
Subscribe ==
  /\ pc = "start"
  /\ pc' \in {"scan", "failed"}
  /\ UNCHANGED <<osVars, sockVars, sigVars, pos, fd, fdGone, proc_pid, misled>>

\* The next directory readdir() finds in /proc, in the order of the pids.
NextEntry(p) ==
  /\ p > pos /\ proc[p] # "none"
  /\ \A q \in Pids : q > pos /\ proc[q] # "none" => p <= q

\* The loop's test of the first digit: <= '0' || >= '9'.
ScanSkip ==
  /\ pc = "scan"
  /\ \E p \in NinePids :
       /\ NextEntry(p)
       /\ pos' = p
       /\ misled' = (misled \/ proc[p] = "named")
  /\ UNCHANGED <<osVars, sockVars, sigVars, pc, fd, fdGone, proc_pid>>

ScanOpen ==
  /\ pc = "scan"
  /\ \E p \in Pids \ NinePids : NextEntry(p) /\ pos' = p /\ OpenCmdline(p)
  /\ pc' = "scanread"
  /\ UNCHANGED <<osVars, sockVars, sigVars, proc_pid, misled>>

\* The first match ends the scan and becomes proc_pid.
ScanRead ==
  /\ pc = "scanread"
  /\ \E match \in Matches({FALSE}) :
       IF match THEN proc_pid' = fd /\ pc' = "test"
                ELSE pc' = "scan" /\ UNCHANGED proc_pid
  /\ CloseCmdline
  /\ UNCHANGED <<osVars, sockVars, sigVars, pos, misled>>

ScanEnd ==
  /\ pc = "scan"
  /\ \A p \in Pids : p > pos => proc[p] = "none"
  /\ pc' = "test"
  /\ UNCHANGED <<osVars, sockVars, sigVars, pos, fd, fdGone, proc_pid, misled>>

\* while (!need_exit); on leaving, main() unsubscribes and exits.
TestExit ==
  /\ pc = "test"
  /\ pc' = IF need_exit THEN "done" ELSE "recv"
  /\ UNCHANGED <<osVars, sockVars, sigVars, pos, fd, fdGone, proc_pid, misled>>

RecvInterrupted ==
  /\ pc = "recv"
  /\ eintr
  /\ eintr' = FALSE
  /\ pc' = "test"
  /\ UNCHANGED <<osVars, sockVars, need_exit, pos, fd, fdGone, proc_pid, misled>>

\* Every other error ends the program, ENOBUFS included.
RecvFails ==
  /\ pc = "recv"
  /\ ~eintr
  /\ enobufs
  /\ pc' = "failed"
  /\ UNCHANGED <<osVars, sockVars, sigVars, pos, fd, fdGone, proc_pid, misled>>

Recv(what) ==
  /\ pc = "recv"
  /\ ~eintr /\ ~enobufs
  /\ rcvbuf # <<>>
  /\ Head(rcvbuf).what = what
  /\ rcvbuf' = Tail(rcvbuf)
  /\ UNCHANGED <<osVars, enobufs, sigVars, pos, misled>>

\* PROC_EVENT_EXEC: check_process() up to open().
RecvExec ==
  /\ Recv("exec")
  /\ LET p == Head(rcvbuf).pid
     IN  IF proc[p] = "none" THEN pc' = "test" /\ UNCHANGED <<fd, fdGone>>
         ELSE pc' = "checkread" /\ OpenCmdline(p)
  /\ UNCHANGED proc_pid

\* Mutant: check_process() takes the first process it finds and no other.
check_process_first ==
  /\ pc = "checkread"
  /\ \E match \in Matches(BOOLEAN) :
       /\ IF match /\ proc_pid = 0 THEN proc_pid' = fd ELSE UNCHANGED proc_pid
       /\ misled' = (misled \/ (fdGone /\ match))
  /\ CloseCmdline
  /\ pc' = "test"
  /\ UNCHANGED <<osVars, sockVars, sigVars, pos>>

\* check_process() from read() on.
check_process ==
  /\ pc = "checkread"
  /\ \E match \in Matches(BOOLEAN) :
       /\ IF match THEN proc_pid' = fd ELSE UNCHANGED proc_pid
       /\ misled' = (misled \/ (fdGone /\ match))
  /\ CloseCmdline
  /\ pc' = "test"
  /\ UNCHANGED <<osVars, sockVars, sigVars, pos>>

\* Mutant: the exit of the tracked process is printed and not recorded.
RecvExitForgets ==
  /\ Recv("exit")
  /\ pc' = "test"
  /\ UNCHANGED <<fd, fdGone, proc_pid>>

\* PROC_EVENT_EXIT.
RecvExit ==
  /\ Recv("exit")
  /\ proc_pid' = IF Head(rcvbuf).pid = proc_pid THEN 0 ELSE proc_pid
  /\ pc' = "test"
  /\ UNCHANGED <<fd, fdGone>>

Program == \/ Subscribe \/ ScanSkip \/ ScanOpen \/ ScanRead \/ ScanEnd \/ TestExit
           \/ RecvInterrupted \/ RecvFails \/ RecvExec \/ check_process \/ RecvExit

-----------------------------------------------------------------------------
Init ==
  /\ proc \in [Pids -> {"none", "other", "named"}]
  /\ events = 0
  /\ rcvbuf = <<>>
  /\ enobufs = FALSE
  /\ need_exit = FALSE
  /\ eintr = FALSE
  /\ pc = "start"
  /\ pos = 0
  /\ fd = 0
  /\ fdGone = FALSE
  /\ proc_pid = 0
  /\ crowded = (Cardinality({q \in Pids : proc[q] = "named"}) > 1)
  /\ misled = FALSE

Next == Environment \/ Program

Spec == Init /\ [][Next]_vars

\* The program runs; nothing is owed to it by the other processes.
FairSpec == Spec /\ WF_vars(Program)

-----------------------------------------------------------------------------
(* Properties. *)

\* Every variable has its type; the socket holds no more than its buffer.
TypeOK ==
  /\ proc \in [Pids -> {"none", "named", "other", "zombie"}]
  /\ events \in 0..MaxEvents
  /\ rcvbuf \in Seq(Message) /\ Len(rcvbuf) <= BufLen
  /\ enobufs \in BOOLEAN
  /\ need_exit \in BOOLEAN /\ eintr \in BOOLEAN
  /\ pc \in {"start", "scan", "scanread", "test", "recv", "checkread", "failed", "done"}
  /\ pos \in 0..MaxPid
  /\ fd \in 0..MaxPid
  /\ fdGone \in BOOLEAN
  /\ proc_pid \in 0..MaxPid
  /\ crowded \in BOOLEAN /\ misled \in BOOLEAN

\* The events of a pid still to be handled.
Unhandled(what, p) ==
  \E k \in 1..Len(rcvbuf) : rcvbuf[k] = [what |-> what, pid |-> p]

\* The pid taken from /proc is that of a process that is running, or whose exit
\* is still to be handled: subscribing before the scan, and reading /proc only
\* after the event, leave no exit unseen, however short-lived the process and
\* even when read() fails and an old buffer is compared (check_process() 28-48).
TrackedRunsOrExitPending ==
  /\ Listening /\ proc_pid # 0 /\ ~enobufs =>
       proc[proc_pid] \in Running \/ Unhandled("exit", proc_pid)
  /\ pc = "checkread" /\ fdGone /\ ~enobufs => Unhandled("exit", fd)

\* What holds at every step of the tracker: the types, the bound of the socket's
\* buffer, and that no exit of the pid it holds has been missed.
Inv == TypeOK /\ TrackedRunsOrExitPending

\* Once every event is handled the program that runs is the one tracked, if it
\* was never run twice at once, the scan did not pass over its pid and no failed
\* read() made another process look like it.
SettledTracksNamed ==
  pc = "recv" /\ rcvbuf = <<>> /\ ~enobufs /\ ~crowded /\ ~misled =>
    \A p \in Pids : proc[p] = "named" => proc_pid = p

\* The end of the tracked process is noticed, unless the program ends first.
NoticesExit ==
  \A p \in Pids :
    Listening /\ proc_pid = p /\ proc[p] \notin Running
      ~> proc_pid # p \/ ~Listening \/ proc[p] \in Running
=============================================================================
