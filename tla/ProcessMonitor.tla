--------------------------- MODULE ProcessMonitor ---------------------------
(***************************************************************************)
(* code_test/process_monitor.c: reads the kernel's process events from a   *)
(* netlink connector socket and reports the messages missed on each CPU    *)
(* from the gaps in their sequence numbers.                                *)
(*                                                                         *)
(* The kernel numbers the messages of each CPU; the model keeps the true   *)
(* number n and the program only ever sees n % SeqRange (uint32_t).  A     *)
(* message that finds the socket's buffer full is dropped and leaves       *)
(* ENOBUFS for the next recv(), ahead of the messages still in the buffer. *)
(***************************************************************************)
EXTENDS Integers, Sequences

CONSTANTS CPUs,
          SeqRange,    \* the sequence numbers' range, 2^32 in the code
          BufLen,      \* messages the socket's receive buffer holds
          MaxSent      \* bound: messages the kernel sends

ASSUME ConstantsAssumption ==
  /\ SeqRange \in Nat \ {0}
  /\ BufLen \in Nat \ {0}
  /\ MaxSent \in Nat

VARIABLES
  nextN,       \* kernel: the number of the next message of each CPU
  sent,        \* kernel: messages sent so far
  rcvbuf,      \* the socket's receive buffer
  enobufs,     \* the socket's pending error
  listening,   \* whether the kernel has us subscribed
  need_exit,   \* set by on_sigint()
  eintr,       \* recv() was interrupted by the signal
  pc,
  cpu_seq,     \* struct seq of each CPU
  lastN,       \* history: the number of the last message handled, -1 if none
  reported     \* history: the sum of the Missed counts printed for each CPU

kernelVars == <<nextN, sent, rcvbuf, enobufs, listening>>
vars == <<nextN, sent, rcvbuf, enobufs, listening,
          need_exit, eintr, pc, cpu_seq, lastN, reported>>

\* The kernel answers the subscription with a message that names no CPU.
Ack == [what |-> "none"]
Message == [what : {"event"}, cpu : CPUs, n : Nat] \cup {Ack}
SeqOf(m) == m.n % SeqRange

-----------------------------------------------------------------------------
(* The kernel. *)

\* A process forks, execs, exits... on CPU c.
Send(c) ==
  /\ listening
  /\ sent < MaxSent
  /\ sent' = sent + 1
  /\ nextN' = [nextN EXCEPT ![c] = @ + 1]
  /\ IF Len(rcvbuf) < BufLen
     THEN /\ rcvbuf' = Append(rcvbuf, [what |-> "event", cpu |-> c, n |-> nextN[c]])
          /\ UNCHANGED enobufs
     ELSE enobufs' = TRUE /\ UNCHANGED rcvbuf
  /\ UNCHANGED <<listening, need_exit, eintr, pc, cpu_seq, lastN, reported>>

\* SIGINT, at any point; one that finds the program blocked interrupts recv().
on_sigint ==
  /\ ~need_exit
  /\ pc \in {"test", "recv"}
  /\ need_exit' = TRUE
  /\ \/ UNCHANGED eintr
     \/ pc = "recv" /\ rcvbuf = <<>> /\ ~enobufs /\ eintr' = TRUE
  /\ UNCHANGED <<kernelVars, pc, cpu_seq, lastN, reported>>

-----------------------------------------------------------------------------
(* The program. *)

\* main() to handle_proc_ev(): the socket is bound, the kernel subscribes it
\* and acknowledges.  Of each struct seq only initialised is set.
Subscribe ==
  /\ pc = "start"
  /\ listening' = TRUE
  /\ rcvbuf' = <<Ack>>
  /\ pc' = "test"
  /\ UNCHANGED <<nextN, sent, enobufs, need_exit, eintr, cpu_seq, lastN, reported>>

\* socket(), bind() or send() fails, and the program ends.
SubscribeFails ==
  /\ pc = "start"
  /\ pc' = "failed"
  /\ UNCHANGED <<kernelVars, need_exit, eintr, cpu_seq, lastN, reported>>

\* Mutant: need_exit is read once, as if it were not volatile.
TestExitCached ==
  /\ pc = "test"
  /\ pc' = "recv"
  /\ UNCHANGED <<kernelVars, need_exit, eintr, cpu_seq, lastN, reported>>

\* while (!need_exit), and on leaving the unsubscription and exit.
TestExit ==
  /\ pc = "test"
  /\ pc' = IF need_exit THEN "done" ELSE "recv"
  /\ listening' = ~need_exit
  /\ UNCHANGED <<nextN, sent, rcvbuf, enobufs, need_exit, eintr, cpu_seq, lastN,
                 reported>>

RecvInterrupted ==
  /\ pc = "recv"
  /\ eintr
  /\ eintr' = FALSE
  /\ pc' = "test"
  /\ UNCHANGED <<kernelVars, need_exit, cpu_seq, lastN, reported>>

RecvNoBufs ==
  /\ pc = "recv"
  /\ ~eintr
  /\ enobufs
  /\ enobufs' = FALSE
  /\ cpu_seq' = [c \in CPUs |-> [cpu_seq[c] EXCEPT !.no_bufs = TRUE]]
  /\ pc' = "test"
  /\ UNCHANGED <<nextN, sent, rcvbuf, listening, need_exit, eintr, lastN, reported>>

\* Any other error: handle_proc_ev() fails and main() closes the socket
\* without unsubscribing.
RecvFails ==
  /\ pc = "recv"
  /\ pc' = "failed"
  /\ UNCHANGED <<kernelVars, need_exit, eintr, cpu_seq, lastN, reported>>

RecvMessage ==
  /\ pc = "recv"
  /\ ~eintr
  /\ ~enobufs
  /\ rcvbuf # <<>>
  /\ rcvbuf' = Tail(rcvbuf)
  /\ UNCHANGED <<nextN, sent, enobufs, listening, need_exit, eintr>>

\* Mutant: the count includes the message that arrived.
MissedOneMore(s, m) ==
  IF ~s.initialised \/ (s.seq + 1) % SeqRange = SeqOf(m) THEN 0
  ELSE (SeqOf(m) - s.seq) % SeqRange

\* The number printed after "Missed", 0 when nothing is printed.
Missed(s, m) ==
  IF ~s.initialised \/ (s.seq + 1) % SeqRange = SeqOf(m) THEN 0
  ELSE (SeqOf(m) - s.seq - 1) % SeqRange

\* Mutant: the first message of a CPU does not mark it initialised.
HandleEventUninitialised ==
  /\ RecvMessage
  /\ Head(rcvbuf).what = "event"
  /\ LET m == Head(rcvbuf)
     IN  /\ reported' = [reported EXCEPT ![m.cpu] = @ + Missed(cpu_seq[m.cpu], m)]
         /\ cpu_seq' = [cpu_seq EXCEPT ![m.cpu].seq = SeqOf(m),
                                       ![m.cpu].no_bufs = FALSE]
         /\ lastN' = [lastN EXCEPT ![m.cpu] = m.n]
  /\ pc' = "test"

HandleEvent ==
  /\ RecvMessage
  /\ Head(rcvbuf).what = "event"
  /\ LET m == Head(rcvbuf)
     IN  /\ reported' = [reported EXCEPT ![m.cpu] = @ + Missed(cpu_seq[m.cpu], m)]
         /\ cpu_seq' = [cpu_seq EXCEPT ![m.cpu] =
              [initialised |-> TRUE, no_bufs |-> FALSE, seq |-> SeqOf(m)]]
         /\ lastN' = [lastN EXCEPT ![m.cpu] = m.n]
  /\ pc' = "test"

\* The acknowledgement carries no valid CPU number, and the code indexes
\* cpu_seq[] with it: it faults, or touches memory that is not cpu_seq[].
HandleAck ==
  /\ RecvMessage
  /\ Head(rcvbuf) = Ack
  /\ pc' \in {"test", "faulted"}
  /\ UNCHANGED <<cpu_seq, lastN, reported>>

Program == \/ Subscribe \/ TestExit \/ RecvInterrupted \/ RecvNoBufs
           \/ HandleEvent \/ HandleAck

-----------------------------------------------------------------------------
Init ==
  /\ nextN \in [CPUs -> 0..(SeqRange - 1)]
  /\ sent = 0
  /\ rcvbuf = <<>>
  /\ enobufs = FALSE
  /\ listening = FALSE
  /\ need_exit = FALSE
  /\ eintr = FALSE
  /\ pc = "start"
  /\ \E b \in BOOLEAN, s \in {0, SeqRange - 1} :   \* malloc() leaves garbage
       cpu_seq = [c \in CPUs |-> [initialised |-> FALSE, no_bufs |-> b, seq |-> s]]
  /\ lastN = [c \in CPUs |-> -1]
  /\ reported = [c \in CPUs |-> 0]

Next == Program \/ SubscribeFails \/ RecvFails \/ on_sigint \/ \E c \in CPUs : Send(c)

Spec == Init /\ [][Next]_vars

\* The program runs; no message and no signal is owed to it.
FairSpec == Spec /\ WF_vars(Program)

-----------------------------------------------------------------------------
(* Properties. *)

\* Every variable has its type, the cpu_seq[] entries' seq their width, and the
\* socket never holds more than its buffer.
TypeOK ==
  /\ nextN \in [CPUs -> Nat]
  /\ sent \in 0..MaxSent
  /\ rcvbuf \in Seq(Message) /\ Len(rcvbuf) <= BufLen
  /\ enobufs \in BOOLEAN /\ listening \in BOOLEAN
  /\ need_exit \in BOOLEAN /\ eintr \in BOOLEAN
  /\ pc \in {"start", "test", "recv", "failed", "faulted", "done"}
  /\ cpu_seq \in [CPUs -> [initialised : BOOLEAN, no_bufs : BOOLEAN,
                           seq : 0..(SeqRange - 1)]]
  /\ lastN \in [CPUs -> Nat \cup {-1}]
  /\ reported \in [CPUs -> Nat]

\* The numbers still to be handled on a CPU: in rcvbuf, in order, above the last
\* one handled and below the next one to be sent.
Ordered(c) ==
  /\ lastN[c] < nextN[c]
  /\ \A k \in 1..Len(rcvbuf) :
       rcvbuf[k] # Ack /\ rcvbuf[k].cpu = c =>
         /\ lastN[c] < rcvbuf[k].n /\ rcvbuf[k].n < nextN[c]
         /\ \A j \in 1..(k - 1) :
              rcvbuf[j] # Ack /\ rcvbuf[j].cpu = c => rcvbuf[j].n < rcvbuf[k].n

\* The struct seq of a CPU stands for the last message handled on it: it is
\* initialised exactly when there is one, and holds its sequence number, so
\* that the values malloc() left are never used.
SeqStandsForLast ==
  \A c \in CPUs :
    /\ Ordered(c)
    /\ cpu_seq[c].initialised <=> lastN[c] # -1
    /\ cpu_seq[c].initialised => cpu_seq[c].seq = lastN[c] % SeqRange

\* What holds at every step of the receive loop: the types, with the width of
\* the sequence numbers, and that each struct seq is the last one received.
Inv == TypeOK /\ SeqStandsForLast

Ledger == INSTANCE LossLedger WITH last <- lastN, claimed <- reported

\* The Missed lines account for exactly the messages that were dropped
\* between two that arrived, across the wrap of the sequence numbers
\* (handle_proc_ev() 229-238).
AccountsForLoss == Ledger!Spec

\* A SIGINT that precedes a message or an ENOBUFS is acted on: the program
\* ends, even when the signal fell between the test of need_exit and recv()
\* (123-138).
SigintStops ==
  need_exit /\ (rcvbuf # <<>> \/ enobufs)
    ~> pc \in {"done", "failed", "faulted"}
=============================================================================
