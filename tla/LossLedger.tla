----------------------------- MODULE LossLedger -----------------------------
(***************************************************************************)
(* What code_test/process_monitor.c promises of its "Missed" lines: on     *)
(* each CPU the kernel's messages are numbered 0, 1, 2...; a reader that   *)
(* sees some of them, in order, claims between two it sees exactly those   *)
(* it did not see, up to a multiple of the sequence numbers' range.        *)
(***************************************************************************)
EXTENDS Integers

CONSTANTS CPUs, SeqRange

VARIABLES last,     \* the number of the last message seen on each CPU, -1 if none
          claimed   \* how many messages were claimed missed on each CPU

Init ==
  /\ last = [c \in CPUs |-> -1]
  /\ claimed = [c \in CPUs |-> 0]

\* Some later message of CPU c is seen.
See(c) ==
  /\ last'[c] \in Nat
  /\ last'[c] > last[c]
  /\ last' = [last EXCEPT ![c] = last'[c]]
  /\ claimed' = [claimed EXCEPT ![c] =
       IF last[c] = -1 THEN @ ELSE @ + ((last'[c] - last[c] - 1) % SeqRange)]

Next == \E c \in CPUs : See(c)

Spec == Init /\ [][Next]_<<last, claimed>>
=============================================================================
