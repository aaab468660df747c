--------------------------- MODULE PatchesDoBuild ---------------------------
(***************************************************************************)
(* patches_do_build: builds keepalived after each of a series of patches,  *)
(* all builds at once, and reports how each one ended: once per build it   *)
(* waits for any build to end, then looks for the builds that are no       *)
(* longer there and gives them the status it waited for.                   *)
(*                                                                         *)
(* The builds are external but for their end.  bash is external: it reaps  *)
(* a child some time after its end, and `wait -n` returns the status of    *)
(* one child that no earlier `wait -n` returned, and of none with 127.     *)
(***************************************************************************)
EXTENDS Integers, FiniteSets

CONSTANT NumPatches

ASSUME ConstantsAssumption == NumPatches \in Nat \ {0}

Jobs == 1..NumPatches

VARIABLES
  proc,       \* each build: "none", "runs", "zombie", "reaped"
  result,     \* the exit status of each build
  waited,     \* the builds whose status wait -n has returned
  pids,       \* the builds whose entry in pids is not yet 0
  status,     \* the status last waited for
  failed,     \* JOBS_FAILED
  reported,   \* what was echoed for each build: its status, NoStatus if nothing
  turn,       \* the builds waited for so far
  p,          \* the loop variable
  pc,         \* "start", "wait", "scan", "done"
  together    \* history: one turn has found two builds gone

vars == <<proc, result, waited, pids, status, failed, reported, turn, p, pc, together>>

NoStatus == -1
Statuses == {0, 2, 111}    \* make's, and that of a patch that does not apply

-----------------------------------------------------------------------------
(* The builds, and bash's reaping of them. *)

\* build(): make ends, or the patches did not apply.
End(j) ==
  /\ proc[j] = "runs"
  /\ proc' = [proc EXCEPT ![j] = "zombie"]
  /\ \E s \in Statuses : result' = [result EXCEPT ![j] = s]
  /\ UNCHANGED <<waited, pids, status, failed, reported, turn, p, pc, together>>

Reap(j) ==
  /\ proc[j] = "zombie"
  /\ proc' = [proc EXCEPT ![j] = "reaped"]
  /\ UNCHANGED <<result, waited, pids, status, failed, reported, turn, p, pc, together>>

-----------------------------------------------------------------------------
(* The script. *)

\* The next turn of a loop over the patches, or on.
Go(to) == IF p < NumPatches THEN p' = p + 1 /\ UNCHANGED pc ELSE p' = 1 /\ pc' = to

\* One turn of the loop that starts the builds.
Start ==
  /\ pc = "start"
  /\ proc' = [proc EXCEPT ![p] = "runs"]
  /\ pids' = pids \cup {p}
  /\ Go("wait")
  /\ UNCHANGED <<result, waited, status, failed, reported, turn, together>>

\* Mutant: status keeps the first value it got.
WaitFirst ==
  /\ pc = "wait"
  /\ \E j \in Jobs \ waited :
       /\ proc[j] \in {"zombie", "reaped"}
       /\ waited' = waited \cup {j}
       /\ status' = IF status = NoStatus THEN result[j] ELSE status
       /\ proc' = [proc EXCEPT ![j] = "reaped"]
  /\ pc' = "scan"
  /\ turn' = turn + 1
  /\ UNCHANGED <<result, pids, failed, reported, p, together>>

\* Mutant: the turn is not counted.
WaitUncounted ==
  /\ pc = "wait"
  /\ \E j \in Jobs \ waited :
       /\ proc[j] \in {"zombie", "reaped"}
       /\ waited' = waited \cup {j}
       /\ status' = result[j]
       /\ proc' = [proc EXCEPT ![j] = "reaped"]
  /\ pc' = "scan"
  /\ turn' = turn
  /\ UNCHANGED <<result, pids, failed, reported, p, together>>

\* wait -n; status=$?
Wait ==
  /\ pc = "wait"
  /\ \E j \in Jobs \ waited :
       /\ proc[j] \in {"zombie", "reaped"}
       /\ waited' = waited \cup {j}
       /\ status' = result[j]
       /\ proc' = [proc EXCEPT ![j] = "reaped"]
  /\ pc' = "scan"
  /\ turn' = turn + 1
  /\ UNCHANGED <<result, pids, failed, reported, p, together>>

\* The entry is not 0, and kill -0 fails.
Gone(j) == j \in pids /\ proc[j] = "reaped"

\* Mutant: a status is a failure when it is 0.
FailsInverted == status = 0

\* [[ $status -ne 0 ]]
Fails == status # 0

\* One turn of the inner loop.
Scan ==
  /\ pc = "scan"
  /\ IF Gone(p)
     THEN /\ pids' = pids \ {p}
          /\ reported' = [reported EXCEPT ![p] = status]
          /\ failed' = IF Fails THEN failed \cup {p} ELSE failed
          /\ together' = (together \/ waited # Jobs \ pids')
     ELSE UNCHANGED <<pids, reported, failed, together>>
  /\ Go(IF turn = NumPatches THEN "done" ELSE "wait")
  /\ UNCHANGED <<proc, result, waited, status, turn>>

Init ==
  /\ proc = [j \in Jobs |-> "none"]
  /\ result = [j \in Jobs |-> NoStatus]
  /\ waited = {} /\ pids = {}
  /\ status = NoStatus
  /\ failed = {}
  /\ reported = [j \in Jobs |-> NoStatus]
  /\ turn = 0 /\ p = 1
  /\ pc = "start"
  /\ together = FALSE

Next == Start \/ Wait \/ Scan \/ \E j \in Jobs : End(j) \/ Reap(j)

Spec == Init /\ [][Next]_vars

\* Every build ends, and bash runs.
FairSpec == Spec /\ WF_vars(Start \/ Wait \/ Scan) /\ \A j \in Jobs : WF_vars(End(j))

-----------------------------------------------------------------------------
(* Properties. *)

Failing == {j \in Jobs : result[j] \notin {0, NoStatus}}

\* Every variable has its type.
TypeOK ==
  /\ proc \in [Jobs -> {"none", "runs", "zombie", "reaped"}]
  /\ result \in [Jobs -> Statuses \cup {NoStatus}]
  /\ reported \in [Jobs -> Statuses \cup {NoStatus}]
  /\ waited \subseteq Jobs /\ pids \subseteq Jobs /\ failed \subseteq Jobs
  /\ status \in Statuses \cup {NoStatus}
  /\ turn \in 0..NumPatches /\ p \in Jobs
  /\ pc \in {"start", "wait", "scan", "done"}
  /\ together \in BOOLEAN

\* Whatever ends together, every build is reported, and only after its end
\* (the loop of 77-89 makes as many turns as there are builds).
EachReported ==
  /\ pc = "done" => \A j \in Jobs : reported[j] # NoStatus
  /\ \A j \in Jobs : reported[j] # NoStatus => proc[j] = "reaped"

\* "Failed builds" (91) is never said of a series that built: some build failed.
FailureIsReal == failed # {} => Failing # {}

\* What holds at every turn of the loop (77-91): the types, that only a build that
\* has ended is reported and in the end every one is, and that what is called
\* a failed series is one.
Inv == TypeOK /\ EachReported /\ FailureIsReal

\* When no turn finds two builds gone, each has its own status, and the failed
\* builds are exactly those that failed.
ApartIsExact ==
  ~together => /\ \A j \in Jobs : reported[j] \in {NoStatus, result[j]}
               /\ pc = "done" => failed = Failing

\* The script ends.
Ends == <>(pc = "done")

\* "All builds succeeded" (91) is said only if they did.
SuccessIsReal == pc = "done" /\ failed = {} => Failing = {}
=============================================================================
