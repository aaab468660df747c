------------------------ MODULE PatchesDoBuildProofs ------------------------
(***************************************************************************)
(* Proofs that, for any number of patches and in whatever order the builds *)
(* end and are reaped, patches_do_build reports every build and calls a    *)
(* series failed only if some build failed; and that it is right about     *)
(* each build as long as no turn finds two of them gone.                   *)
(*                                                                         *)
(* The argument: there are as many turns as builds waited for, so that     *)
(* after the last turn every build has been waited for; and one that was   *)
(* waited for is gone, so that the scan of its turn or an earlier one has  *)
(* reported it.                                                            *)
(***************************************************************************)
EXTENDS PatchesDoBuild, FiniteSetTheorems, TLAPS

Started == pc # "start"

\* The builds that run, and those that have not been started.
Builds ==
  \A j \in Jobs :
    /\ Started => proc[j] # "none"
    /\ ~Started => (j \in pids <=> j < p) /\ (proc[j] = "none" <=> j >= p)
    /\ proc[j] \in {"none", "runs"} <=> result[j] = NoStatus

\* Before the first turn nothing has been waited for or reported.
Untold ==
  ~Started => /\ turn = 0 /\ status = NoStatus /\ failed = {} /\ ~together
              /\ \A j \in Jobs : reported[j] = NoStatus

\* One build is waited for in each turn, and the scan of the turn reports it.
Turns ==
  /\ waited \subseteq Jobs /\ IsFiniteSet(waited) /\ Cardinality(waited) = turn
  /\ pc = "wait" => turn < NumPatches /\ p = 1
  /\ pc = "done" => turn = NumPatches
  /\ \A j \in waited : proc[j] = "reaped" /\ (j \notin pids \/ (pc = "scan" /\ p <= j))

\* An entry of pids is set to 0 when its build is reported, and it has ended.
Reports ==
  Started => \A j \in Jobs : /\ reported[j] = NoStatus <=> j \in pids
                             /\ j \notin pids => proc[j] = "reaped"

\* The status a turn gives to what it finds gone is that of some build.
Status == pc = "scan" => \E j \in waited : status = result[j]

\* What holds as long as no turn has found two builds gone: those reported are
\* those waited for, but for the one this turn is about.
Apart ==
  /\ \/ waited = Jobs \ pids
     \/ /\ pc = "scan"
        /\ \E w \in pids : /\ p <= w /\ status = result[w]
                           /\ waited = (Jobs \ pids) \cup {w}
  /\ \A j \in Jobs \ pids : reported[j] = result[j]
  /\ failed = {j \in Jobs \ pids : result[j] # 0}

\* The inductive invariant.
IInv ==
  /\ TypeOK /\ Builds /\ Untold /\ Turns /\ Reports /\ Status /\ FailureIsReal
  /\ Started /\ ~together => Apart

-----------------------------------------------------------------------------
(* Facts about the builds. *)

\* The loop variable of the script's loops stays on a patch, and a loop that is
\* not at its end stays where it is.
LEMMA GoEffect ==
  ASSUME p \in Jobs, NEW to, Go(to)
  PROVE  /\ p' \in Jobs
         /\ \/ p < NumPatches /\ p' = p + 1 /\ pc' = pc
            \/ p = NumPatches /\ p' = 1 /\ pc' = to
BY ConstantsAssumption DEF Go, Jobs

\* A loop over all patches that has waited for as many builds as there are has
\* waited for every one of them.
LEMMA AllWaited ==
  ASSUME NEW W \in SUBSET Jobs, Cardinality(W) = NumPatches
  PROVE  W = Jobs
<1>1. IsFiniteSet(Jobs) /\ Cardinality(Jobs) = NumPatches
  BY FS_Interval, ConstantsAssumption DEF Jobs
<1> QED BY <1>1, FS_Subset

-----------------------------------------------------------------------------
(* The invariant holds at first, and every step keeps it. *)

LEMMA InitIInv == Init => IInv
<1> SUFFICES ASSUME Init PROVE IInv
  OBVIOUS
<1> USE ConstantsAssumption DEF Init
<1>1. TypeOK
  <2>1. p \in Jobs /\ turn \in 0..NumPatches
    BY DEF Jobs
  <2> QED BY <2>1 DEF TypeOK
<1>2. Builds
  BY DEF Builds, Started, Jobs, NoStatus
<1>3. Turns
  <2>1. IsFiniteSet({}) /\ Cardinality({}) = 0
    BY FS_EmptySet
  <2> QED BY <2>1 DEF Turns
<1> QED BY <1>1, <1>2, <1>3 DEF IInv, Untold, Reports, Status, FailureIsReal, Started

LEMMA NextIInv == IInv /\ [Next]_vars => IInv'
<1> SUFFICES ASSUME IInv, [Next]_vars PROVE IInv'
  OBVIOUS
<1> USE ConstantsAssumption DEF IInv
<1>1. ASSUME NEW j \in Jobs, End(j) PROVE IInv'
  <2>1. proc[j] = "runs" /\ j \notin waited /\ result[j] = NoStatus
    BY <1>1 DEF End, Turns, Builds
  <2>2. PICK s \in Statuses : result' = [result EXCEPT ![j] = s]
    BY <1>1 DEF End
  <2>3. s # NoStatus
    BY DEF Statuses, NoStatus
  <2>4. /\ proc' = [proc EXCEPT ![j] = "zombie"]
        /\ UNCHANGED <<waited, pids, status, failed, reported, turn, p, pc, together>>
    BY <1>1 DEF End
  <2>5. \A h \in Jobs : h # j => result'[h] = result[h] /\ proc'[h] = proc[h]
    BY <2>2, <2>4 DEF TypeOK
  <2>6. result'[j] = s /\ proc'[j] = "zombie"
    BY <2>2, <2>4 DEF TypeOK
  <2>7. Started => j \in pids
    BY <2>1 DEF Reports
  <2>8. TypeOK'
    BY <2>2, <2>4 DEF TypeOK
  <2>9. Builds'
    BY <2>1, <2>3, <2>4, <2>5, <2>6 DEF Builds, Started
  <2>10. Untold' /\ Turns' /\ Reports' /\ Status'
    BY <2>1, <2>4, <2>5, <2>6, <2>7 DEF Untold, Turns, Reports, Status, Started
  <2>11. FailureIsReal'
    BY <2>1, <2>3, <2>4, <2>5, <2>6 DEF FailureIsReal, Failing
  <2>12. (Started /\ ~together => Apart)'
    <3> SUFFICES ASSUME Started, ~together PROVE Apart'
      BY <2>4 DEF Started
    <3>1. Apart
      OBVIOUS
    <3>2. failed = {h \in Jobs \ pids : result'[h] # 0}
      BY <2>5, <2>7, <3>1 DEF Apart
    <3>3. \A h \in Jobs \ pids : reported[h] = result'[h]
      BY <2>5, <2>7, <3>1 DEF Apart
    <3>4. CASE waited = Jobs \ pids
      BY <2>4, <3>2, <3>3, <3>4 DEF Apart
    <3>5. ASSUME NEW w \in pids, p <= w, status = result[w], pc = "scan",
                 waited = (Jobs \ pids) \cup {w}
          PROVE  Apart'
      <4>1. w # j /\ w \in Jobs
        BY <2>1, <3>5 DEF TypeOK
      <4>2. result'[w] = result[w]
        BY <2>5, <4>1
      <4> QED BY <2>4, <3>2, <3>3, <3>5, <4>2 DEF Apart
    <3> QED BY <3>1, <3>4, <3>5 DEF Apart
  <2> QED BY <2>8, <2>9, <2>10, <2>11, <2>12
<1>2. ASSUME NEW j \in Jobs, Reap(j) PROVE IInv'
  <2>1. /\ proc[j] = "zombie" /\ proc' = [proc EXCEPT ![j] = "reaped"]
        /\ UNCHANGED <<result, waited, pids, status, failed, reported, turn, p, pc, together>>
    BY <1>2 DEF Reap
  <2>2. TypeOK' /\ Builds'
    BY <2>1 DEF TypeOK, Builds, Started
  <2>3. Untold' /\ Turns' /\ Reports' /\ Status' /\ FailureIsReal'
    BY <2>1 DEF TypeOK, Untold, Turns, Reports, Status, Started, FailureIsReal, Failing
  <2>4. (Started /\ ~together => Apart)'
    BY <2>1 DEF Apart, Started
  <2> QED BY <2>2, <2>3, <2>4
<1>3. CASE Start
  <2>1. /\ pc = "start" /\ proc' = [proc EXCEPT ![p] = "runs"] /\ pids' = pids \cup {p}
        /\ UNCHANGED <<result, waited, status, failed, reported, turn, together>>
    BY <1>3 DEF Start
  <2>2. p \in Jobs /\ p \in Nat
    BY DEF TypeOK, Jobs
  <2>3. /\ p' \in Jobs
        /\ \/ p < NumPatches /\ p' = p + 1 /\ pc' = pc
           \/ p = NumPatches /\ p' = 1 /\ pc' = "wait"
    BY <1>3, <2>2, GoEffect DEF Start
  <2>4. /\ proc[p] = "none" /\ result[p] = NoStatus
        /\ waited = {} /\ turn = 0 /\ failed = {} /\ ~together
    <3>1. turn = 0 /\ failed = {} /\ ~together
      BY <2>1 DEF Untold, Started
    <3>2. waited = {}
      BY <3>1, FS_EmptySet DEF Turns
    <3> QED BY <2>1, <2>2, <3>1, <3>2 DEF Builds, Started
  <2>5. TypeOK'
    BY <2>1, <2>2, <2>3 DEF TypeOK
  <2>6. Builds'
    <3>1. \A j \in Jobs : j # p => proc'[j] = proc[j]
      BY <2>1, <2>2 DEF TypeOK
    <3>2. proc'[p] = "runs"
      BY <2>1, <2>2 DEF TypeOK
    <3>3. ASSUME NEW j \in Jobs
          PROVE  /\ proc'[j] \in {"none", "runs"} <=> result[j] = NoStatus
                 /\ j \in pids' <=> j < p + 1
                 /\ proc'[j] = "none" <=> j >= p + 1
      BY <2>1, <2>2, <2>4, <3>1, <3>2 DEF Builds, Started, Jobs
    <3>4. Started' => \A j \in Jobs : proc'[j] # "none"
      BY <2>1, <2>3, <3>3 DEF Started, Jobs
    <3> QED BY <2>1, <2>2, <2>3, <3>3, <3>4 DEF Builds, Started
  <2>7. pids' = Jobs \/ ~Started'
    <3> SUFFICES ASSUME Started' PROVE pids' = Jobs
      OBVIOUS
    <3>1. p = NumPatches
      BY <2>1, <2>3 DEF Started
    <3>2. ASSUME NEW j \in Jobs PROVE j \in pids'
      BY <2>1, <3>1, <3>2 DEF Builds, Started, Jobs
    <3> QED BY <2>1, <2>2, <3>2 DEF TypeOK
  <2>8. Untold' /\ Reports' /\ Status' /\ FailureIsReal'
    BY <2>1, <2>3, <2>4, <2>7 DEF Untold, Reports, Status, Started, FailureIsReal
  <2>9. Turns'
    BY <2>1, <2>3, <2>4 DEF Turns
  <2>10. (Started /\ ~together => Apart)'
    BY <2>1, <2>3, <2>4, <2>7 DEF Apart, Started
  <2> QED BY <2>5, <2>6, <2>8, <2>9, <2>10
<1>4. CASE Wait
  <2>1. /\ pc = "wait" /\ pc' = "scan" /\ turn' = turn + 1
        /\ UNCHANGED <<result, pids, failed, reported, p, together>>
    BY <1>4 DEF Wait
  <2>2. PICK j \in Jobs \ waited :
          /\ proc[j] \in {"zombie", "reaped"} /\ waited' = waited \cup {j}
          /\ status' = result[j] /\ proc' = [proc EXCEPT ![j] = "reaped"]
    BY <1>4 DEF Wait
  <2>3. turn < NumPatches
    BY <2>1 DEF Turns
  <2>4. p = 1
    BY <2>1 DEF Turns
  <2>5. TypeOK'
    BY <2>1, <2>2, <2>3 DEF TypeOK
  <2>6. Builds' /\ Untold' /\ Reports' /\ Status' /\ FailureIsReal'
    BY <2>1, <2>2 DEF Builds, Untold, Reports, Status, FailureIsReal, Failing, Started, TypeOK
  <2>7. Turns'
    <3>1. IsFiniteSet(waited') /\ Cardinality(waited') = turn'
      BY <2>1, <2>2, FS_AddElement DEF Turns
    <3> QED BY <2>1, <2>2, <2>3, <2>4, <3>1 DEF Turns, TypeOK, Jobs
  <2>8. (Started /\ ~together => Apart)'
    <3> SUFFICES ASSUME ~together PROVE Apart'
      BY <2>1
    <3>1. Apart
      BY <2>1 DEF Started
    <3>2. waited = Jobs \ pids
      BY <2>1, <3>1 DEF Apart
    <3>3. j \in pids /\ p <= j
      BY <2>2, <2>4, <3>2 DEF Jobs
    <3> QED BY <2>1, <2>2, <3>1, <3>2, <3>3 DEF Apart
  <2> QED BY <2>5, <2>6, <2>7, <2>8
<1>5. CASE Scan
  <2>1. pc = "scan" /\ UNCHANGED <<proc, result, waited, status, turn>>
    BY <1>5 DEF Scan
  <2>2. p \in Jobs /\ p \in Nat
    BY DEF TypeOK, Jobs
  <2>3. /\ p' \in Jobs
        /\ \/ p < NumPatches /\ p' = p + 1 /\ pc' = pc
           \/ /\ p = NumPatches /\ p' = 1
              /\ pc' = IF turn = NumPatches THEN "done" ELSE "wait"
    BY <1>5, <2>2, GoEffect DEF Scan
  <2>4. PICK w \in waited : status = result[w]
    BY <2>1 DEF Status
  <2>5. proc[w] = "reaped" /\ w \in Jobs /\ result[w] \in Statuses
    BY <2>4 DEF Turns, Builds, TypeOK
  <2>6. status \in Statuses /\ status # NoStatus
    BY <2>4, <2>5 DEF Statuses, NoStatus
  <2>7. (Builds /\ Untold /\ Status)'
    BY <2>1, <2>3, <2>4 DEF Builds, Untold, Status, Started
  <2>8. CASE Gone(p)
    <3>1. /\ p \in pids /\ proc[p] = "reaped" /\ pids' = pids \ {p}
          /\ reported' = [reported EXCEPT ![p] = status]
          /\ failed' = IF status # 0 THEN failed \cup {p} ELSE failed
          /\ together' = (together \/ waited # Jobs \ pids')
      BY <1>5, <2>8 DEF Scan, Gone, Fails
    <3>2. TypeOK'
      BY <2>1, <2>2, <2>3, <2>6, <3>1 DEF TypeOK
    <3>3. Turns'
      BY <2>1, <2>2, <2>3, <3>1 DEF Turns, TypeOK, Jobs
    <3>4. Reports'
      BY <2>1, <2>2, <2>6, <3>1 DEF Reports, Started, TypeOK
    <3>5. FailureIsReal'
      <4>1. status # 0 => w \in Failing
        BY <2>4, <2>5, <2>6 DEF Failing
      <4> QED BY <2>1, <3>1, <4>1 DEF FailureIsReal, Failing
    <3>6. (Started /\ ~together => Apart)'
      <4> SUFFICES ASSUME ~together' PROVE Apart'
        OBVIOUS
      <4>1. ~together /\ waited = Jobs \ pids'
        BY <3>1
      <4>2. Apart
        BY <2>1, <4>1 DEF Started
      <4>3. p \in waited
        BY <2>2, <3>1, <4>1
      <4>4. status = result[p]
        BY <3>1, <4>2, <4>3 DEF Apart
      <4>5. Jobs \ pids' = (Jobs \ pids) \cup {p}
        BY <2>2, <3>1
      <4>6. \A j \in Jobs \ pids' : reported'[j] = result'[j]
        BY <2>1, <2>2, <3>1, <4>2, <4>4, <4>5 DEF Apart, TypeOK
      <4>7. failed' = {j \in Jobs \ pids' : result'[j] # 0}
        BY <2>1, <3>1, <4>2, <4>4, <4>5 DEF Apart
      <4> QED BY <2>1, <4>1, <4>6, <4>7 DEF Apart
    <3> QED BY <2>7, <3>2, <3>3, <3>4, <3>5, <3>6
  <2>9. CASE ~Gone(p)
    <3>1. UNCHANGED <<pids, reported, failed, together>>
      BY <1>5, <2>9 DEF Scan
    <3>2. TypeOK'
      BY <2>1, <2>2, <2>3, <3>1 DEF TypeOK
    <3>3. p \notin waited \cap pids
      BY <2>9 DEF Gone, Turns
    <3>4. Turns'
      BY <2>1, <2>2, <2>3, <3>1, <3>3 DEF Turns, TypeOK, Jobs
    <3>5. Reports' /\ FailureIsReal'
      BY <2>1, <3>1 DEF Reports, FailureIsReal, Failing, Started
    <3>6. (Started /\ ~together => Apart)'
      <4> SUFFICES ASSUME ~together PROVE Apart'
        BY <3>1
      <4>1. Apart
        BY <2>1 DEF Started
      <4>2. CASE waited = Jobs \ pids
        BY <2>1, <3>1, <4>1, <4>2 DEF Apart
      <4>3. ASSUME NEW v \in pids, p <= v, status = result[v], waited = (Jobs \ pids) \cup {v}
            PROVE  Apart'
        <5>1. v # p /\ v \in Jobs
          BY <3>3, <4>3 DEF TypeOK
        <5>2. p < NumPatches /\ p' <= v
          BY <2>2, <2>3, <4>3, <5>1 DEF Jobs
        <5> QED BY <2>1, <2>3, <3>1, <4>1, <4>3, <5>2 DEF Apart
      <4> QED BY <4>1, <4>2, <4>3 DEF Apart
    <3> QED BY <2>7, <3>2, <3>4, <3>5, <3>6
  <2> QED BY <2>8, <2>9
<1>6. CASE UNCHANGED vars
  BY <1>6 DEF vars, TypeOK, Builds, Untold, Turns, Reports, Status, FailureIsReal, Failing,
              Apart, Started
<1> QED BY <1>1, <1>2, <1>3, <1>4, <1>5, <1>6 DEF Next

LEMMA Invariance == Spec => []IInv
BY InitIInv, NextIInv, PTL DEF Spec

-----------------------------------------------------------------------------
(* What the script says of the builds. *)

\* For any number of patches: a build is reported only after its end, in the
\* end every build is reported, however many have ended together, and a series
\* is called failed only if a build failed (patches_do_build 77-91).
THEOREM SeriesInvariant == Spec => []Inv
<1>1. IInv => Inv
  <2> SUFFICES ASSUME IInv PROVE Inv
    OBVIOUS
  <2>1. pc = "done" => \A j \in Jobs : reported[j] # NoStatus
    <3> SUFFICES ASSUME pc = "done", NEW j \in Jobs PROVE reported[j] # NoStatus
      OBVIOUS
    <3>1. waited = Jobs
      BY AllWaited DEF IInv, Turns
    <3> QED BY <3>1 DEF IInv, Turns, Reports, Started
  <2>2. \A j \in Jobs : reported[j] # NoStatus => proc[j] = "reaped"
    BY DEF IInv, Reports, Untold
  <2> QED BY <2>1, <2>2 DEF Inv, IInv, EachReported
<1> QED BY <1>1, Invariance, PTL

\* For any number of patches: as long as no turn finds two builds gone, each
\* has the status it ended with, and the failed builds in the end are exactly
\* those that failed (patches_do_build 77-91).
THEOREM ApartExact == Spec => []ApartIsExact
<1>1. IInv => ApartIsExact
  <2> SUFFICES ASSUME IInv, ~together PROVE ApartIsExact
    BY DEF ApartIsExact
  <2>1. CASE ~Started
    BY <2>1 DEF IInv, Untold, ApartIsExact, Started
  <2>2. CASE Started
    <3>1. Apart
      BY <2>2 DEF IInv
    <3>2. \A j \in Jobs : reported[j] \in {NoStatus, result[j]}
      BY <2>2, <3>1 DEF IInv, Reports, Apart
    <3>3. pc = "done" => failed = Failing
      <4> SUFFICES ASSUME pc = "done" PROVE failed = Failing
        OBVIOUS
      <4>1. waited = Jobs
        BY AllWaited DEF IInv, Turns
      <4>2. Jobs \ pids = Jobs
        BY <3>1, <4>1 DEF Apart
      <4>3. \A j \in Jobs : result[j] # NoStatus
        BY <4>1 DEF IInv, Turns, Builds
      <4> QED BY <3>1, <4>2, <4>3 DEF Apart, Failing
    <3> QED BY <3>2, <3>3 DEF ApartIsExact
  <2> QED BY <2>1, <2>2
<1> QED BY <1>1, Invariance, PTL
=============================================================================
