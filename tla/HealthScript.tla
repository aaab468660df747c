---------------------------- MODULE HealthScript ----------------------------
(***************************************************************************)
(* The scripts keepalived runs as health checkers in the test beds         *)
(* (configs/scripts/vs.sh and configs/HC/HC-DB-master, which is vs.sh      *)
(* without its optional first steps), and configs/HC/chg, which moves the  *)
(* role of master from one database to the other.  They share one file per *)
(* database, <name>.ret, that holds the status the next check returns; a   *)
(* status from 3 to 15 is counted down by the check that returns it.       *)
(*                                                                         *)
(* Several checks and several chg run at once.  `echo v >file` truncates   *)
(* the file and then writes it, and an empty file reads as 0 everywhere:   *)
(* in [[ $RET -ge 3 ]], in $((2 - ret)), and in `exit $RET`.               *)
(***************************************************************************)
EXTENDS Integers

CONSTANTS
  Checks,     \* the executions of the checker
  Changers,   \* the executions of chg
  Set,        \* the statuses a tester writes by hand
  MaxRuns     \* bound on the executions begun

Masters == {1, 2}    \* 10.1.18.21 and 10.2.18.21
None == -2           \* no file
Empty == -1          \* a file just truncated

VARIABLES
  ret,        \* the content of each master's file
  at,         \* the next step of each execution
  on,         \* the master an execution of the checker is for
  got,        \* RET, or ret in chg
  last,       \* the status the last check of each master returned
  runs,       \* the executions begun
  mixed,      \* history: the masters whose file something other than
              \* their one check has written since that check began
  spoilt      \* history: chg overlapped chg, or a tester wrote a file

vars == <<ret, at, on, got, last, runs, mixed, spoilt>>

Value(v) == IF v < 0 THEN 0 ELSE v

\* RET -ge 3 && RET -le 15: the check leaves one less.
Counting(n) == n \in 3..15

Active(m) == {e \in Checks : at[e] # "idle" /\ on[e] = m}

-----------------------------------------------------------------------------
(* The checker. *)

Begin(e, m, to) ==
  /\ at[e] = "idle" /\ runs < MaxRuns
  /\ runs' = runs + 1
  /\ at' = [at EXCEPT ![e] = to]
  /\ on' = [on EXCEPT ![e] = m]
  /\ mixed' = IF Active(m) = {} THEN mixed \ {m} ELSE mixed \cup {m}
  /\ UNCHANGED <<ret, got, last, spoilt>>

BeginVs(e, m) == Begin(e, m, "first")
BeginHC(e, m) == Begin(e, m, "init")

\* vs.sh's .scr, .sig and .slp files: they delay the check, or kill it.
First(e) ==
  /\ at[e] = "first"
  /\ \E to \in {"init", "idle"} : at' = [at EXCEPT ![e] = to]
  /\ mixed' = IF at'[e] = "idle" THEN mixed \cup {on[e]} ELSE mixed
  /\ UNCHANGED <<ret, on, got, last, runs, spoilt>>

\* [[ ! -f $NAME.ret ]] && echo 0 >$NAME.ret
InitRet(e) ==
  /\ at[e] = "init"
  /\ at' = [at EXCEPT ![e] = IF ret[on[e]] = None THEN "open0" ELSE "read"]
  /\ UNCHANGED <<ret, on, got, last, runs, mixed, spoilt>>

\* RET=$(cat $NAME.ret), and the test that follows it.
ReadRet(e) ==
  /\ at[e] = "read"
  /\ got' = [got EXCEPT ![e] = Value(ret[on[e]])]
  /\ at' = [at EXCEPT ![e] = IF Counting(got'[e]) THEN "open" ELSE "exit"]
  /\ UNCHANGED <<ret, on, last, runs, mixed, spoilt>>

Truncate(e) ==
  /\ at[e] \in {"open0", "open"}
  /\ ret' = [ret EXCEPT ![on[e]] = Empty]
  /\ at' = [at EXCEPT ![e] = IF @ = "open0" THEN "put0" ELSE "put"]
  /\ UNCHANGED <<on, got, last, runs, mixed, spoilt>>

Put(e) ==
  /\ at[e] \in {"put0", "put"}
  /\ ret' = [ret EXCEPT ![on[e]] = IF at[e] = "put0" THEN 0 ELSE got[e] - 1]
  /\ at' = [at EXCEPT ![e] = IF @ = "put0" THEN "read" ELSE "exit"]
  /\ UNCHANGED <<on, got, last, runs, mixed, spoilt>>

\* sleep $RET; exit $RET
Exit(e) ==
  /\ at[e] = "exit"
  /\ last' = [last EXCEPT ![on[e]] = got[e]]
  /\ at' = [at EXCEPT ![e] = "idle"]
  /\ UNCHANGED <<ret, on, got, runs, mixed, spoilt>>

-----------------------------------------------------------------------------
(* chg, and a tester. *)

\* ret=$(cat HC-DB-master-10.1.18.21.ret)
ReadMaster(c) ==
  /\ at[c] = "idle" /\ runs < MaxRuns
  /\ runs' = runs + 1
  /\ got' = [got EXCEPT ![c] = Value(ret[1])]
  /\ at' = [at EXCEPT ![c] = "open0"]
  /\ spoilt' = (spoilt \/ \E d \in Changers \ {c} : at[d] # "idle")
  /\ UNCHANGED <<ret, on, last, mixed>>

\* Mutant: both lines write the file of one database.
TargetSame(c) == 1 + got[c]

\* The database of `echo 0`, then that of `echo 1`.
Target(c) == IF at[c] \in {"open0", "put0"} THEN 2 - got[c] ELSE 1 + got[c]

Following(s) == CASE s = "open0" -> "put0" [] s = "put0" -> "open1"
                  [] s = "open1" -> "put1" [] s = "put1" -> "idle"

\* One half of one of chg's two writes.  A ret other than 0 and 1 makes it
\* write files that belong to neither database.
Change(c) ==
  /\ at[c] # "idle"
  /\ at' = [at EXCEPT ![c] = Following(@)]
  /\ ret' = [m \in Masters |->
               IF m # Target(c) THEN ret[m]
               ELSE CASE at[c] \in {"open0", "open1"} -> Empty
                      [] at[c] = "put0" -> 0 [] at[c] = "put1" -> 1]
  /\ mixed' = mixed \cup ({Target(c)} \cap Masters)
  /\ UNCHANGED <<on, got, last, runs, spoilt>>

\* A tester sets the status to return from now on.
Tester(m) ==
  /\ ~spoilt
  /\ \E v \in Set : ret' = [ret EXCEPT ![m] = v]
  /\ spoilt' = TRUE
  /\ mixed' = mixed \cup {m}
  /\ UNCHANGED <<at, on, got, last, runs>>

-----------------------------------------------------------------------------
Init ==
  /\ ret \in {[m \in Masters |-> None], <<0, 1>>, <<1, 0>>}
  /\ at = [e \in Checks \cup Changers |-> "idle"]
  /\ on = [e \in Checks |-> 1]
  /\ got = [e \in Checks \cup Changers |-> 0]
  /\ last = [m \in Masters |-> 0]
  /\ runs = 0
  /\ mixed = Masters
  /\ spoilt = FALSE

Next ==
  \/ \E e \in Checks :
       \/ \E m \in Masters : BeginVs(e, m) \/ BeginHC(e, m)
       \/ First(e) \/ InitRet(e) \/ ReadRet(e) \/ Truncate(e) \/ Put(e) \/ Exit(e)
  \/ \E c \in Changers : ReadMaster(c) \/ Change(c)
  \/ \E m \in Masters : Tester(m)

Spec == Init /\ [][Next]_vars

-----------------------------------------------------------------------------
TypeOK ==
  /\ ret \in [Masters -> {None, Empty} \cup 0..15]
  /\ on \in [Checks -> Masters]
  /\ got \in [Checks \cup Changers -> 0..15]
  /\ last \in [Masters -> 0..15]
  /\ mixed \subseteq Masters

\* chg brings the new master up before it takes the old one down: unless two
\* chg overlap, or a tester has set a status, one of the databases is up at
\* every moment of every change, whatever the checks do to the files.
OneMasterUp == spoilt \/ \E m \in Masters : Value(ret[m]) = 0

\* A check that nothing has disturbed leaves its successor the next status of
\* the countdown: 15, 14, ... 3, and then 2 for ever.
CountsDown ==
  \A m \in Masters :
    m \notin mixed /\ Active(m) = {} =>
      Value(ret[m]) = IF last[m] \in 3..15 THEN last[m] - 1 ELSE last[m]

Inv == TypeOK /\ OneMasterUp /\ CountsDown
=============================================================================
