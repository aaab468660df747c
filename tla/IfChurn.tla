------------------------------ MODULE IfChurn ------------------------------
(***************************************************************************)
(* configs/barak_adam3a.sh: makes and deletes interfaces one after the     *)
(* other and each time has keepalived reload a configuration of those      *)
(* there are, until an instance is found in the FAULT state.  With i it    *)
(* makes them all and ends.  The script may be interrupted and run again.  *)
(* keepalived is external: it is in FAULT when an interface that its       *)
(* configuration names does not exist or is not up, and has reloaded and   *)
(* written its state by the time the script's sleeps end.  The VMACs it    *)
(* makes on the interfaces it was told of may be listed with their names,  *)
(* as vrrp.N@vif100, and are then counted with them.                       *)
(***************************************************************************)
EXTENDS Naturals, FiniteSets, Sequences

CONSTANT TOTAL_IF

VARIABLES
  ifs,        \* the interfaces there are
  ups,        \* those that are up
  conf,       \* those that /tmp/vif.conf names
  loaded,     \* those that keepalived has been told of
  CUR_IFS,    \* how many there are, as the script counts them
  steps,      \* the numbers of interfaces still to come in this round
  NUM_IF,
  todo,       \* the interfaces make_ifs has still to make or delete
  pc,
  once,       \* $1 = i
  torn        \* history: interrupted with an interface half made, or a hole below

vars == <<ifs, ups, conf, loaded, CUR_IFS, steps, NUM_IF, todo, pc, once, torn>>

Interfaces == 0..(TOTAL_IF - 1)
Top(n) == (TOTAL_IF - n)..(TOTAL_IF - 1)

\* seq first last
seq(first, last) == [k \in 1..(IF last < first THEN 0 ELSE last - first + 1) |-> first + k - 1]

\* One round: down to none, and up to all.
Round == [k \in 1..(2 * TOTAL_IF) |-> IF k <= TOTAL_IF THEN TOTAL_IF - k ELSE k - TOTAL_IF]

TypeOK ==
  /\ ups \subseteq ifs /\ ifs \subseteq Interfaces /\ conf \subseteq Interfaces /\ loaded \subseteq Interfaces
  /\ CUR_IFS \in 0..TOTAL_IF /\ NUM_IF \in 0..TOTAL_IF
  /\ pc \in {"none", "config", "make", "link", "up", "hup", "usr1", "fault"}
  /\ once \in BOOLEAN /\ torn \in BOOLEAN

Init ==
  /\ \E n \in 0..TOTAL_IF : ifs = Top(n) /\ ups = Top(n)
  /\ conf = {} /\ loaded = {} /\ CUR_IFS = 0 /\ steps = <<>> /\ NUM_IF = 0 /\ todo = <<>>
  /\ pc = "none" /\ once = FALSE /\ torn = FALSE

\* CUR_IFS=$(ip -n low link show | grep $IF_PREFIX | wc -l), and TOTAL_IF at most
Count ==
  /\ pc \in {"none", "fault"} /\ pc' = "config"
  /\ \E vmacs \in SUBSET (loaded \cap ifs) :
       LET lines == Cardinality(ifs) + Cardinality(vmacs) IN
       CUR_IFS' = IF lines > TOTAL_IF THEN TOTAL_IF ELSE lines
  /\ once' \in BOOLEAN /\ steps' = IF once' THEN <<TOTAL_IF>> ELSE Round
  /\ UNCHANGED <<ifs, ups, conf, loaded, NUM_IF, todo, torn>>

write_config ==
  /\ pc = "config" /\ pc' = "make"
  /\ NUM_IF' = Head(steps) /\ conf' = Top(NUM_IF')
  /\ UNCHANGED <<ifs, ups, loaded, CUR_IFS, steps, todo, once, torn>>

\* Which interfaces make_ifs makes or deletes, in the order it does.
make_ifs ==
  /\ pc = "make" /\ pc' = "link"
  /\ todo' = IF NUM_IF > CUR_IFS THEN seq(TOTAL_IF - NUM_IF, TOTAL_IF - 1 - CUR_IFS)
             ELSE seq(TOTAL_IF - CUR_IFS, TOTAL_IF - 1 - NUM_IF)
  /\ UNCHANGED <<ifs, ups, conf, loaded, CUR_IFS, steps, NUM_IF, once, torn>>

Still == UNCHANGED <<conf, loaded, CUR_IFS, steps, NUM_IF, once, torn>>

\* ip link add
mk_if ==
  /\ pc = "link" /\ todo # <<>> /\ NUM_IF > CUR_IFS
  /\ ifs' = ifs \cup {Head(todo)} /\ pc' = "up" /\ Still /\ UNCHANGED <<ups, todo>>

\* ip addr add; ip link set up
SetUp ==
  /\ pc = "up" /\ pc' = "link"
  /\ ups' = ups \cup {Head(todo)} /\ todo' = Tail(todo) /\ Still /\ UNCHANGED ifs

del_if ==
  /\ pc = "link" /\ todo # <<>> /\ NUM_IF < CUR_IFS
  /\ ifs' = ifs \ {Head(todo)} /\ ups' = ups \ {Head(todo)} /\ todo' = Tail(todo)
  /\ Still /\ UNCHANGED pc

\* Mutant: CUR_IFS keeps the count from the start of the script.
MadeUncounted ==
  /\ pc = "link" /\ todo = <<>>
  /\ pc' = IF once THEN "none" ELSE "hup"
  /\ UNCHANGED <<ifs, ups, conf, loaded, CUR_IFS, steps, NUM_IF, todo, once, torn>>

\* CUR_IFS=$NUM_IF; with i, that was all.
Made ==
  /\ pc = "link" /\ todo = <<>> /\ CUR_IFS' = NUM_IF
  /\ pc' = IF once THEN "none" ELSE "hup"
  /\ UNCHANGED <<ifs, ups, conf, loaded, steps, NUM_IF, todo, once, torn>>

\* k low HUP
k ==
  /\ pc = "hup" /\ pc' = "usr1" /\ loaded' = conf
  /\ UNCHANGED <<ifs, ups, conf, CUR_IFS, steps, NUM_IF, todo, once, torn>>

\* k low USR1, and grep: one instance in FAULT ends the script.
Look ==
  /\ pc = "usr1"
  /\ pc' = IF loaded \subseteq ups THEN "config" ELSE "fault"
  /\ steps' = IF Len(steps) = 1 THEN Round ELSE Tail(steps)
  /\ UNCHANGED <<ifs, ups, conf, loaded, CUR_IFS, NUM_IF, todo, once, torn>>

\* The script is interrupted.
Interrupt ==
  /\ pc \notin {"none", "fault"} /\ pc' = "none" /\ todo' = <<>>
  /\ torn' = (torn \/ pc = "up" \/ ifs # Top(Cardinality(ifs)))
  /\ UNCHANGED <<ifs, ups, conf, loaded, CUR_IFS, steps, NUM_IF, once>>

Next == Count \/ write_config \/ make_ifs \/ mk_if \/ SetUp \/ del_if \/ Made \/ k \/ Look \/ Interrupt

-----------------------------------------------------------------------------
\* The FAULT that the script looks for is keepalived's, not its own: when it
\* has keepalived reload, the interfaces are those of the configuration and up,
\* even if it was interrupted, unless that left one half made, or a higher one
\* to be made after a lower, which a count does not show.  That the VMACs are
\* counted does no harm with two interfaces, the script's TOTAL_IF, where the
\* first step of a round leaves one in any case; with three it would
\* (7-10, 78-111, 120-149).
FaultIsReal ==
  ~torn => /\ pc # "fault"
           /\ pc = "hup" => ifs = conf /\ ups = conf

\* Interrupted while it deletes, the script leaves what it can count: they go
\* from the lowest up (104-108).
DeletesFromBelow ==
  ~torn /\ pc \in {"link", "hup", "usr1"} /\ NUM_IF <= CUR_IFS =>
    ifs = Top(Cardinality(ifs)) /\ ups = ifs
=============================================================================
