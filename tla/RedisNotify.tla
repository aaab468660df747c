---------------------------- MODULE RedisNotify ----------------------------
(***************************************************************************)
(* configs/1902/keepalived-notify.sh: run by keepalived with each state it *)
(* enters, which does not wait for it; it asks redis to follow until redis *)
(* has answered.  redis and keepalived are external: redis may be down,    *)
(* and starts with the role of its configuration.                          *)
(***************************************************************************)
EXTENDS Naturals

CONSTANT MaxNotes      \* the scripts keepalived starts

VARIABLES up, role,    \* redis answers; its role
          asks,        \* the scripts that run: [n, role]
          notes, last, \* the scripts started, and the role of the last
          raced        \* history: scripts that want different roles ran at once,
                       \* or redis was started after the last one

vars == <<up, role, asks, notes, last, raced>>

States == {"MASTER", "BACKUP", "FAULT", "STOP"}

\* Mutant: FAULT leaves redis alone.
WantedNotFault(state) ==
  IF state = "MASTER" THEN {"leader"} ELSE IF state = "BACKUP" THEN {"replica"} ELSE {}

\* case $3: another state is refused.
Wanted(state) ==
  IF state = "MASTER" THEN {"leader"} ELSE IF state \in {"BACKUP", "FAULT"} THEN {"replica"}
  ELSE {}

TypeOK ==
  /\ up \in BOOLEAN /\ role \in {"leader", "replica"} /\ raced \in BOOLEAN
  /\ asks \subseteq [n : 1..MaxNotes, role : {"leader", "replica"}]

Init ==
  /\ up \in BOOLEAN /\ role \in {"leader", "replica"} /\ asks = {} /\ notes = 0
  /\ last = "none" /\ raced = FALSE

Notify(state) ==
  /\ notes < MaxNotes /\ notes' = notes + 1 /\ last' = state
  /\ asks' = asks \cup {[n |-> notes', role |-> r] : r \in Wanted(state)}
  /\ raced' = (\E a, b \in asks' : a.role # b.role)
  /\ UNCHANGED <<up, role>>

\* One turn of until: without an answer it is tried again.
Ask(a, r) ==
  /\ a.role = r
  /\ IF up THEN role' = r /\ asks' = asks \ {a} ELSE UNCHANGED <<role, asks>>
  /\ UNCHANGED <<up, notes, last, raced>>

become_leader(a) == Ask(a, "leader")
become_replica(a) == Ask(a, "replica")

\* redis goes, or comes with either role.
Redis ==
  /\ up' = ~up /\ role' \in IF up THEN {role} ELSE {"leader", "replica"}
  /\ raced' = (raced \/ (~up /\ asks = {}))
  /\ UNCHANGED <<asks, notes, last>>

Scripts == \E a \in asks : become_leader(a) \/ become_replica(a)

Next == Scripts \/ Redis \/ \E state \in States : Notify(state)

-----------------------------------------------------------------------------
\* When no script runs any more redis has the role of the state that keepalived
\* entered last, FAULT included, unless scripts overtook each other or redis was
\* started since.
RoleFollows ==
  asks = {} /\ ~raced /\ last \in {"MASTER", "BACKUP", "FAULT"} =>
    role = IF last = "MASTER" THEN "leader" ELSE "replica"

\* Every script ends once redis stays up.
AsksEnd == <>[]up => <>[](asks = {})
=============================================================================
