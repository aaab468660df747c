--------------------------- MODULE TrackProcessNs ---------------------------
(***************************************************************************)
(* code_test/track_process_ns.c: track_process in a network namespace.     *)
(* nl_connect() first enters the namespace "low", with a /var/run of its   *)
(* own, and ignores what comes of it.  The rest is track_process but for   *)
(* main(), whose local proc_name hides the one check_process() compares    *)
(* with: that one stays NULL.                                              *)
(*                                                                         *)
(* Either program runs, among the same processes.                          *)
(***************************************************************************)
EXTENDS TrackProcess

VARIABLES
  program,    \* "track_process" or "track_process_ns"
  step,       \* nl_connect() and what it calls: the next system call
  netns,      \* the network namespace the program is in
  mounts,     \* its mounts: the "host"'s, a copy "shared" with it, or a "slave"
  hostRun,    \* what the host's /var/run is: its own or that of "low"
  crashed     \* check_process() has called strcmp() with NULL

nsVars == <<program, step, netns, mounts, hostRun, crashed>>
allVars == <<vars, nsVars>>

Ns(at) == program = "track_process_ns" /\ pc = "start" /\ step = at
Enters(to) == step' = to /\ UNCHANGED <<vars, program, crashed>>

\* The namespace may not exist, or not be open to the program.
set_namespaces ==
  /\ Ns("setns")
  /\ \/ Enters("mkdir") /\ netns' = "low"
     \/ Enters("socket") /\ UNCHANGED netns
  /\ UNCHANGED <<mounts, hostRun>>

\* mkdir(), unshare(), mount(MS_SLAVE) and mount(MS_BIND), each of which may
\* fail.  The first two end the function; the third is only reported, and then
\* the host, whose mounts are shared by default, sees the fourth.
set_run_mount ==
  \/ /\ Ns("mkdir") /\ (Enters("unshare") \/ Enters("socket"))
     /\ UNCHANGED <<netns, mounts, hostRun>>
  \/ /\ Ns("unshare")
     /\ \/ Enters("slave") /\ mounts' = "shared"
        \/ Enters("socket") /\ UNCHANGED mounts
     /\ UNCHANGED <<netns, hostRun>>
  \/ /\ Ns("slave") /\ Enters("bind")
     /\ mounts' \in {"shared", "slave"}
     /\ UNCHANGED <<netns, hostRun>>
  \/ /\ Ns("bind") /\ Enters("socket")
     /\ hostRun' \in {hostRun, IF mounts = "slave" THEN hostRun ELSE "low"}
     /\ UNCHANGED <<netns, mounts>>

\* socket() and bind().
nl_connect ==
  /\ Ns("socket")
  /\ \/ Enters("send")
     \/ /\ pc' = "failed"
        /\ UNCHANGED <<osVars, sockVars, sigVars, pos, fd, fdGone, proc_pid, misled,
                       step, program, crashed>>
  /\ UNCHANGED <<netns, mounts, hostRun>>

\* The connector refuses whoever is not in the first network namespace.
set_proc_ev_listen ==
  /\ Ns("send")
  /\ pc' = IF netns = "init" THEN "scan" ELSE "failed"
  /\ UNCHANGED <<osVars, sockVars, sigVars, pos, fd, fdGone, proc_pid, misled, nsVars>>

read_procs == (ScanSkip \/ ScanOpen \/ ScanRead \/ ScanEnd) /\ UNCHANGED nsVars

handle_proc_ev ==
  /\ TestExit \/ RecvInterrupted \/ RecvFails \/ RecvExec \/ RecvExit
  /\ UNCHANGED nsVars

\* Whatever read() gets, strcmp() of it and NULL ends the program.
check_process_null ==
  /\ program = "track_process_ns" /\ pc = "checkread"
  /\ pc' = "failed" /\ crashed' = TRUE
  /\ CloseCmdline
  /\ UNCHANGED <<osVars, sockVars, sigVars, pos, proc_pid, misled,
                 program, step, netns, mounts, hostRun>>

main ==
  \/ set_namespaces \/ set_run_mount \/ nl_connect \/ set_proc_ev_listen
  \/ program = "track_process_ns" /\ read_procs
  \/ program = "track_process_ns" /\ handle_proc_ev
  \/ check_process_null

Plain == program = "track_process" /\ Program /\ UNCHANGED nsVars

-----------------------------------------------------------------------------
NsInit ==
  /\ Init
  /\ program \in {"track_process", "track_process_ns"}
  /\ step = "setns" /\ netns = "init" /\ mounts = "host" /\ hostRun = "host"
  /\ crashed = FALSE

NsNext == Plain \/ main \/ (Environment /\ UNCHANGED nsVars)

\* The program runs; nothing is owed to it by the other processes.
NsSpec == NsInit /\ [][NsNext]_allVars /\ WF_allVars(Plain) /\ WF_allVars(main)

-----------------------------------------------------------------------------
(* Properties. *)

\* In a namespace of its own the program never gets an event, as the comment on
\* set_namespaces("low") says (149), and the host keeps its /var/run unless the
\* mounts could not be made slaves (62-69).
NsApart ==
  /\ netns = "low" => ~Listening
  /\ hostRun = "low" => mounts = "shared"

\* What holds at every step of either program: that no exit of the pid it holds
\* has been missed, and that the namespace is kept apart.
NsInv == Inv /\ NsApart
=============================================================================
