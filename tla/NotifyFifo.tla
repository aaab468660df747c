----------------------------- MODULE NotifyFifo -----------------------------
(***************************************************************************)
(* configs/scripts/notify_fifo.sh: logs the lines that keepalived writes   *)
(* to a FIFO, which it reads again and again, as keepalived comes and      *)
(* goes.  keepalived, the FIFO and bash are external: the kernel drops     *)
(* what is in a FIFO when nobody has it open; a reader's open waits for a  *)
(* writer's; bash runs a trap between any two steps of the script, and may *)
(* not run it while it is in that open.                                    *)
(***************************************************************************)
EXTENDS Naturals, Sequences

CONSTANTS MaxLines, MaxSessions    \* what keepalived writes; how often it runs

VARIABLES
  pc,
  fifo,          \* [[ -p $FIFO ]]
  CREATED_FIFO,
  trap,          \* CREATED_FIFO, as the trap was given it
  line, log,
  sleeps,        \* the sleeps that start_shutdown has left in the background
  writer, sent, sessions, pipe,    \* keepalived has it open; its lines, and runs
  gone,          \* history: the lines that were dropped with the FIFO
  termed         \* history: a TERM was caught

vars == <<pc, fifo, CREATED_FIFO, trap, line, log, sleeps, writer, sent, sessions,
          pipe, gone, termed>>

Script == <<CREATED_FIFO, trap, line, log>>
Keepalived == <<writer, sent, sessions>>

Steps == {"start", "test", "mkfifo", "loop", "open", "opening", "read", "write", "eof",
          "stopped", "exited"}

TypeOK ==
  /\ pc \in Steps /\ sleeps \in 0..1 /\ sent \in 0..MaxLines
  /\ {fifo, CREATED_FIFO, trap, writer, termed} \subseteq BOOLEAN

Init ==
  /\ pc = "start" /\ fifo \in BOOLEAN /\ CREATED_FIFO = FALSE /\ trap = FALSE
  /\ line = 0 /\ log = <<>> /\ sleeps = 0
  /\ writer = FALSE /\ sent = 0 /\ sessions = 0 /\ pipe = <<>> /\ gone = {}
  /\ termed = FALSE

\* The steps at which the script has the FIFO open, or waits in open().
Held == pc \in {"opening", "read", "write", "eof"}
Drop == pipe' = <<>> /\ gone' = gone \cup {pipe[i] : i \in DOMAIN pipe}

\* trap "...": in double quotes, so CREATED_FIFO is expanded here.
SetTraps ==
  /\ pc = "start" /\ pc' = "test" /\ trap' = CREATED_FIFO
  /\ UNCHANGED <<fifo, CREATED_FIFO, line, log, sleeps, Keepalived, pipe, gone, termed>>

TestFifo ==
  /\ pc = "test" /\ pc' = (IF fifo THEN "loop" ELSE "mkfifo")
  /\ UNCHANGED <<fifo, Script, sleeps, Keepalived, pipe, gone, termed>>

\* mkfifo fails, too, when keepalived has made the FIFO since.
MkFifo ==
  /\ pc = "mkfifo"
  /\ pc' = IF fifo THEN "exited" ELSE "loop"
  /\ CREATED_FIFO' = ~fifo /\ fifo' = TRUE
  /\ UNCHANGED <<trap, line, log, sleeps, Keepalived, pipe, gone, termed>>

Loop ==
  /\ pc = "loop" /\ pc' = (IF fifo THEN "open" ELSE "exited")
  /\ UNCHANGED <<fifo, Script, sleeps, Keepalived, pipe, gone, termed>>

\* done < $FIFO
Open ==
  /\ pc = "open"
  /\ pc' = IF ~fifo THEN "stopped" ELSE IF writer THEN "read" ELSE "opening"
  /\ UNCHANGED <<fifo, Script, sleeps, Keepalived, pipe, gone, termed>>

ReadLine ==
  /\ pc = "read"
  /\ \/ pipe # <<>> /\ pc' = "write" /\ line' = Head(pipe) /\ pipe' = Tail(pipe)
     \/ pipe = <<>> /\ ~writer /\ pc' = "eof" /\ UNCHANGED <<line, pipe>>
  /\ UNCHANGED <<fifo, CREATED_FIFO, trap, log, sleeps, Keepalived, gone, termed>>

\* Mutant: the log is written anew with each line.
LogLineOver ==
  /\ pc = "write" /\ pc' = "read" /\ log' = <<line>>
  /\ UNCHANGED <<fifo, CREATED_FIFO, trap, line, sleeps, Keepalived, pipe, gone, termed>>

\* Every kind of line, the unknown ones included, is logged.
LogLine ==
  /\ pc = "write" /\ pc' = "read" /\ log' = Append(log, line)
  /\ UNCHANGED <<fifo, CREATED_FIFO, trap, line, sleeps, Keepalived, pipe, gone, termed>>

\* At its end the FIFO is closed.
Close ==
  /\ pc = "eof" /\ pc' = "stopped"
  /\ IF writer THEN UNCHANGED <<pipe, gone>> ELSE Drop
  /\ UNCHANGED <<fifo, Script, sleeps, Keepalived, termed>>

\* STOPPED is logged, and the loop goes on.
Stopped ==
  /\ pc = "stopped" /\ pc' = "loop"
  /\ UNCHANGED <<fifo, Script, sleeps, Keepalived, pipe, gone, termed>>

\* Mutant: no alarm follows.
start_shutdown_only ==
  /\ pc # "exited" /\ sleeps = 0
  /\ \/ pc = "start" /\ pc' = "exited" /\ UNCHANGED <<sleeps, termed>>
     \/ pc # "start" /\ termed' = TRUE /\ UNCHANGED <<pc, sleeps>>
  /\ UNCHANGED <<fifo, Script, Keepalived, pipe, gone>>

\* The trap of TERM (bound: one sleep at a time).  Before the traps are set it
\* ends the script.
start_shutdown ==
  /\ pc # "exited" /\ sleeps = 0
  /\ \/ pc = "start" /\ pc' = "exited" /\ UNCHANGED <<sleeps, termed>>
     \/ pc # "start" /\ sleeps' = 1 /\ termed' = TRUE /\ UNCHANGED pc
  /\ UNCHANGED <<fifo, Script, Keepalived, pipe, gone>>

\* The trap of ALRM, which the sleep ends with, and of HUP and others.
stopping ==
  /\ pc \notin {"start", "exited"} /\ pc' = "exited"
  /\ fifo' = (fifo /\ ~trap)
  /\ IF Held /\ ~writer THEN Drop ELSE UNCHANGED <<pipe, gone>>
  /\ UNCHANGED <<Script, Keepalived, termed>>

Alarm == sleeps > 0 /\ sleeps' = sleeps - 1 /\ stopping

Hup == stopping /\ UNCHANGED sleeps

\* keepalived makes the FIFO if need be and opens it, which the script's open()
\* was waiting for; writes; and ends, the last time with the FIFO removed.
Starts ==
  /\ ~writer /\ sessions < MaxSessions /\ sessions' = sessions + 1
  /\ writer' = TRUE /\ fifo' = TRUE
  /\ pc' = IF pc = "opening" THEN "read" ELSE pc
  /\ UNCHANGED <<Script, sleeps, sent, pipe, gone, termed>>

Writes ==
  /\ writer /\ sent < MaxLines /\ sent' = sent + 1 /\ pipe' = Append(pipe, sent + 1)
  /\ UNCHANGED <<pc, fifo, Script, sleeps, writer, sessions, gone, termed>>

Ends ==
  /\ writer /\ writer' = FALSE
  /\ fifo' \in {TRUE, sessions < MaxSessions}
  /\ IF Held THEN UNCHANGED <<pipe, gone>> ELSE Drop
  /\ UNCHANGED <<pc, Script, sleeps, sent, sessions, termed>>

Bash == SetTraps \/ TestFifo \/ MkFifo \/ Loop \/ Open \/ ReadLine \/ LogLine \/ Close \/ Stopped

Next == Bash \/ start_shutdown \/ Alarm \/ Hup \/ Starts \/ Writes \/ Ends

-----------------------------------------------------------------------------
\* What keepalived writes is logged once and in order: a line that is not is
\* still on its way, was dropped with the FIFO when neither had it open, or was
\* left behind by the signal that ended the script (notify_fifo.sh 61-94).
LoggedOnce ==
  /\ \A i \in 1..(Len(log) - 1) : log[i] < log[i + 1]
  /\ pc # "exited" =>
       \A n \in 1..sent : \/ \E i \in DOMAIN log : log[i] = n
                          \/ \E i \in DOMAIN pipe : pipe[i] = n
                          \/ pc = "write" /\ line = n
                          \/ n \in gone

\* A script that was told to terminate does, half a second later, unless it is
\* left waiting for a keepalived to open the FIFO (33-44, 58-61).
TermEnds == <>[](pc = "opening") \/ (termed ~> pc = "exited")
=============================================================================
