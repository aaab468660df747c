------------------------------ MODULE Scripts ------------------------------
(***************************************************************************)
(* The repository's scripts, of which one runs: a series of builds         *)
(* (PatchesDoBuild), which goes on to compare the builds (FindChanges)     *)
(* when none failed; patches_find_changes by itself, which may be run      *)
(* again and again; the health checks and chg (HealthScript); run_proc     *)
(* (RunProc); 1173.sh (ConfGen); notify_fifo.sh (NotifyFifo);              *)
(* barak_adam3a.sh (IfChurn); 1902/keepalived-notify.sh (RedisNotify); and *)
(* git_bisect_reload (GitBisect).                                          *)
(***************************************************************************)
EXTENDS PatchesDoBuild

CONSTANTS NumBuilds,                          \* FindChanges
          Checks, Changers, Set, MaxRuns,     \* HealthScript
          Roots, Times,                       \* RunProc
          Base, Counts,                       \* ConfGen
          MaxLines, MaxSessions,              \* NotifyFifo
          TOTAL_IF, MaxNotes,                 \* IfChurn, RedisNotify
          Commits, NUM_TRIES                  \* GitBisect

VARIABLES tool,     \* what runs
          builds, changed, left, diffs, PATCH_CHG, PATCH_DIFF, phase, launched, running, written,
          ret, at, on, got, last, runs, mixed, spoilt,
          file, step, time, rm, rest, before, late, killed,
          options, OTHER_ARGS, VIP, RIP, HC_TYPE, nv, jobs, files, stage, given,
          does, fifo, CREATED_FIFO, trap, line, log, sleeps, writer, sent, sessions, pipe, gone,
          termed,
          ifs, ups, conf, loaded, CUR_IFS, steps, NUM_IF, todo, churn, once, torn,
          up, role, asks, notes, notified, raced,
          first, makes, good, bad, skipped, head, tries, bisect, binary, daemon, ending, patched,
          verdict, stale

findVars == <<builds, changed, left, diffs, PATCH_CHG, PATCH_DIFF, phase, launched, running, written>>
healthVars == <<ret, at, on, got, last, runs, mixed, spoilt>>
procVars == <<file, step, time, rm, rest, before, late, killed>>
confVars == <<options, OTHER_ARGS, VIP, RIP, HC_TYPE, nv, jobs, files, stage, given>>
fifoVars == <<does, fifo, CREATED_FIFO, trap, line, log, sleeps, writer, sent, sessions, pipe,
              gone, termed>>
churnVars == <<ifs, ups, conf, loaded, CUR_IFS, steps, NUM_IF, todo, churn, once, torn>>
redisVars == <<up, role, asks, notes, notified, raced>>
bisectVars == <<first, makes, good, bad, skipped, head, tries, bisect, binary, daemon, ending,
                patched, verdict, stale>>
keepalivedVars == <<fifoVars, churnVars, redisVars, bisectVars>>
ownVars == <<vars, findVars, healthVars, procVars, confVars>>
allVars == <<tool, ownVars, keepalivedVars>>

F == INSTANCE FindChanges
H == INSTANCE HealthScript
R == INSTANCE RunProc WITH at <- step
G == INSTANCE ConfGen WITH pc <- stage
N == INSTANCE NotifyFifo WITH pc <- does
I == INSTANCE IfChurn WITH pc <- churn
D == INSTANCE RedisNotify WITH last <- notified
B == INSTANCE GitBisect WITH builds <- makes, pc <- bisect, status <- verdict

Build(A) ==
  /\ tool = "series" /\ A
  /\ UNCHANGED <<tool, findVars, healthVars, procVars, confVars, keepalivedVars>>

\* [[ -n $JOBS_FAILED ]] && exit 1; ./patches_find_changes
Compared == pc = "done" /\ failed = {}

Find(A) ==
  /\ tool = "find" \/ (tool = "series" /\ Compared)
  /\ A
  /\ UNCHANGED <<tool, vars, healthVars, procVars, confVars, keepalivedVars>>

Health(A) ==
  /\ tool = "health" /\ A
  /\ UNCHANGED <<tool, vars, findVars, procVars, confVars, keepalivedVars>>
Proc(A) ==
  /\ tool = "run_proc" /\ A
  /\ UNCHANGED <<tool, vars, findVars, healthVars, confVars, keepalivedVars>>
Conf(A) ==
  /\ tool = "conf" /\ A
  /\ UNCHANGED <<tool, vars, findVars, healthVars, procVars, keepalivedVars>>
Fifo(A) == tool = "fifo" /\ A /\ UNCHANGED <<tool, ownVars, churnVars, redisVars, bisectVars>>
Churn(A) == tool = "churn" /\ A /\ UNCHANGED <<tool, ownVars, fifoVars, redisVars, bisectVars>>
Redis(A) == tool = "redis" /\ A /\ UNCHANGED <<tool, ownVars, fifoVars, churnVars, bisectVars>>
Bisect(A) == tool = "bisect" /\ A /\ UNCHANGED <<tool, ownVars, fifoVars, churnVars, redisVars>>

\* A series leaves one build for each of its patches.  What does not run has
\* its variables at some value: one is enough.
ScriptsInit ==
  /\ tool \in {"series", "find", "health", "run_proc", "conf", "fifo", "churn", "redis",
              "bisect"}
  /\ tool # "find" => builds = [j \in Jobs |-> j] /\ left = {}
  /\ tool \notin {"find", "series"} => changed = {}
  /\ tool # "health" => ret = <<0, 1>>
  /\ tool # "run_proc" => file = R!NoFile
  /\ tool # "conf" => options = <<>> /\ OTHER_ARGS = <<>>
  /\ tool # "fifo" => fifo = FALSE
  /\ tool # "churn" => ifs = {}
  /\ tool # "redis" => up = FALSE /\ role = "leader"
  /\ tool # "bisect" => first = 1 /\ makes = {} /\ head = 1
  /\ Init /\ F!Init /\ H!Init /\ R!Init /\ G!Init /\ N!Init /\ I!Init /\ D!Init /\ B!Init

ScriptsNext ==
  \/ Build(Next) \/ Find(F!Next) \/ Health(H!Next) \/ Proc(R!Next) \/ Conf(G!Next)
  \/ Fifo(N!Next) \/ Churn(I!Next) \/ Redis(D!Next) \/ Bisect(B!Next)

FindStep == F!Launch \/ F!Wait \/ F!FindDirs \/ \E job \in running : F!Finish(job)

\* Every build ends, every comparison ends, and bash runs; a sleep ends, and the
\* signal it sends is acted upon unless bash waits in an open.
ScriptsSpec ==
  /\ ScriptsInit /\ [][ScriptsNext]_allVars
  /\ WF_allVars(Build(Start \/ Wait \/ Scan))
  /\ \A j \in Jobs : WF_allVars(Build(End(j)))
  /\ WF_allVars(Find(FindStep))
  /\ WF_allVars(Fifo(N!Bash)) /\ WF_allVars(Fifo(does # "opening" /\ N!Alarm))
  /\ WF_allVars(Redis(D!Scripts))

-----------------------------------------------------------------------------
\* What holds at every step of a script: the types; every build of a series is
\* reported once it has ended, a series called failed is one, and builds are
\* compared only if each was reported as a success; run_proc's file is left as
\* it was found, and the processes sleep as told; a line written to the FIFO is
\* logged once and in order; no FAULT is the script's own; redis has the role that
\* it was told last; and the first bad commit stays between the bounds.
ScriptsInv ==
  /\ Inv /\ F!TypeOK /\ H!TypeOK /\ G!TypeOK
  /\ tool = "series" /\ phase # "readelf" => \A j \in Jobs : reported[j] = 0
  /\ R!Inv
  /\ N!TypeOK /\ N!LoggedOnce
  /\ I!TypeOK /\ I!FaultIsReal /\ I!DeletesFromBelow
  /\ D!TypeOK /\ (tool = "redis" => D!RoleFollows)
  /\ B!Brackets

\* FindChanges: jobs read only what is written, no two that run at once write
\* the same, and every build that differs is compared.
ComparesEach == F!InputsReady /\ F!NoTwoWriters /\ F!AllCompared

\* HealthScript: one master is up during every change, and the statuses of
\* undisturbed checks count down.
StatusFiles == H!OneMasterUp /\ H!CountsDown

\* ConfGen: the files are those asked for, whatever the order of the jobs.
ConfFiles == G!FilesAsAsked /\ G!RetryIsSet

\* A series ends, with its comparisons if no build was said to have failed; the
\* reader of the FIFO ends when told to; and redis is told once it stays up.
ScriptsEnd ==
  /\ tool = "series" => <>(pc = "done" /\ (failed # {} \/ phase = "done"))
  /\ tool = "fifo" => N!TermEnds
  /\ tool = "redis" => D!AsksEnd
=============================================================================
