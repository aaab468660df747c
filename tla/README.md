# TLA+ models of keepalived-devel-tools

The repository is a box of small programs and scripts used while developing
keepalived: experiments with one kernel or libc interface each (`code_test/`),
scripts that build and compare versions of keepalived (the top directory and
`general/`), and about 1,500 configurations with the check, notify and operator
scripts they call (`configs/`).  The programs share almost no code.  What is
difficult in each is the world it runs in: other processes that rename a file
while its events are read, a netlink socket that drops messages, processes that
exit and whose pids come back, signals between any two instructions, two
scripts that rewrite one file, background jobs that end together.  So there is
one module per program, with that world in it, and composed modules for the
programs that share a subject or a variant.

Paths below are relative to `src/`.

## The system and its models

| part | source | modules | run |
|---|---|---|---|
| file watcher | `code_test/inotify_file.c` | `InotifyFile`, proofs in `InotifyFileProofs` | `inotify_file` |
| process event monitor | `code_test/process_monitor.c` | `ProcessMonitor`, abstract `LossLedger`, proofs in `ProcessMonitorProofs` | `process_monitor` |
| process tracker, plain and in a namespace | `code_test/track_process.c`, `track_process_ns.c` | `TrackProcess`, `TrackProcessNs`, proofs in `TrackProcessProofs` | `track_process` |
| summing server and clients | `code_test/uds_server.c`, `uds_client.c` | `UdsSum`, `Sockets`, `MCSockets` | `sockets` |
| descriptor passing | `code_test/unix_domain_socket.c` | `FdPass`, `Sockets`, `MCSockets` | `sockets` |
| NPTL signal interception | `code_test/sigtest.c` | `SigTest`, proofs in `SigTestProofs` | `sigtest` |
| isolation of VRRP instances | `configs/679/isolate`, `get_vrrp_offset` | `Isolate`, `MCIsolate`, proofs in `IsolateProofs` | `isolate`, `isolate_said` |
| parallel builds | `patches_do_build` | `PatchesDoBuild`, `Scripts`, proofs in `PatchesDoBuildProofs` | `scripts`, `patches_do_build_said` |
| comparison of the builds | `patches_find_changes` | `FindChanges`, `Scripts` | `scripts` |
| health checks and change of master | `configs/scripts/vs.sh`, `configs/HC/HC-DB-master`, `chg` | `HealthScript`, `Scripts` | `scripts` |
| processes to track | `run_proc` | `RunProc`, `Scripts` | `scripts` |
| configuration generator | `configs/1173.sh` | `ConfGen`, `Scripts` | `scripts` |
| notify FIFO reader | `configs/scripts/notify_fifo.sh` | `NotifyFifo`, `Scripts` | `scripts` |
| interface churn | `configs/barak_adam3a.sh` | `IfChurn`, `Scripts` | `scripts` |
| redis notify script | `configs/1902/keepalived-notify.sh` | `RedisNotify`, `Scripts` | `scripts` |
| bisection of a reload | `git_bisect_reload` | `GitBisect`, `Scripts` | `scripts` |
| searches of `$PATH` | `code_test/execvpe.c`, `find_path.c` | `PathSearch`, `Lookup`, proofs in `LookupProofs` | `lookup` |
| `which` and `whereis` | `code_test/which-bsd.c` | `Which`, `Lookup`, proofs in `LookupProofs` | `lookup` |
| DNS queries through IPVS, three versions | `code_test/dns_test.c`, `dns_test.001.c`, `dns_test.002.c` | `DnsTest`, `DnsVersions`, `DnsQuery`, `Probes` | `probes` |
| link polling, two versions | `code_test/linkbeat1.c`, `linkbeat.c` | `LinkBeat`, `LinkBeatEach`, `Probes` | `probes` |
| echo requests | `code_test/ping.c` | `Ping`, `Probes` | `probes` |
| connection attempts | `code_test/tcp_cnct_failure.c` | `TcpConnect`, `Probes` | `probes` |
| PAM conversation | `code_test/pam_authenticate.c` | `PamConversation`, `Inputs` | `inputs` |
| quoted string parser | `code_test/string_parser.c` | `StringParser`, `Inputs` | `inputs` |
| line read without echo | `code_test/read_term_no_echo.c` | `GetInput`, `Inputs` | `inputs` |
| process renaming | `code_test/set_cmdline.c` | `RenameProcess`, `Inputs` | `inputs` |
| opening a file for root | `code_test/fopen_safe.c` | `FopenSafe`, `Inputs` | `inputs` |

`PROJECT.json` maps every definition to its lines, and lists the parts that
have no model.

### How state and actions correspond

A program's variables keep their names.  `pc` (or `at`) says between which
statements it is, and an action is what it does up to the next point at which
another process, a signal or the kernel can come between: a system call, an
unlocked file access, a callback.  The kernel and the other processes have
variables of their own (a queue, a socket buffer, the files under a name) and
actions of their own.  Variables commented *history* are read by properties and
by no action of the program.

- **InotifyFile.** `place`, `content` and `writing` are the files other
  processes create, write, rename and delete; `queue` is the kernel's, cut at
  `MaxQueued` with an overflow event; `buf` is what `read()` has returned.
  `HandleAppear`, `HandleVanish`, `HandleCloseWrite`, `HandleDirGone` and
  `HandleOther` are the branches of `main()`'s loop, with `watch_file()` inside;
  `read_file_fopen` and `read_file_fgets` are the two halves of `read_file()`,
  between which the name may come to mean another file.  `fclose(NULL)` after a
  failed `fopen()` ends the program.
- **ProcessMonitor.** `Send` is the kernel: it numbers a message per CPU and
  drops it when the socket is full.  `HandleEvent` is `handle_proc_ev()` with
  the comparison of sequence numbers, modulo `SeqRange`.  The acknowledgement
  has no CPU number of its own, and what it does to `cpu_seq[]` is any outcome.
  `LossLedger` is the promise: for each CPU, the numbers reported missed are
  those between two that were seen.
- **TrackProcess, TrackProcessNs.** Processes fork, exec, exit and are reaped,
  and pids come back.  The scan of `/proc` is one step per entry, with open and
  read apart.  The namespace variant enters its namespace and makes its mounts
  one failing call at a time, and then runs the same tracker with the NULL name
  it compares with.
- **UdsSum, FdPass.** Server, clients and parent are processes; a socket is a
  sequence of packets.  `read()` returning 0 leaves the buffer as it was and the
  code obeys it again, so the model does.  `FdPass` has one file offset, shared.
- **SigTest.** Every instruction of `save_signal()`, `set_action()` and
  `restore_nptl_intercept()` that a signal can separate is a step; a delivered
  signal pushes a frame.  The build with signalfd is the constant `Builds`.
- **Isolate.** A write is a truncation and then the text, so that a reader or
  an interrupt can come between; keepalived dumps its data and polls the
  offsets on its own.  `--count` is any number but 0, which means no count
  (`isolate` 25 and 32): a negative one changes one instance, and `Limit` says so.
- **PatchesDoBuild, FindChanges, HealthScript, RunProc, ConfGen.** Bash: jobs
  in the background, `wait` and `wait -n`, and files that are empty between
  their truncation and their writing.  `bash` may reap a job at any time.
- **NotifyFifo.** `pipe` is the FIFO: the kernel keeps its lines while the script
  or keepalived has it open, or waits in `open()`, and drops them otherwise.
  keepalived comes (`Starts`), writes and goes at any moment; a trap runs between
  any two steps.  Each phase of the script, from the test of the FIFO to the
  `STOPPED` line, is a step.
- **IfChurn.** `ifs` and `ups` are the interfaces that exist and are up, `conf`
  what the file names, `loaded` what keepalived was told.  `ip link add` and
  `ip link set up` are apart, and `Interrupt` may come between any two commands;
  a later run starts from the count alone.
- **RedisNotify.** keepalived does not wait for its notify scripts, so several
  retry at once; `become_leader` and `become_replica` are one turn of their loops.
- **GitBisect.** `builds` says which commits can be built, `binary` what the last
  successful `make` left, `daemon` the keepalived that runs, perhaps the one that
  was told to end in the try before.
- **PathSearch, Which, DnsQuery, StringParser.** Algorithms over an input, one
  step per path entry, label or character class, checked for every input within
  the bounds against a definition of the answer that has no steps.
- **DnsTest, LinkBeat.** The rounds of queries against IPVS connections that
  expire and servers that go, and the polls against a link that changes at any
  moment with a status bit that latches.  `GetOpt` is one turn of the option loop.
- **DnsVersions, LinkBeatEach.** The earlier versions, by the actions of the later
  ones where they do the same: 001 and 002 differ in their options (`getopt_001`,
  `getopt_002`) and 002 in how the first socket is made (`Open_002`); `linkbeat.c`
  opens and closes a socket around each way of asking (`Opens`, `Asks`).
- **Ping, TcpConnect.** `flight` holds the replies on their way, which may be
  lost, late or come twice; the identifier by which the kernel hands them out may
  be used again by a later socket.  `TcpConnect` has a step per system call, the
  message on `stderr` included, since it may change `errno`.
- **PamConversation, GetInput, RenameProcess, FopenSafe.** Callback, terminal and
  kernel calls, each of which may fail or be interrupted; in `FopenSafe`, by a
  user who replaces the name, and opens and changes files.

`Sockets`, `Lookup`, `Probes`, `Scripts` and `Inputs` put programs about one
subject in one specification: `program` or `tool`, chosen in the initial state,
says which runs, and the others keep their variables.  Their invariants name
what the parts promise.

## The runs and their bounds

| run | distinct states | what it shows |
|---|---|---|
| `inotify_file` | 634,716 | Two files that take turns under the watched name, four operations of other processes at any moment. Once every event is handled the line shown (`SettledShowsFile`) and the file watched (`SettledWatchesFile`) are those of the name; the crash in `read_file()` is reached for want of the file only while the event that says the name has gone is unhandled (`DiesOnlyBehind`); when the others stop, the program catches up (`CatchesUp`). |
| `process_monitor` | 603,159 | Two CPUs, sequence numbers that wrap, messages dropped. The *Missed* lines account for what was dropped: the monitor implements `LossLedger` (`AccountsForLoss`); a SIGINT before a message that is there to be received ends the program (`SigintStops`). |
| `track_process` | 717,418 | Three pids, one of which begins with 9 and is passed over by the scan. The pid held runs or its exit is on its way (`NsInv`); the named program is found (`SettledTracksNamed`) and its end noticed (`NoticesExit`). |
| `sockets` | 211,597 | A server that may fail to start and three clients, one that says DOWN and one that may be killed; the two users of one file offset, either of which may not be forked or may die. Sums are right (`ResultIsSum`, with nothing lost in flight), the server is hurt only by a killed client (`HurtOnlyByKill`), clients are answered (`Answered`); both children are reaped, or one waits in `recvmsg()` for a message that nobody is left to send, the only wait without an end (`BothReaped`). |
| `sigtest` | 988,400 | Three signals at any instruction, both builds, every earlier action. glibc's handler gets each once and in order (`Transparent`), none is lost once the handlers are set (`NoLossOnceSet`), and one window only is fatal (`Inv`). |
| `isolate` | 278,148 | Two isolates, either of which may be interrupted, one file or one per instance. One takes another's offset away only in the race for a shared file (`ChangesOneOnly`). `StoreInv`: a `--count` run changes no more than its count, and an offset that cannot be read is being written by an isolate, was left so by one that ended, or, in the shared file only, was written by two at once (`TornIsHeld`). |
| `isolate_said` | violation | `AllMade`, see *Disagreements*. |
| `scripts` | 723,896 | Three builds; the comparison of up to four; two checks and two `chg`; two `run_proc` with a process each; `1173.sh` for every range of addresses. `ScriptsInv` adds: each line written to the FIFO is logged once and in order, unless the kernel dropped it or a signal ended the script (`LoggedOnce`); the FAULT that `barak_adam3a.sh` stops at is not of its own making, interrupted or not, unless an interface was left half made or a higher one missing (`FaultIsReal`, `DeletesFromBelow`); redis has the role it was told last unless scripts ran at once or redis was started since (`RoleFollows`); the first bad commit stays between the bounds (`Brackets`). `ScriptsEnd`: a series of builds ends, a TERM ends the FIFO reader, and redis is told once it stays up. |
| `patches_do_build_said` | violation | `SuccessIsReal`, see *Disagreements*. |
| `lookup` | 1,228,070 | Every path of up to three entries, empty and too long ones included, over every content of two directories and the current one: `execvpe` runs the first file that can be run and otherwise reports the error the code's comments promise (`RunsFirst`), an entry of `PATH_MAX` or more costs it no answer (`LongCostsNothing`, in `LookupInv`), what `find_path` resolves is the first file there is where none is one that cannot be executed (`ResolvesFirst`), `which` prints and exits as its header says (`WhichAnswers`). |
| `probes` | 98,969 | The three versions of `dns_test` with every two options, a server removed, queries and answers lost, answers late or doubled and calls that fail: a query reads another's answer only once one came twice or `recvfrom()` failed (`AnsweredByOwn`); the program ends, was told to go on for ever, or waits for an answer that is neither there nor on its way (`ExchangeEnds`); answers do not pile up, a round has the number of queries the options give, and a query fits its buffer (`NoBacklog`, `CountAsGiven` and `Fits`, in `DnsInv`). Every name of up to seven characters is read by a server as it was written (`ReadAsWritten`). The three ways to ask about a link agree while it is steady (`SteadyAgrees`), in both versions, with no socket left behind (`NoneLeft`). A ping takes only its own reply unless one came twice or `recv()` failed (`OwnReply`). An attempt to connect is said to be what it is (`SaidAsItIs`). Polls go on whatever fails, and pings until a socket is refused or one waits for a reply that is neither there nor on its way (`KeepsPolling`). |
| `inputs` | 265,011 | Every PAM call of up to four messages with every failure; every line of up to five characters, and pairs of words written in five ways and read back (`ReadsBack`); `getinput()` with ^C at any statement, for a caller that handles it, ignores it or does neither; three changes of the process name with every refusal of the kernel; a file that `fopen_safe()` opened with `w` or `a` is root's alone when the line is written, whatever a user does meanwhile. |

The bounds, and why they are enough:

- *InotifyFile*: two files and four operations let a name be taken, lost, and
  taken by another file while events of the first are unread; `MaxQueued = 3`
  and `BufEvents = 2` make the queue overflow and a batch end in the middle.
  The proofs have no bound.
- *ProcessMonitor*: `SeqRange = 4` stands for 2^32, and six messages of two CPUs
  wrap it; `BufLen = 2` fills the socket.  A gap of `SeqRange` or more is told
  from none by no code with such numbers, and `AccountsForLoss` says so.
- *TrackProcess*: four events are an exit, a reaping, a fork into the same pid
  and an exec.
- *UdsSum*: `Backlog = 2` is less than the three clients.  *FdPass*: `MsgLen`,
  `KeptLen` and `ReplyLen` are the lengths in the source.
- *SigTest*: three signals nest one handler in another and queue a third.
- *Scripts*: three builds end alone, two at once or all at once; four builds
  have a middle pair whose neighbours both differ; `MaxRuns = 3` and
  `Set = {1, 4}` let the countdown of a status pass the last value it changes;
  `Base = 3` stands for the 256 and 65536 of the address arithmetic.
- *NotifyFifo*: two lines and two runs of keepalived have a line of either run
  unread, or dropped, when the other writes.  *IfChurn*: `TOTAL_IF = 2` is the
  script's own value, set at its head; with 3 a run after an interrupt can count
  the VMAC lines of keepalived for interfaces, and so cause a FAULT that `torn`
  does not explain.  Its sleeps are taken to be long enough for keepalived.
  *RedisNotify*: three notifications let the first be
  overtaken by two.  *GitBisect*: five commits and three tries narrow the bounds
  from both sides, with a skip.
- *DnsTest*: two queries in a round are one on the kept socket and one on another,
  which has one port, so that a late answer may find it open again; two options
  are enough for one to come after, or override, another; one answer comes twice
  or one `recvfrom()` fails (`late`), after which a socket is one answer behind.  *Ping*:
  two identifiers, so that one is used again or not.
- *DnsQuery*: `BufSize = 24` stands for 128, small enough for names to reach it;
  `MaxLabel = 5` for the 63 of the protocol, and `Byte = 6` for the 256 of the
  `uint8_t` a label's length is kept in, so that names of seven have labels over
  both.
- *GetInput*: `InputSize = 3` stands for 4096.  *RenameProcess*: `Page = 3` makes
  names of one and of several pages, and the original `argv[0]` is shorter than
  the longest name.
- *PamConversation*: `PAM_MAX_NUM_MSG = 4` stands for 32.

`CHECK_DEADLOCK FALSE` is given for the runs whose programs end, or wait for
something nothing owes them; the searches of `lookup` have a `Done` step instead.

Model values are used for files, ports, servers, clients and directories.  No
symmetry is declared, since most of the runs check liveness.

### Fairness

Only weak fairness is used, and only of a process the kernel schedules: a
program that has something to do does it.  The other processes, signals,
failures and kills are never owed.  Two assumptions go beyond scheduling: a
background build ends (`End(j)` of `PatchesDoBuild`; a build that hangs hangs the
script too), and an answer or an echo reply on its way arrives or is lost
(`Delivered` of `Probes`).  A lost one is owed nothing, and neither is the expiry
of an IPVS connection: `ExchangeEnds` and `KeepsPolling` name the wait that follows
as one of the outcomes.  The sleep that
`notify_fifo.sh` leaves in the background ends, and its signal is acted upon
except while bash waits in the `open()` of the FIFO (`Alarm`): whether a trap runs
there depends on bash, and is assumed of none.

## Disagreements between the code and what it says

Two are shown by runs of their own:

- `isolate_said`: `configs/679/isolate` says "All modifications in priorities
  have been made." (139) when `getFreshData()` returned `{}` (59), because the
  dump was not complete 0.1 s after the signal, and nothing was looked at.
- `patches_do_build_said`: of two builds that end in one turn of the loop, both
  get the status of one `wait -n` (85), and a failed one is counted in "All
  builds succeeded" (91).

The others were met while modelling; the models have the code's behaviour, and
the properties are stated around it:

| where | what the code does |
|---|---|
| `inotify_file.c`, `read_file()` | `fclose(NULL)` after a failed `fopen()`. |
| `execvpe.c` 118-119 | an entry too long for the buffer is skipped to its colon and not past it, so that the next directory tried is the current one (`LongCostsNothing` says what is left of the search). An entry just under `PATH_MAX` makes a path the kernel refuses, and that `ENAMETOOLONG` ends the search. |
| `find_path.c` 93-99 | the same. |
| `find_path.c` 112, 139-141 | the mode is looked at when `stat()` failed and not when it succeeded: a file that cannot be executed is resolved, which the comment says is passed over, and an absent one may be reported as denied, as whatever `buf` held says. |
| `which-bsd.c` 140-143 | with `-a`, an entry too long after a match makes the name count as not found. |
| `linkbeat1.c` 101, 108 | a status that reads `ffff` is not noticed. |
| `pam_authenticate.c` 28-29, 135 | `free_resp` is called with the element the loop is at, not with the array. |
| `dns_test.c` 38, 174 | ids of answers are not compared; after a duplicate the kept socket stays one answer behind. |
| `isolate` 107 | read, change and write of a shared file: one of two changes may be lost. |
| `track_process_ns.c` 402, 421 | `proc_name = proc_name` assigns the local variable to itself, so the one `check_process()` compares with stays NULL. |
| `1173.sh` 50-54 | `retry=` also matches `delay_before_retry=`; and a third part of 0 gives negative parts. |
| `patches_find_changes` 39-48 | diffs left by an earlier use list a build twice. |
| `string_parser.c` 37 | a quote left open is noticed only when nothing special follows it. |
| `HC/chg` | two that overlap may leave no master. |
| `read_term_no_echo.c` 20, 44, 55 | "abort on ^C" waits for the end of the line, as `signal()` restarts the read; and "don't overflow" stores the zero one past a full buffer (`EndedInside` is about lines that do not fill it). |
| `set_cmdline.c` 92, 98 | a refused call leaves a region that is never unmapped, or an area that ends in one that is no longer there (`AreaIsMapped`). |
| `notify_fifo.sh` 43 | the trap is in double quotes, so it keeps the value `CREATED_FIFO` had then, and the FIFO is never removed (`trap` in `NotifyFifo`). |
| `notify_fifo.sh` 46-47 | a FIFO that keepalived makes between the test and `mkfifo` ends the script. |
| `dns_test.001.c` 195-200, `dns_test.002.c` 207-212 | `-s` runs on into `-c`: the first number of the address becomes the number of queries (`CountAsGiven`). |
| `dns_test.002.c` 158, 237 | the port is passed as a negative descriptor, so that `-p 0` uses standard input (`OthersUnharmed`); `-p 1` leaves the socket unbound (not modelled). |
| `tcp_cnct_failure.c` 116-117 | `errno` is looked at after a message was written. |
| `ping.c` 149-150 | the reply to a request that could not be sent is waited for. |
| `fopen_safe.c` 64 | asks whether a user who has the file open already can still read it: yes, as `Inv` has it, and in the modes `w` and `a` only such a user. |
| `fopen_safe.c` 16-17 | every mode that starts with `r` is left to `fopen()`, `r+` too, which writes: the line may then go to any file, through a link as well (the exception in `Inv`). |
| `1902/keepalived-notify.sh` 29-31 | in FAULT, "redis is not running and this is does nothing": the script goes on until redis runs, and may then undo what a later script did. |
| `barak_adam3a.sh` 9, 101 | interfaces are made from the lowest up but counted as the highest: interrupted while it makes several, the next run reports a FAULT of its own making. The count takes in the lines of keepalived's VMACs too, which with more than the two interfaces of the script has the same effect. |
| `git_bisect_reload` 32, 53 | neither the result of `make` nor the end of the last keepalived is waited for or looked at, so that another commit may be judged (`stale`). |
| `git_bisect_reload` 62 | `sudo -p quentin`, where the other lines have `-u`: git is told as root. |
| `do_config` 35, 54 | "-o	enable pre v2.0.20 debug options": it sets `DEBUG_OPTIONS` and leaves `OPTIONS` as it was, so that it has an effect only before `-d` (not modelled). |

## What is proved

Seven modules hold proofs.  The theorems do not depend on the bounds of the
runs: they hold for every value of the constants that the `ASSUME` of the module
allows, and the runs evaluate each `ASSUME`.  What the assumptions ask for is
what the code fixes: a buffer holds at least one message, a range of numbers is
not empty, the markers for "none" are not members, `--count` is not 0.

| module | theorem | states |
|---|---|---|
| `InotifyFileProofs` | `TypeCorrect` | `Spec => []TypeOK` |
| | `ShowsFile` | `Spec => []SettledShowsFile` |
| | `WatchesFile` | `Spec => []SettledWatchesFile` |
| | `DiesBehind` | `Spec => []DiesOnlyBehind` |
| `ProcessMonitorProofs` | `StandsForLast` | `Spec => []Inv` |
| | `AccountsForEveryLoss` | `Spec => AccountsForLoss`, that is `Ledger!Spec` |
| `TrackProcessProofs` | `NoExitUnseen` | `Spec => []Inv`, of `track_process` alone |
| | `NsKeptApart` | `NsSpec => []NsInv` |
| | `TracksNamed` | `NsSpec => []SettledTracksNamed` |
| `SigTestProofs` | `OneWindow` | `Spec => []Inv` |
| | `IsTransparent` | `Spec => []Transparent` |
| | `NoLoss` | `Spec => NoLossOnceSet` |
| `IsolateProofs` | `CountKept` | `Spec => []StoreInv` |
| | `OneOnly` | `Spec => ChangesOneOnly` |
| `PatchesDoBuildProofs` | `SeriesInvariant` | `Spec => []Inv`, a part of `ScriptsInv` |
| | `ApartExact` | `Spec => []ApartIsExact` |
| `LookupProofs` | `ExecutesFirst` | `LookupSpec => []RunsFirst` |
| | `LongIsSkipped` | `LookupSpec => []LookupInv` |
| | `TakesFirst` | `LookupSpec => []ResolvesFirst` |
| | `WhichIsRight` | `LookupSpec => []WhichAnswers` |

Most of these properties speak of a program that has handled everything or has
come to its end, and say nothing of one that has not; so they are not inductive.
Each module states the inductive invariant it proves (`IInv`; `Inv` in
`InotifyFileProofs` and `ProcessMonitorProofs`), has one lemma per action or kind
of action, and puts them together to the fact that it is an invariant
(`Invariance`, `NsInvariance`), from which the theorems follow.  The invariants were checked by
TLC with the constants of the runs before they were proved.

**InotifyFile.**

    Inv == TypeInv /\ OneFile /\ Fresh /\ (Undisturbed => Good)

`TypeInv` adds to `TypeOK` that a queue is over its limit only by the overflow
event, and that the file being read is a file.  `OneFile` is that of a name.
`Fresh` says what `main()` starts with.  `Good`, which holds while the kernel
has dropped nothing and the directory is in its place, carries the argument:
among the events not yet handled, first those in `buf` and then those in
`queue`, the last one about the name says whether the file is there now; and
once none about the name is left, the watch is on the file that is there, and
its line is shown, is being read, or is announced by a write event for that
watch, or a write is still open; and a program that died in `read_file()` has the
event that says the name has gone before it.  `HasGone` is kept out, since an event about
the directory itself ends the program.  The lemmas on sequences (`SplitSeq`,
`AppendFacts`, `TailFacts`, `SplitFacts`) say what appending, taking off and
splitting do to "the last event about the name".

**ProcessMonitor.** `Inv` is inductive as it stands: a CPU's messages are in the
socket in the order of their numbers, all above the last one handled, and the
sequence number kept for it is that number modulo `SeqRange`.  The step of
`LossLedger` a message maps to follows from arithmetic modulo a range that is a
constant and not a numeral, which has lemmas of its own (`DivMod`,
`SmallMultiple` and those built on them): a difference of sequence numbers is
the difference of the numbers up to a multiple of the range.

**TrackProcess.** While the program listens and `recv()` has lost nothing,
`NoExitMissed` holds: a pid whose last message in the socket is an exec runs, and
the pid held, and the one whose command line is open, run or have their exit in
the socket.  Then `NamedIsFound`: a process that runs the named program is
tracked, is announced by an exec with no exit behind it, is being looked at, or
is ahead of the scan.  `NsIInv` says how far `nl_connect()` has come in each
namespace.

**SigTest.** `Phase` gives, for each place of `main()`, the action the kernel has
for each signal and the one `signal_chain()` would call; both are `sig_handler()`
in one place only, and that is the window.  `Passed` compares what was sent with
what glibc got, what the frames hold and what is queued, member by member.

**Isolate.** `Copy` says what `offsetJson` is between the reading of the file and
its writing: the file, but for the instance at hand, unless another isolate has
touched the file.  `Counting` says that a `--count` run with instances left to go
through has not reached its count.  `Held` is `TornIsHeld` with what makes it
inductive: an isolate that is about to write over what another wrote is one of
those that raced (`Overwrites`), so that of the isolates in the file one has the
unreadable offset in hand or two were there at once.  `torn` is a function of the instances for
the sake of this proof: that what `SelectSeq` picks are instances needs
induction, and nothing else depended on it.

**PatchesDoBuild.** `Turns`: as many builds have been waited for as there were
turns, so that after the last turn, by cardinality, all have; one waited for is
gone, and has been reported by the scan of its turn.  `Apart`, which holds as
long as no turn found two builds gone: those reported are those waited for, but
for the one this turn is about.

**Lookup.** The invariant speaks of the entries that a search has passed:
`ExecPassed` and `StatPassed`, that it had no reason to stop there; `SoFar`, that
`which` has printed those of them that match, with `-a`, and that none does
otherwise.  `WhichCount` has what the exit status is decided by: `notfound` is 0
if all names so far were found, and their number if none was.

### What is only model-checked

- Liveness: `CatchesUp`, `SigintStops`, `NoticesExit`, `Answered`, `BothReaped`,
  `ScriptsEnd`, `ExchangeEnds`, `KeepsPolling`.  It rests
  on fairness and `ENABLED`, which the prover does not handle.
- What an algorithm computes for inputs of every length, where the answer is
  defined by a fold or a recursive function (`ResultIsSum` and `SumInFlight` of
  `UdsSum`, `ReadAsWritten`, `ReadsBack`): this needs induction over
  data.  `Lookup` escapes it, since what it promises is stated with a least index
  and not with a recursion.
- The rest of `sockets`, `scripts`, `probes` and `inputs`, for which no proof has
  been written.

## What is not modelled

- Programs that print what a fixed sequence of calls returns: the parsing,
  conversion, memory, timer, process and regular expression samples of
  `code_test/`.  There is no state to reason about, or it is the library's or the
  kernel's.
- Callers of the lists, trees and hashes of keepalived, whose code is not in the
  repository.
- The configurations: data of keepalived and haproxy.
- Copies of a script under other names (the other `HC-*`, `vs*.sh`, `1173a.sh`,
  which is `1173.sh` with two other random ranges, and `sigtest.001.c`, which has
  the chained handler of `sigtest.c` and not its signalfd): the original is modelled.
- The set-up of test beds (`HC/setup`, `1564/make_ns` and the like): loops of
  commands that look at nothing they change.
- `do_config`, `env` and `patch_env`: options handed on to `configure`, and shell
  functions for one user.  `patch_env` keeps a patch number and a branch, and each
  function checks what it needs of them just before it acts.
- `ping6_it()` and `recv6_it()` of `ping.c`, which `main()` never asks for, and what is
  compiled only with `_WITH_SO_MARK_` in `tcp_cnct_failure.c`.
- Of the programs that are modelled: logging and messages, the decoding of
  flag and register bits, and the texts of generated files, which appear as the
  addresses and settings in them.

## Plan

The theorems that come next:

1. `UdsSum`: `TypeOK` and `HurtOnlyByKill`, for any clients and backlog; and the
   `OneUser` of `FdPass`, which has one file offset and two users.
2. `HealthScript`: `StatusFiles`, for any number of checks.
3. `LinkBeat`: `SteadyAgrees`, with the latched bit as the inductive part.
4. `GetInput` and `RenameProcess`: their invariants, which are nearly inductive.
5. `FindChanges`: `InputsReady`, from the phases alone; what it compares is sorted
   by an operator that needs induction.
