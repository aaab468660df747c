----------------------------- MODULE GitBisect -----------------------------
(***************************************************************************)
(* git_bisect_reload: lets git bisect choose a commit, builds and starts   *)
(* it, changes the configuration with a patch, has it reload, and tells    *)
(* git whether the reload had an effect.  git, make and keepalived are     *)
(* external: any commit between the last good and the first bad one may be *)
(* chosen, some cannot be built, and a keepalived told to end may still be *)
(* there when the next is started, which it then prevents.                 *)
(***************************************************************************)
EXTENDS Naturals

CONSTANTS Commits,       \* the last commit; they are numbered from 0
          NUM_TRIES

VARIABLES first,         \* the first commit whose reload has no effect
          builds,        \* the commits that can be built
          good, bad,     \* git's bounds
          skipped, head, \* git's: skipped commits, and what is checked out
          tries, pc,
          binary,        \* the commit keepalived/keepalived was built from
          daemon,        \* the commit of the keepalived that runs, or None
          ending,        \* it has been told to end
          patched, status,
          stale          \* history: what was tried is not what is checked out

vars == <<first, builds, good, bad, skipped, head, tries, pc, binary, daemon, ending, patched,
          status, stale>>

None == Commits + 1

TypeOK ==
  /\ good \in 0..Commits /\ bad \in 0..Commits /\ skipped \subseteq 0..Commits
  /\ head \in 0..Commits /\ binary \in 0..None /\ daemon \in 0..None
  /\ tries \in 0..NUM_TRIES /\ {patched, ending} \subseteq BOOLEAN /\ status \in {"none", "good", "bad"}
  /\ pc \in {"build", "start", "ps", "patch", "reload", "unpatch", "tell", "done"}

\* git's choice: when none is left, the checkout stays.
Choice(g, b, s) == {c \in (g + 1)..(b - 1) : c \notin s}
CheckOut(g, b, s) ==
  IF Choice(g, b, s) = {} THEN head' = head ELSE head' \in Choice(g, b, s)

\* git bisect start, with the ends of the range: 0 is good, Commits is bad.
Init ==
  /\ first \in 1..Commits /\ builds \in SUBSET (0..Commits)
  /\ good = 0 /\ bad = Commits /\ skipped = {}
  /\ head \in IF Choice(0, Commits, {}) = {} THEN {0} ELSE Choice(0, Commits, {})
  /\ tries = 0 /\ pc = "build" /\ binary = None /\ daemon = None /\ ending = FALSE /\ patched = FALSE
  /\ status = "none" /\ stale = FALSE

Git == <<first, builds, good, bad, skipped, head>>

\* Whether make succeeded is not looked at.
Build ==
  /\ pc = "build" /\ tries < NUM_TRIES /\ tries' = tries + 1 /\ pc' = "start"
  /\ binary' = IF head \in builds THEN head ELSE binary
  /\ UNCHANGED <<Git, daemon, ending, patched, status, stale>>

\* Nothing is started of what was never built, or beside another.
Start ==
  /\ pc = "start" /\ pc' = "ps"
  /\ IF daemon = None THEN daemon' = binary /\ ending' = FALSE ELSE UNCHANGED <<daemon, ending>>
  /\ UNCHANGED <<Git, tries, binary, patched, status, stale>>

\* Mutant: the commit is called good when nothing runs.
PsGood ==
  /\ pc = "ps"
  /\ IF daemon # None THEN pc' = "patch" /\ UNCHANGED status ELSE pc' = "tell" /\ status' = "good"
  /\ stale' = (stale \/ (daemon # None /\ (daemon # head \/ ending)))
  /\ UNCHANGED <<Git, tries, binary, daemon, ending, patched>>

\* ps -ef | grep keepalived; git bisect skip
Ps ==
  /\ pc = "ps"
  /\ IF daemon # None THEN pc' = "patch" /\ UNCHANGED <<skipped, head>>
     ELSE /\ pc' = "build" /\ skipped' = skipped \cup {head}
          /\ CheckOut(good, bad, skipped')
  /\ stale' = (stale \/ (daemon # None /\ (daemon # head \/ ending)))
  /\ UNCHANGED <<first, builds, good, bad, tries, binary, daemon, ending, patched, status>>

Patch ==
  /\ pc = "patch" /\ pc' = "reload" /\ patched' = TRUE
  /\ UNCHANGED <<Git, tries, binary, daemon, ending, status, stale>>

\* k low HUP, with ipvsadm before and after, which also agree when keepalived is
\* gone; then k low.
Reload ==
  /\ pc = "reload" /\ pc' = "unpatch" /\ ending' = TRUE
  /\ status' = IF daemon >= first THEN "bad" ELSE "good"
  /\ UNCHANGED <<Git, tries, binary, daemon, patched, stale>>

Unpatch ==
  /\ pc = "unpatch" /\ pc' = "tell" /\ patched' = FALSE
  /\ UNCHANGED <<Git, tries, binary, daemon, ending, status, stale>>

\* git bisect $status, as root (sudo -p is a prompt), which git takes all the same.
Tell ==
  /\ pc = "tell" /\ pc' = "build"
  /\ good' = IF status = "good" THEN head ELSE good
  /\ bad' = IF status = "bad" THEN head ELSE bad
  /\ CheckOut(good', bad', skipped)
  /\ UNCHANGED <<first, builds, skipped, tries, binary, daemon, ending, patched, status, stale>>

Done ==
  /\ pc = "build" /\ tries = NUM_TRIES /\ pc' = "done"
  /\ UNCHANGED <<Git, tries, binary, daemon, ending, patched, status, stale>>

\* The keepalived that was told to end does.
Exits ==
  /\ daemon # None /\ ending /\ daemon' = None
  /\ UNCHANGED <<Git, tries, pc, binary, ending, patched, status, stale>>

Next == Build \/ Start \/ Ps \/ Patch \/ Reload \/ Unpatch \/ Tell \/ Done \/ Exits

-----------------------------------------------------------------------------
\* The first bad commit stays between git's bounds, whichever commits cannot be
\* built at all, unless an older build was tried in the place of one that
\* failed or a keepalived was still there (git_bisect_reload 32-42, 53-62); and
\* a commit is built and tried with the configuration as it was.
Brackets ==
  /\ TypeOK
  /\ ~stale => good < first /\ first <= bad
  /\ pc \in {"build", "start", "ps"} => ~patched
=============================================================================
