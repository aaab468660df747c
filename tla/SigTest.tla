------------------------------ MODULE SigTest ------------------------------
(***************************************************************************)
(* code_test/sigtest.c: a program that puts its own handler in front of    *)
(* the handlers glibc keeps for SIGCANCEL and SIGSETXID, logs each of the  *)
(* signals and passes it on.  Built alone (without USE_SIGNAL_FD) it       *)
(* installs sig_handler(); built into keepalived (with it) it blocks the   *)
(* signals and takes them from keepalived's signalfd.  The builds differ   *)
(* only in what follows the two save_signal(), where the model chooses.    *)
(*                                                                         *)
(* glibc's handler is external: it acts only on a signal that its own      *)
(* process sent with tgkill().  The signals are real-time ones, so the     *)
(* kernel queues them.  A signal can arrive between any two steps, and the *)
(* two handlers can interrupt one another, though not themselves.  The     *)
(* logging of sig_handler() is left out, but for the time it takes.        *)
(***************************************************************************)
EXTENDS Integers, Sequences

CONSTANTS Builds,     \* with USE_SIGNAL_FD (TRUE) or without
          Origs,      \* what the signals' actions may be when main() starts
          MaxSent     \* bound: signals sent

ASSUME ConstantsAssumption ==
  /\ Builds \subseteq BOOLEAN
  /\ Origs \subseteq {"nptl", "DFL", "IGN"}
  /\ MaxSent \in Nat

Signals == {"SIGCANCEL", "SIGSETXID"}
Nth(k) == IF k = 1 THEN "SIGCANCEL" ELSE "SIGSETXID"

\* The siginfo fields glibc looks at: si_code, and whether si_pid is our own.
\* For a timer si_pid is other data, so it may look like our own.
Info == [code : {"TKILL", "USER", "TIMER"}, own : BOOLEAN]
Acts(info) == info.code = "TKILL" /\ info.own

VARIABLES
  orig,       \* the kernel's action for each signal when main() starts
  handler,    \* ... and now
  blocked,    \* the signals blocked by our_sigprocmask()
  registered, \* the signals given to signal_set()
  pending,    \* the signals queued by the kernel: by signal, a sequence of Info
  act,        \* act_cancel and act_setxid: k_sa_action
  sav,        \* set_action()'s sav_action
  at, k,      \* where main() is, and for which signal
  frames,     \* the handlers running, the innermost last
  sent,       \* history: signals sent and not discarded by the kernel
  seen,       \* history: what glibc's handler was called with
  lost,       \* history: signals the kernel discarded
  dead        \* how the process died, "no" if it has not

kernel == <<handler, blocked, registered>>
main_ == <<act, sav, at, k>>
history == <<sent, seen, lost>>
vars == <<orig, handler, blocked, registered, pending, act, sav, at, k, frames,
          sent, seen, lost, dead>>

-----------------------------------------------------------------------------
(* The signals. *)

\* sigtest_kill.c, or a thread of our own process.
Send(s, info) ==
  /\ dead = "no" /\ at # "end"
  /\ Len(sent["SIGCANCEL"]) + Len(sent["SIGSETXID"]) + lost < MaxSent
  /\ pending' = [pending EXCEPT ![s] = Append(@, info)]
  /\ sent' = [sent EXCEPT ![s] = Append(@, info)]
  /\ UNCHANGED <<orig, kernel, main_, frames, seen, lost, dead>>

Running(s) == \E n \in 1..Len(frames) : frames[n].sig = s

\* The kernel takes a signal from its queue and does what its action says.
Deliver(s) ==
  /\ dead = "no" /\ at # "end"
  /\ pending[s] # <<>> /\ s \notin blocked /\ ~Running(s)
  /\ pending' = [pending EXCEPT ![s] = Tail(@)]
  /\ \/ /\ handler[s] = "nptl"
        /\ seen' = [seen EXCEPT ![s] = Append(@, Head(pending[s]))]
        /\ UNCHANGED <<frames, at, dead>>
     \/ /\ handler[s] = "DFL" /\ dead' = "default"
        /\ UNCHANGED <<frames, seen, at>>
     \/ /\ handler[s] = "IGN"
        /\ UNCHANGED <<frames, seen, at, dead>>
     \/ /\ handler[s] = "sig_handler"
        /\ frames' = Append(frames, [sig |-> s, info |-> Head(pending[s])])
        /\ at' = IF at = "sleep" THEN "woken" ELSE at
        /\ UNCHANGED <<seen, dead>>
     \/ /\ handler[s] = "sig_handler" /\ orig[s] # "nptl"   \* no SA_RESTORER
        /\ dead' = "noframe"
        /\ UNCHANGED <<frames, seen, at>>
  /\ UNCHANGED <<orig, kernel, act, sav, k, sent, lost>>

\* signal_chain(): no chained function for SIG_DFL, glibc's handler, the call
\* of SIG_IGN's address, or sig_handler() calling itself without end.
signal_chain(s, info) ==
  \/ act[s] = "DFL" /\ UNCHANGED <<seen, dead>>
  \/ act[s] = "nptl" /\ seen' = [seen EXCEPT ![s] = Append(@, info)] /\ UNCHANGED dead
  \/ act[s] = "IGN" /\ dead' = "badcall" /\ UNCHANGED seen
  \/ act[s] = "sig_handler" /\ dead' = "overflow" /\ UNCHANGED seen

\* Mutant: the handler returns without calling signal_chain().
sig_handler_unchained ==
  /\ dead = "no" /\ frames # <<>>
  /\ frames' = SubSeq(frames, 1, Len(frames) - 1)
  /\ UNCHANGED <<orig, kernel, pending, main_, history, dead>>

\* The innermost sig_handler() has logged, chains and returns.
sig_handler ==
  /\ dead = "no" /\ frames # <<>>
  /\ signal_chain(frames[Len(frames)].sig, frames[Len(frames)].info)
  /\ frames' = SubSeq(frames, 1, Len(frames) - 1)
  /\ UNCHANGED <<orig, kernel, pending, main_, sent, lost>>

-----------------------------------------------------------------------------
(* main(), in either build. *)

Main(a) == dead = "no" /\ frames = <<>> /\ at = a /\ UNCHANGED <<orig, frames>>

\* Go on with the second signal at a, or with the first at b.
Then(a, b) == IF k = 1 THEN at' = a /\ k' = 2 ELSE at' = b /\ k' = 1

save_signal ==
  /\ Main("save")
  /\ act' = [act EXCEPT ![Nth(k)] = handler[Nth(k)]]
  /\ \E fd \in Builds : Then("save", IF fd THEN "set" ELSE "assign")
  /\ UNCHANGED <<kernel, pending, sav, history, dead>>

\* set_action(): act is lent to the system call with the new action in it.
SetAction ==
  /\ Main("assign")
  /\ sav' = act[Nth(k)]
  /\ act' = [act EXCEPT ![Nth(k)] = "sig_handler"]
  /\ at' = "install"
  /\ UNCHANGED <<kernel, pending, k, history, dead>>

Install ==
  /\ Main("install")
  /\ handler' = [handler EXCEPT ![Nth(k)] = act[Nth(k)]]
  /\ at' = "restore"
  /\ UNCHANGED <<blocked, registered, pending, act, sav, k, history, dead>>

\* Mutant: act keeps the new action.
RestoreActionNot ==
  /\ Main("restore")
  /\ Then("assign", "sleep")
  /\ UNCHANGED <<kernel, pending, act, sav, history, dead>>

RestoreAction ==
  /\ Main("restore")
  /\ act' = [act EXCEPT ![Nth(k)] = sav]
  /\ Then("assign", "sleep")
  /\ UNCHANGED <<kernel, pending, sav, history, dead>>

\* sleep() returns after 20 seconds, or when a handler has run.
SleepReturns ==
  /\ \E a \in {"sleep", "woken"} : Main(a)
  /\ at' = "end"
  /\ UNCHANGED <<kernel, pending, act, sav, k, history, dead>>

-----------------------------------------------------------------------------
(* restore_nptl_intercept(), and keepalived's scheduler. *)

signal_set ==
  /\ Main("set")
  /\ registered' = IF act[Nth(k)] \in {"IGN", "DFL"} THEN registered
                   ELSE registered \cup {Nth(k)}
  /\ Then("set", "block")
  /\ UNCHANGED <<handler, blocked, pending, act, sav, history, dead>>

\* Mutant: only SIGCANCEL is added to the set.
our_sigprocmask_one ==
  /\ Main("block")
  /\ blocked' = blocked \cup (registered \cap {"SIGCANCEL"})
  /\ at' = "ignore"
  /\ UNCHANGED <<handler, registered, pending, act, sav, k, history, dead>>

our_sigprocmask ==
  /\ Main("block")
  /\ blocked' = blocked \cup registered
  /\ at' = "ignore"
  /\ UNCHANGED <<handler, registered, pending, act, sav, k, history, dead>>

\* our_sigaction(SIG_IGN): the kernel discards what it has queued.
Ignore ==
  /\ Main("ignore")
  /\ handler' = [handler EXCEPT ![Nth(k)] = "IGN"]
  /\ pending' = [pending EXCEPT ![Nth(k)] = <<>>]
  /\ sent' = [sent EXCEPT ![Nth(k)] = SubSeq(@, 1, Len(@) - Len(pending[Nth(k)]))]
  /\ lost' = lost + Len(pending[Nth(k)])
  /\ Then("ignore", "run")
  /\ UNCHANGED <<blocked, registered, act, sav, seen, dead>>

\* The siginfo_t made from the signalfd_siginfo: si_pid stays 0 for a timer.
Copied(info) == [code |-> info.code, own |-> info.own /\ info.code \in {"USER", "TKILL"}]

\* keepalived reads its signalfd and calls nptl_signal(), which calls
\* sig_handler().
nptl_signal(s) ==
  /\ Main("run")
  /\ s \in registered \cap blocked /\ pending[s] # <<>>
  /\ pending' = [pending EXCEPT ![s] = Tail(@)]
  /\ signal_chain(s, Copied(Head(pending[s])))
  /\ UNCHANGED <<kernel, main_, sent, lost>>

-----------------------------------------------------------------------------
Init ==
  /\ orig \in [Signals -> Origs]
  /\ handler = orig
  /\ blocked = {} /\ registered = {}
  /\ pending = [s \in Signals |-> <<>>]
  /\ act = [s \in Signals |-> "DFL"]
  /\ sav = "DFL"
  /\ at = "save" /\ k = 1
  /\ frames = <<>>
  /\ sent = [s \in Signals |-> <<>>] /\ seen = [s \in Signals |-> <<>>] /\ lost = 0
  /\ dead = "no"

main == save_signal \/ SetAction \/ Install \/ RestoreAction \/ SleepReturns

restore_nptl_intercept == signal_set \/ our_sigprocmask \/ Ignore

Next ==
  \/ \E s \in Signals : Deliver(s) \/ nptl_signal(s) \/ \E info \in Info : Send(s, info)
  \/ sig_handler \/ main \/ restore_nptl_intercept

Spec == Init /\ [][Next]_vars

-----------------------------------------------------------------------------
(* Properties. *)

ActsOn(q) == [n \in 1..Len(q) |-> Acts(q[n])]

InHandler(s) ==
  IF \E n \in 1..Len(frames) : frames[n].sig = s
  THEN <<(CHOOSE f \in {frames[n] : n \in 1..Len(frames)} : f.sig = s).info>>
  ELSE <<>>

\* Every variable has its type; no handler ever interrupts itself.
TypeOK ==
  /\ handler \in [Signals -> {"nptl", "DFL", "IGN", "sig_handler"}]
  /\ act \in [Signals -> {"nptl", "DFL", "IGN", "sig_handler"}]
  /\ blocked \subseteq Signals /\ registered \subseteq Signals
  /\ at \in {"save", "assign", "install", "restore", "sleep", "woken", "end",
             "set", "block", "ignore", "run"}
  /\ k \in {1, 2}
  /\ lost \in 0..MaxSent
  /\ dead \in {"no", "default", "noframe", "badcall", "overflow"}
  /\ \A m, n \in 1..Len(frames) : frames[m].sig = frames[n].sig => m = n

\* glibc's handler misses nothing and sees nothing twice: what was sent is what
\* it has been called with, what sig_handler() still holds and what the kernel
\* has queued, in that order and with the fields glibc acts on unharmed.
Transparent ==
  \A s \in Signals : orig[s] = "nptl" /\ dead = "no" =>
    ActsOn(sent[s]) = ActsOn(seen[s] \o InHandler(s) \o pending[s])

\* With glibc's handlers there to be chained to, a signal kills the process
\* only if it comes between the sigaction() of set_action() and the statement
\* after it that puts act back (190-195).
DiesOnlyInWindow ==
  dead # "no" /\ (\A s \in Signals : orig[s] = "nptl") => dead = "overflow" /\ at = "restore"

\* What holds between any two instructions: the types, that no handler
\* interrupts itself, and that only the one window is fatal (190-195).
Inv == TypeOK /\ DiesOnlyInWindow

\* Once restore_nptl_intercept() is done, no signal is discarded: one of
\* glibc's leaves the kernel's queue only to be passed to glibc's handler.
NoLossOnceSet ==
  [][at = "run" => \A s \in Signals : orig[s] = "nptl" /\ Len(pending'[s]) < Len(pending[s])
                     => Len(seen'[s]) = Len(seen[s]) + 1]_vars
=============================================================================
