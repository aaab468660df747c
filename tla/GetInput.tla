------------------------------ MODULE GetInput ------------------------------
(***************************************************************************)
(* code_test/read_term_no_echo.c: getinput() reads a line from a terminal  *)
(* whose echo it turns off, with a handler of its own for SIGINT, and then *)
(* puts the echo and the handler back and passes an interrupt on.          *)
(*                                                                         *)
(* SIGINT may arrive between any two statements.  signal() asks for calls  *)
(* to be restarted, so a getchar() that waits goes on waiting after it.    *)
(* main() has no handler: SIGINT then ends the program; a caller that has  *)
(* one, or ignores SIGINT, is covered too.  The ioctl() calls fail where   *)
(* the input is no terminal; one that had its echo turned off takes the    *)
(* last of them.                                                           *)
(***************************************************************************)
EXTENDS Naturals

CONSTANTS
  InputSize,       \* sizeof(input)
  MaxTyped         \* bound on the characters before the end of the line

VARIABLES
  at,              \* the statement that is next
  handler,         \* who has SIGINT: "default", "ignore", "caller" or "interrupt"
  sig,             \* what signal() returned
  echo,            \* the terminal echoes
  ctl_c,
  i,               \* the index into input
  terminator,      \* the index of the final zero, once it is written
  typed,           \* history: the characters read
  owed,            \* history: SIGINT came while the handler was interrupt()
  told             \* history: the caller's handler ran

vars == <<at, handler, sig, echo, ctl_c, i, terminator, typed, owed, told>>

Unwritten == InputSize + 1

Init ==
  /\ at = "entry"
  /\ handler \in {"default", "ignore", "caller"}
  /\ sig = "default" /\ echo = TRUE /\ ctl_c = 0 /\ i = 0 /\ terminator = Unwritten
  /\ typed = 0 /\ owed = FALSE /\ told = FALSE

\* ctl_c = 0; sig = signal(SIGINT, interrupt).  ctl_c is 0 at the only call.
Enter ==
  /\ at = "entry" /\ at' = "noecho"
  /\ sig' = handler /\ handler' = "interrupt" /\ ctl_c' = 0
  /\ UNCHANGED <<echo, i, terminator, typed, owed, told>>

EchoOff ==
  /\ at = "noecho" /\ at' = "loop"
  /\ echo' \in BOOLEAN
  /\ UNCHANGED <<handler, sig, ctl_c, i, terminator, typed, owed, told>>

\* The loop looks at ctl_c, and only then waits in getchar_unlocked().
Test ==
  /\ at = "loop"
  /\ at' = IF ctl_c = 0 THEN "wait" ELSE "end"
  /\ UNCHANGED <<handler, sig, echo, ctl_c, i, terminator, typed, owed, told>>

Character ==
  /\ at = "wait" /\ at' = "loop" /\ typed < MaxTyped
  /\ typed' = typed + 1
  /\ i' = IF i < InputSize THEN i + 1 ELSE i
  /\ UNCHANGED <<handler, sig, echo, ctl_c, terminator, owed, told>>

\* A newline, a carriage return or the end of the file.
EndOfLine ==
  /\ at = "wait" /\ at' = "end"
  /\ UNCHANGED <<handler, sig, echo, ctl_c, i, terminator, typed, owed, told>>

Terminate ==
  /\ at = "end" /\ at' = "echo"
  /\ terminator' = i
  /\ UNCHANGED <<handler, sig, echo, ctl_c, i, typed, owed, told>>

EchoBack ==
  /\ at = "echo" /\ at' = "signal"
  /\ echo' = TRUE
  /\ UNCHANGED <<handler, sig, ctl_c, i, terminator, typed, owed, told>>

SignalBack ==
  /\ at = "signal" /\ at' = "kill"
  /\ handler' = sig
  /\ UNCHANGED <<sig, echo, ctl_c, i, terminator, typed, owed, told>>

\* A signal that is delivered does what its handler does.
Deliver(next) ==
  /\ at' = IF handler = "default" THEN "dead" ELSE next
  /\ ctl_c' = IF handler = "interrupt" THEN 1 ELSE ctl_c
  /\ owed' = (owed \/ handler = "interrupt")
  /\ told' = (told \/ handler = "caller")

\* if (ctl_c == 1) kill(getpid(), SIGINT), and the return.
PassOn ==
  /\ at = "kill"
  /\ \/ ctl_c = 1 /\ Deliver("returned")
     \/ ctl_c # 1 /\ at' = "returned" /\ UNCHANGED <<ctl_c, owed, told>>
  /\ UNCHANGED <<handler, sig, echo, i, terminator, typed>>

\* ^C at the terminal, at any moment of the call.
Interrupt ==
  /\ at \notin {"returned", "dead"}
  /\ Deliver(at)
  /\ UNCHANGED <<handler, sig, echo, i, terminator, typed>>

Next == \/ Enter \/ EchoOff \/ Test \/ Character \/ EndOfLine \/ Terminate
        \/ EchoBack \/ SignalBack \/ PassOn \/ Interrupt

Spec == Init /\ [][Next]_vars

-----------------------------------------------------------------------------
TypeOK ==
  /\ at \in {"entry", "noecho", "loop", "wait", "end", "echo", "signal", "kill", "returned", "dead"}
  /\ handler \in {"default", "ignore", "caller", "interrupt"}
  /\ sig \in {"default", "ignore", "caller"}
  /\ echo \in BOOLEAN /\ ctl_c \in 0..1
  /\ i \in 0..InputSize /\ terminator \in 0..Unwritten /\ typed \in 0..MaxTyped
  /\ owed \in BOOLEAN /\ told \in BOOLEAN

\* However the call ends, by its return or by an interrupt that ends the
\* program, the terminal echoes again.
EchoIsBack == at \in {"returned", "dead"} => echo

\* An interrupt that getinput() took is passed on once the caller has its
\* handler back, even one that came after the loop (lines 20-23); and the
\* program ends of one only if the caller had no handler and did not ignore it.
InterruptPassedOn ==
  /\ at \in {"kill", "returned", "dead"} => handler = sig
  /\ at = "returned" /\ owed => told \/ sig = "ignore"
  /\ at = "dead" => handler = "default"

\* The line is ended by a zero after what was stored of it, which is inside
\* the buffer unless the line fills it (lines 50-55).
EndedInside == at = "returned" /\ typed < InputSize => terminator = typed

Inv == TypeOK /\ EchoIsBack /\ InterruptPassedOn /\ EndedInside
=============================================================================
