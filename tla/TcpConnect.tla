----------------------------- MODULE TcpConnect -----------------------------
(***************************************************************************)
(* code_test/tcp_cnct_failure.c: one attempt to connect to an address,     *)
(* perhaps through a device, and its classification.  One step is one      *)
(* system call; a message written to stderr is one, and when it cannot be  *)
(* written it changes errno.                                               *)
(***************************************************************************)
EXTENDS Naturals

VARIABLES addr,     \* the address given: IPv4 or IPv6 or neither
          iface,    \* the device given: "none", "up" or "missing"
          pc,
          family,   \* addr.ss_family
          ret,      \* of connect(): "0", or the error that it gave
          errno,    \* as socket_bind_connect() reads it
          result    \* what is returned

vars == <<addr, iface, pc, family, ret, errno, result>>

Errors == {"EINPROGRESS", "ECONNREFUSED", "ENETUNREACH"}

TypeOK ==
  /\ family \in {"none", "AF_INET", "AF_INET6", "AF_UNSPEC"}
  /\ pc \in {"start", "socket", "device", "connect", "report", "classify", "done"}
  /\ result \in {"none", "connect_error", "connect_in_progress", "connect_success"}

Init ==
  /\ addr \in [colon : BOOLEAN, valid : BOOLEAN] /\ iface \in {"none", "up", "missing"}
  /\ pc = "start" /\ family = "none" /\ ret = "0" /\ errno = "0" /\ result = "none"

Return(r) == result' = r /\ pc' = "done"

inet_stosockaddr ==
  /\ pc = "start" /\ pc' = "socket"
  /\ family' = IF ~addr.valid THEN "AF_UNSPEC" ELSE IF addr.colon THEN "AF_INET6" ELSE "AF_INET"
  /\ UNCHANGED <<addr, iface, ret, errno, result>>

\* That the address was not valid is returned and not looked at: no socket
\* can be made of AF_UNSPEC.
Socket ==
  /\ pc = "socket"
  /\ \/ family # "AF_UNSPEC" /\ pc' = "device" /\ UNCHANGED result
     \/ Return("connect_error")
  /\ UNCHANGED <<addr, iface, family, ret, errno>>

BindToDevice ==
  /\ pc = "device"
  /\ \/ iface # "missing" /\ pc' = "connect" /\ UNCHANGED result
     \/ iface # "none" /\ Return("connect_error")
  /\ UNCHANGED <<addr, iface, family, ret, errno>>

Connect ==
  /\ pc = "connect"
  /\ \/ ret' = "0" /\ Return("connect_success") /\ UNCHANGED errno
     \/ \E e \in Errors : ret' = e /\ errno' = e /\ pc' = "report" /\ UNCHANGED result
  /\ UNCHANGED <<addr, iface, family>>

\* fprintf(stderr, ...), which comes before errno is looked at.
Report ==
  /\ pc = "report" /\ pc' = "classify" /\ errno' \in {errno, "EBADF"}
  /\ UNCHANGED <<addr, iface, family, ret, result>>

\* Mutant: every error counts as progress.
ClassifyAny ==
  /\ pc = "classify" /\ Return("connect_in_progress")
  /\ UNCHANGED <<addr, iface, family, ret, errno>>

Classify ==
  /\ pc = "classify"
  /\ Return(IF errno # "EINPROGRESS" THEN "connect_error" ELSE "connect_in_progress")
  /\ UNCHANGED <<addr, iface, family, ret, errno>>

socket_bind_connect == Socket \/ BindToDevice \/ Connect \/ Report \/ Classify

Next == inet_stosockaddr \/ socket_bind_connect

-----------------------------------------------------------------------------
\* An attempt is said to be in progress only if it is, and to have succeeded
\* only if it has; one in progress is said to have failed only if the message
\* about it could not be written and left its own errno (108-121).
SaidAsItIs ==
  /\ result = "connect_in_progress" => ret = "EINPROGRESS"
  /\ result = "connect_success" => ret = "0" /\ addr.valid
  /\ result = "connect_error" /\ ret = "EINPROGRESS" => errno = "EBADF"
=============================================================================
