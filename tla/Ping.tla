-------------------------------- MODULE Ping --------------------------------
(***************************************************************************)
(* code_test/ping.c: once a second an echo request is sent from a socket   *)
(* opened for it, and the reply is waited for.  The kernel gives the       *)
(* socket an identifier that may have been another's, by which replies are *)
(* handed to it; the sequence number is always 1, and is not looked at.    *)
(* The network may lose what is sent, deliver it twice, or deliver it      *)
(* late.  main() asks for AF_INET only, so ping6_it() is not reached.      *)
(***************************************************************************)
EXTENDS Naturals, Sequences

CONSTANTS Ids,       \* the identifiers of sockets
          Failures   \* socket(), sendto() and recv() may fail, and the network may lose

VARIABLES pc,        \* "socket", "ping", "recv", "sleep" or "exited"
          fd,        \* the identifier of the open socket, NoId if there is none
          flight,    \* the replies on their way; own: to this run's request
          inbox,     \* the replies that wait at the socket, as own or not
          late,      \* history: a reply came twice, or recv() failed
          result     \* whether the reply that recv_it() took is this run's

vars == <<pc, fd, flight, inbox, late, result>>

NoId == "no id"
Replies == [id : Ids, own : BOOLEAN]

TypeOK ==
  /\ pc \in {"socket", "ping", "recv", "sleep", "exited"}
  /\ fd \in Ids \cup {NoId} /\ inbox \in Seq(BOOLEAN) /\ flight \subseteq Replies
  /\ late \in BOOLEAN /\ result \in {"none", "own", "other"}

Init ==
  /\ pc = "socket" /\ fd = NoId /\ flight = {} /\ inbox = <<>>
  /\ late = FALSE /\ result = "none"

\* one_run: no socket, no run.
one_run ==
  /\ pc = "socket"
  /\ \/ \E id \in Ids : fd' = id /\ pc' = "ping"
     \/ Failures /\ pc' = "exited" /\ UNCHANGED fd
  /\ UNCHANGED <<flight, inbox, late, result>>

\* Whether the request could be sent is returned, and not looked at.
ping_it ==
  /\ pc = "ping" /\ pc' = "recv"
  /\ flight' = flight \cup {[id |-> fd, own |-> TRUE]} \/ (Failures /\ UNCHANGED flight)
  /\ UNCHANGED <<fd, inbox, late, result>>

Taken(r) == result' = r /\ pc' = "sleep" /\ fd' = NoId /\ inbox' = <<>>

\* Mutant: a run does not wait for a reply.
recv_it_now ==
  /\ pc = "recv"
  /\ Taken(IF inbox = <<>> THEN "none" ELSE IF Head(inbox) THEN "own" ELSE "other")
  /\ UNCHANGED <<flight, late>>

\* recv() blocks until there is a reply; then the socket is closed.
recv_it ==
  /\ pc = "recv" /\ inbox # <<>>
  /\ Taken(IF Head(inbox) THEN "own" ELSE "other")
  /\ UNCHANGED <<flight, late>>

\* recv() fails: the socket is closed all the same.
recv_fails ==
  /\ pc = "recv" /\ Failures
  /\ Taken("none") /\ late' = TRUE
  /\ UNCHANGED flight

\* The next run, to which no reply on its way belongs.
main ==
  /\ pc = "sleep" /\ pc' = "socket" /\ result' = "none"
  /\ flight' = {[m EXCEPT !.own = FALSE] : m \in flight}
  /\ UNCHANGED <<fd, inbox, late>>

Program == one_run \/ ping_it \/ recv_it \/ main

\* The network delivers a reply, once (bound) twice, or loses it.
Arrives(m) ==
  /\ \/ flight' = flight \ {m} /\ UNCHANGED late
     \/ ~late /\ late' = TRUE /\ UNCHANGED flight
  /\ inbox' = IF m.id = fd THEN Append(inbox, m.own) ELSE inbox
  /\ UNCHANGED <<pc, fd, result>>

Loses(m) ==
  /\ Failures /\ flight' = flight \ {m}
  /\ UNCHANGED <<pc, fd, inbox, late, result>>

Delivery == \E m \in flight : Arrives(m)

Next == Program \/ recv_fails \/ Delivery \/ \E m \in flight : Loses(m)

-----------------------------------------------------------------------------
\* A run takes the reply to an earlier request for its own only after one has
\* come twice or recv() has failed: neither identifier nor sequence number is
\* compared, but a run ends only with its reply (ping.c 63-79, 149-150).
OwnReply == result = "other" => late

\* recv() waits, and no reply is there or on its way.
Stranded == pc = "recv" /\ inbox = <<>> /\ \A m \in flight : m.id # fd

\* Runs follow each other for ever, unless a socket is refused, or a run waits for
\* ever for a reply that will not come: there is no timeout, and a request that
\* could not be sent is waited for too (45-51, 63, 149-150, 163).
RunsOn == []<>(pc = "socket") \/ <>(pc = "exited") \/ <>[]Stranded
=============================================================================
