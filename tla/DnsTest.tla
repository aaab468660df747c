------------------------------ MODULE DnsTest ------------------------------
(***************************************************************************)
(* code_test/dns_test.c: DNS queries sent to an IPVS virtual server, one   *)
(* from a socket that is kept and then a few from sockets of their own, in *)
(* every round.  IPVS keeps a connection from each source port to a real   *)
(* server; a query on a connection whose real server was removed is lost   *)
(* until the connection expires.                                           *)
(*                                                                         *)
(* The ports are the kept socket's and those of the other sockets.  An     *)
(* answer goes to the port the query came from, and is own if it is that   *)
(* to the last query.  Queries and answers may be lost, come late, and     *)
(* come twice; they are dropped at a port where no socket is open, and     *)
(* wait otherwise in its receive buffer.                                   *)
(***************************************************************************)
EXTENDS Naturals, Sequences, FiniteSets

CONSTANTS Servers,     \* the real servers
          Ports,       \* the source ports of the sockets that are not kept
          Kept,        \* local_port, of the one that is
          Queries,     \* queries_per_loop and iter when no option sets them
          Iter,
          Args,        \* the numbers given with options
          MaxOpts,     \* bound: options given
          MaxRemoved,  \* bound: real servers removed
          Failures     \* socket(), sendto() and recvfrom() may fail

ASSUME DnsAssumption ==
  /\ Kept \notin Ports /\ Ports # {}
  /\ Queries \in Nat /\ Iter \in Nat /\ Args \subseteq Nat
  /\ MaxOpts \in Nat /\ MaxRemoved \in Nat

VARIABLES opts,        \* the options given
          optind,      \* the next of them
          queries_per_loop, local_port,
          pc,          \* "options", "open", "send", "recv", "round" or "ended"
          fd,          \* the port of the kept socket, NoFd before it is opened
          cur,         \* the port of the socket in use, NoFd if none
          i, iter,     \* the loop variables of main
          flight,      \* the answers on their way
          up,          \* the real servers IPVS uses
          conn,        \* source port -> real server, or NoServer
          inbox,       \* source port -> the answers that wait, as own or not
          late,        \* an answer came twice, or recvfrom() failed (bound: once)
          last         \* what the last do_query came to

optVars == <<opts, optind, queries_per_loop, local_port>>
vars == <<optVars, pc, fd, cur, i, iter, flight, up, conn, inbox, late, last>>
netVars == <<up, conn, flight>>

NoFd == "no fd"
NotSocket == "not a socket"
NoServer == "no server"
AllPorts == Ports \cup {Kept}
Answers == [port : AllPorts, own : BOOLEAN]

TypeOK ==
  /\ optind \in 1..(MaxOpts + 1) /\ queries_per_loop \in Args \cup {Queries}
  /\ pc \in {"options", "open", "send", "recv", "round", "ended"}
  /\ fd \in {Kept, NoFd, NotSocket} /\ cur \in AllPorts \cup {NoFd, NotSocket}
  /\ i \in Nat /\ (i = 0 \/ i < queries_per_loop) /\ iter \in Nat
  /\ up \subseteq Servers /\ conn \in [AllPorts -> Servers \cup {NoServer}]
  /\ flight \subseteq Answers /\ inbox \in [AllPorts -> Seq(BOOLEAN)] /\ late \in BOOLEAN
  /\ last \in {"none", "failed", "stale", "answered"}

\* Of an address given with -s, the argument is its first number, or Bad; the
\* port that -p gives is 0, for none.
Bad == 99
Options == [opt : {"c", "i"}, arg : Args] \cup [opt : {"s"}, arg : Args \cup {Bad}]
             \cup [opt : {"p", "H"}, arg : {0}]

Init ==
  /\ opts \in UNION {[1..n -> Options] : n \in 0..MaxOpts}
  /\ optind = 1 /\ queries_per_loop = Queries /\ local_port = 50000
  /\ pc = "options" /\ fd = NoFd /\ cur = NoFd /\ i = 0 /\ iter = Iter /\ flight = {}
  /\ up = Servers /\ conn = [p \in AllPorts |-> NoServer]
  /\ inbox = [p \in AllPorts |-> <<>>] /\ late = FALSE /\ last = "none"

(***************************************************************************)
(* IPVS: a real server is removed while another is left; an idle           *)
(* connection expires.  The network: an answer arrives, and may come once  *)
(* more, or is lost.                                                       *)
(***************************************************************************)
Remove(s) ==
  /\ s \in up /\ Cardinality(up) > 1 /\ Cardinality(Servers \ up) < MaxRemoved
  /\ up' = up \ {s}
  /\ UNCHANGED <<optVars, pc, fd, cur, i, iter, flight, conn, inbox, late, last>>

Expire(p) ==
  /\ conn[p] # NoServer /\ conn' = [conn EXCEPT ![p] = NoServer]
  /\ UNCHANGED <<optVars, pc, fd, cur, i, iter, flight, up, inbox, late, last>>

IsOpen(p) == p \in {fd, cur}

Arrives(m) ==
  /\ inbox' = IF IsOpen(m.port) THEN [inbox EXCEPT ![m.port] = Append(@, m.own)] ELSE inbox
  /\ \/ flight' = flight \ {m} /\ UNCHANGED late
     \/ ~late /\ late' = TRUE /\ UNCHANGED flight
  /\ UNCHANGED <<optVars, pc, fd, cur, i, iter, up, conn, last>>

Loses(m) ==
  /\ flight' = flight \ {m}
  /\ UNCHANGED <<optVars, pc, fd, cur, i, iter, up, conn, inbox, late, last>>

\* The server a query from port p goes to.
Reaches(p, s) == IF conn[p] = NoServer THEN s \in up ELSE s = conn[p]

-----------------------------------------------------------------------------
\* One turn of the getopt() loop, where the options counts set queries_per_loop
\* and those of unknown, like a bad address and -H, end the program.
GetOpt(counts, unknown) ==
  /\ pc = "options" /\ optind <= Len(opts)
  /\ LET o == opts[optind] IN
       IF o.opt \in unknown \cup {"H"} \/ o.arg = Bad
       THEN pc' = "ended" /\ UNCHANGED <<queries_per_loop, iter, local_port>>
       ELSE /\ queries_per_loop' = IF o.opt \in counts THEN o.arg ELSE queries_per_loop
            /\ iter' = IF o.opt = "i" THEN o.arg ELSE iter
            /\ local_port' = IF o.opt = "p" THEN o.arg ELSE local_port
            /\ UNCHANGED pc
  /\ optind' = optind + 1
  /\ UNCHANGED <<netVars, opts, fd, cur, i, inbox, late, last>>

getopt == GetOpt({"c"}, {})

Parsed == pc = "options" /\ optind > Len(opts)

\* The loop of main starts; the options are done with.
Begin ==
  /\ Parsed /\ pc' = "open" /\ opts' = <<>> /\ optind' = 1
  /\ UNCHANGED <<netVars, queries_per_loop, local_port, fd, cur, i, iter, inbox, late, last>>

\* Where the socket of this query is the kept one: the first of a round.
First == i = 0

\* do_query returns: main closes the socket unless it is the kept one.
Finished(how) ==
  /\ last' = how
  /\ cur' = NoFd
  /\ IF i + 1 < queries_per_loop THEN i' = i + 1 /\ pc' = "open"
                        ELSE i' = 0 /\ pc' = "round"

\* The kept socket is opened when it is not open yet, the others every time;
\* a failed bind leaves the kept socket a port of its own all the same.
Open ==
  /\ pc = "open"
  /\ \/ First /\ fd = Kept /\ cur' = fd /\ pc' = "send" /\ UNCHANGED <<fd, i, last, inbox>>
     \/ /\ First /\ fd = NoFd
        /\ fd' = Kept /\ cur' = Kept /\ pc' = "send" /\ UNCHANGED <<i, last, inbox>>
     \/ /\ ~First
        /\ \E p \in Ports : cur' = p /\ inbox' = [inbox EXCEPT ![p] = <<>>]
        /\ pc' = "send" /\ UNCHANGED <<fd, i, last>>
     \/ /\ Failures /\ (First => fd = NoFd)
        /\ Finished("failed") /\ UNCHANGED <<fd, inbox>>
  /\ UNCHANGED <<optVars, netVars, iter, late>>

\* What is on its way, or waits, when the next query is sent.
NotOwn(q) == [k \in 1..Len(q) |-> FALSE]
Earlier == {[m EXCEPT !.own = FALSE] : m \in flight}

\* dns_make_query and dns_send: a real server that is there answers, unless the
\* query is lost.
dns_send ==
  /\ pc = "send"
  /\ \/ /\ pc' = "recv" /\ inbox' = [p \in AllPorts |-> NotOwn(inbox[p])]
        /\ \E s \in Servers :
             /\ Reaches(cur, s)
             /\ conn' = [conn EXCEPT ![cur] = s]
             /\ \/ s \in up /\ flight' = Earlier \cup {[port |-> cur, own |-> TRUE]}
                \/ flight' = Earlier
        /\ UNCHANGED <<i, cur, last>>
     \/ Failures /\ Finished("failed") /\ UNCHANGED <<flight, conn, inbox>>
  /\ UNCHANGED <<optVars, fd, iter, up, late>>

\* Mutant: the SOCK_NONBLOCK of line 158 is not commented out.
RecvNonblock ==
  /\ pc = "recv"
  /\ Finished(IF inbox[cur] = <<>> THEN "failed"
              ELSE IF Head(inbox[cur]) THEN "answered" ELSE "stale")
  /\ inbox' = [inbox EXCEPT ![cur] = IF @ = <<>> THEN @ ELSE Tail(@)]
  /\ UNCHANGED <<optVars, netVars, fd, iter, late>>

\* recvfrom() blocks until there is an answer; its id is not looked at.
Recv ==
  /\ pc = "recv" /\ inbox[cur] # <<>>
  /\ Finished(IF Head(inbox[cur]) THEN "answered" ELSE "stale")
  /\ inbox' = [inbox EXCEPT ![cur] = Tail(@)]
  /\ UNCHANGED <<optVars, netVars, fd, iter, late>>

\* recvfrom() fails: do_query() returns all the same.
RecvFails ==
  /\ pc = "recv" /\ Failures /\ ~late
  /\ Finished("failed") /\ late' = TRUE
  /\ UNCHANGED <<optVars, netVars, fd, iter, inbox>>

\* Mutant: the last round is not noticed.
RoundOnce ==
  /\ pc = "round"
  /\ iter' = IF iter > 0 THEN iter - 1 ELSE iter
  /\ pc' = "open"
  /\ UNCHANGED <<optVars, netVars, fd, cur, i, inbox, late, last>>

\* if (iter && !--iter) break.
Round ==
  /\ pc = "round"
  /\ iter' = IF iter > 0 THEN iter - 1 ELSE iter
  /\ pc' = IF iter = 1 THEN "ended" ELSE "open"
  /\ UNCHANGED <<optVars, netVars, fd, cur, i, inbox, late, last>>

Done == pc = "ended" /\ UNCHANGED vars

Program == getopt \/ Begin \/ Open \/ dns_send \/ Recv \/ Round
Delivery == \E m \in flight : Arrives(m)
Network ==
  \/ \E s \in Servers : Remove(s)
  \/ \E p \in AllPorts : Expire(p)
  \/ Delivery \/ \E m \in flight : Loses(m)

Next == Program \/ RecvFails \/ Network \/ Done

-----------------------------------------------------------------------------
(***************************************************************************)
(* Properties.                                                             *)
(***************************************************************************)
\* What a query is answered with is its own answer, although no id is compared:
\* do_query() leaves a socket, and the port of one that is closed, with no answer
\* to come.  Only after an answer came twice, or recvfrom() failed, is an earlier
\* one taken for it (147-182, 237-242).
AnsweredByOwn == [][pc = "recv" /\ pc' # "recv" /\ last' = "stale" => late]_vars

\* However many queries are made, and however late their answers, no more than
\* one waits on any socket, and one more once an answer came twice or recvfrom()
\* failed (174-177, 238-242).
NoBacklog == \A p \in AllPorts : Len(inbox[p]) <= IF late THEN 2 ELSE 1

\* -i 0 was given last.
Forever == Parsed /\ iter = 0

\* recvfrom() waits, and no answer is there or on its way.
Stranded == pc = "recv" /\ inbox[cur] = <<>> /\ \A m \in flight : m.port # cur

\* The program ends after its rounds, if it was given a number of them, or waits
\* for ever for an answer that will not come: nothing else keeps it, neither a
\* failure nor a late answer (147-182, 237-249).
EndsOrWaits == <>(pc = "ended" \/ Forever) \/ <>[]Stranded
=============================================================================
