------------------------------- MODULE Probes -------------------------------
(***************************************************************************)
(* The programs that probe the network, of which one runs: dns_test, as    *)
(* the queries it sends (DnsQuery) and as its exchange with the servers    *)
(* behind IPVS in its three versions (DnsVersions), linkbeat1 (LinkBeat)   *)
(* and linkbeat (LinkBeatEach), ping (Ping), and tcp_cnct_failure          *)
(* (TcpConnect).                                                           *)
(***************************************************************************)
EXTENDS DnsVersions

CONSTANTS Letters, MaxName, MaxLabel, Byte,
          Header, BufSize,                     \* DnsQuery
          Mii, Faults,                         \* LinkBeat
          Ids                                  \* Ping

VARIABLES tool,        \* what runs
          name, s, qname, length,
          link, latched, sock, at, bmsr, new_bmsr, report, history,
          own, socks,
          ping, id, echoes, replies, again, reply,
          addr, iface, step, family, ret, errno, outcome

queryVars == <<name, s, qname, length>>
linkVars == <<link, latched, sock, at, bmsr, new_bmsr, report, history, own, socks>>
pingVars == <<ping, id, echoes, replies, again, reply>>
tcpVars == <<addr, iface, step, family, ret, errno, outcome>>
allVars == <<tool, verVars, queryVars, linkVars, pingVars, tcpVars>>

Q == INSTANCE DnsQuery
L == INSTANCE LinkBeat WITH fd <- sock, pc <- at
E == INSTANCE LinkBeatEach WITH fd <- own, pc <- at
P == INSTANCE Ping WITH fd <- id, pc <- ping, flight <- echoes, inbox <- replies,
                        late <- again, result <- reply
T == INSTANCE TcpConnect WITH pc <- step, result <- outcome

Exchange(A) ==
  tool = "exchange" /\ A /\ UNCHANGED <<tool, queryVars, linkVars, pingVars, tcpVars>>
Query(A) ==
  tool = "query" /\ A /\ UNCHANGED <<tool, verVars, linkVars, pingVars, tcpVars>>
Linkbeat1(A) ==
  /\ tool = "linkbeat1" /\ A
  /\ UNCHANGED <<tool, verVars, queryVars, own, socks, pingVars, tcpVars>>
Linkbeat(A) ==
  /\ tool = "linkbeat" /\ A
  /\ UNCHANGED <<tool, verVars, queryVars, sock, pingVars, tcpVars>>
Pings(A) ==
  tool = "ping" /\ A /\ UNCHANGED <<tool, verVars, queryVars, linkVars, tcpVars>>
Tcp(A) ==
  tool = "tcp" /\ A /\ UNCHANGED <<tool, verVars, queryVars, linkVars, pingVars>>

\* What does not run has its variables at some value: one is enough.
ProbesInit ==
  /\ tool \in {"exchange", "query", "linkbeat1", "linkbeat", "ping", "tcp"}
  /\ tool # "exchange" => opts = <<>> /\ version = "now"
  /\ tool # "query" => name = <<>>
  /\ tool \notin {"linkbeat1", "linkbeat"} => link = FALSE /\ latched = FALSE
  /\ tool # "tcp" => addr = [colon |-> FALSE, valid |-> TRUE] /\ iface = "none"
  /\ VersionInit /\ Q!Init /\ L!Init /\ E!Init /\ P!Init /\ T!Init

ProbesNext ==
  \/ Exchange(VersionNext) \/ Query(Q!Next) \/ Linkbeat1(L!Next) \/ Linkbeat(E!Next)
  \/ Pings(P!Next) \/ Tcp(T!Next)

\* The program that runs (one does, from beginning to end) is scheduled, and an
\* answer that is not lost arrives.  No failure is owed.
Scheduled ==
  \/ Exchange(AnyProgram) \/ Linkbeat1(L!Poll) \/ Linkbeat(E!main) \/ Pings(P!Program)
Delivered == Exchange(Delivery /\ UNCHANGED version) \/ Pings(P!Delivery)

ProbesSpec ==
  ProbesInit /\ [][ProbesNext]_allVars /\ WF_allVars(Scheduled) /\ WF_allVars(Delivered)

\* DnsTest: the program ends after its rounds, or waits for what was lost.
ExchangeEnds == tool = "exchange" => EndsOrWaits

\* DnsTest, DnsVersions and DnsQuery: the types; no answer piles up behind a
\* socket; a round has the number of queries that was given, and its queries a
\* socket; the query of a name that leaves it room fits the buffer, with nothing
\* behind its zero.
DnsInv ==
  /\ TypeOK /\ NoBacklog /\ CountAsGiven /\ OthersUnharmed
  /\ Q!TypeOK /\ Q!NothingBehind /\ Q!Fits

\* The other probes: the types; a link is said to be down only if it was lost
\* during the poll, and no poll leaves a socket behind; a ping takes only its own
\* reply, and a connection is said to be what it is.
ProbesInv ==
  /\ L!TypeOK /\ L!DownIsRecent /\ E!NoneLeft
  /\ P!TypeOK /\ P!OwnReply /\ T!TypeOK /\ T!SaidAsItIs

\* DnsQuery: a server reads the name that was asked for.
ReadAsWritten == Q!ReadAsWritten

\* LinkBeat, and LinkBeatEach: the three ways agree about a link that does not
\* change.
SteadyAgrees == IF tool = "linkbeat" THEN E!B!SteadyAgrees ELSE L!SteadyAgrees

\* LinkBeat, LinkBeatEach, and Ping: whatever fails, the polls go on and find a
\* link that stays up; and pings go on unless one waits for what was lost.
KeepsPolling ==
  /\ tool = "linkbeat1" => L!KeepsPolling
  /\ tool = "linkbeat" => E!B!KeepsPolling
  /\ tool = "ping" => P!RunsOn
=============================================================================
