---------------------------- MODULE DnsVersions ----------------------------
(***************************************************************************)
(* dns_test.c and its two earlier versions, kept beside it as              *)
(* dns_test.001.c and dns_test.002.c.  In both the case of -s runs on into *)
(* that of -c.  The first has no -p.  The second hands the local port to   *)
(* do_query() as a negative descriptor, so that a port of 0 or less is     *)
(* taken for a descriptor that is open; only 0 (standard input, which is   *)
(* not a socket) stands for these here.                                    *)
(***************************************************************************)
EXTENDS DnsTest

VARIABLE version   \* "001", "002" or "now"

verVars == <<version, vars>>

VersionInit == version \in {"001", "002", "now"} /\ Init

Is(v, A) == version = v /\ A /\ UNCHANGED version

-----------------------------------------------------------------------------
(* dns_test.001.c *)

getopt_001 == GetOpt({"c", "s"}, {"p"})

dns_send_001 == dns_send

do_query_001 == Open \/ dns_send_001 \/ Recv

main_001 == getopt_001 \/ Begin \/ do_query_001 \/ Round

-----------------------------------------------------------------------------
(* dns_test.002.c *)

getopt_002 == GetOpt({"c", "s"}, {})

\* Mutant: any query of the round may be without a socket.
AnySocket == fd = NotSocket \/ (fd = NoFd /\ local_port = 0)

\* do_query(fd == -1 ? -local_port : fd): whether this is no socket of ours.
NoSocketOfOurs == First /\ (fd = NotSocket \/ (fd = NoFd /\ local_port = 0))

Open_002 ==
  \/ ~NoSocketOfOurs /\ Open
  \/ /\ pc = "open" /\ NoSocketOfOurs
     /\ fd' = NotSocket /\ cur' = NotSocket /\ pc' = "send"
     /\ UNCHANGED <<optVars, netVars, i, iter, inbox, late, last>>

\* sendto() fails on what is not a socket.
dns_send_002 ==
  \/ cur # NotSocket /\ dns_send
  \/ /\ pc = "send" /\ cur = NotSocket /\ Finished("failed")
     /\ UNCHANGED <<optVars, netVars, fd, iter, inbox, late>>

do_query_002 == Open_002 \/ dns_send_002 \/ Recv

main_002 == getopt_002 \/ Begin \/ do_query_002 \/ Round

-----------------------------------------------------------------------------
AnyProgram == Is("001", main_001) \/ Is("002", main_002) \/ Is("now", Program)

VersionNext == AnyProgram \/ ((RecvFails \/ Network \/ Done) /\ UNCHANGED version)

-----------------------------------------------------------------------------
Last(opt) == {k \in DOMAIN opts : opts[k].opt = opt /\ \A j \in DOMAIN opts : opts[j].opt = opt => j <= k}

\* A round makes as many queries as the last -c says, or the default, whatever
\* the other options (dns_test.c 211-213, and the -H of each version).  With a
\* -s behind it in an earlier version nothing is claimed: the case of -s runs on
\* into that of -c (dns_test.001.c 195-202, dns_test.002.c 207-214).
CountAsGiven ==
  Parsed /\ (version # "now" => \A k \in Last("s") : \E j \in Last("c") : j > k) =>
    queries_per_loop \in IF Last("c") = {} THEN {Queries} ELSE {opts[k].arg : k \in Last("c")}

\* The first query of a round goes out on a socket of the program, except in
\* the second version with a port of 0; the other queries do in any version
\* (dns_test.002.c 158-169, 237-241).
OthersUnharmed ==
  cur = NotSocket => First /\ version = "002" /\ local_port = 0
=============================================================================
