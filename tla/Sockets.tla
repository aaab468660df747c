------------------------------ MODULE Sockets ------------------------------
(***************************************************************************)
(* The two sets of programs that talk over UNIX domain sockets, of which a *)
(* user runs one at a time: uds_server with its uds_clients (UdsSum), and  *)
(* unix_domain_socket (FdPass).                                            *)
(***************************************************************************)
EXTENDS UdsSum

CONSTANTS MsgLen, KeptLen, ReplyLen, Harm

VARIABLES tool,            \* what is run: "uds" or "unix_domain_socket"
          ppc, reaped, server, client, handed, replied,
          file, offset, sread, cread

passVars == <<ppc, reaped, server, client, handed, replied,
              file, offset, sread, cread>>

Pass == INSTANCE FdPass WITH
          spc <- server, cpc <- client, toClient <- handed, toServer <- replied

allVars == <<tool, vars, passVars>>

Uds(A) == tool = "uds" /\ A /\ UNCHANGED <<tool, passVars>>
Passing(A) == tool = "unix_domain_socket" /\ A /\ UNCHANGED <<tool, vars>>

SocketsInit == tool \in {"uds", "unix_domain_socket"} /\ Init /\ Pass!Init

SocketsNext == Uds(Next) \/ Passing(Pass!Next)

\* The kernel schedules every process that can run.
SocketsSpec ==
  /\ SocketsInit /\ [][SocketsNext]_allVars
  /\ WF_allVars(Uds(Serving))
  /\ \A c \in Clients : WF_allVars(Uds(Client(c)))
  /\ WF_allVars(Passing(Pass!run_server))
  /\ WF_allVars(Passing(Pass!run_client))
  /\ WF_allVars(Passing(Pass!main))

\* What holds at every step of either: the types; the partial sum of the server is
\* that of the packets it has read; no one but the one whose turn it is uses the
\* shared file and its offset; and each process reads what the other wrote.
SocketsInv ==
  /\ TypeOK /\ SumInFlight
  /\ Pass!TypeOK /\ Pass!OneUser
  /\ Pass!ClientReadsMessage /\ Pass!ServerReadsReply

\* FdPass: both children are waited for, or one waits for what was not sent.
BothReaped == tool = "unix_domain_socket" => Pass!BothReaped
=============================================================================
