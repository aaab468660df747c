------------------------------- MODULE UdsSum -------------------------------
(***************************************************************************)
(* code_test/uds_server.c and uds_client.c: clients send numbers over a    *)
(* SOCK_SEQPACKET connection, "END" asks for their sum, "DOWN" stops the   *)
(* server.  The server takes one connection at a time; the others wait in  *)
(* the backlog and may already write.  Clients and the server may be       *)
(* killed at any point, and the server started again.                      *)
(*                                                                         *)
(* A packet is abstracted to what strncmp() and atoi() make of it; the     *)
(* numbers fit the 12-byte buffer and their sums an int.                   *)
(***************************************************************************)
EXTENDS Integers, Sequences, FiniteSets, SequencesExt

CONSTANTS Clients,
          ArgsOf,      \* the arguments of each client: a sequence of packets
          Backlog,     \* listen()'s second argument
          Mortal,      \* the clients that may be killed
          Killable,    \* whether the server may be killed
          MaxResult,   \* bound: how far a server that reads end of file counts
          NoClient

Add(n) == [cmd |-> "ADD", n |-> n]
DOWN == [cmd |-> "DOWN", n |-> 0]
END == [cmd |-> "END", n |-> 0]
Packet == [cmd : {"ADD"}, n : Int] \cup {DOWN, END}

ASSUME ConstantsAssumption ==
  /\ Backlog \in Nat \ {0}
  /\ Mortal \subseteq Clients
  /\ Killable \in BOOLEAN
  /\ MaxResult \in Nat
  /\ NoClient \notin Clients
  /\ \A c \in Clients :
       DOMAIN ArgsOf[c] = 1..Len(ArgsOf[c])
         /\ \A k \in 1..Len(ArgsOf[c]) : ArgsOf[c][k] \in Packet \ {END}

VARIABLES
  bound,       \* SOCKET_NAME is there
  spc,         \* the server: "down", "accept", "read", "write", "close", "stop", "unlink"
  pending,     \* connections not yet accepted
  conn,        \* the client behind data_socket
  buffer,      \* what the server's buffer says
  result,
  down_flag,
  toServer,    \* packets on their way to the server, by client
  toClient,    \* the result on its way back: at most one packet, by client
  closed,      \* the server's end of each connection is closed
  reset,       \* ... and was closed with packets unread: ECONNRESET
  cpc,         \* each client: "start", "send", "read", "ok", "failed", "killed"
  i,           \* each client's loop variable
  got,         \* what each client printed as its result
  ends         \* history: how servers have ended, by "DOWN", "kill" or "SIGPIPE"

serverVars == <<bound, spc, pending, conn, buffer, result, down_flag, ends>>
sockVars == <<toServer, toClient, closed, reset>>
clientVars == <<cpc, i, got>>
vars == <<bound, spc, pending, conn, buffer, result, down_flag,
          toServer, toClient, closed, reset, cpc, i, got, ends>>

Ended == {"ok", "failed", "killed"}

\* What becomes of a set of connections when the server's end is closed.
CloseAll(C) ==
  /\ closed' = [c \in Clients |-> closed[c] \/ c \in C]
  /\ reset' = [c \in Clients |-> reset[c] \/ (c \in C /\ toServer[c] # <<>>)]

PendingSet == {pending[k] : k \in 1..Len(pending)}

-----------------------------------------------------------------------------
(* The server. *)

\* A server that exits for a call that fails: its name was unlinked, and may have
\* been bound again.
StartFails ==
  /\ spc = "down"
  /\ bound' \in BOOLEAN
  /\ UNCHANGED <<spc, pending, conn, buffer, result, down_flag, ends, sockVars, clientVars>>

\* unlink(), socket(), bind(), listen().
Start ==
  /\ spc = "down"
  /\ bound' = TRUE
  /\ spc' = "accept"
  /\ down_flag' = FALSE
  /\ buffer' \in {Add(0), Add(1)}   \* not initialised
  /\ result' = 0
  /\ UNCHANGED <<pending, conn, ends, sockVars, clientVars>>

\* Mutant: result is set to 0 once, before the loop.
AcceptKeepsResult ==
  /\ spc = "accept"
  /\ pending # <<>>
  /\ conn' = Head(pending)
  /\ pending' = Tail(pending)
  /\ spc' = "read"
  /\ UNCHANGED <<bound, buffer, result, down_flag, ends, sockVars, clientVars>>

Accept ==
  /\ spc = "accept"
  /\ pending # <<>>
  /\ conn' = Head(pending)
  /\ pending' = Tail(pending)
  /\ result' = 0
  /\ spc' = "read"
  /\ UNCHANGED <<bound, buffer, down_flag, ends, sockVars, clientVars>>

\* Mutant: "END" is not recognised.
ObeyNoEnd(b) ==
  /\ buffer' = b
  /\ down_flag' = (down_flag \/ b.cmd = "DOWN")
  /\ spc' = IF b.cmd = "DOWN" THEN "write" ELSE "read"
  /\ result' = IF b.cmd = "ADD" THEN result + b.n ELSE result
  /\ UNCHANGED <<bound, pending, conn, ends, clientVars>>

\* What the server does with the contents of its buffer.
Obey(b) ==
  /\ buffer' = b
  /\ down_flag' = (down_flag \/ b.cmd = "DOWN")
  /\ spc' = IF b.cmd = "ADD" THEN "read" ELSE "write"
  /\ result' = IF b.cmd = "ADD" THEN result + b.n ELSE result
  /\ UNCHANGED <<bound, pending, conn, ends, clientVars>>

Read ==
  /\ spc = "read"
  /\ toServer[conn] # <<>>
  /\ toServer' = [toServer EXCEPT ![conn] = Tail(@)]
  /\ Obey(Head(toServer[conn]))
  /\ UNCHANGED <<toClient, closed, reset>>

\* read() returns 0 once the client has gone: the buffer still says what it
\* said, and is obeyed again.
ReadEOF ==
  /\ spc = "read"
  /\ toServer[conn] = <<>>
  /\ cpc[conn] \in Ended
  /\ result + buffer.n <= MaxResult
  /\ Obey(buffer)
  /\ UNCHANGED sockVars

\* Killed, or by SIGPIPE or an exit(): every connection is closed, the name stays bound.
Die(how) ==
  /\ spc' = "down"
  /\ CloseAll(PendingSet \cup ({conn} \ {NoClient}))
  /\ pending' = <<>>
  /\ conn' = NoClient
  /\ ends' = ends \cup {how}
  /\ UNCHANGED <<bound, buffer, result, down_flag, toServer, toClient, clientVars>>

\* Mutant: the last packet is sent back for the result.
WriteEchoes ==
  /\ spc = "write"
  /\ IF cpc[conn] \in Ended THEN Die("SIGPIPE")
     ELSE /\ buffer' = Add(buffer.n)
          /\ toClient' = [toClient EXCEPT ![conn] = Append(@, Add(buffer.n))]
          /\ spc' = "close"
          /\ UNCHANGED <<bound, pending, conn, result, down_flag, ends,
                         toServer, closed, reset, clientVars>>

\* sprintf() leaves the result in the buffer.
Write ==
  /\ spc = "write"
  /\ IF cpc[conn] \in Ended THEN Die("SIGPIPE")
     ELSE /\ buffer' = Add(result)
          /\ toClient' = [toClient EXCEPT ![conn] = Append(@, Add(result))]
          /\ spc' = "close"
          /\ UNCHANGED <<bound, pending, conn, result, down_flag, ends,
                         toServer, closed, reset, clientVars>>

\* close(data_socket)
Close ==
  /\ spc = "close" /\ spc' = IF down_flag THEN "stop" ELSE "accept"
  /\ CloseAll({conn}) /\ conn' = NoClient
  /\ UNCHANGED <<bound, pending, buffer, result, down_flag, ends, toServer, toClient, clientVars>>

\* After DOWN, close(connection_socket), with who waits in the backlog by then.
Stop ==
  /\ spc = "stop" /\ spc' = "unlink"
  /\ CloseAll(PendingSet) /\ pending' = <<>> /\ ends' = ends \cup {"DOWN"}
  /\ UNCHANGED <<bound, conn, buffer, result, down_flag, toServer, toClient, clientVars>>

\* unlink(SOCKET_NAME) and exit.
Unlink ==
  /\ spc = "unlink" /\ spc' = "down" /\ bound' = FALSE
  /\ UNCHANGED <<pending, conn, buffer, result, down_flag, ends, sockVars, clientVars>>

\* What the kernel runs of a server; that it be started is up to its user.
Serving == Accept \/ Read \/ ReadEOF \/ Write \/ Close \/ Stop \/ Unlink

Server == StartFails \/ Start \/ Serving

KillServer ==
  /\ Killable
  /\ spc # "down"
  /\ Die("kill")

-----------------------------------------------------------------------------
(* The clients. *)

\* connect(): fails at once when nobody listens, waits for room otherwise.
Connect(c) ==
  /\ cpc[c] = "start"
  /\ IF bound /\ spc \notin {"down", "unlink"}
     THEN /\ Len(pending) < Backlog
          /\ pending' = Append(pending, c)
          /\ cpc' = [cpc EXCEPT ![c] = "send"]
     ELSE /\ cpc' = [cpc EXCEPT ![c] = "failed"]
          /\ UNCHANGED pending
  /\ UNCHANGED <<bound, spc, conn, buffer, result, down_flag, ends,
                 sockVars, i, got>>

\* Mutant: the client does not wait for the result.
SendNoWait(c) ==
  /\ cpc[c] = "send"
  /\ IF i[c] <= Len(ArgsOf[c])
     THEN /\ toServer' = [toServer EXCEPT ![c] = Append(@, ArgsOf[c][i[c]])]
          /\ i' = [i EXCEPT ![c] = @ + 1]
          /\ UNCHANGED cpc
     ELSE /\ toServer' = [toServer EXCEPT ![c] = Append(@, END)]
          /\ cpc' = [cpc EXCEPT ![c] = "failed"]
          /\ UNCHANGED i
  /\ UNCHANGED <<serverVars, toClient, closed, reset, got>>

\* The next argument, and "END" after the last; SIGPIPE when the server closed.
Send(c) ==
  /\ cpc[c] = "send"
  /\ IF closed[c]
     THEN /\ cpc' = [cpc EXCEPT ![c] = "killed"]
          /\ UNCHANGED <<i, toServer>>
     ELSE IF i[c] <= Len(ArgsOf[c])
     THEN /\ toServer' = [toServer EXCEPT ![c] = Append(@, ArgsOf[c][i[c]])]
          /\ i' = [i EXCEPT ![c] = @ + 1]
          /\ UNCHANGED cpc
     ELSE /\ toServer' = [toServer EXCEPT ![c] = Append(@, END)]
          /\ cpc' = [cpc EXCEPT ![c] = "read"]
          /\ UNCHANGED i
  /\ UNCHANGED <<serverVars, toClient, closed, reset, got>>

\* A pending ECONNRESET comes before the data; end of file leaves "END" in the
\* buffer to be printed as the result.
Receive(c) ==
  /\ cpc[c] = "read"
  /\ closed[c] \/ toClient[c] # <<>>
  /\ IF reset[c]
     THEN cpc' = [cpc EXCEPT ![c] = "failed"] /\ UNCHANGED got
     ELSE /\ cpc' = [cpc EXCEPT ![c] = "ok"]
          /\ got' = [got EXCEPT ![c] = IF toClient[c] = <<>> THEN END
                                       ELSE Head(toClient[c])]
  /\ UNCHANGED <<serverVars, sockVars, i>>

Client(c) == Connect(c) \/ Send(c) \/ Receive(c)

KillClient(c) ==
  /\ c \in Mortal
  /\ cpc[c] \notin Ended
  /\ cpc' = [cpc EXCEPT ![c] = "killed"]
  /\ UNCHANGED <<serverVars, sockVars, i, got>>

-----------------------------------------------------------------------------
Init ==
  /\ bound \in BOOLEAN          \* a server that was killed leaves the name
  /\ spc = "down"
  /\ pending = <<>>
  /\ conn = NoClient
  /\ buffer = Add(0)
  /\ result = 0
  /\ down_flag = FALSE
  /\ toServer = [c \in Clients |-> <<>>]
  /\ toClient = [c \in Clients |-> <<>>]
  /\ closed = [c \in Clients |-> FALSE]
  /\ reset = [c \in Clients |-> FALSE]
  /\ cpc = [c \in Clients |-> "start"]
  /\ i = [c \in Clients |-> 1]
  /\ got = [c \in Clients |-> END]
  /\ ends = {}

Next == \/ Server \/ KillServer
        \/ \E c \in Clients : Client(c) \/ KillClient(c)

Spec == Init /\ [][Next]_vars

-----------------------------------------------------------------------------
(* Properties. *)

\* Every variable has its type; the backlog is never exceeded, and no client
\* is answered twice.
TypeOK ==
  /\ bound \in BOOLEAN
  /\ spc \in {"down", "accept", "read", "write", "close", "stop", "unlink"}
  /\ pending \in Seq(Clients) /\ Len(pending) <= Backlog
  /\ conn \in Clients \cup {NoClient}
  /\ buffer \in Packet
  /\ result \in Int
  /\ down_flag \in BOOLEAN
  /\ toServer \in [Clients -> Seq(Packet)]
  /\ toClient \in [Clients -> Seq(Packet)] /\ \A c \in Clients : Len(toClient[c]) <= 1
  /\ closed \in [Clients -> BOOLEAN] /\ reset \in [Clients -> BOOLEAN]
  /\ cpc \in [Clients -> {"start", "send", "read"} \cup Ended]
  /\ i \in [Clients -> Nat]
  /\ got \in [Clients -> Packet]
  /\ ends \subseteq {"DOWN", "kill", "SIGPIPE"}

Sum(packets) == FoldSeq(LAMBDA p, total : total + p.n, 0, packets)

\* The sum a client asks for: of its arguments before any DOWN.
Asked(c) ==
  LET downs == {k \in 1..Len(ArgsOf[c]) : ArgsOf[c][k] = DOWN}
  IN  Sum(SubSeq(ArgsOf[c], 1, IF downs = {} THEN Len(ArgsOf[c]) ELSE Min(downs)))

\* No number is lost, counted twice or counted for another client: what the
\* server has added and what is on its way add up to what the client has sent.
SumInFlight ==
  spc = "read" /\ cpc[conn] \notin Ended =>
    result + Sum(toServer[conn]) = Sum(SubSeq(ArgsOf[conn], 1, i[conn] - 1))

\* A client that prints a result prints the sum it asked for; only when the
\* server died may it print its own "END" instead.
ResultIsSum ==
  \A c \in Clients :
    cpc[c] = "ok" => got[c] = Add(Asked(c)) \/ (ends \cap {"kill", "SIGPIPE"} # {} /\ got[c] = END)

\* The server is stopped by SIGPIPE, or caught re-reading its own buffer at
\* end of file, only when a client was killed: one left to run, even one that
\* sends DOWN and goes on, never does that to it.
HurtOnlyByKill ==
  "SIGPIPE" \in ends \/ (spc = "read" /\ cpc[conn] \in Ended) =>
    \E c \in Mortal : cpc[c] = "killed"

\* Every client whose connection is taken into the backlog gets its result,
\* unless the server is told to go down or dies, or a client is killed.
Answered ==
  \A c \in Clients : cpc[c] = "send" ~>
    cpc[c] = "ok" \/ ends # {} \/ \E d \in Mortal : cpc[d] = "killed"

=============================================================================
