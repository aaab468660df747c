------------------------------- MODULE FdPass -------------------------------
(***************************************************************************)
(* code_test/unix_domain_socket.c: a server passes the descriptor of a     *)
(* memory file to a client over a socket pair; the client reads the file,  *)
(* rewrites it and answers; the server then reads what the client left.    *)
(* Descriptor and file offset are shared: only the two messages keep the   *)
(* processes from using the file at the same time.                         *)
(*                                                                         *)
(* Each child inherits both ends of the socket pair and closes only its    *)
(* own, so that recvmsg() never sees end of file: who waits for a dead     *)
(* process waits for ever.  A failed memfd_create() kills the server at    *)
(* its first use of fp, which is one of the deaths of Die.                 *)
(***************************************************************************)
EXTENDS Integers, Sequences

CONSTANTS MsgLen,     \* bytes the server writes
          KeptLen,    \* bytes that ftruncate() keeps
          ReplyLen,   \* bytes the client appends
          Harm        \* whether calls may fail and children may die

VARIABLES ppc, reaped,    \* the parent, and the children it has waited for
          spc, cpc,       \* the server and the client
          toClient,       \* the message with the descriptor is in the socket
          toServer,       \* the reply message is in the socket
          file, offset,   \* the memory file, and the offset both share
          sread, cread    \* what the server and the client have read

fileVars == <<file, offset>>
vars == <<ppc, reaped, spc, cpc, toClient, toServer, file, offset, sread, cread>>

Message == [k \in 1..MsgLen |-> <<"message", k>>]
Reply == [k \in 1..ReplyLen |-> <<"reply", k>>]
Zero == <<"zero", 0>>

\* write() of data at the offset: what lies between the end and it reads as 0.
Written(f, at, data) ==
  LET end == at + Len(data)
  IN  [k \in 1..(IF end > Len(f) THEN end ELSE Len(f)) |->
         IF k \in (at + 1)..end THEN data[k - at]
         ELSE IF k <= Len(f) THEN f[k] ELSE Zero]

FromOffset == SubSeq(file, offset + 1, Len(file))

-----------------------------------------------------------------------------
(* The server. *)

Server(from, to) == spc = from /\ spc' = to /\ UNCHANGED <<ppc, reaped, cpc>>

\* memfd_create(), fprintf() and fflush().
ServerWrite ==
  /\ Server("write", "send")
  /\ file' = Written(file, offset, Message)
  /\ offset' = offset + MsgLen
  /\ UNCHANGED <<toClient, toServer, sread, cread>>

ServerSend ==
  /\ Server("send", "recv")
  /\ toClient' = TRUE \/ (Harm /\ UNCHANGED toClient)
  /\ UNCHANGED <<toServer, fileVars, sread, cread>>

ServerRecv ==
  /\ Server("recv", "rewind")
  /\ toServer
  /\ toServer' = FALSE
  /\ UNCHANGED <<toClient, fileVars, sread, cread>>

ServerRewind ==
  /\ Server("rewind", "fgets")
  /\ offset' = 0
  /\ UNCHANGED <<toClient, toServer, file, sread, cread>>

\* fgets() up to end of file.
ServerRead ==
  /\ Server("fgets", "close")
  /\ sread' = FromOffset
  /\ offset' = IF Len(file) > offset THEN Len(file) ELSE offset
  /\ UNCHANGED <<toClient, toServer, file, cread>>

\* close(fd), fclose(fp) which fails, close(sock), exit().
ServerExit ==
  /\ Server("close", "exited")
  /\ UNCHANGED <<toClient, toServer, fileVars, sread, cread>>

-----------------------------------------------------------------------------
(* The client. *)

Client(from, to) == cpc = from /\ cpc' = to /\ UNCHANGED <<ppc, reaped, spc>>

\* recvmsg() and the loop over the control messages.
ClientRecv ==
  /\ Client("recv", "rewind")
  /\ toClient
  /\ toClient' = FALSE
  /\ UNCHANGED <<toServer, fileVars, sread, cread>>

ClientRewind ==
  /\ Client("rewind", "fgets")
  /\ offset' = 0
  /\ UNCHANGED <<toClient, toServer, file, sread, cread>>

ClientRead ==
  /\ Client("fgets", "ftruncate")
  /\ cread' = FromOffset
  /\ offset' = IF Len(file) > offset THEN Len(file) ELSE offset
  /\ UNCHANGED <<toClient, toServer, file, sread>>

ClientTruncate ==
  /\ Client("ftruncate", "lseek")
  /\ file' = SubSeq(file, 1, KeptLen)
  /\ UNCHANGED <<toClient, toServer, offset, sread, cread>>

ClientSeek ==
  /\ Client("lseek", "write")
  /\ offset' = Len(file)
  /\ UNCHANGED <<toClient, toServer, file, sread, cread>>

ClientWrite ==
  /\ Client("write", "fclose")
  /\ file' = Written(file, offset, Reply)
  /\ offset' = offset + ReplyLen
  /\ UNCHANGED <<toClient, toServer, sread, cread>>

\* fclose(fp), which may put the offset back to where the stream had read to,
\* and close(fd), which fails.
ClientClose ==
  /\ Client("fclose", "send")
  /\ offset' \in {offset, Len(cread)}
  /\ UNCHANGED <<toClient, toServer, file, sread, cread>>

ClientSend ==
  /\ Client("send", "close")
  /\ toServer' = TRUE \/ (Harm /\ UNCHANGED toServer)
  /\ UNCHANGED <<toClient, fileVars, sread, cread>>

ClientExit ==
  /\ Client("close", "exited")
  /\ UNCHANGED <<toClient, toServer, fileVars, sread, cread>>

-----------------------------------------------------------------------------
(* The parent. *)

\* socketpair() fails, and the program ends.
SocketpairFails ==
  /\ Harm /\ ppc = "socketpair" /\ ppc' = "done"
  /\ UNCHANGED <<reaped, spc, cpc, toClient, toServer, fileVars, sread, cread>>

\* A fork() that fails is not noticed: -1 is taken for the pid of the child.
ForkServer ==
  /\ ppc = "socketpair" /\ ppc' = "forked"
  /\ spc' = "write" \/ (Harm /\ spc' = "unborn")
  /\ UNCHANGED <<reaped, cpc, toClient, toServer, fileVars, sread, cread>>

\* fork() of the client, and the parent's closes.
ForkClient ==
  /\ ppc = "forked" /\ ppc' = "waitpid"
  /\ cpc' = "recv" \/ (Harm /\ cpc' = "unborn")
  /\ UNCHANGED <<reaped, spc, toClient, toServer, fileVars, sread, cread>>

Children == {"server", "client"}
StateOf(child) == IF child = "server" THEN spc ELSE cpc

\* waitpid() returns the pid of a child that has ended, or, when there is none
\* any more, -1, which is what a child that was not forked is known by.
Awaited ==
  {child \in Children \ reaped :
     \/ StateOf(child) \in {"exited", "dead"}
     \/ /\ StateOf(child) = "unborn"
        /\ \A other \in Children \ {child} : other \in reaped \/ StateOf(other) = "unborn"}

\* Mutant: the client's pid is not recognised.
WaitServerOnly ==
  /\ ppc = "waitpid"
  /\ \E child \in Awaited : reaped' = reaped \cup ({child} \ {"client"})
  /\ ppc' = IF reaped' = {"server", "client"} THEN "done" ELSE "waitpid"
  /\ UNCHANGED <<spc, cpc, toClient, toServer, fileVars, sread, cread>>

\* One turn of the waitpid() loop.
WaitChild ==
  /\ ppc = "waitpid"
  /\ \E child \in Awaited : reaped' = reaped \cup {child}
  /\ ppc' = IF reaped' = {"server", "client"} THEN "done" ELSE "waitpid"
  /\ UNCHANGED <<spc, cpc, toClient, toServer, fileVars, sread, cread>>

\* A child is killed, or crashes.
Die ==
  /\ Harm
  /\ \/ spc \notin {"none", "unborn", "exited", "dead"} /\ spc' = "dead" /\ UNCHANGED cpc
     \/ cpc \notin {"none", "unborn", "exited", "dead"} /\ cpc' = "dead" /\ UNCHANGED spc
  /\ UNCHANGED <<ppc, reaped, toClient, toServer, fileVars, sread, cread>>

run_server == ServerWrite \/ ServerSend \/ ServerRecv \/ ServerRewind \/ ServerRead
                \/ ServerExit
run_client == ClientRecv \/ ClientRewind \/ ClientRead \/ ClientTruncate \/ ClientSeek
                \/ ClientWrite \/ ClientClose \/ ClientSend \/ ClientExit
main == SocketpairFails \/ ForkServer \/ ForkClient \/ WaitChild

Init ==
  /\ ppc = "socketpair" /\ reaped = {}
  /\ spc = "none" /\ cpc = "none"
  /\ toClient = FALSE /\ toServer = FALSE
  /\ file = <<>> /\ offset = 0
  /\ sread = <<>> /\ cread = <<>>

Next == run_server \/ run_client \/ main \/ Die

Spec == Init /\ [][Next]_vars

-----------------------------------------------------------------------------
(* Properties. *)

\* Every variable has its type; the file never has a hole, so the offset the
\* processes share is never used to write beyond the end.
TypeOK ==
  /\ ppc \in {"socketpair", "forked", "waitpid", "done"}
  /\ reaped \subseteq {"server", "client"}
  /\ spc \in {"none", "unborn", "write", "send", "recv", "rewind", "fgets", "close", "exited", "dead"}
  /\ cpc \in {"none", "unborn", "recv", "rewind", "fgets", "ftruncate", "lseek", "write", "fclose",
              "send", "close", "exited", "dead"}
  /\ {toClient, toServer} \subseteq BOOLEAN
  /\ offset \in Nat
  /\ \A k \in 1..Len(file) : file[k] # Zero

\* The client, reading through the offset the server left at the end, reads
\* the server's whole message (run_client() 131-136).
ClientReadsMessage == cpc \in {"ftruncate", "lseek", "write", "fclose", "send"} => cread = Message

\* The server reads what is left of its message with the client's reply after
\* it, never the file on the way there (run_server() 70-74).
ServerReadsReply == spc \in {"close", "exited"} => sread = SubSeq(Message, 1, KeptLen) \o Reply

\* The two messages alone see to it that the processes never both use the file
\* and its offset.
OneUser == ~(/\ spc \in {"write", "rewind", "fgets", "close"}
             /\ cpc \in {"rewind", "fgets", "ftruncate", "lseek", "write", "fclose"})

\* Which child waits for a message that nobody will send, as it never sees end of
\* file.
Stranded == (spc = "recv" /\ ~toServer) \/ (cpc = "recv" /\ ~toClient)

\* The parent sees both children end, those it could not fork included, or one of
\* them waits for ever for a message: whatever fails, nothing else keeps it, and
\* no child that ended is waited for in vain (main() 188-218).
BothReaped == <>(ppc = "done") \/ <>[]Stranded
=============================================================================
