------------------------- MODULE TrackProcessProofs -------------------------
(***************************************************************************)
(* Proofs that, for any number of pids, any size of the socket's buffer    *)
(* and any number of events, track_process misses no exit of the pid it    *)
(* holds and, once it has handled every event, tracks the program that     *)
(* runs; that track_process_ns keeps its namespace apart; and that it      *)
(* follows nothing but what its scan found.                                *)
(*                                                                         *)
(* The argument: while no message was lost, a pid with an exec in the      *)
(* buffer and no exit behind it is running; so whatever check_process()    *)
(* looks at runs or has its exit still in the buffer.  A process that runs *)
(* the program was there before the scan, which then has it ahead, or has  *)
(* announced itself by an exec; until it is tracked one of them is to come.*)
(***************************************************************************)
EXTENDS TrackProcessNs, FiniteSetTheorems, TLAPS

Exec_(q) == [what |-> "exec", pid |-> q]
Exit_(q) == [what |-> "exit", pid |-> q]

Has(buf, m) == \E k \in 1..Len(buf) : buf[k] = m

\* The buffer has an exec of q, and no exit of q behind it.
ExecLast(buf, q) ==
  \E k \in 1..Len(buf) : /\ buf[k] = Exec_(q)
                         /\ \A j \in (k + 1)..Len(buf) : buf[j] # Exit_(q)

\* Nothing has happened to the program before it listens.
Fresh ==
  pc = "start" => rcvbuf = <<>> /\ ~enobufs /\ proc_pid = 0 /\ pos = 0

\* A cmdline file is open only while it is about to be read.
OneOpen ==
  IF pc \in {"scanread", "checkread"} THEN fd \in Pids ELSE fd = 0 /\ ~fdGone

NamedOnce ==
  ~crowded => \A a, b \in Pids : proc[a] = "named" /\ proc[b] = "named" => a = b

\* A pid whose last event is an exec runs; so does the one that is held, and the
\* one that check_process() looks at, unless their exit is still to be handled.
NoExitMissed ==
  /\ \A q \in Pids : ExecLast(rcvbuf, q) => proc[q] \in Running
  /\ proc_pid # 0 => proc[proc_pid] \in Running \/ Has(rcvbuf, Exit_(proc_pid))
  /\ pc = "checkread" /\ (fdGone \/ proc[fd] \notin Running) => Has(rcvbuf, Exit_(fd))

\* The process q is tracked, is announced by an exec, is being looked at, or is
\* ahead of the scan.
Found(q) ==
  \/ ExecLast(rcvbuf, q)
  \/ /\ ~Has(rcvbuf, Exit_(q))
     /\ \/ proc_pid = q
        \/ pc \in {"scanread", "checkread"} /\ fd = q /\ ~fdGone
        \/ pc \in {"scan", "scanread"} /\ pos < q

NamedIsFound == ~crowded /\ ~misled => \A q \in Pids : proc[q] = "named" => Found(q)

\* The inductive invariant.
IInv ==
  /\ TypeOK /\ Fresh /\ OneOpen /\ NamedOnce
  /\ Listening /\ ~enobufs => NoExitMissed /\ NamedIsFound

\* ... and that of the namespaces: the program has entered "low" only before it
\* subscribes, and the mounts are no longer changed once /var/run is bound.
NsIInv ==
  /\ program = "track_process" => netns = "init"
  /\ netns = "low" => pc \in {"start", "failed"}
  /\ step = "bind" => mounts \in {"shared", "slave"}
  /\ hostRun = "low" => mounts = "shared" /\ step \in {"socket", "send"}

-----------------------------------------------------------------------------
(* The buffer. *)

\* A message is an exec or an exit of its pid.
LEMMA MessageKinds ==
  ASSUME NEW m \in Message
  PROVE  /\ m.pid \in Pids
         /\ m.what = "exec" => m = Exec_(m.pid)
         /\ m.what = "exit" => m = Exit_(m.pid)
BY DEF Message, Exec_, Exit_

\* The kernel puts a message behind the ones the buffer has.
LEMMA AppendHas ==
  ASSUME NEW buf \in Seq(Message), NEW e \in Message
  PROVE  /\ Append(buf, e) \in Seq(Message)
         /\ Len(Append(buf, e)) = Len(buf) + 1
         /\ \A m : Has(Append(buf, e), m) <=> Has(buf, m) \/ e = m
BY DEF Has

\* An exec that is put there is the last of its pid; an exit undoes only the
\* execs of its own pid.
LEMMA AppendExecLast ==
  ASSUME NEW buf \in Seq(Message), NEW p \in Pids, NEW q \in Pids
  PROVE  /\ ExecLast(Append(buf, Exec_(p)), q) <=> ExecLast(buf, q) \/ p = q
         /\ ExecLast(Append(buf, Exit_(p)), q) <=> ExecLast(buf, q) /\ p # q
<1>1. Exec_(p) \in Message /\ Exit_(p) \in Message  BY DEF Exec_, Exit_, Message
<1>2. /\ Exec_(p) # Exit_(q) /\ Exit_(p) # Exec_(q)
      /\ Exec_(p) = Exec_(q) <=> p = q
      /\ Exit_(p) = Exit_(q) <=> p = q
  BY DEF Exec_, Exit_
<1>3. ASSUME NEW e \in Message
      PROVE  /\ Len(Append(buf, e)) = Len(buf) + 1
             /\ Len(buf) \in Nat
             /\ Append(buf, e)[Len(buf) + 1] = e
             /\ \A k \in 1..Len(buf) : Append(buf, e)[k] = buf[k]
  OBVIOUS
<1>4. ExecLast(Append(buf, Exec_(p)), q) <=> ExecLast(buf, q) \/ p = q
  <2> DEFINE b == Append(buf, Exec_(p))
             n == Len(buf)
  <2>1. /\ Len(b) = n + 1 /\ n \in Nat /\ b[n + 1] = Exec_(p)
        /\ \A k \in 1..n : b[k] = buf[k]
    BY <1>1, <1>3
  <2> HIDE DEF b
  <2>2. ExecLast(b, q) => ExecLast(buf, q) \/ p = q  BY <2>1, <1>2 DEF ExecLast
  <2>3. ExecLast(buf, q) => ExecLast(b, q)  BY <2>1, <1>2 DEF ExecLast
  <2>4. p = q => ExecLast(b, q)
    <3>1. n + 1 \in 1..Len(b) /\ \A j \in (n + 2)..Len(b) : FALSE  BY <2>1
    <3> QED  BY <3>1, <2>1, <1>2 DEF ExecLast
  <2> QED  BY <2>2, <2>3, <2>4 DEF b
<1>5. ExecLast(Append(buf, Exit_(p)), q) <=> ExecLast(buf, q) /\ p # q
  <2> DEFINE b == Append(buf, Exit_(p))
             n == Len(buf)
  <2>1. /\ Len(b) = n + 1 /\ n \in Nat /\ b[n + 1] = Exit_(p)
        /\ \A k \in 1..n : b[k] = buf[k]
    BY <1>1, <1>3
  <2> HIDE DEF b
  <2>2. ExecLast(b, q) => ExecLast(buf, q) /\ p # q  BY <2>1, <1>2 DEF ExecLast
  <2>3. ExecLast(buf, q) /\ p # q => ExecLast(b, q)  BY <2>1, <1>2 DEF ExecLast
  <2> QED  BY <2>2, <2>3 DEF b
<1> QED  BY <1>4, <1>5

\* recv() takes the message at the head and leaves the others as they were.
LEMMA TailHas ==
  ASSUME NEW buf \in Seq(Message), buf # <<>>
  PROVE  /\ Head(buf) \in Message
         /\ Tail(buf) \in Seq(Message)
         /\ Len(Tail(buf)) = Len(buf) - 1
         /\ \A m : Has(buf, m) <=> Head(buf) = m \/ Has(Tail(buf), m)
         /\ \A q : ExecLast(Tail(buf), q) => ExecLast(buf, q)
         /\ \A q : ExecLast(buf, q) =>
              \/ ExecLast(Tail(buf), q)
              \/ Head(buf) = Exec_(q) /\ ~Has(Tail(buf), Exit_(q))
         /\ \A q : Head(buf) = Exec_(q) /\ ~Has(Tail(buf), Exit_(q)) => ExecLast(buf, q)
<1> DEFINE t == Tail(buf)
           h == Head(buf)
           n == Len(buf)
<1>1. /\ n \in Nat \ {0} /\ Len(t) = n - 1 /\ buf[1] = h
      /\ \A k \in 1..(n - 1) : t[k] = buf[k + 1]
  OBVIOUS
<1>2. h \in Message /\ t \in Seq(Message)  OBVIOUS
<1> HIDE DEF t, h
<1>3. \A k \in 2..n : k - 1 \in 1..(n - 1) /\ buf[k] = t[k - 1]
  BY <1>1
<1>4. \A m : Has(buf, m) <=> h = m \/ Has(t, m)
  <2> SUFFICES ASSUME NEW m  PROVE Has(buf, m) <=> h = m \/ Has(t, m)
    OBVIOUS
  <2>1. Has(buf, m) => h = m \/ Has(t, m)
    <3> SUFFICES ASSUME NEW k \in 1..n, buf[k] = m, h # m  PROVE Has(t, m)
      BY DEF Has
    <3>1. k \in 2..n  BY <1>1
    <3> QED  BY <3>1, <1>3, <1>1 DEF Has
  <2>2. h = m => Has(buf, m)  BY <1>1 DEF Has
  <2>3. Has(t, m) => Has(buf, m)
    <3> SUFFICES ASSUME NEW k \in 1..(n - 1), t[k] = m  PROVE Has(buf, m)
      BY <1>1 DEF Has
    <3>1. k + 1 \in 1..n /\ buf[k + 1] = m  BY <1>1
    <3> QED  BY <3>1 DEF Has
  <2> QED  BY <2>1, <2>2, <2>3
<1>5. ASSUME NEW q, ExecLast(t, q)  PROVE ExecLast(buf, q)
  <2>1. PICK k \in 1..(n - 1) : /\ t[k] = Exec_(q)
                                /\ \A j \in (k + 1)..(n - 1) : t[j] # Exit_(q)
    BY <1>5, <1>1 DEF ExecLast
  <2>2. k + 1 \in 1..n /\ buf[k + 1] = Exec_(q)  BY <2>1, <1>1
  <2>3. ASSUME NEW j \in ((k + 1) + 1)..n  PROVE buf[j] # Exit_(q)
    <3>1. j \in 2..n /\ j - 1 \in (k + 1)..(n - 1)  BY <1>1
    <3> QED  BY <3>1, <2>1, <1>3
  <2> QED  BY <2>2, <2>3 DEF ExecLast
<1>6. ASSUME NEW q, ExecLast(buf, q)
      PROVE  ExecLast(t, q) \/ (h = Exec_(q) /\ ~Has(t, Exit_(q)))
  <2>1. PICK k \in 1..n : /\ buf[k] = Exec_(q)
                          /\ \A j \in (k + 1)..n : buf[j] # Exit_(q)
    BY <1>6 DEF ExecLast
  <2>2. ASSUME NEW j \in k..(n - 1)  PROVE t[j] # Exit_(q)
    <3>1. j \in 1..(n - 1) /\ j + 1 \in (k + 1)..n  BY <1>1
    <3> QED  BY <3>1, <2>1, <1>1
  <2>3. CASE k = 1
    <3>1. ~Has(t, Exit_(q))  BY <2>2, <2>3, <1>1 DEF Has
    <3> QED  BY <3>1, <2>1, <2>3, <1>1
  <2>4. CASE k # 1
    <3> DEFINE i == k - 1
    <3>1. k \in 2..n /\ i \in 1..(n - 1) /\ i + 1 = k  BY <2>4, <1>1
    <3>2. t[i] = Exec_(q)  BY <3>1, <2>1, <1>3
    <3> HIDE DEF i
    <3>3. i \in 1..Len(t)  BY <3>1, <1>1
    <3>4. \A j \in (i + 1)..Len(t) : t[j] # Exit_(q)
      <4>1. \A j \in k..(n - 1) : t[j] # Exit_(q)  BY <2>2
      <4> QED  BY <4>1, <3>1, <1>1
    <3> QED  BY <3>2, <3>3, <3>4 DEF ExecLast
  <2> QED  BY <2>3, <2>4
<1>7. ASSUME NEW q, h = Exec_(q), ~Has(t, Exit_(q))  PROVE ExecLast(buf, q)
  <2>1. ASSUME NEW j \in (1 + 1)..n  PROVE buf[j] # Exit_(q)
    BY <1>7, <1>3, <1>1 DEF Has
  <2>2. 1 \in 1..n /\ buf[1] = Exec_(q)  BY <1>7, <1>1
  <2> QED  BY <2>1, <2>2 DEF ExecLast
<1> QED  BY <1>1, <1>2, <1>4, <1>5, <1>6, <1>7 DEF t, h

\* A set of pids that has not more than one member has no two.
LEMMA AtMostOne ==
  ASSUME NEW S \in SUBSET Pids, ~(Cardinality(S) > 1)
  PROVE  \A a, b \in S : a = b
<1> SUFFICES ASSUME NEW a \in S, NEW b \in S, a # b  PROVE FALSE
  OBVIOUS
<1>1. IsFiniteSet(Pids)
  BY ConstantsAssumption, FS_Interval DEF Pids
<1>2. IsFiniteSet(S) /\ Cardinality(S) \in Nat
  BY <1>1, FS_Subset, FS_CardinalityType
<1>3. IsFiniteSet({a}) /\ Cardinality({a}) = 1  BY FS_Singleton
<1>4. Cardinality({a} \cup {b}) = 2
  <2>1. b \notin {a}  OBVIOUS
  <2>2. Cardinality({a} \cup {b}) = Cardinality({a}) + 1
    BY <2>1, <1>3, FS_AddElement
  <2> QED  BY <2>2, <1>3
<1>5. {a} \cup {b} \subseteq S  OBVIOUS
<1>6. Cardinality({a} \cup {b}) <= Cardinality(S)  BY <1>2, <1>5, FS_Subset
<1> QED  BY <1>2, <1>4, <1>6

-----------------------------------------------------------------------------
(* The other processes. *)

States == {"none", "named", "other", "zombie"}

\* A process that starts, execs, exits or is reaped changes its own state only,
\* and two that run the program at once are remembered.
LEMMA BecomesEffect ==
  ASSUME IInv, NEW p \in Pids, NEW s \in States, Becomes(p, s)
  PROVE  /\ proc' \in [Pids -> States]
         /\ proc'[p] = s /\ \A q \in Pids \ {p} : proc'[q] = proc[q]
         /\ events' \in 0..MaxEvents
         /\ crowded' \in BOOLEAN /\ (crowded => crowded')
         /\ NamedOnce'
         /\ UNCHANGED <<need_exit, eintr, pc, pos, fd, proc_pid, misled>>
         /\ Listening' <=> Listening
<1> USE DEF IInv, TypeOK
<1>1. proc' \in [Pids -> States]  BY DEF Becomes, States
<1>2. proc'[p] = s /\ \A q \in Pids \ {p} : proc'[q] = proc[q]  BY DEF Becomes
<1>3. events' \in 0..MaxEvents  BY ConstantsAssumption DEF Becomes
<1>4. crowded' \in BOOLEAN /\ (crowded => crowded')  BY DEF Becomes
<1>5. NamedOnce'
  <2> DEFINE S == {q \in Pids : proc'[q] = "named"}
  <2> SUFFICES ASSUME ~crowded'  PROVE \A a, b \in S : a = b
    BY DEF NamedOnce
  <2>1. ~(Cardinality(S) > 1)  BY DEF Becomes
  <2>2. S \in SUBSET Pids  OBVIOUS
  <2> HIDE DEF S
  <2> QED  BY <2>1, <2>2, AtMostOne
<1>6. /\ UNCHANGED <<need_exit, eintr, pc, pos, fd, proc_pid, misled>>
      /\ Listening' <=> Listening
  BY DEF Becomes, sigVars, Listening
<1> QED  BY <1>1, <1>2, <1>3, <1>4, <1>5, <1>6

\* A message reaches a socket that listens, or the loss is recorded.
LEMMA SendEffect ==
  ASSUME TypeOK, NEW m \in Message, Send(m)
  PROVE  /\ rcvbuf' \in Seq(Message) /\ Len(rcvbuf') <= BufLen /\ enobufs' \in BOOLEAN
         /\ ~Listening => UNCHANGED <<rcvbuf, enobufs>>
         /\ Listening /\ ~enobufs' => ~enobufs /\ rcvbuf' = Append(rcvbuf, m)
<1>1. CASE ~Listening  BY <1>1 DEF TypeOK, Send, sockVars
<1>2. CASE Listening /\ Len(rcvbuf) < BufLen
  <2>1. rcvbuf' = Append(rcvbuf, m) /\ enobufs' = enobufs  BY <1>2 DEF Send
  <2>2. rcvbuf' \in Seq(Message) /\ Len(rcvbuf') = Len(rcvbuf) + 1 /\ Len(rcvbuf) \in Nat
    BY <2>1, AppendHas DEF TypeOK
  <2> QED  BY <1>2, <2>1, <2>2, ConstantsAssumption DEF TypeOK
<1>3. CASE Listening /\ ~(Len(rcvbuf) < BufLen)
  BY <1>3 DEF TypeOK, Send
<1> QED  BY <1>1, <1>2, <1>3

\* A fork has no message.  The child of the program makes it crowded.
LEMMA ForkInv ==
  ASSUME IInv, NEW p \in Pids, NEW q \in Pids, Fork(p, q)
  PROVE  IInv'
<1>1. proc[p] \in States /\ proc[p] \in Running /\ proc[q] = "none" /\ Becomes(q, proc[p])
  BY DEF Fork, Running, States
<1>2. /\ proc' \in [Pids -> States]
      /\ proc'[q] = proc[p] /\ \A r \in Pids \ {q} : proc'[r] = proc[r]
      /\ events' \in 0..MaxEvents
      /\ crowded' \in BOOLEAN /\ (crowded => crowded')
      /\ NamedOnce'
      /\ UNCHANGED <<need_exit, eintr, pc, pos, fd, proc_pid, misled>>
      /\ Listening' <=> Listening
  BY <1>1, BecomesEffect
<1>3. UNCHANGED <<rcvbuf, enobufs, fdGone>>  BY DEF Fork, sockVars
<1>4. TypeOK' /\ Fresh' /\ OneOpen'
  BY <1>2, <1>3 DEF IInv, TypeOK, Fresh, OneOpen, States
<1>5. ASSUME Listening', ~enobufs'  PROVE NoExitMissed' /\ NamedIsFound'
  <2>1. NoExitMissed /\ NamedIsFound  BY <1>5, <1>2, <1>3 DEF IInv
  <2>2. \A r \in Pids : proc[r] \in Running => proc'[r] \in Running
    BY <1>1, <1>2
  <2>3. proc_pid \in 0..MaxPid /\ (pc = "checkread" => fd \in Pids)
    BY DEF IInv, TypeOK, OneOpen
  <2>4. NoExitMissed'
    BY <2>1, <2>2, <2>3, <1>2, <1>3, ConstantsAssumption DEF NoExitMissed, ExecLast, Has, Pids
  <2>5. NamedIsFound'
    <3> SUFFICES ASSUME ~crowded', ~misled', NEW r \in Pids, proc'[r] = "named"
                 PROVE  Found(r)'
      BY DEF NamedIsFound
    <3>1. r # q
      <4> SUFFICES ASSUME r = q  PROVE FALSE
        OBVIOUS
      <4>1. proc[p] = "named" /\ p # q /\ proc'[p] = "named"  BY <1>1, <1>2
      <4> QED  BY <4>1, <1>2 DEF NamedOnce
    <3>2. Found(r)  BY <3>1, <1>2, <2>1 DEF NamedIsFound
    <3> QED  BY <3>2, <1>2, <1>3 DEF Found, ExecLast, Has
  <2> QED  BY <2>4, <2>5
<1> QED  BY <1>2, <1>4, <1>5 DEF IInv

\* An exec announces the process, whatever it runs from now on.
LEMMA ExecInv ==
  ASSUME IInv, NEW p \in Pids, NEW s \in Running, Exec(p, s)
  PROVE  IInv'
<1>1. s \in States /\ proc[p] \in Running /\ Becomes(p, s) /\ Send(Exec_(p))
  BY DEF Exec, Running, States, Exec_
<1>2. /\ proc' \in [Pids -> States]
      /\ proc'[p] = s /\ \A r \in Pids \ {p} : proc'[r] = proc[r]
      /\ events' \in 0..MaxEvents
      /\ crowded' \in BOOLEAN /\ (crowded => crowded')
      /\ NamedOnce'
      /\ UNCHANGED <<need_exit, eintr, pc, pos, fd, proc_pid, misled>>
      /\ Listening' <=> Listening
  BY <1>1, BecomesEffect
<1>3. Exec_(p) \in Message  BY DEF Exec_, Message
<1>4. /\ rcvbuf' \in Seq(Message) /\ Len(rcvbuf') <= BufLen /\ enobufs' \in BOOLEAN
      /\ ~Listening => UNCHANGED <<rcvbuf, enobufs>>
      /\ Listening /\ ~enobufs' => ~enobufs /\ rcvbuf' = Append(rcvbuf, Exec_(p))
  BY <1>1, <1>3, SendEffect DEF IInv
<1>5. UNCHANGED fdGone  BY DEF Exec
<1>6. TypeOK' /\ Fresh' /\ OneOpen'
  BY <1>2, <1>4, <1>5 DEF IInv, TypeOK, Fresh, OneOpen, States, Listening
<1>7. ASSUME Listening', ~enobufs'  PROVE NoExitMissed' /\ NamedIsFound'
  <2>1. NoExitMissed /\ NamedIsFound  BY <1>7, <1>2, <1>4 DEF IInv
  <2>2. \A r \in Pids : proc[r] \in Running => proc'[r] \in Running
    BY <1>1, <1>2
  <2>3. proc_pid \in 0..MaxPid /\ (pc = "checkread" => fd \in Pids)
    BY DEF IInv, TypeOK, OneOpen
  <2>4. rcvbuf' = Append(rcvbuf, Exec_(p)) /\ rcvbuf \in Seq(Message)
    BY <1>7, <1>2, <1>4 DEF IInv, TypeOK
  <2>5. \A r \in Pids : ExecLast(rcvbuf', r) <=> ExecLast(rcvbuf, r) \/ p = r
    BY <2>4, AppendExecLast
  <2>6. \A r : Has(rcvbuf', Exit_(r)) <=> Has(rcvbuf, Exit_(r))
    <3>1. \A r : Exec_(p) # Exit_(r)  BY DEF Exec_, Exit_
    <3> QED  BY <3>1, <2>4, <1>3, AppendHas
  <2>7. NoExitMissed'
    <3>1. \A r \in Pids : ExecLast(rcvbuf', r) => proc'[r] \in Running
      BY <2>1, <2>2, <2>5, <1>1, <1>2 DEF NoExitMissed
    <3>2. proc_pid' # 0 => proc'[proc_pid'] \in Running \/ Has(rcvbuf', Exit_(proc_pid'))
      BY <2>1, <2>2, <2>3, <2>6, <1>2, ConstantsAssumption DEF NoExitMissed, Pids
    <3>3. pc' = "checkread" /\ (fdGone' \/ proc'[fd'] \notin Running)
            => Has(rcvbuf', Exit_(fd'))
      BY <2>1, <2>2, <2>3, <2>6, <1>2, <1>5 DEF NoExitMissed
    <3> QED  BY <3>1, <3>2, <3>3 DEF NoExitMissed
  <2>8. NamedIsFound'
    <3> SUFFICES ASSUME ~crowded', ~misled', NEW r \in Pids, proc'[r] = "named"
                 PROVE  Found(r)'
      BY DEF NamedIsFound
    <3>1. CASE r = p  BY <3>1, <2>5 DEF Found
    <3>2. CASE r # p
      <4>1. Found(r)  BY <3>2, <1>2, <2>1 DEF NamedIsFound
      <4> QED  BY <4>1, <2>5, <2>6, <1>2, <1>5 DEF Found
    <3> QED  BY <3>1, <3>2
  <2> QED  BY <2>7, <2>8
<1> QED  BY <1>2, <1>6, <1>7 DEF IInv

\* An exit is put behind every exec of the process: from here on its pid counts
\* as running no more, and the one that holds it has the exit to come.
LEMMA ExitInv ==
  ASSUME IInv, NEW p \in Pids, Exit(p)
  PROVE  IInv'
<1>1. "zombie" \in States /\ Becomes(p, "zombie") /\ Send(Exit_(p))
  BY DEF Exit, States, Exit_
<1>2. /\ proc' \in [Pids -> States]
      /\ proc'[p] = "zombie" /\ \A r \in Pids \ {p} : proc'[r] = proc[r]
      /\ events' \in 0..MaxEvents
      /\ crowded' \in BOOLEAN /\ (crowded => crowded')
      /\ NamedOnce'
      /\ UNCHANGED <<need_exit, eintr, pc, pos, fd, proc_pid, misled>>
      /\ Listening' <=> Listening
  BY <1>1, BecomesEffect
<1>3. Exit_(p) \in Message  BY DEF Exit_, Message
<1>4. /\ rcvbuf' \in Seq(Message) /\ Len(rcvbuf') <= BufLen /\ enobufs' \in BOOLEAN
      /\ ~Listening => UNCHANGED <<rcvbuf, enobufs>>
      /\ Listening /\ ~enobufs' => ~enobufs /\ rcvbuf' = Append(rcvbuf, Exit_(p))
  BY <1>1, <1>3, SendEffect DEF IInv
<1>5. UNCHANGED fdGone  BY DEF Exit
<1>6. TypeOK' /\ Fresh' /\ OneOpen'
  BY <1>2, <1>4, <1>5 DEF IInv, TypeOK, Fresh, OneOpen, States, Listening
<1>7. ASSUME Listening', ~enobufs'  PROVE NoExitMissed' /\ NamedIsFound'
  <2>1. NoExitMissed /\ NamedIsFound  BY <1>7, <1>2, <1>4 DEF IInv
  <2>2. proc_pid \in 0..MaxPid /\ (pc = "checkread" => fd \in Pids)
    BY DEF IInv, TypeOK, OneOpen
  <2>3. rcvbuf' = Append(rcvbuf, Exit_(p)) /\ rcvbuf \in Seq(Message)
    BY <1>7, <1>2, <1>4 DEF IInv, TypeOK
  <2>4. \A r \in Pids : ExecLast(rcvbuf', r) <=> ExecLast(rcvbuf, r) /\ p # r
    BY <2>3, AppendExecLast
  <2>5. \A r \in Pids : Has(rcvbuf', Exit_(r)) <=> Has(rcvbuf, Exit_(r)) \/ p = r
    <3>1. \A r : Exit_(p) = Exit_(r) <=> p = r  BY DEF Exit_
    <3> QED  BY <3>1, <2>3, <1>3, AppendHas
  <2>6. NoExitMissed'
    <3>1. \A r \in Pids : ExecLast(rcvbuf', r) => proc'[r] \in Running
      BY <2>1, <2>4, <1>2 DEF NoExitMissed
    <3>2. proc_pid' # 0 => proc'[proc_pid'] \in Running \/ Has(rcvbuf', Exit_(proc_pid'))
      BY <2>1, <2>2, <2>5, <1>2, ConstantsAssumption DEF NoExitMissed, Pids
    <3>3. pc' = "checkread" /\ (fdGone' \/ proc'[fd'] \notin Running)
            => Has(rcvbuf', Exit_(fd'))
      BY <2>1, <2>2, <2>5, <1>2, <1>5 DEF NoExitMissed
    <3> QED  BY <3>1, <3>2, <3>3 DEF NoExitMissed
  <2>7. NamedIsFound'
    <3> SUFFICES ASSUME ~crowded', ~misled', NEW r \in Pids, proc'[r] = "named"
                 PROVE  Found(r)'
      BY DEF NamedIsFound
    <3>1. r # p /\ Found(r)  BY <1>2, <2>1 DEF NamedIsFound
    <3> QED  BY <3>1, <2>4, <2>5, <1>2, <1>5 DEF Found
  <2> QED  BY <2>6, <2>7
<1> QED  BY <1>2, <1>6, <1>7 DEF IInv

\* The pid of a process that is reaped may be open, and its exit is to come.
LEMMA ReapInv ==
  ASSUME IInv, NEW p \in Pids, Reap(p)
  PROVE  IInv'
<1>1. "none" \in States /\ proc[p] = "zombie" /\ Becomes(p, "none")
  BY DEF Reap, States
<1>2. /\ proc' \in [Pids -> States]
      /\ proc'[p] = "none" /\ \A r \in Pids \ {p} : proc'[r] = proc[r]
      /\ events' \in 0..MaxEvents
      /\ crowded' \in BOOLEAN /\ (crowded => crowded')
      /\ NamedOnce'
      /\ UNCHANGED <<need_exit, eintr, pc, pos, fd, proc_pid, misled>>
      /\ Listening' <=> Listening
  BY <1>1, BecomesEffect
<1>3. UNCHANGED <<rcvbuf, enobufs>> /\ fdGone' = (fdGone \/ fd = p)
  BY DEF Reap, sockVars
<1>4. fdGone' \in BOOLEAN /\ OneOpen'
  BY <1>2, <1>3, ConstantsAssumption DEF IInv, TypeOK, OneOpen, Pids
<1>5. TypeOK' /\ Fresh'
  BY <1>2, <1>3, <1>4 DEF IInv, TypeOK, Fresh, States
<1>6. ASSUME Listening', ~enobufs'  PROVE NoExitMissed' /\ NamedIsFound'
  <2>1. NoExitMissed /\ NamedIsFound  BY <1>6, <1>2, <1>3 DEF IInv
  <2>2. \A r \in Pids : /\ proc[r] \in Running <=> proc'[r] \in Running
                        /\ proc[r] = "named" <=> proc'[r] = "named"
    BY <1>1, <1>2 DEF Running
  <2>3. proc_pid \in 0..MaxPid /\ (pc = "checkread" => fd \in Pids)
    BY DEF IInv, TypeOK, OneOpen
  <2>4. NoExitMissed'
    <3>1. \A r \in Pids : ExecLast(rcvbuf', r) => proc'[r] \in Running
      BY <2>1, <2>2, <1>3 DEF NoExitMissed
    <3>2. proc_pid' # 0 => proc'[proc_pid'] \in Running \/ Has(rcvbuf', Exit_(proc_pid'))
      BY <2>1, <2>2, <2>3, <1>2, <1>3, ConstantsAssumption DEF NoExitMissed, Pids
    <3>3. pc' = "checkread" /\ (fdGone' \/ proc'[fd'] \notin Running)
            => Has(rcvbuf', Exit_(fd'))
      BY <2>1, <2>2, <2>3, <1>1, <1>2, <1>3 DEF NoExitMissed, Running
    <3> QED  BY <3>1, <3>2, <3>3 DEF NoExitMissed
  <2>5. NamedIsFound'
    <3> SUFFICES ASSUME ~crowded', ~misled', NEW r \in Pids, proc'[r] = "named"
                 PROVE  Found(r)'
      BY DEF NamedIsFound
    <3>1. r # p /\ Found(r)  BY <1>1, <1>2, <2>1 DEF NamedIsFound
    <3> QED  BY <3>1, <1>2, <1>3 DEF Found
  <2> QED  BY <2>4, <2>5
<1> QED  BY <1>2, <1>4, <1>5, <1>6 DEF IInv

\* SIGINT touches only the flag and the recv() it interrupts.
LEMMA SigintInv == IInv /\ on_sigint => IInv'
<1> SUFFICES ASSUME IInv, on_sigint  PROVE IInv'
  OBVIOUS
<1>1. /\ UNCHANGED <<proc, events, crowded, rcvbuf, enobufs, pc, pos, fd, fdGone,
                     proc_pid, misled>>
      /\ need_exit' \in BOOLEAN /\ eintr' \in BOOLEAN
  BY DEF on_sigint, osVars, sockVars, IInv, TypeOK
<1>2. TypeOK' /\ Fresh' /\ OneOpen' /\ NamedOnce'
  BY <1>1 DEF IInv, TypeOK, Fresh, OneOpen, NamedOnce
<1>3. NoExitMissed' <=> NoExitMissed  BY <1>1 DEF NoExitMissed
<1>4. NamedIsFound' <=> NamedIsFound  BY <1>1 DEF NamedIsFound, Found
<1> QED  BY <1>1, <1>2, <1>3, <1>4 DEF IInv, Listening

\* What the other processes do.
LEMMA EnvironmentInv == IInv /\ Environment => IInv'
BY ForkInv, ExecInv, ExitInv, ReapInv, SigintInv DEF Environment

-----------------------------------------------------------------------------
(* The program. *)

\* The program ends, closing what it had open.
LEMMA EndInv ==
  ASSUME IInv, pc' \in {"failed", "done"}, CloseCmdline,
         UNCHANGED <<osVars, sockVars, sigVars, pos, proc_pid, misled>>
  PROVE  IInv'
<1> USE DEF CloseCmdline, osVars, sockVars, sigVars
<1>1. TypeOK'
  <2>1. 0 \in 0..MaxPid  BY ConstantsAssumption
  <2>2. fd' \in 0..MaxPid /\ fdGone' \in BOOLEAN  BY <2>1, Zenon
  <2> QED  BY <2>2 DEF IInv, TypeOK
<1>2. Fresh' /\ OneOpen' /\ NamedOnce' /\ ~Listening'
  BY DEF IInv, Fresh, OneOpen, NamedOnce, Listening
<1> QED  BY <1>1, <1>2 DEF IInv

\* Subscribing comes before the scan: every process is ahead of it.
LEMMA ListenInv ==
  ASSUME IInv, pc = "start", pc' = "scan",
         UNCHANGED <<osVars, sockVars, sigVars, pos, fd, fdGone, proc_pid, misled>>
  PROVE  IInv'
<1> USE DEF osVars, sockVars, sigVars
<1>1. TypeOK' /\ Fresh' /\ OneOpen' /\ NamedOnce'
  BY DEF IInv, TypeOK, Fresh, OneOpen, NamedOnce
<1>2. rcvbuf' = <<>> /\ proc_pid' = 0 /\ pos' = 0  BY DEF IInv, Fresh
<1>3. \A m : ~Has(rcvbuf', m)  BY <1>2 DEF Has
<1>4. \A r : ~ExecLast(rcvbuf', r)  BY <1>2 DEF ExecLast
<1>5. NoExitMissed'  BY <1>2, <1>4 DEF NoExitMissed
<1>6. \A r \in Pids : 0 < r  BY ConstantsAssumption DEF Pids
<1>7. \A r \in Pids : Found(r)'  BY <1>2, <1>3, <1>6 DEF Found
<1>8. NamedIsFound'  BY <1>7 DEF NamedIsFound
<1> QED  BY <1>1, <1>5, <1>8 DEF IInv

\* The steps that neither look at /proc nor take a message: the test of the loop,
\* and recv() interrupted or failing.
LEMMA TestInv == IInv /\ (TestExit \/ RecvInterrupted \/ RecvFails) => IInv'
<1> SUFFICES ASSUME IInv, TestExit \/ RecvInterrupted \/ RecvFails  PROVE IInv'
  OBVIOUS
<1> USE DEF osVars, sockVars, sigVars
<1>1. CASE TestExit \/ RecvInterrupted
  <2>1. /\ pc \in {"test", "recv"} /\ pc' \in {"test", "recv", "done"}
        /\ UNCHANGED <<proc, events, crowded, rcvbuf, enobufs, need_exit, pos, fd, fdGone,
                       proc_pid, misled>>
        /\ eintr' \in BOOLEAN
    BY <1>1 DEF TestExit, RecvInterrupted, IInv, TypeOK
  <2>2. TypeOK'  BY <2>1 DEF IInv, TypeOK
  <2>3. Fresh' /\ OneOpen' /\ NamedOnce' /\ Listening
    BY <2>1 DEF IInv, Fresh, OneOpen, NamedOnce, Listening
  <2>4. NoExitMissed => NoExitMissed'  BY <2>1 DEF NoExitMissed
  <2>5. NamedIsFound => NamedIsFound'  BY <2>1 DEF NamedIsFound, Found
  <2> QED  BY <2>1, <2>2, <2>3, <2>4, <2>5 DEF IInv
<1>2. CASE RecvFails
  <2>1. fd = 0 /\ fdGone = FALSE  BY <1>2 DEF RecvFails, IInv, OneOpen, TypeOK
  <2> QED  BY <1>2, <2>1, EndInv DEF RecvFails, CloseCmdline
<1> QED  BY <1>1, <1>2

\* The first entry behind pos is not behind any process that is.
LEMMA NextEntryFirst ==
  ASSUME IInv, NEW p \in Pids, NextEntry(p)
  PROVE  \A r \in Pids : proc[r] # "none" /\ pos < r => r = p \/ p < r
BY ConstantsAssumption DEF NextEntry, IInv, TypeOK, Pids

\* A pid in NinePids is passed over; when it runs the program, the scan is misled.
LEMMA ScanSkipInv == IInv /\ ScanSkip => IInv'
<1> SUFFICES ASSUME IInv, ScanSkip  PROVE IInv'
  OBVIOUS
<1> USE DEF osVars, sockVars, sigVars
<1>1. PICK p \in NinePids : /\ NextEntry(p) /\ pos' = p
                            /\ misled' = (misled \/ proc[p] = "named")
  BY DEF ScanSkip
<1>2. p \in Pids  BY ConstantsAssumption
<1>3. /\ pc = "scan" /\ pc' = "scan"
      /\ UNCHANGED <<proc, events, crowded, rcvbuf, enobufs, need_exit, eintr, fd, fdGone,
                     proc_pid>>
  BY DEF ScanSkip
<1>4. pos' \in 0..MaxPid /\ misled' \in BOOLEAN
  BY <1>1, <1>2, ConstantsAssumption DEF IInv, TypeOK, Pids
<1>5. TypeOK'  BY <1>3, <1>4 DEF IInv, TypeOK
<1>6. Fresh' /\ OneOpen' /\ NamedOnce' /\ (Listening' <=> Listening)
  BY <1>3 DEF IInv, Fresh, OneOpen, NamedOnce, Listening
<1>7. NoExitMissed => NoExitMissed'  BY <1>3 DEF NoExitMissed
<1>8. NamedIsFound => NamedIsFound'
  <2> SUFFICES ASSUME NamedIsFound, ~crowded', ~misled', NEW r \in Pids, proc'[r] = "named"
               PROVE  Found(r)'
    BY DEF NamedIsFound
  <2>1. r # p /\ Found(r)  BY <1>1, <1>3 DEF NamedIsFound, IInv, TypeOK
  <2>2. pos < r => p < r  BY <2>1, <1>1, <1>2, <1>3, NextEntryFirst
  <2> QED  BY <2>1, <2>2, <1>1, <1>3 DEF Found
<1> QED  BY <1>3, <1>5, <1>6, <1>7, <1>8 DEF IInv

\* open(): the entry the scan has got to is looked at next.
LEMMA ScanOpenInv == IInv /\ ScanOpen => IInv'
<1> SUFFICES ASSUME IInv, ScanOpen  PROVE IInv'
  OBVIOUS
<1> USE DEF osVars, sockVars, sigVars
<1>1. PICK p \in Pids : NextEntry(p) /\ pos' = p /\ fd' = p /\ fdGone' = FALSE
  BY DEF ScanOpen, OpenCmdline
<1>2. /\ pc = "scan" /\ pc' = "scanread"
      /\ UNCHANGED <<proc, events, crowded, rcvbuf, enobufs, need_exit, eintr, proc_pid,
                     misled>>
  BY DEF ScanOpen
<1>3. pos' \in 0..MaxPid /\ fd' \in 0..MaxPid
  BY <1>1, ConstantsAssumption DEF Pids
<1>4. TypeOK'  BY <1>1, <1>2, <1>3 DEF IInv, TypeOK
<1>5. Fresh' /\ OneOpen' /\ NamedOnce' /\ (Listening' <=> Listening)
  BY <1>1, <1>2 DEF IInv, Fresh, OneOpen, NamedOnce, Listening
<1>6. NoExitMissed => NoExitMissed'  BY <1>2 DEF NoExitMissed
<1>7. NamedIsFound => NamedIsFound'
  <2> SUFFICES ASSUME NamedIsFound, ~crowded', ~misled', NEW r \in Pids, proc'[r] = "named"
               PROVE  Found(r)'
    BY DEF NamedIsFound
  <2>1. Found(r)  BY <1>2 DEF NamedIsFound
  <2>2. pos < r => r = p \/ p < r  BY <1>1, <1>2, NextEntryFirst
  <2> QED  BY <2>1, <2>2, <1>1, <1>2 DEF Found
<1> QED  BY <1>2, <1>4, <1>5, <1>6, <1>7 DEF IInv

\* read() and strcmp(): a match runs the program as it is compared, and ends the
\* scan; with no match the entry is not the program, or announced by an exec.
LEMMA ScanReadInv == IInv /\ ScanRead => IInv'
<1> SUFFICES ASSUME IInv, ScanRead  PROVE IInv'
  OBVIOUS
<1> USE DEF osVars, sockVars, sigVars
<1>1. /\ pc = "scanread" /\ fd \in Pids /\ fd' = 0 /\ fdGone' = FALSE
      /\ UNCHANGED <<proc, events, crowded, rcvbuf, enobufs, need_exit, eintr, pos, misled>>
  BY DEF ScanRead, CloseCmdline, IInv, OneOpen
<1>2. \/ proc[fd] = "named" /\ proc_pid' = fd /\ pc' = "test"
      \/ (fdGone \/ proc[fd] # "named") /\ pc' = "scan" /\ proc_pid' = proc_pid
  BY DEF ScanRead, Matches, IInv, TypeOK
<1>3. /\ pc' \in {"test", "scan"} /\ proc_pid' \in 0..MaxPid
      /\ fd' \in 0..MaxPid /\ fdGone' \in BOOLEAN
  <2>1. 0 \in 0..MaxPid  BY ConstantsAssumption
  <2>2. fd \in 0..MaxPid /\ proc_pid \in 0..MaxPid  BY DEF IInv, TypeOK
  <2> QED  BY <2>1, <2>2, <1>1, <1>2
<1>4. TypeOK'  BY <1>1, <1>3 DEF IInv, TypeOK
<1>5. Fresh' /\ OneOpen' /\ NamedOnce' /\ Listening
  BY <1>1, <1>3 DEF IInv, Fresh, OneOpen, NamedOnce, Listening
<1>6. NoExitMissed => NoExitMissed'
  BY <1>1, <1>2 DEF NoExitMissed, Running
<1>7. ASSUME NoExitMissed, NamedIsFound  PROVE NamedIsFound'
  <2> SUFFICES ASSUME ~crowded', ~misled', NEW r \in Pids, proc'[r] = "named"
               PROVE  Found(r)'
    BY DEF NamedIsFound
  <2>1. Found(r) /\ proc[r] = "named"  BY <1>1, <1>7 DEF NamedIsFound
  <2>2. CASE proc[fd] = "named" /\ proc_pid' = fd /\ pc' = "test"
    <3>1. r = fd  BY <2>1, <2>2, <1>1 DEF IInv, NamedOnce
    <3> QED  BY <3>1, <2>1, <2>2, <1>1 DEF Found
  <2>3. CASE (fdGone \/ proc[fd] # "named") /\ pc' = "scan" /\ proc_pid' = proc_pid
    BY <2>1, <2>3, <1>1 DEF Found
  <2> QED  BY <2>2, <2>3, <1>2
<1> QED  BY <1>1, <1>4, <1>5, <1>6, <1>7 DEF IInv

\* Nothing is ahead of the scan when readdir() is through.
LEMMA ScanEndInv == IInv /\ ScanEnd => IInv'
<1> SUFFICES ASSUME IInv, ScanEnd  PROVE IInv'
  OBVIOUS
<1> USE DEF osVars, sockVars, sigVars
<1>1. /\ pc = "scan" /\ pc' = "test"
      /\ \A p \in Pids : p > pos => proc[p] = "none"
      /\ UNCHANGED <<proc, events, crowded, rcvbuf, enobufs, need_exit, eintr, pos, fd,
                     fdGone, proc_pid, misled>>
  BY DEF ScanEnd
<1>2. TypeOK'  BY <1>1 DEF IInv, TypeOK
<1>3. Fresh' /\ OneOpen' /\ NamedOnce' /\ Listening
  BY <1>1 DEF IInv, Fresh, OneOpen, NamedOnce, Listening
<1>4. NoExitMissed => NoExitMissed'  BY <1>1 DEF NoExitMissed
<1>5. NamedIsFound => NamedIsFound'
  <2> SUFFICES ASSUME NamedIsFound, ~crowded', ~misled', NEW r \in Pids, proc'[r] = "named"
               PROVE  Found(r)'
    BY DEF NamedIsFound
  <2>1. Found(r) /\ ~(pos < r)
    BY <1>1, ConstantsAssumption DEF NamedIsFound, IInv, TypeOK, Pids
  <2> QED  BY <2>1, <1>1 DEF Found
<1> QED  BY <1>1, <1>2, <1>3, <1>4, <1>5 DEF IInv

\* What recv() of a message leaves.
LEMMA RecvEffect ==
  ASSUME IInv, NEW what, Recv(what)
  PROVE  /\ pc = "recv" /\ Listening /\ ~enobufs
         /\ fd = 0 /\ ~fdGone
         /\ UNCHANGED <<proc, events, crowded, enobufs, need_exit, eintr, pos, misled>>
         /\ rcvbuf \in Seq(Message) /\ rcvbuf # <<>> /\ rcvbuf' = Tail(rcvbuf)
         /\ rcvbuf' \in Seq(Message) /\ Len(rcvbuf') <= BufLen
         /\ Head(rcvbuf) \in Message /\ Head(rcvbuf).what = what
<1>1. /\ pc = "recv" /\ ~enobufs /\ rcvbuf # <<>> /\ rcvbuf' = Tail(rcvbuf)
      /\ UNCHANGED <<proc, events, crowded, enobufs, need_exit, eintr, pos, misled>>
      /\ Head(rcvbuf).what = what
  BY DEF Recv, osVars, sigVars
<1>2. rcvbuf \in Seq(Message) /\ Len(rcvbuf) \in Nat /\ Len(rcvbuf) <= BufLen
  BY DEF IInv, TypeOK
<1>3. /\ Head(rcvbuf) \in Message /\ Tail(rcvbuf) \in Seq(Message)
      /\ Len(Tail(rcvbuf)) = Len(rcvbuf) - 1
  BY <1>1, <1>2, TailHas
<1>4. Len(rcvbuf') <= BufLen  BY <1>1, <1>2, <1>3, ConstantsAssumption
<1>5. fd = 0 /\ ~fdGone /\ Listening  BY <1>1 DEF IInv, OneOpen, Listening
<1> QED  BY <1>1, <1>2, <1>3, <1>4, <1>5

\* An exec that is taken was of a process that runs, or has its exit behind it;
\* check_process() opens what has the pid by now.
LEMMA RecvExecInv == IInv /\ RecvExec => IInv'
<1> SUFFICES ASSUME IInv, RecvExec  PROVE IInv'
  OBVIOUS
<1> DEFINE p == Head(rcvbuf).pid
<1>1. /\ pc = "recv" /\ Listening /\ ~enobufs
      /\ fd = 0 /\ ~fdGone
      /\ UNCHANGED <<proc, events, crowded, enobufs, need_exit, eintr, pos, misled>>
      /\ rcvbuf \in Seq(Message) /\ rcvbuf # <<>> /\ rcvbuf' = Tail(rcvbuf)
      /\ rcvbuf' \in Seq(Message) /\ Len(rcvbuf') <= BufLen
      /\ Head(rcvbuf) \in Message /\ Head(rcvbuf).what = "exec"
  BY RecvEffect DEF RecvExec
<1>2. p \in Pids /\ Head(rcvbuf) = Exec_(p)  BY <1>1, MessageKinds
<1>3. /\ proc_pid' = proc_pid
      /\ \/ proc[p] = "none" /\ pc' = "test" /\ fd' = fd /\ fdGone' = fdGone
         \/ proc[p] # "none" /\ pc' = "checkread" /\ fd' = p /\ fdGone' = FALSE
  BY DEF RecvExec, OpenCmdline
<1>4. /\ \A q : ExecLast(rcvbuf', q) => ExecLast(rcvbuf, q)
      /\ \A q : ExecLast(rcvbuf, q) =>
           \/ ExecLast(rcvbuf', q)
           \/ Head(rcvbuf) = Exec_(q) /\ ~Has(rcvbuf', Exit_(q))
      /\ \A q : Head(rcvbuf) = Exec_(q) /\ ~Has(rcvbuf', Exit_(q)) => ExecLast(rcvbuf, q)
  BY <1>1, TailHas
<1>5. \A q : Has(rcvbuf, Exit_(q)) <=> Has(rcvbuf', Exit_(q))
  <2>1. \A m : Has(rcvbuf, m) <=> Head(rcvbuf) = m \/ Has(rcvbuf', m)
    BY <1>1, TailHas
  <2>2. \A q : Exec_(p) # Exit_(q)  BY DEF Exec_, Exit_
  <2> QED  BY <2>1, <2>2, <1>2
<1>6. \A q \in Pids : Exec_(p) = Exec_(q) => p = q  BY DEF Exec_
<1> HIDE DEF p
<1>7. fd' \in 0..MaxPid /\ fdGone' \in BOOLEAN /\ pc' \in {"test", "checkread"}
  <2>1. fd \in 0..MaxPid /\ fdGone \in BOOLEAN  BY DEF IInv, TypeOK
  <2>2. p \in 0..MaxPid  BY <1>2, ConstantsAssumption DEF Pids
  <2> QED  BY <2>1, <2>2, <1>3
<1>8. TypeOK'  BY <1>1, <1>3, <1>7 DEF IInv, TypeOK
<1>9. Fresh' /\ OneOpen' /\ NamedOnce'
  BY <1>1, <1>2, <1>3 DEF IInv, Fresh, OneOpen, NamedOnce
<1>10. NoExitMissed /\ NamedIsFound  BY <1>1 DEF IInv
<1>11. NoExitMissed'
  <2>1. \A q \in Pids : ExecLast(rcvbuf', q) => proc'[q] \in Running
    BY <1>1, <1>4, <1>10 DEF NoExitMissed
  <2>2. proc_pid' # 0 => proc'[proc_pid'] \in Running \/ Has(rcvbuf', Exit_(proc_pid'))
    BY <1>1, <1>3, <1>5, <1>10 DEF NoExitMissed
  <2>3. pc' = "checkread" /\ (fdGone' \/ proc'[fd'] \notin Running)
          => Has(rcvbuf', Exit_(fd'))
    BY <1>1, <1>2, <1>3, <1>4, <1>10 DEF NoExitMissed
  <2> QED  BY <2>1, <2>2, <2>3 DEF NoExitMissed
<1>12. NamedIsFound'
  <2> SUFFICES ASSUME ~crowded', ~misled', NEW r \in Pids, proc'[r] = "named"
               PROVE  Found(r)'
    BY DEF NamedIsFound
  <2>1. Found(r) /\ proc[r] = "named"  BY <1>1, <1>10 DEF NamedIsFound
  <2>2. CASE ExecLast(rcvbuf, r) /\ ~ExecLast(rcvbuf', r)
    <3>1. r = p /\ ~Has(rcvbuf', Exit_(r))  BY <2>2, <1>2, <1>4, <1>6
    <3>2. pc' = "checkread" /\ fd' = r /\ ~fdGone'  BY <3>1, <2>1, <1>3
    <3> QED  BY <3>1, <3>2 DEF Found
  <2>3. CASE ExecLast(rcvbuf', r)  BY <2>3 DEF Found
  <2>4. CASE ~ExecLast(rcvbuf, r)
    BY <2>4, <2>1, <1>1, <1>3, <1>5 DEF Found
  <2> QED  BY <2>2, <2>3, <2>4
<1> QED  BY <1>8, <1>9, <1>11, <1>12 DEF IInv

\* check_process() holds what it looked at, if it matched: it runs the program,
\* or its exit is to come.
LEMMA CheckInv == IInv /\ check_process => IInv'
<1> SUFFICES ASSUME IInv, check_process  PROVE IInv'
  OBVIOUS
<1> USE DEF osVars, sockVars, sigVars
<1>1. /\ pc = "checkread" /\ pc' = "test" /\ fd \in Pids /\ fd' = 0 /\ fdGone' = FALSE
      /\ UNCHANGED <<proc, events, crowded, rcvbuf, enobufs, need_exit, eintr, pos>>
  BY DEF check_process, CloseCmdline, IInv, OneOpen
<1>2. /\ misled' \in BOOLEAN /\ (misled => misled')
      /\ \/ proc_pid' = fd /\ (fdGone => misled') /\ (~fdGone => proc[fd] = "named")
         \/ proc_pid' = proc_pid /\ (fdGone \/ proc[fd] # "named")
  BY DEF check_process, Matches, IInv, TypeOK
<1>3. proc_pid' \in 0..MaxPid /\ fd' \in 0..MaxPid
  <2>1. 0 \in 0..MaxPid  BY ConstantsAssumption
  <2>2. fd \in 0..MaxPid /\ proc_pid \in 0..MaxPid  BY DEF IInv, TypeOK
  <2> QED  BY <2>1, <2>2, <1>1, <1>2
<1>4. TypeOK'  BY <1>1, <1>2, <1>3 DEF IInv, TypeOK
<1>5. Fresh' /\ OneOpen' /\ NamedOnce' /\ Listening
  BY <1>1 DEF IInv, Fresh, OneOpen, NamedOnce, Listening
<1>6. NoExitMissed => NoExitMissed'
  BY <1>1, <1>2 DEF NoExitMissed, Running
<1>7. ASSUME NoExitMissed, NamedIsFound  PROVE NamedIsFound'
  <2> SUFFICES ASSUME ~crowded', ~misled', NEW r \in Pids, proc'[r] = "named"
               PROVE  Found(r)'
    BY DEF NamedIsFound
  <2>1. Found(r) /\ proc[r] = "named"  BY <1>1, <1>2, <1>7 DEF NamedIsFound
  <2>2. CASE proc_pid' = fd /\ (fdGone => misled') /\ (~fdGone => proc[fd] = "named")
    <3>1. r = fd  BY <2>1, <2>2, <1>1 DEF IInv, NamedOnce
    <3> QED  BY <3>1, <2>1, <2>2, <1>1 DEF Found
  <2>3. CASE proc_pid' = proc_pid /\ (fdGone \/ proc[fd] # "named")
    BY <2>1, <2>3, <1>1 DEF Found
  <2> QED  BY <2>2, <2>3, <1>2
<1> QED  BY <1>1, <1>4, <1>5, <1>6, <1>7 DEF IInv

\* The exit of the pid it holds lets go of it.
LEMMA RecvExitInv == IInv /\ RecvExit => IInv'
<1> SUFFICES ASSUME IInv, RecvExit  PROVE IInv'
  OBVIOUS
<1> DEFINE p == Head(rcvbuf).pid
<1>1. /\ pc = "recv" /\ Listening /\ ~enobufs
      /\ fd = 0 /\ ~fdGone
      /\ UNCHANGED <<proc, events, crowded, enobufs, need_exit, eintr, pos, misled>>
      /\ rcvbuf \in Seq(Message) /\ rcvbuf # <<>> /\ rcvbuf' = Tail(rcvbuf)
      /\ rcvbuf' \in Seq(Message) /\ Len(rcvbuf') <= BufLen
      /\ Head(rcvbuf) \in Message /\ Head(rcvbuf).what = "exit"
  BY RecvEffect DEF RecvExit
<1>2. p \in Pids /\ Head(rcvbuf) = Exit_(p)  BY <1>1, MessageKinds
<1>3. /\ proc_pid' = IF p = proc_pid THEN 0 ELSE proc_pid
      /\ pc' = "test" /\ fd' = fd /\ fdGone' = fdGone
  BY DEF RecvExit
<1>4. \A q : ExecLast(rcvbuf', q) <=> ExecLast(rcvbuf, q)
  <2>1. \A q : ExecLast(rcvbuf', q) => ExecLast(rcvbuf, q)  BY <1>1, TailHas
  <2>2. \A q : ExecLast(rcvbuf, q) => ExecLast(rcvbuf', q) \/ Head(rcvbuf) = Exec_(q)
    BY <1>1, TailHas
  <2>3. \A q : Exit_(p) # Exec_(q)  BY DEF Exec_, Exit_
  <2> QED  BY <2>1, <2>2, <2>3, <1>2
<1>5. \A q : Has(rcvbuf, Exit_(q)) <=> p = q \/ Has(rcvbuf', Exit_(q))
  <2>1. \A m : Has(rcvbuf, m) <=> Head(rcvbuf) = m \/ Has(rcvbuf', m)
    BY <1>1, TailHas
  <2>2. \A q : Exit_(p) = Exit_(q) <=> p = q  BY DEF Exit_
  <2> QED  BY <2>1, <2>2, <1>2
<1> HIDE DEF p
<1>6. proc_pid' \in 0..MaxPid  BY <1>3, ConstantsAssumption DEF IInv, TypeOK
<1>7. TypeOK'  BY <1>1, <1>3, <1>6 DEF IInv, TypeOK
<1>8. Fresh' /\ OneOpen' /\ NamedOnce'
  BY <1>1, <1>3 DEF IInv, Fresh, OneOpen, NamedOnce
<1>9. NoExitMissed /\ NamedIsFound  BY <1>1 DEF IInv
<1>10. NoExitMissed'
  BY <1>1, <1>3, <1>4, <1>5, <1>9 DEF NoExitMissed
<1>11. NamedIsFound'
  <2> SUFFICES ASSUME ~crowded', ~misled', NEW r \in Pids, proc'[r] = "named"
               PROVE  Found(r)'
    BY DEF NamedIsFound
  <2>1. Found(r)  BY <1>1, <1>9 DEF NamedIsFound
  <2> QED  BY <2>1, <1>1, <1>3, <1>4, <1>5 DEF Found
<1> QED  BY <1>7, <1>8, <1>10, <1>11 DEF IInv

\* What track_process does.
LEMMA ProgramInv == IInv /\ Program => IInv'
<1> SUFFICES ASSUME IInv, Program  PROVE IInv'
  OBVIOUS
<1>1. CASE Subscribe
  <2>1. /\ pc = "start" /\ pc' \in {"scan", "failed"}
        /\ UNCHANGED <<osVars, sockVars, sigVars, pos, fd, fdGone, proc_pid, misled>>
    BY <1>1 DEF Subscribe
  <2>2. fd = 0 /\ fdGone = FALSE  BY <2>1 DEF IInv, OneOpen, TypeOK
  <2>3. CASE pc' = "scan"  BY <2>1, <2>3, ListenInv
  <2>4. CASE pc' = "failed"  BY <2>1, <2>2, <2>4, EndInv DEF CloseCmdline
  <2> QED  BY <2>1, <2>3, <2>4
<1>2. CASE ~Subscribe
  BY <1>2, ScanSkipInv, ScanOpenInv, ScanReadInv, ScanEndInv, TestInv, RecvExecInv,
     CheckInv, RecvExitInv DEF Program
<1> QED  BY <1>1, <1>2

LEMMA InitIInv == Init => IInv
<1> SUFFICES ASSUME Init  PROVE IInv
  OBVIOUS
<1>1. proc \in [Pids -> {"none", "named", "other", "zombie"}] /\ events \in 0..MaxEvents
  BY ConstantsAssumption DEF Init
<1>2. rcvbuf = <<>> /\ rcvbuf \in Seq(Message) /\ Len(rcvbuf) <= BufLen
  BY ConstantsAssumption DEF Init
<1>3. pos \in 0..MaxPid /\ fd \in 0..MaxPid /\ proc_pid \in 0..MaxPid
  BY ConstantsAssumption DEF Init
<1>4. crowded \in BOOLEAN  BY DEF Init
<1>5. TypeOK  BY <1>1, <1>2, <1>3, <1>4 DEF Init, TypeOK
<1>6. Fresh /\ OneOpen /\ ~Listening  BY DEF Init, Fresh, OneOpen, Listening
<1>7. NamedOnce
  <2> DEFINE S == {q \in Pids : proc[q] = "named"}
  <2> SUFFICES ASSUME ~crowded  PROVE \A a, b \in S : a = b
    BY DEF NamedOnce
  <2>1. ~(Cardinality(S) > 1)  BY DEF Init
  <2>2. S \in SUBSET Pids  OBVIOUS
  <2> HIDE DEF S
  <2> QED  BY <2>1, <2>2, AtMostOne
<1> QED  BY <1>5, <1>6, <1>7 DEF IInv

LEMMA StutterIInv == IInv /\ UNCHANGED vars => IInv'
<1> SUFFICES ASSUME IInv, UNCHANGED vars  PROVE IInv'
  OBVIOUS
<1>1. TypeOK' /\ Fresh' /\ OneOpen' /\ NamedOnce'
  BY DEF vars, IInv, TypeOK, Fresh, OneOpen, NamedOnce
<1>2. NoExitMissed' <=> NoExitMissed  BY DEF vars, NoExitMissed
<1>3. NamedIsFound' <=> NamedIsFound  BY DEF vars, NamedIsFound, Found
<1>4. (Listening' <=> Listening) /\ enobufs' = enobufs  BY DEF vars, Listening
<1> QED  BY <1>1, <1>2, <1>3, <1>4 DEF IInv

LEMMA NextIInv == IInv /\ [Next]_vars => IInv'
BY EnvironmentInv, ProgramInv, StutterIInv DEF Next

\* The properties follow.
LEMMA IInvInv == IInv => Inv
<1> SUFFICES ASSUME IInv  PROVE TrackedRunsOrExitPending
  BY DEF IInv, Inv
<1>1. \A r : Unhandled("exit", r) <=> Has(rcvbuf, Exit_(r))
  BY DEF Unhandled, Has, Exit_
<1>2. pc = "checkread" => Listening  BY DEF Listening
<1> QED  BY <1>1, <1>2 DEF IInv, NoExitMissed, TrackedRunsOrExitPending

LEMMA IInvSettled == IInv => SettledTracksNamed
<1> SUFFICES ASSUME IInv, pc = "recv", rcvbuf = <<>>, ~enobufs, ~crowded, ~misled,
                    NEW p \in Pids, proc[p] = "named"
             PROVE  proc_pid = p
  BY DEF SettledTracksNamed
<1>1. Found(p)  BY DEF IInv, NamedIsFound, Listening
<1>2. ~ExecLast(rcvbuf, p)  BY DEF ExecLast
<1> QED  BY <1>1, <1>2 DEF Found

\* Of track_process: the pid it holds is of a process that runs, or whose exit is
\* still to be handled, as long as recv() has not lost messages; a process that
\* exits before, while or after check_process() looks at it leaves its exit behind
\* the exec that is being handled.
THEOREM NoExitUnseen == Spec => []Inv
<1>1. Spec => []IInv  BY InitIInv, NextIInv, PTL DEF Spec
<1> QED  BY <1>1, IInvInv, PTL

-----------------------------------------------------------------------------
(* track_process_ns, and either of the two among the same processes. *)

LEMMA NsInitIInv == NsInit => IInv /\ NsIInv
BY InitIInv DEF NsInit, NsIInv

\* nl_connect() leaves the tracker where it is, starts it or ends it; the rest of
\* track_process_ns is track_process, but for check_process().
LEMMA NsNextIInv == IInv /\ [NsNext]_allVars => IInv'
<1> SUFFICES ASSUME IInv, [NsNext]_allVars  PROVE IInv'
  OBVIOUS
<1>1. CASE Plain  BY <1>1, ProgramInv DEF Plain
<1>2. CASE set_namespaces \/ set_run_mount
  <2>1. UNCHANGED vars  BY <1>2 DEF set_namespaces, set_run_mount, Enters
  <2> QED  BY <2>1, StutterIInv
<1>3. CASE nl_connect
  <2>1. CASE Enters("send")  BY <2>1, StutterIInv DEF Enters
  <2>2. CASE ~Enters("send")
    <3>1. /\ pc = "start" /\ pc' = "failed"
          /\ UNCHANGED <<osVars, sockVars, sigVars, pos, fd, fdGone, proc_pid, misled>>
      BY <1>3, <2>2 DEF nl_connect, Ns
    <3>2. fd = 0 /\ fdGone = FALSE  BY <3>1 DEF IInv, OneOpen, TypeOK
    <3> QED  BY <3>1, <3>2, EndInv DEF CloseCmdline
  <2> QED  BY <2>1, <2>2
<1>4. CASE set_proc_ev_listen
  <2>1. /\ pc = "start" /\ pc' \in {"scan", "failed"}
        /\ UNCHANGED <<osVars, sockVars, sigVars, pos, fd, fdGone, proc_pid, misled>>
    BY <1>4 DEF set_proc_ev_listen, Ns
  <2>2. fd = 0 /\ fdGone = FALSE  BY <2>1 DEF IInv, OneOpen, TypeOK
  <2>3. CASE pc' = "scan"  BY <2>1, <2>3, ListenInv
  <2>4. CASE pc' = "failed"  BY <2>1, <2>2, <2>4, EndInv DEF CloseCmdline
  <2> QED  BY <2>1, <2>3, <2>4
<1>5. CASE read_procs
  BY <1>5, ScanSkipInv, ScanOpenInv, ScanReadInv, ScanEndInv DEF read_procs
<1>6. CASE handle_proc_ev
  BY <1>6, TestInv, RecvExecInv, RecvExitInv DEF handle_proc_ev
<1>7. CASE check_process_null  BY <1>7, EndInv DEF check_process_null
<1>8. CASE Environment  BY <1>8, EnvironmentInv
<1>9. CASE UNCHANGED allVars  BY <1>9, StutterIInv DEF allVars
<1> QED  BY <1>1, <1>2, <1>3, <1>4, <1>5, <1>6, <1>7, <1>8, <1>9 DEF NsNext, main

\* What the other processes do moves neither program.
LEMMA EnvironmentKeepsPc == Environment => pc' = pc /\ proc_pid' = proc_pid /\ fd' = fd
BY DEF Environment, Fork, Exec, Exit, Reap, Becomes, on_sigint

\* The namespace is entered, and /var/run bound, before the program subscribes.
LEMMA NsNextNsIInv == NsIInv /\ [NsNext]_allVars => NsIInv'
<1> SUFFICES ASSUME NsIInv, [NsNext]_allVars  PROVE NsIInv'
  OBVIOUS
<1> USE DEF NsIInv
<1>1. CASE Plain  BY <1>1 DEF Plain, nsVars
<1>2. CASE set_namespaces
  BY <1>2 DEF set_namespaces, Enters, Ns, vars
<1>3. CASE set_run_mount
  BY <1>3 DEF set_run_mount, Enters, Ns, vars
<1>4. CASE nl_connect
  BY <1>4 DEF nl_connect, Enters, Ns, vars
<1>5. CASE set_proc_ev_listen
  BY <1>5 DEF set_proc_ev_listen, Ns, nsVars
<1>6. CASE read_procs
  BY <1>6 DEF read_procs, ScanSkip, ScanOpen, ScanRead, ScanEnd, nsVars
<1>7. CASE handle_proc_ev
  BY <1>7 DEF handle_proc_ev, TestExit, RecvInterrupted, RecvFails, RecvExec, RecvExit,
              Recv, nsVars
<1>8. CASE check_process_null  BY <1>8 DEF check_process_null
<1>9. CASE Environment /\ UNCHANGED nsVars
  BY <1>9, EnvironmentKeepsPc DEF nsVars
<1>10. CASE UNCHANGED allVars  BY <1>10 DEF allVars, vars, nsVars
<1> QED
  BY <1>1, <1>2, <1>3, <1>4, <1>5, <1>6, <1>7, <1>8, <1>9, <1>10 DEF NsNext, main

LEMMA NsInvariance == NsSpec => [](IInv /\ NsIInv)
BY NsInitIInv, NsNextIInv, NsNextNsIInv, PTL DEF NsSpec

\* Of either program: no exit of the pid it holds is missed; a program that has
\* entered "low" never gets an event, and the host's /var/run is changed only
\* where making the mounts slaves had failed (set_run_mount() 62-69).
THEOREM NsKeptApart == NsSpec => []NsInv
<1>1. NsIInv => NsApart  BY DEF NsIInv, NsApart, Listening
<1> QED  BY <1>1, NsInvariance, IInvInv, PTL DEF NsInv

\* Of either program, when every event has been handled: the process that runs
\* the program is the one that is tracked, provided that it was never run twice
\* at once, the scan did not pass over it (read_procs()' test of the first digit)
\* and check_process() did not compare an old buffer.
THEOREM TracksNamed == NsSpec => []SettledTracksNamed
BY NsInvariance, IInvSettled, PTL
=============================================================================
