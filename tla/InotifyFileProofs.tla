------------------------- MODULE InotifyFileProofs -------------------------
(***************************************************************************)
(* Proofs that, for any files, any lines, any queue limit and any size of  *)
(* the read buffer, the watcher of InotifyFile keeps its type invariant,   *)
(* shows and watches the right file once it has caught up, and dies only   *)
(* while it is behind.                                                     *)
(*                                                                         *)
(* The argument: among the events not yet handled, the last one about the  *)
(* name says whether the file is there; and once no event about the name   *)
(* is left, the watch is on the file that is there, and its line is shown, *)
(* is about to be read, or is announced by an event for that watch.        *)
(***************************************************************************)
EXTENDS InotifyFile, TLAPS

IsAppear(e) == e.wd = DirWd /\ e.mask \in AppearMasks
IsVanish(e) == e.wd = DirWd /\ e.mask \in VanishMasks
IsName(e) == IsAppear(e) \/ IsVanish(e)
IsGone(e) == e.mask \in {"DELETE_SELF", "MOVE_SELF"}

HasName(q) == \E k \in 1..Len(q) : IsName(q[k])
HasGone(q) == \E k \in 1..Len(q) : IsGone(q[k])
HasVanish(q) == \E k \in 1..Len(q) : IsVanish(q[k])
HasWrite(q, wd) == \E k \in 1..Len(q) : q[k] = [wd |-> wd, mask |-> "CLOSE_WRITE"]

\* The last event of q about the name says that it has appeared, or gone.
EndsIn(q, appear) ==
  \E k \in 1..Len(q) :
    /\ IF appear THEN IsAppear(q[k]) ELSE IsVanish(q[k])
    /\ \A j \in (k + 1)..Len(q) : ~IsName(q[j])

Present == AtPath # {}

\* What the unhandled events say agrees with the directory.
LastEventAgrees ==
  /\ HasName(queue) => EndsIn(queue, Present)
  /\ ~HasName(queue) /\ HasName(buf) => EndsIn(buf, Present)

\* What holds when no event about the name is left.
InStep ==
  /\ ~Present => /\ pc \in {"start", "loop"}
                 /\ file_wd = NoWd
                 /\ old_line = NoLine
  /\ \A i \in AtPath : pc # "start" =>
       /\ file_wd = wdOf[i]
       /\ file_wd # NoWd
       /\ pc = "fgets" => fp = i
       /\ \/ writing[i]
          \/ old_line = content[i]
          \/ pc \in {"fopen", "fgets"}
          \/ HasWrite(buf, file_wd)
          \/ HasWrite(queue, file_wd)

\* A queue is over its limit only by the overflow event.
Fits(q) == Len(q) <= MaxQueued \/ (/\ Len(q) = MaxQueued + 1
                                   /\ \E k \in 1..Len(q) : q[k] = Overflow)

\* The inductive form of the type invariant.
TypeInv == TypeOK /\ Fits(queue) /\ (pc = "fgets" => fp \in Inodes)

\* What holds while the kernel has dropped nothing and the directory is there.
Good ==
  /\ ~HasGone(queue) /\ ~HasGone(buf)
  /\ LastEventAgrees
  /\ ~HasName(queue) /\ ~HasName(buf) => InStep
  /\ pc = "dead" => HasVanish(queue) \/ HasVanish(buf)

OneFile == \A i, j \in Inodes : place[i] = "path" /\ place[j] = "path" => i = j

Fresh == pc = "start" => buf = <<>> /\ file_wd = NoWd /\ old_line = NoLine

\* The inductive invariant.
Inv == TypeInv /\ OneFile /\ Fresh /\ (Undisturbed => Good)

-----------------------------------------------------------------------------
(* Facts about the queue. *)

\* What read() returns and what it leaves, together, is what was queued.
LEMMA SplitSeq ==
  ASSUME NEW S, NEW q \in Seq(S), NEW n \in 0..Len(q)
  PROVE  /\ SubSeq(q, 1, n) \in Seq(S)
         /\ Len(SubSeq(q, 1, n)) = n
         /\ \A k \in 1..n : SubSeq(q, 1, n)[k] = q[k]
         /\ SubSeq(q, n + 1, Len(q)) \in Seq(S)
         /\ Len(SubSeq(q, n + 1, Len(q))) = Len(q) - n
         /\ \A k \in 1..(Len(q) - n) : SubSeq(q, n + 1, Len(q))[k] = q[k + n]
OBVIOUS

\* Queueing an event keeps a queue of events within its limit.
LEMMA QueuedType ==
  ASSUME NEW q \in Seq(Event), NEW e \in Event, Fits(q)
  PROVE  Queued(q, e) \in Seq(Event) /\ Fits(Queued(q, e))
<1>1. Overflow \in Event /\ MaxQueued \in Nat
  BY ConstantsAssumption DEF Event
<1>2. CASE Len(q) >= MaxQueued /\ \E k \in 1..Len(q) : q[k] = Overflow
  BY <1>2 DEF Queued
<1>3. CASE Len(q) >= MaxQueued /\ ~(\E k \in 1..Len(q) : q[k] = Overflow)
  <2>1. Queued(q, e) = Append(q, Overflow)
    BY <1>3 DEF Queued
  <2>2. Len(q) = MaxQueued
    BY <1>1, <1>3 DEF Fits
  <2>3. Append(q, Overflow)[Len(q) + 1] = Overflow
    BY <1>1
  <2> QED BY <1>1, <2>1, <2>2, <2>3 DEF Fits
<1>4. CASE ~(Len(q) >= MaxQueued)
  <2>1. Queued(q, e) = q \/ Queued(q, e) = Append(q, e)
    BY <1>4 DEF Queued
  <2> QED BY <1>1, <1>4, <2>1 DEF Fits
<1> QED BY <1>2, <1>3, <1>4

\* An event is queued whole, or its loss is recorded.
LEMMA NotifyEffect ==
  ASSUME TypeInv, NEW e \in Event, Notify(e)
  PROVE  /\ queue' \in Seq(Event) /\ Fits(queue') /\ Len(queue') <= MaxQueued + 1
         /\ lost' \in BOOLEAN /\ (lost => lost')
         /\ UNCHANGED <<wdOf, nextWd>>
         /\ ~lost' => \/ queue' = Append(queue, e)
                      \/ queue' = queue /\ queue # <<>> /\ queue[Len(queue)] = e
<1>1. queue \in Seq(Event) /\ lost \in BOOLEAN /\ Fits(queue)
  BY DEF TypeInv, TypeOK
<1>2. queue' = Queued(queue, e)
  BY DEF Notify
<1>3. queue' \in Seq(Event) /\ Fits(queue')
  BY <1>1, <1>2, QueuedType
<1>4. Len(queue') <= MaxQueued + 1
  BY <1>3, ConstantsAssumption DEF Fits
<1>5. lost' = (lost \/ Len(queue) >= MaxQueued)
  BY DEF Notify
<1>6. ~lost' => \/ queue' = Append(queue, e)
                \/ queue' = queue /\ queue # <<>> /\ queue[Len(queue)] = e
  BY <1>2, <1>5 DEF Queued
<1> QED BY <1>1, <1>3, <1>4, <1>5, <1>6 DEF Notify


\* What is said of the event e agrees with the name being there or not.
Says(e, present) == IF present THEN IsAppear(e) ELSE IsVanish(e)

\* What a sequence of events holds, after one more.
LEMMA AppendFacts ==
  ASSUME NEW q \in Seq(Event), NEW e \in Event
  PROVE  /\ HasName(Append(q, e)) <=> HasName(q) \/ IsName(e)
         /\ HasGone(Append(q, e)) <=> HasGone(q) \/ IsGone(e)
         /\ HasVanish(q) => HasVanish(Append(q, e))
         /\ \A wd : HasWrite(q, wd) => HasWrite(Append(q, e), wd)
         /\ \A wd : e = [wd |-> wd, mask |-> "CLOSE_WRITE"] => HasWrite(Append(q, e), wd)
         /\ \A b \in BOOLEAN : Says(e, b) => EndsIn(Append(q, e), b)
         /\ \A b \in BOOLEAN : EndsIn(q, b) /\ ~IsName(e) => EndsIn(Append(q, e), b)
<1> DEFINE r == Append(q, e)
<1>1. /\ r \in Seq(Event) /\ Len(r) = Len(q) + 1 /\ Len(q) \in Nat
      /\ \A k \in 1..Len(q) : r[k] = q[k]
      /\ r[Len(q) + 1] = e
  OBVIOUS
<1> HIDE DEF r
<1>2. HasName(r) <=> HasName(q) \/ IsName(e)
  BY <1>1 DEF HasName
<1>3. HasGone(r) <=> HasGone(q) \/ IsGone(e)
  BY <1>1 DEF HasGone
<1>4. HasVanish(q) => HasVanish(r)
  BY <1>1 DEF HasVanish
<1>5. \A wd : HasWrite(q, wd) => HasWrite(r, wd)
  BY <1>1 DEF HasWrite
<1>6. \A wd : e = [wd |-> wd, mask |-> "CLOSE_WRITE"] => HasWrite(r, wd)
  BY <1>1 DEF HasWrite
<1>7. \A b \in BOOLEAN : Says(e, b) => EndsIn(r, b)
  BY <1>1 DEF EndsIn, Says
<1>8. \A b \in BOOLEAN : EndsIn(q, b) /\ ~IsName(e) => EndsIn(r, b)
  <2> SUFFICES ASSUME NEW b \in BOOLEAN, EndsIn(q, b), ~IsName(e) PROVE EndsIn(r, b)
    OBVIOUS
  <2>1. PICK k \in 1..Len(q) : /\ IF b THEN IsAppear(q[k]) ELSE IsVanish(q[k])
                              /\ \A j \in (k + 1)..Len(q) : ~IsName(q[j])
    BY DEF EndsIn
  <2>2. \A j \in (k + 1)..Len(r) : ~IsName(r[j])
    BY <1>1, <2>1
  <2> QED BY <1>1, <2>1, <2>2 DEF EndsIn
<1> QED BY <1>2, <1>3, <1>4, <1>5, <1>6, <1>7, <1>8 DEF r

\* What a sequence of events holds, without the first.
LEMMA TailFacts ==
  ASSUME NEW q \in Seq(Event), q # <<>>
  PROVE  /\ HasName(q) <=> HasName(Tail(q)) \/ IsName(Head(q))
         /\ HasGone(Tail(q)) => HasGone(q)
         /\ IsGone(Head(q)) => HasGone(q)
         /\ \A wd : HasWrite(q, wd) =>
              HasWrite(Tail(q), wd) \/ Head(q) = [wd |-> wd, mask |-> "CLOSE_WRITE"]
         /\ \A b \in BOOLEAN : EndsIn(q, b) =>
              IF HasName(Tail(q)) THEN EndsIn(Tail(q), b) ELSE Says(Head(q), b)
         /\ Tail(q) \in Seq(Event) /\ Head(q) \in Event
<1> DEFINE r == Tail(q)
<1>1. /\ r \in Seq(Event) /\ Len(q) = Len(r) + 1 /\ Len(r) \in Nat
      /\ \A k \in 1..Len(r) : r[k] = q[k + 1]
      /\ \A k \in 2..Len(q) : k - 1 \in 1..Len(r) /\ q[k] = r[k - 1]
      /\ q[1] = Head(q) /\ Head(q) \in Event
  OBVIOUS
<1> HIDE DEF r
<1>2. \A k \in 1..Len(q) : k = 1 \/ k \in 2..Len(q)
  BY <1>1
<1>3. HasName(q) <=> HasName(r) \/ IsName(Head(q))
  BY <1>1, <1>2 DEF HasName
<1>4. (HasGone(r) => HasGone(q)) /\ (IsGone(Head(q)) => HasGone(q))
  <2>1. 1 \in 1..Len(q) /\ \A k \in 1..Len(r) : k + 1 \in 1..Len(q)
    BY <1>1
  <2> QED BY <1>1, <2>1 DEF HasGone
<1>5. \A wd : HasWrite(q, wd) =>
        HasWrite(r, wd) \/ Head(q) = [wd |-> wd, mask |-> "CLOSE_WRITE"]
  BY <1>1, <1>2 DEF HasWrite
<1>6. ASSUME NEW b \in BOOLEAN, EndsIn(q, b)
      PROVE  IF HasName(r) THEN EndsIn(r, b) ELSE Says(Head(q), b)
  <2>1. PICK k \in 1..Len(q) : /\ IF b THEN IsAppear(q[k]) ELSE IsVanish(q[k])
                              /\ \A j \in (k + 1)..Len(q) : ~IsName(q[j])
    BY <1>6 DEF EndsIn
  <2>2. CASE k = 1
    <3>1. \A j \in 1..Len(r) : ~IsName(r[j])
      BY <1>1, <2>1, <2>2
    <3> QED BY <1>1, <2>1, <2>2, <3>1 DEF HasName, Says
  <2>3. CASE k \in 2..Len(q)
    <3>1. k - 1 \in 1..Len(r) /\ r[k - 1] = q[k]
      BY <1>1, <2>3
    <3>2. \A j \in k..Len(r) : ~IsName(r[j])
      BY <1>1, <2>1, <2>3
    <3>3. HasName(r)
      BY <2>1, <3>1 DEF HasName, IsName
    <3>4. EndsIn(r, b)
      BY <1>1, <2>1, <2>3, <3>1, <3>2 DEF EndsIn
    <3> QED BY <3>3, <3>4
  <2> QED BY <1>2, <2>2, <2>3
<1> QED BY <1>1, <1>3, <1>4, <1>5, <1>6 DEF r

\* What a sequence of events says, told from its two parts.
SplitsIn(q, a, z) ==
  /\ HasName(q) <=> HasName(a) \/ HasName(z)
  /\ HasGone(a) \/ HasGone(z) => HasGone(q)
  /\ \A wd : HasWrite(q, wd) => HasWrite(a, wd) \/ HasWrite(z, wd)
  /\ \A b \in BOOLEAN : EndsIn(q, b) =>
       IF HasName(z) THEN EndsIn(z, b) ELSE EndsIn(a, b)

\* What a sequence of events holds, cut in two.
LEMMA SplitFacts ==
  ASSUME NEW q \in Seq(Event), NEW n \in 0..Len(q),
         NEW a \in Seq(Event), a = SubSeq(q, 1, n),
         NEW z \in Seq(Event), z = SubSeq(q, n + 1, Len(q))
  PROVE  SplitsIn(q, a, z)
<1>1. /\ Len(a) = n /\ \A k \in 1..n : a[k] = q[k]
      /\ Len(z) = Len(q) - n /\ \A k \in 1..(Len(q) - n) : z[k] = q[k + n]
      /\ Len(q) \in Nat
  <2>1. /\ Len(SubSeq(q, 1, n)) = n
        /\ \A k \in 1..n : SubSeq(q, 1, n)[k] = q[k]
        /\ Len(SubSeq(q, n + 1, Len(q))) = Len(q) - n
        /\ \A k \in 1..(Len(q) - n) : SubSeq(q, n + 1, Len(q))[k] = q[k + n]
    OBVIOUS
  <2> QED BY <2>1
<1>2. \A k \in 1..Len(q) : \/ k \in 1..n
                           \/ k - n \in 1..Len(z) /\ q[k] = z[k - n]
  BY <1>1
<1>3. \A k \in 1..Len(z) : k + n \in 1..Len(q) /\ z[k] = q[k + n]
  <2>1. \A l \in Nat : \A k \in 1..(l - n) : k + n \in 1..l
    OBVIOUS
  <2> QED BY <1>1, <2>1
<1>4. \A k \in 1..Len(a) : k \in 1..Len(q) /\ a[k] = q[k]
  BY <1>1
<1>5. HasName(q) <=> HasName(a) \/ HasName(z)
  BY <1>1, <1>2, <1>3, <1>4 DEF HasName
<1>6. HasGone(a) \/ HasGone(z) => HasGone(q)
  BY <1>3, <1>4 DEF HasGone
<1>7. \A wd : HasWrite(q, wd) => HasWrite(a, wd) \/ HasWrite(z, wd)
  BY <1>1, <1>2 DEF HasWrite
<1>8. ASSUME NEW b \in BOOLEAN, EndsIn(q, b)
      PROVE  IF HasName(z) THEN EndsIn(z, b) ELSE EndsIn(a, b)
  <2>1. PICK k \in 1..Len(q) : /\ IF b THEN IsAppear(q[k]) ELSE IsVanish(q[k])
                              /\ \A j \in (k + 1)..Len(q) : ~IsName(q[j])
    BY <1>8 DEF EndsIn
  <2>2. CASE k \in 1..n
    <3>1. \A j \in 1..Len(z) : ~IsName(z[j])
      BY <1>1, <1>3, <2>1, <2>2
    <3>2. \A j \in (k + 1)..Len(a) : ~IsName(a[j])
      BY <1>1, <2>1, <2>2
    <3>3. EndsIn(a, b)
      BY <1>1, <2>1, <2>2, <3>2 DEF EndsIn
    <3> QED BY <3>1, <3>3 DEF HasName
  <2>3. CASE k - n \in 1..Len(z) /\ q[k] = z[k - n]
    <3>1. \A j \in (k - n + 1)..Len(z) : ~IsName(z[j])
      BY <1>1, <1>3, <2>1, <2>3
    <3>2. EndsIn(z, b)
      BY <1>1, <2>1, <2>3, <3>1 DEF EndsIn
    <3>3. HasName(z)
      BY <2>1, <2>3 DEF HasName, IsName
    <3> QED BY <3>2, <3>3
  <2> QED BY <1>2, <2>2, <2>3
<1> QED BY <1>5, <1>6, <1>7, <1>8 DEF SplitsIn

-----------------------------------------------------------------------------
(* Type correctness. *)

\* The type invariant is inductive.
LEMMA TypeInvNext ==
  TypeInv /\ [Next]_vars => TypeInv'
<1> SUFFICES ASSUME TypeInv, [Next]_vars PROVE TypeInv'
  OBVIOUS
<1>0. \A m \in DirMasks : DirEvent(m) \in Event
  BY DEF DirEvent, Event
<1>1. \A i \in Inodes : wdOf[i] # NoWd =>
        [wd |-> wdOf[i], mask |-> "CLOSE_WRITE"] \in Event
  BY DEF Event, TypeInv, TypeOK
<1> USE ConstantsAssumption DEF Op, programVars
<1>2. ASSUME NEW i \in Inodes, Create(i) PROVE TypeInv'
  <2>1. Notify(DirEvent("CREATE")) /\ DirEvent("CREATE") \in Event
    BY <1>0, <1>2 DEF Create, NotifyDir, DirMasks
  <2> QED BY <1>2, <2>1, NotifyEffect DEF Create, TypeInv, TypeOK, Content
<1>3. ASSUME NEW i \in Inodes, MoveIn(i) PROVE TypeInv'
  <2>1. Notify(DirEvent("MOVED_TO")) /\ DirEvent("MOVED_TO") \in Event
    BY <1>0, <1>3 DEF MoveIn, NotifyDir, DirMasks
  <2> QED BY <1>3, <2>1, NotifyEffect DEF MoveIn, TypeInv, TypeOK, Content
<1>4. ASSUME NEW i \in Inodes, MoveOut(i) PROVE TypeInv'
  <2>1. Notify(DirEvent("MOVED_FROM")) /\ DirEvent("MOVED_FROM") \in Event
    BY <1>0, <1>4 DEF MoveOut, NotifyDir, DirMasks
  <2> QED BY <1>4, <2>1, NotifyEffect DEF MoveOut, TypeInv, TypeOK, Content
<1>5. ASSUME NEW i \in Inodes, Delete(i) PROVE TypeInv'
  <2>1. Notify(DirEvent("DELETE")) /\ DirEvent("DELETE") \in Event
    BY <1>0, <1>5 DEF Delete, NotifyDir, DirMasks
  <2> QED BY <1>5, <2>1, NotifyEffect DEF Delete, TypeInv, TypeOK, Content
<1>6. ASSUME NEW i \in Inodes, OpenWrite(i) PROVE TypeInv'
  BY <1>6 DEF OpenWrite, kernelVars, TypeInv, TypeOK, Content, Fits
<1>7. ASSUME NEW i \in Inodes, Write(i) PROVE TypeInv'
  BY <1>7 DEF Write, kernelVars, TypeInv, TypeOK, Content, Fits
<1>8. ASSUME NEW i \in Inodes, CloseWrite(i) PROVE TypeInv'
  <2>1. CASE wdOf[i] = NoWd
    BY <1>8, <2>1 DEF CloseWrite, kernelVars, TypeInv, TypeOK, Fits
  <2>2. CASE wdOf[i] # NoWd
    <3>1. Notify([wd |-> wdOf[i], mask |-> "CLOSE_WRITE"])
      BY <1>8, <2>2 DEF CloseWrite
    <3> QED BY <1>1, <1>8, <2>2, <3>1, NotifyEffect DEF CloseWrite, TypeInv, TypeOK
  <2> QED BY <2>1, <2>2
<1>9. CASE MoveDir
  <2>1. Notify(DirEvent("MOVE_SELF")) /\ DirEvent("MOVE_SELF") \in Event
    BY <1>0, <1>9 DEF MoveDir, NotifyDir, DirMasks
  <2> QED BY <1>9, <2>1, NotifyEffect DEF MoveDir, TypeInv, TypeOK
<1>10. CASE DeleteDir
  <2>1. Notify(DirEvent("DELETE_SELF")) /\ DirEvent("DELETE_SELF") \in Event
    BY <1>0, <1>10 DEF DeleteDir, NotifyDir, DirMasks
  <2> QED BY <1>10, <2>1, NotifyEffect DEF DeleteDir, TypeInv, TypeOK
<1>11. ASSUME watch_file
       PROVE  /\ wdOf' \in [Inodes -> Nat \cup {NoWd}]
              /\ nextWd' \in Nat
              /\ file_wd' \in Nat \cup {NoWd}
              /\ lost' \in BOOLEAN
              /\ queue' = queue
  <2>1. CASE UNCHANGED kernelVars /\ file_wd' = NoWd
    BY <2>1 DEF kernelVars, TypeInv, TypeOK
  <2>2. ASSUME NEW i \in Inodes, UNCHANGED kernelVars, file_wd' = wdOf[i]
        PROVE  file_wd' \in Nat \cup {NoWd}
    BY <2>2 DEF TypeInv, TypeOK
  <2>3. ASSUME NEW i \in Inodes, wdOf' = [wdOf EXCEPT ![i] = nextWd], nextWd' = nextWd + 1,
               file_wd' = nextWd
        PROVE  /\ wdOf' \in [Inodes -> Nat \cup {NoWd}]
               /\ nextWd' \in Nat /\ file_wd' \in Nat \cup {NoWd}
    BY <2>3 DEF TypeInv, TypeOK
  <2>4. /\ wdOf \in [Inodes -> Nat \cup {NoWd}]
        /\ nextWd \in Nat /\ lost \in BOOLEAN
    BY DEF TypeInv, TypeOK
  <2> QED BY <1>11, <2>1, <2>2, <2>3, <2>4 DEF watch_file, kernelVars, AtPath
<1>12. ASSUME buf # <<>>, buf' = Tail(buf)
       PROVE  buf' \in Seq(Event) /\ Len(buf') <= BufEvents
  BY <1>12, ConstantsAssumption DEF TypeInv, TypeOK
<1>13. CASE InitialWatch
  BY <1>11, <1>13 DEF InitialWatch, fsVars, TypeInv, TypeOK, Fits
<1>14. CASE ReadEvents
  <2> DEFINE n == IF Len(queue) < BufEvents THEN Len(queue) ELSE BufEvents
  <2>1. n \in 1..Len(queue) /\ n <= BufEvents
    BY <1>14, ConstantsAssumption DEF ReadEvents, TypeInv, TypeOK
  <2>2. buf' = SubSeq(queue, 1, n) /\ queue' = SubSeq(queue, n + 1, Len(queue))
    BY <1>14 DEF ReadEvents
  <2>3. /\ buf' \in Seq(Event) /\ Len(buf') = n
        /\ queue' \in Seq(Event) /\ Len(queue') = Len(queue) - n
    <3>1. queue \in Seq(Event) /\ n \in 0..Len(queue)
      BY <2>1 DEF TypeInv, TypeOK
    <3> HIDE DEF n
    <3> QED BY <2>2, <3>1, SplitSeq
  <2>4. Len(queue') <= MaxQueued
    <3>1. Len(queue) \in Nat /\ Len(queue) <= MaxQueued + 1 /\ n \in Nat /\ n >= 1
      BY <2>1, ConstantsAssumption DEF TypeInv, TypeOK, Fits
    <3> HIDE DEF n
    <3> QED BY <2>3, <3>1
  <2>5. Fits(queue') /\ Len(queue') <= MaxQueued + 1
    <3>1. Len(queue') \in Nat
      BY <2>3
    <3> QED BY <2>4, <3>1 DEF Fits
  <2> QED BY <1>14, <2>1, <2>2, <2>3, <2>5 DEF ReadEvents, fsVars, TypeInv, TypeOK
<1>15. CASE HandleAppear
  BY <1>11, <1>12, <1>15 DEF HandleAppear, Handling, fsVars, TypeInv, TypeOK, Fits
<1>16. CASE HandleVanish
  BY <1>12, <1>16 DEF HandleVanish, StopWatching, Handling, fsVars, TypeInv, TypeOK,
     Fits, Content
<1>17. CASE HandleCloseWrite
  BY <1>12, <1>17 DEF HandleCloseWrite, Handling, fsVars, kernelVars, TypeInv, TypeOK, Fits
<1>18. CASE HandleDirGone
  BY <1>18, ConstantsAssumption
     DEF HandleDirGone, Handling, fsVars, kernelVars, TypeInv, TypeOK, Fits
<1>19. CASE HandleOther
  BY <1>12, <1>19 DEF HandleOther, Handling, fsVars, kernelVars, TypeInv, TypeOK, Fits
<1>20. CASE read_file_fopen
  BY <1>20 DEF read_file_fopen, fsVars, kernelVars, AtPath, TypeInv, TypeOK, Fits
<1>21. CASE read_file_fgets
  BY <1>21 DEF read_file_fgets, fsVars, kernelVars, TypeInv, TypeOK, Fits, Content
<1>22. CASE UNCHANGED vars
  BY <1>22 DEF vars, TypeInv, TypeOK, Fits
<1> QED
  BY <1>2, <1>3, <1>4, <1>5, <1>6, <1>7, <1>8, <1>9, <1>10, <1>13, <1>14, <1>15,
     <1>16, <1>17, <1>18, <1>19, <1>20, <1>21, <1>22
     DEF Next, Environment, Program


-----------------------------------------------------------------------------
(* The other processes keep the invariant. *)

\* What the queue holds after an event that was not lost.
LEMMA NotifyFacts ==
  ASSUME TypeInv, NEW e \in Event, Notify(e), ~lost'
  PROVE  /\ ~lost
         /\ HasName(queue') <=> HasName(queue) \/ IsName(e)
         /\ HasGone(queue') <=> HasGone(queue) \/ IsGone(e)
         /\ HasVanish(queue) => HasVanish(queue')
         /\ \A wd : HasWrite(queue, wd) => HasWrite(queue', wd)
         /\ \A wd : e = [wd |-> wd, mask |-> "CLOSE_WRITE"] => HasWrite(queue', wd)
         /\ \A b \in BOOLEAN : Says(e, b) => EndsIn(queue', b)
         /\ \A b \in BOOLEAN : EndsIn(queue, b) /\ ~IsName(e) => EndsIn(queue', b)
<1>1. queue \in Seq(Event) /\ lost \in BOOLEAN
  BY DEF TypeInv, TypeOK
<1>2. ~lost
  BY NotifyEffect
<1>3. CASE queue' = Append(queue, e)
  BY <1>1, <1>2, <1>3, AppendFacts
<1>4. CASE queue' = queue /\ queue # <<>> /\ queue[Len(queue)] = e
  <2>1. Len(queue) \in 1..Len(queue) /\ \A j \in (Len(queue) + 1)..Len(queue) : FALSE
    BY <1>1, <1>4
  <2>2. (IsName(e) => HasName(queue)) /\ (IsGone(e) => HasGone(queue))
    BY <1>4, <2>1 DEF HasName, HasGone
  <2>3. \A wd : e = [wd |-> wd, mask |-> "CLOSE_WRITE"] => HasWrite(queue, wd)
    BY <1>4, <2>1 DEF HasWrite
  <2>4. \A b \in BOOLEAN : Says(e, b) => EndsIn(queue, b)
    BY <1>4, <2>1 DEF EndsIn, Says
  <2> QED BY <1>2, <1>4, <2>2, <2>3, <2>4
<1> QED BY <1>3, <1>4, NotifyEffect

\* An event about the name that says what is now the case.
LEMMA NameEventGood ==
  ASSUME Inv, NEW e \in Event, Notify(e), UNCHANGED programVars, Undisturbed, ~lost',
         IsName(e), Says(e, Present')
  PROVE  Good'
<1>1. TypeInv /\ Good
  BY DEF Inv
<1>2. Present' \in BOOLEAN
  BY DEF Present
<1>3. HasName(queue') /\ EndsIn(queue', Present')
  BY <1>1, <1>2, NotifyFacts
<1>4. ~IsGone(e)
  BY DEF IsName, IsAppear, IsVanish, IsGone, AppearMasks, VanishMasks
<1>5. ~HasGone(queue') /\ ~HasGone(buf')
  BY <1>1, <1>4, NotifyFacts DEF Good, programVars
<1>6. pc' = "dead" => HasVanish(queue') \/ HasVanish(buf')
  BY <1>1, NotifyFacts DEF Good, programVars
<1> QED BY <1>3, <1>5, <1>6 DEF Good, LastEventAgrees


\* Every operation of the other processes keeps the invariant.
LEMMA EnvironmentStep ==
  ASSUME Inv, Environment, TypeInv'
  PROVE  Inv'
<1>0. TypeInv /\ OneFile /\ Fresh /\ (Undisturbed => Good)
  BY DEF Inv
<1>1. \A m \in DirMasks : DirEvent(m) \in Event
  BY DEF DirEvent, Event
<1>2. place \in [Inodes -> {"new", "path", "away", "gone"}]
  BY <1>0 DEF TypeInv, TypeOK
<1> USE DEF Op
<1>3. ASSUME UNCHANGED programVars PROVE Fresh'
  BY <1>0, <1>3 DEF programVars, Fresh
<1>4. \A m \in AppearMasks : IsName(DirEvent(m)) /\ Says(DirEvent(m), TRUE)
  BY DEF IsName, IsAppear, Says, DirEvent
<1>5. \A m \in VanishMasks : IsName(DirEvent(m)) /\ Says(DirEvent(m), FALSE)
  BY DEF IsName, IsVanish, Says, DirEvent
<1>6. ASSUME NEW i \in Inodes, Create(i) PROVE Inv'
  <2>1. Notify(DirEvent("CREATE")) /\ DirEvent("CREATE") \in Event /\ UNCHANGED programVars
    BY <1>1, <1>6 DEF Create, NotifyDir, DirMasks
  <2>2. OneFile'
    BY <1>2, <1>6 DEF Create, OneFile
  <2>3. ASSUME Undisturbed' PROVE Good'
    <3>1. Undisturbed /\ ~lost'
      BY <1>0, <1>6, <2>1, <2>3, NotifyFacts DEF Undisturbed, Create
    <3>2. Present' = TRUE
      BY <1>2, <1>6, <2>3 DEF Create, Present, AtPath, Undisturbed
    <3> QED BY <1>4, <2>1, <3>1, <3>2, NameEventGood DEF AppearMasks
  <2> QED BY <1>3, <2>1, <2>2, <2>3 DEF Inv
<1>7. ASSUME NEW i \in Inodes, MoveIn(i) PROVE Inv'
  <2>1. Notify(DirEvent("MOVED_TO")) /\ DirEvent("MOVED_TO") \in Event /\ UNCHANGED programVars
    BY <1>1, <1>7 DEF MoveIn, NotifyDir, DirMasks
  <2>2. OneFile'
    BY <1>2, <1>7 DEF MoveIn, OneFile
  <2>3. ASSUME Undisturbed' PROVE Good'
    <3>1. Undisturbed /\ ~lost'
      BY <1>0, <1>7, <2>1, <2>3, NotifyFacts DEF Undisturbed, MoveIn
    <3>2. Present' = TRUE
      BY <1>2, <1>7, <2>3 DEF MoveIn, Present, AtPath, Undisturbed
    <3> QED BY <1>4, <2>1, <3>1, <3>2, NameEventGood DEF AppearMasks
  <2> QED BY <1>3, <2>1, <2>2, <2>3 DEF Inv
<1>8. ASSUME NEW i \in Inodes, MoveOut(i) PROVE Inv'
  <2>1. Notify(DirEvent("MOVED_FROM")) /\ DirEvent("MOVED_FROM") \in Event /\ UNCHANGED programVars
    BY <1>1, <1>8 DEF MoveOut, NotifyDir, DirMasks
  <2>2. OneFile' /\ \A j \in Inodes : place'[j] # "path"
    BY <1>0, <1>2, <1>8 DEF MoveOut, OneFile
  <2>3. ASSUME Undisturbed' PROVE Good'
    <3>1. Undisturbed /\ ~lost'
      BY <1>0, <1>8, <2>1, <2>3, NotifyFacts DEF Undisturbed, MoveOut
    <3>2. Present' = FALSE
      BY <2>2 DEF Present, AtPath
    <3> QED BY <1>5, <2>1, <3>1, <3>2, NameEventGood DEF VanishMasks
  <2> QED BY <1>3, <2>1, <2>2, <2>3 DEF Inv
<1>9. ASSUME NEW i \in Inodes, Delete(i) PROVE Inv'
  <2>1. Notify(DirEvent("DELETE")) /\ DirEvent("DELETE") \in Event /\ UNCHANGED programVars
    BY <1>1, <1>9 DEF Delete, NotifyDir, DirMasks
  <2>2. OneFile' /\ \A j \in Inodes : place'[j] # "path"
    BY <1>0, <1>2, <1>9 DEF Delete, OneFile
  <2>3. ASSUME Undisturbed' PROVE Good'
    <3>1. Undisturbed /\ ~lost'
      BY <1>0, <1>9, <2>1, <2>3, NotifyFacts DEF Undisturbed, Delete
    <3>2. Present' = FALSE
      BY <2>2 DEF Present, AtPath
    <3> QED BY <1>5, <2>1, <3>1, <3>2, NameEventGood DEF VanishMasks
  <2> QED BY <1>3, <2>1, <2>2, <2>3 DEF Inv
\* A write in progress: only the content and the writers change.
<1>10. ASSUME NEW i \in Inodes, UNCHANGED <<place, dir, kernelVars, programVars>>,
              \A j \in Inodes : writing'[j] \/ (writing'[j] = writing[j] /\ content'[j] = content[j])
       PROVE  Inv'
  <2>1. OneFile' /\ Fresh'
    BY <1>0, <1>3, <1>10 DEF OneFile
  <2>2. AtPath' = AtPath /\ Present' = Present
    BY <1>10 DEF AtPath, Present
  <2>3. ASSUME Undisturbed' PROVE Good'
    <3>1. Good
      BY <1>0, <1>10, <2>3 DEF Undisturbed, kernelVars
    <3>2. /\ ~HasGone(queue') /\ ~HasGone(buf') /\ LastEventAgrees'
          /\ pc' = "dead" => HasVanish(queue') \/ HasVanish(buf')
      BY <1>10, <2>2, <3>1 DEF Good, LastEventAgrees, kernelVars, programVars
    <3>3. ASSUME ~HasName(queue'), ~HasName(buf') PROVE InStep'
      <4>1. InStep
        BY <1>10, <3>1, <3>3 DEF Good, kernelVars, programVars
      <4>2. AtPath \subseteq Inodes
        BY DEF AtPath
      <4> QED BY <1>10, <2>2, <4>1, <4>2 DEF InStep, kernelVars, programVars
    <3> QED BY <3>2, <3>3 DEF Good
  <2> QED BY <2>1, <2>3 DEF Inv
<1>11. ASSUME NEW i \in Inodes, OpenWrite(i) PROVE Inv'
  <2>1. writing \in [Inodes -> BOOLEAN] /\ content \in [Inodes -> Content]
    BY <1>0 DEF TypeInv, TypeOK
  <2> QED BY <1>10, <1>11, <2>1 DEF OpenWrite
<1>12. ASSUME NEW i \in Inodes, Write(i) PROVE Inv'
  <2>1. writing \in [Inodes -> BOOLEAN] /\ content \in [Inodes -> Content]
    BY <1>0 DEF TypeInv, TypeOK
  <2> QED BY <1>10, <1>12, <2>1 DEF Write
<1>13. ASSUME NEW i \in Inodes, CloseWrite(i) PROVE Inv'
  <2> DEFINE e == [wd |-> wdOf[i], mask |-> "CLOSE_WRITE"]
  <2>1. OneFile' /\ Fresh'
    BY <1>0, <1>3, <1>13 DEF OneFile, CloseWrite
  <2>2. AtPath' = AtPath /\ Present' = Present
    BY <1>13 DEF AtPath, Present, CloseWrite
  <2>3. UNCHANGED programVars /\ content' = content /\ wdOf' = wdOf /\ dir' = dir
    BY <1>13 DEF CloseWrite, Notify, kernelVars
  <2>4. writing \in [Inodes -> BOOLEAN] /\ wdOf \in [Inodes -> Nat \cup {NoWd}]
    BY <1>0 DEF TypeInv, TypeOK
  <2>5. \A j \in Inodes : j # i => writing'[j] = writing[j]
    BY <1>13, <2>4 DEF CloseWrite
  <2>6. ASSUME Undisturbed' PROVE Good'
    <3>1. CASE wdOf[i] = NoWd
      <4>1. UNCHANGED kernelVars
        BY <1>13, <3>1 DEF CloseWrite
      <4>2. Good
        BY <1>0, <2>3, <2>6, <4>1 DEF Undisturbed, kernelVars
      <4>3. /\ ~HasGone(queue') /\ ~HasGone(buf') /\ LastEventAgrees'
            /\ pc' = "dead" => HasVanish(queue') \/ HasVanish(buf')
        BY <2>2, <2>3, <4>1, <4>2 DEF Good, LastEventAgrees, kernelVars, programVars
      <4>4. ASSUME ~HasName(queue'), ~HasName(buf') PROVE InStep'
        <5>1. InStep
          BY <2>3, <4>1, <4>2, <4>4 DEF Good, kernelVars, programVars
        <5>2. AtPath \subseteq Inodes
          BY DEF AtPath
        <5> QED BY <2>2, <2>3, <2>5, <3>1, <4>1, <5>1, <5>2 DEF InStep, kernelVars, programVars
      <4> QED BY <4>3, <4>4 DEF Good
    <3>2. CASE wdOf[i] # NoWd
      <4>1. Notify(e) /\ e \in Event
        BY <1>13, <2>4, <3>2 DEF CloseWrite, Event
      <4>2. ~lost' /\ Undisturbed /\ Good
        BY <1>0, <2>3, <2>6, <4>1, NotifyFacts DEF Undisturbed
      <4>3. ~IsName(e) /\ ~IsGone(e)
        BY DEF IsName, IsAppear, IsVanish, IsGone, AppearMasks, VanishMasks
      <4>4. /\ HasName(queue') <=> HasName(queue)
            /\ HasGone(queue') <=> HasGone(queue)
            /\ HasVanish(queue) => HasVanish(queue')
            /\ \A wd : HasWrite(queue, wd) => HasWrite(queue', wd)
            /\ HasWrite(queue', wdOf[i])
            /\ \A b \in BOOLEAN : EndsIn(queue, b) => EndsIn(queue', b)
        <5> HIDE DEF e
        <5>1. HasWrite(queue', wdOf[i])
          <6>1. e = [wd |-> wdOf[i], mask |-> "CLOSE_WRITE"]
            BY DEF e
          <6> QED BY <1>0, <4>1, <4>2, <6>1, NotifyFacts
        <5> QED BY <1>0, <4>1, <4>2, <4>3, <5>1, NotifyFacts
      <4>5. Present \in BOOLEAN
        BY DEF Present
      <4>6. /\ ~HasGone(queue') /\ ~HasGone(buf') /\ LastEventAgrees'
            /\ pc' = "dead" => HasVanish(queue') \/ HasVanish(buf')
        BY <2>2, <2>3, <4>2, <4>4, <4>5 DEF Good, LastEventAgrees, programVars
      <4>7. ASSUME ~HasName(queue'), ~HasName(buf') PROVE InStep'
        <5>1. InStep
          BY <2>3, <4>2, <4>4, <4>7 DEF Good, programVars
        <5>2. AtPath \subseteq Inodes
          BY DEF AtPath
        <5> QED BY <2>2, <2>3, <2>5, <4>4, <5>1, <5>2 DEF InStep, programVars
      <4> QED BY <4>6, <4>7 DEF Good
    <3> QED BY <3>1, <3>2
  <2> QED BY <2>1, <2>6 DEF Inv
<1>14. CASE MoveDir
  BY <1>0, <1>3, <1>14 DEF MoveDir, Inv, OneFile, Undisturbed
<1>15. CASE DeleteDir
  BY <1>0, <1>3, <1>15 DEF DeleteDir, Inv, OneFile, Undisturbed
<1> QED
  BY <1>6, <1>7, <1>8, <1>9, <1>11, <1>12, <1>13, <1>14, <1>15 DEF Environment


-----------------------------------------------------------------------------
(* The program keeps the invariant. *)

\* What watch_file() returns when the kernel refuses nothing.
LEMMA WatchFacts ==
  ASSUME TypeInv, OneFile, watch_file, ~lost'
  PROVE  /\ ~lost /\ queue' = queue
         /\ AtPath = {} => file_wd' = NoWd
         /\ \A i \in AtPath : file_wd' = wdOf'[i] /\ file_wd' # NoWd
<1>1. \A i, j \in AtPath : i \in Inodes /\ i = j
  BY DEF OneFile, AtPath
<1>2. nextWd \in Nat /\ wdOf \in [Inodes -> Nat \cup {NoWd}] /\ \A n \in Nat : n # NoWd
  BY DEF TypeInv, TypeOK, NoWd
<1>3. CASE AtPath = {} /\ file_wd' = NoWd /\ UNCHANGED kernelVars
  BY <1>3 DEF kernelVars
<1>4. CASE \E i \in AtPath : wdOf[i] # NoWd /\ file_wd' = wdOf[i] /\ UNCHANGED kernelVars
  BY <1>1, <1>4 DEF kernelVars
<1>5. CASE \E i \in AtPath : /\ file_wd' = nextWd
                            /\ wdOf' = [wdOf EXCEPT ![i] = nextWd]
                            /\ UNCHANGED <<queue, lost>>
  BY <1>1, <1>2, <1>5
<1> QED BY <1>3, <1>4, <1>5 DEF watch_file

\* What is left of the invariant once the first event of the buffer is taken.
LEMMA PopFacts ==
  ASSUME Inv, Undisturbed, Handling
  PROVE  /\ event \in Event /\ ~IsGone(event)
         /\ ~HasGone(queue) /\ ~HasGone(Tail(buf))
         /\ HasName(queue) => EndsIn(queue, Present)
         /\ ~HasName(queue) /\ HasName(Tail(buf)) => EndsIn(Tail(buf), Present)
         /\ ~HasName(queue) /\ ~HasName(Tail(buf)) /\ IsName(event) => Says(event, Present)
         /\ ~HasName(queue) /\ ~HasName(Tail(buf)) /\ ~IsName(event) => InStep
         /\ \A wd : HasWrite(buf, wd) =>
              HasWrite(Tail(buf), wd) \/ event = [wd |-> wd, mask |-> "CLOSE_WRITE"]
<1>1. buf \in Seq(Event) /\ buf # <<>> /\ Good /\ Present \in BOOLEAN
  BY DEF Inv, TypeInv, TypeOK, Handling, Present
<1>2. event = Head(buf)
  BY DEF event
<1> HIDE DEF event
<1> QED BY <1>1, <1>2, TailFacts DEF Good, LastEventAgrees

\* Every step of the program keeps the invariant.
LEMMA ProgramStep ==
  ASSUME Inv, Program, TypeInv'
  PROVE  Inv'
<1>0. TypeInv /\ OneFile /\ Fresh /\ (Undisturbed => Good)
  BY DEF Inv
<1>1. \A e : ~(IsAppear(e) /\ IsVanish(e))
  BY DEF IsAppear, IsVanish, AppearMasks, VanishMasks
<1>2. ASSUME UNCHANGED fsVars
      PROVE  /\ OneFile' /\ AtPath' = AtPath /\ Present' = Present
             /\ content' = content /\ writing' = writing /\ dir' = dir
  BY <1>0, <1>2 DEF fsVars, OneFile, AtPath, Present
<1>3. CASE InitialWatch
  <2>1. UNCHANGED fsVars /\ pc = "start" /\ buf' = buf /\ old_line' = old_line
    BY <1>3 DEF InitialWatch
  <2>2. Fresh'
    BY <1>3 DEF InitialWatch, Fresh
  <2>3. ASSUME Undisturbed' PROVE Good'
    <3>1. /\ ~lost /\ queue' = queue
          /\ AtPath = {} => file_wd' = NoWd
          /\ \A i \in AtPath : file_wd' = wdOf'[i] /\ file_wd' # NoWd
      BY <1>0, <1>3, <2>3, WatchFacts DEF InitialWatch, Undisturbed
    <3>2. Good
      BY <1>0, <1>2, <2>1, <2>3, <3>1 DEF Undisturbed
    <3>3. ~HasGone(queue') /\ ~HasGone(buf') /\ LastEventAgrees' /\ pc' # "dead"
      BY <1>2, <1>3, <2>1, <3>1, <3>2 DEF Good, LastEventAgrees, InitialWatch
    <3>4. InStep'
      BY <1>0, <1>2, <1>3, <2>1, <3>1 DEF InStep, Fresh, Present, InitialWatch
    <3> QED BY <3>3, <3>4 DEF Good
  <2> QED BY <1>2, <2>1, <2>2, <2>3 DEF Inv
<1>4. CASE ReadEvents
  <2> DEFINE n == IF Len(queue) < BufEvents THEN Len(queue) ELSE BufEvents
  <2>1. /\ UNCHANGED fsVars /\ pc = "loop" /\ buf = <<>>
        /\ UNCHANGED <<wdOf, lost, pc, file_wd, old_line, fp>>
    BY <1>4 DEF ReadEvents
  <2>2. n \in 0..Len(queue) /\ queue \in Seq(Event)
    BY <1>0, ConstantsAssumption DEF TypeInv, TypeOK
  <2>3. buf' = SubSeq(queue, 1, n) /\ queue' = SubSeq(queue, n + 1, Len(queue))
    BY <1>4 DEF ReadEvents
  <2>4. buf' \in Seq(Event) /\ queue' \in Seq(Event)
    BY DEF TypeInv, TypeOK
  <2> HIDE DEF n
  <2>5. /\ HasName(queue) <=> HasName(buf') \/ HasName(queue')
        /\ HasGone(buf') \/ HasGone(queue') => HasGone(queue)
        /\ \A wd : HasWrite(queue, wd) => HasWrite(buf', wd) \/ HasWrite(queue', wd)
        /\ \A b \in BOOLEAN : EndsIn(queue, b) =>
             IF HasName(queue') THEN EndsIn(queue', b) ELSE EndsIn(buf', b)
    <3>1. SplitsIn(queue, buf', queue')
      BY <2>2, <2>3, <2>4, SplitFacts
    <3> QED BY <3>1 DEF SplitsIn
  <2>6. ~HasName(buf) /\ \A wd : ~HasWrite(buf, wd)
    BY <2>1 DEF HasName, HasWrite
  <2>7. Fresh'
    BY <2>1 DEF Fresh
  <2>8. ASSUME Undisturbed' PROVE Good'
    <3>1. Good /\ Present \in BOOLEAN
      BY <1>0, <1>2, <2>1, <2>8 DEF Undisturbed, Present
    <3>2. ~HasGone(queue') /\ ~HasGone(buf') /\ pc' # "dead"
      BY <2>1, <2>5, <3>1 DEF Good
    <3>3. LastEventAgrees'
      BY <1>2, <2>1, <2>5, <3>1 DEF Good, LastEventAgrees
    <3>4. ASSUME ~HasName(queue'), ~HasName(buf') PROVE InStep'
      <4>1. InStep
        BY <2>5, <2>6, <3>1, <3>4 DEF Good
      <4> QED BY <1>2, <2>1, <2>5, <2>6, <4>1 DEF InStep
    <3> QED BY <3>2, <3>3, <3>4 DEF Good
  <2> QED BY <1>2, <2>1, <2>7, <2>8 DEF Inv
<1>5. CASE HandleAppear
  <2>1. /\ UNCHANGED fsVars /\ Handling /\ IsAppear(event) /\ watch_file
        /\ buf' = Tail(buf) /\ pc' = "fopen"
    BY <1>5 DEF HandleAppear, IsAppear
  <2>2. ASSUME Undisturbed' PROVE Good'
    <3>1. /\ ~lost /\ queue' = queue
          /\ \A i \in AtPath : file_wd' = wdOf'[i] /\ file_wd' # NoWd
      BY <1>0, <2>1, <2>2, WatchFacts DEF Undisturbed
    <3>2. Undisturbed
      BY <1>2, <2>1, <2>2, <3>1 DEF Undisturbed
    <3>3. ~HasGone(queue') /\ ~HasGone(buf') /\ LastEventAgrees' /\ pc' # "dead"
      BY <1>2, <2>1, <3>1, <3>2, PopFacts DEF LastEventAgrees
    <3>4. ASSUME ~HasName(queue'), ~HasName(buf') PROVE InStep'
      <4>1. Present
        BY <1>1, <2>1, <3>1, <3>2, <3>4, PopFacts DEF Says, IsName
      <4> QED BY <1>2, <2>1, <3>1, <4>1 DEF InStep
    <3> QED BY <3>3, <3>4 DEF Good
  <2> QED BY <1>2, <2>1, <2>2 DEF Inv, Fresh
<1>6. CASE HandleVanish
  <2>1. /\ UNCHANGED fsVars /\ Handling /\ IsVanish(event)
        /\ buf' = Tail(buf) /\ pc' = "loop" /\ queue' = queue /\ lost' = lost
        /\ file_wd' = NoWd /\ old_line' = NoLine
    BY <1>6 DEF HandleVanish, IsVanish, StopWatching, Handling
  <2>2. ASSUME Undisturbed' PROVE Good'
    <3>2. Undisturbed
      BY <1>2, <2>1, <2>2 DEF Undisturbed
    <3>3. ~HasGone(queue') /\ ~HasGone(buf') /\ LastEventAgrees' /\ pc' # "dead"
      BY <1>2, <2>1, <3>2, PopFacts DEF LastEventAgrees
    <3>4. ASSUME ~HasName(queue'), ~HasName(buf') PROVE InStep'
      <4>1. ~Present
        BY <1>1, <2>1, <3>2, <3>4, PopFacts DEF Says, IsName
      <4> QED BY <1>2, <2>1, <4>1 DEF InStep, Present
    <3> QED BY <3>3, <3>4 DEF Good
  <2> QED BY <1>2, <2>1, <2>2 DEF Inv, Fresh
<1>7. CASE HandleCloseWrite
  <2>1. /\ UNCHANGED fsVars /\ Handling /\ event.mask = "CLOSE_WRITE" /\ event.wd = file_wd
        /\ buf' = Tail(buf) /\ pc' = "fopen" /\ UNCHANGED kernelVars
        /\ UNCHANGED <<file_wd, old_line>>
    BY <1>7 DEF HandleCloseWrite
  <2>2. ~IsName(event)
    BY <2>1 DEF IsName, IsAppear, IsVanish, AppearMasks, VanishMasks
  <2>3. ASSUME Undisturbed' PROVE Good'
    <3>2. Undisturbed /\ queue' = queue /\ wdOf' = wdOf
      BY <1>2, <2>1, <2>3 DEF Undisturbed, kernelVars
    <3>3. ~HasGone(queue') /\ ~HasGone(buf') /\ LastEventAgrees' /\ pc' # "dead"
      BY <1>2, <2>1, <3>2, PopFacts DEF LastEventAgrees
    <3>4. ASSUME ~HasName(queue'), ~HasName(buf') PROVE InStep'
      <4>1. InStep /\ pc = "loop"
        BY <2>1, <2>2, <3>2, <3>4, PopFacts DEF Handling
      <4>2. file_wd # NoWd
        <5>1. event \in Event
          BY <2>1, <3>2, PopFacts
        <5>2. event.wd \in Nat
          BY <2>1, <5>1 DEF Event, Overflow, DirMasks, DirWd
        <5> QED BY <2>1, <5>2 DEF NoWd
      <4> QED BY <1>2, <2>1, <3>2, <4>1, <4>2 DEF InStep
    <3> QED BY <3>3, <3>4 DEF Good
  <2> QED BY <1>2, <2>1, <2>3 DEF Inv, Fresh
<1>8. CASE HandleDirGone
  <2>1. UNCHANGED fsVars /\ Handling /\ IsGone(event) /\ pc' = pc /\ lost' = lost
    BY <1>8 DEF HandleDirGone, IsGone, kernelVars
  <2>2. ~Undisturbed'
    BY <1>2, <2>1, PopFacts DEF Undisturbed
  <2> QED BY <1>2, <2>1, <2>2 DEF Inv, Fresh, Handling
<1>9. CASE HandleOther
  <2>1. /\ UNCHANGED fsVars /\ Handling
        /\ event = Overflow \/ (event.mask = "CLOSE_WRITE" /\ event.wd # file_wd)
        /\ buf' = Tail(buf) /\ UNCHANGED kernelVars
        /\ UNCHANGED <<pc, file_wd, old_line, fp>>
    BY <1>9 DEF HandleOther
  <2>2. /\ ~IsName(event)
        /\ event # [wd |-> file_wd, mask |-> "CLOSE_WRITE"]
    BY <2>1 DEF IsName, IsAppear, IsVanish, AppearMasks, VanishMasks, Overflow
  <2>3. ASSUME Undisturbed' PROVE Good'
    <3>2. Undisturbed /\ queue' = queue /\ wdOf' = wdOf
      BY <1>2, <2>1, <2>3 DEF Undisturbed, kernelVars
    <3>3. ~HasGone(queue') /\ ~HasGone(buf') /\ LastEventAgrees' /\ pc' # "dead"
      BY <1>2, <2>1, <3>2, PopFacts DEF LastEventAgrees, Handling
    <3>4. ASSUME ~HasName(queue'), ~HasName(buf') PROVE InStep'
      <4>1. InStep
        BY <2>1, <2>2, <3>2, <3>4, PopFacts
      <4>2. HasWrite(buf, file_wd) => HasWrite(buf', file_wd)
        BY <2>1, <2>2, <3>2, PopFacts
      <4> QED BY <1>2, <2>1, <3>2, <4>1, <4>2 DEF InStep
    <3> QED BY <3>3, <3>4 DEF Good
  <2> QED BY <1>2, <2>1, <2>3 DEF Inv, Fresh, Handling
<1>10. CASE read_file_fopen
  <2>1. /\ UNCHANGED fsVars /\ UNCHANGED <<wdOf, queue>> /\ pc = "fopen"
        /\ UNCHANGED <<buf, file_wd, old_line>>
        /\ \/ AtPath = {} /\ pc' = "dead" /\ lost' = lost
           \/ lost' = TRUE /\ pc' = "dead"
           \/ \E i \in AtPath : fp' = i /\ pc' = "fgets" /\ lost' = lost
    BY <1>10 DEF read_file_fopen
  <2>2. ASSUME Undisturbed' PROVE Good'
    <3>1. /\ Good /\ Present \in BOOLEAN /\ queue' = queue /\ wdOf' = wdOf
          /\ ~lost'
      BY <1>0, <1>2, <2>1, <2>2 DEF Undisturbed, Present
    <3>2. ~HasGone(queue') /\ ~HasGone(buf') /\ LastEventAgrees'
      BY <1>2, <2>1, <3>1 DEF Good, LastEventAgrees
    <3>3. CASE AtPath = {} /\ pc' = "dead"
      <4>1. HasName(queue) \/ HasName(buf)
        BY <2>1, <3>1, <3>3 DEF Good, InStep, Present
      <4>2. EndsIn(queue, FALSE) \/ EndsIn(buf, FALSE)
        BY <3>1, <3>3, <4>1 DEF Good, LastEventAgrees, Present
      <4>3. HasVanish(queue) \/ HasVanish(buf)
        BY <4>2 DEF EndsIn, HasVanish
      <4> QED BY <2>1, <3>1, <3>2, <4>1, <4>3 DEF Good
    <3>4. ASSUME NEW i \in AtPath, fp' = i, pc' = "fgets" PROVE Good'
      <4>1. \A j \in AtPath : j = i
        BY <1>0 DEF OneFile, AtPath
      <4>2. ASSUME ~HasName(queue'), ~HasName(buf') PROVE InStep'
        <5>1. InStep /\ Present
          BY <2>1, <3>1, <4>2 DEF Good, Present
        <5> QED BY <1>2, <2>1, <3>1, <3>4, <4>1, <5>1 DEF InStep
      <4> QED BY <3>2, <3>4, <4>2 DEF Good
    <3> QED BY <2>1, <3>1, <3>3, <3>4
  <2> QED BY <1>2, <2>1, <2>2 DEF Inv, Fresh
<1>11. CASE read_file_fgets
  <2>1. /\ UNCHANGED fsVars /\ UNCHANGED <<wdOf, queue>> /\ pc = "fgets" /\ pc' = "loop"
        /\ UNCHANGED <<buf, file_wd>>
        /\ lost' = TRUE \/ (lost' = lost /\ old_line' = content[fp])
    BY <1>11 DEF read_file_fgets
  <2>2. ASSUME Undisturbed' PROVE Good'
    <3>1. Good /\ queue' = queue /\ wdOf' = wdOf /\ old_line' = content[fp]
      BY <1>0, <1>2, <2>1, <2>2 DEF Undisturbed
    <3>2. ~HasGone(queue') /\ ~HasGone(buf') /\ LastEventAgrees' /\ pc' # "dead"
      BY <1>2, <2>1, <3>1 DEF Good, LastEventAgrees
    <3>3. ASSUME ~HasName(queue'), ~HasName(buf') PROVE InStep'
      <4>1. InStep
        BY <2>1, <3>1, <3>3 DEF Good
      <4> QED BY <1>2, <2>1, <3>1, <4>1 DEF InStep
    <3> QED BY <3>2, <3>3 DEF Good
  <2> QED BY <1>2, <2>1, <2>2 DEF Inv, Fresh
<1> QED BY <1>3, <1>4, <1>5, <1>6, <1>7, <1>8, <1>9, <1>10, <1>11 DEF Program

-----------------------------------------------------------------------------
(* The theorems. *)

\* The invariant holds when main() has set up the directory watch.
LEMMA InitInv ==
  ASSUME Init
  PROVE  Inv
<1>1. TypeInv
  <2>1. place \in [Inodes -> {"new", "path", "away", "gone"}]
    BY DEF Init
  <2>2. /\ content \in [Inodes -> Content]
        /\ writing \in [Inodes -> BOOLEAN]
        /\ wdOf \in [Inodes -> Nat \cup {NoWd}]
    BY DEF Init
  <2>3. queue \in Seq(Event) /\ buf \in Seq(Event) /\ Len(queue) = 0 /\ Len(buf) = 0
    BY DEF Init
  <2>4. /\ ops \in 0..MaxOps /\ nextWd \in Nat
        /\ MaxQueued \in Nat /\ BufEvents \in Nat
    BY ConstantsAssumption DEF Init, DirWd
  <2>5. /\ dir \in {"here", "moved", "deleted"} /\ lost \in BOOLEAN
        /\ pc \in {"start", "loop", "fopen", "fgets", "dead"} /\ pc # "fgets"
        /\ file_wd \in Nat \cup {NoWd}
        /\ old_line \in Content /\ fp \in Inodes \cup {NoFile}
    BY DEF Init, Content
  <2>6. Len(queue) <= MaxQueued /\ Len(queue) <= MaxQueued + 1 /\ Len(buf) <= BufEvents
    BY <2>3, <2>4
  <2> QED BY <2>1, <2>2, <2>3, <2>4, <2>5, <2>6 DEF TypeInv, TypeOK, Fits
<1>2. OneFile /\ Fresh
  BY DEF Init, OneFile, Fresh
<1>3. Good
  BY DEF Init, Good, HasGone, HasName, LastEventAgrees, InStep, NoWd
<1> QED BY <1>1, <1>2, <1>3 DEF Inv

\* The invariant is inductive.
LEMMA NextInv ==
  ASSUME Inv, [Next]_vars
  PROVE  Inv'
<1>1. TypeInv'
  BY TypeInvNext DEF Inv
<1>2. CASE Next
  BY <1>1, <1>2, EnvironmentStep, ProgramStep DEF Next
<1>3. CASE UNCHANGED vars
  <2>1. OneFile' /\ Fresh'
    BY <1>3 DEF vars, Inv, OneFile, Fresh
  <2>2. Undisturbed' => Good'
    BY <1>3 DEF vars, Inv, Undisturbed, Good, LastEventAgrees, InStep, Present, AtPath
  <2> QED BY <1>1, <2>1, <2>2 DEF Inv
<1> QED BY <1>2, <1>3

\* The invariant holds throughout every behaviour.
LEMMA Invariance == Spec => []Inv
<1>1. Init => Inv
  BY InitInv
<1>2. Inv /\ [Next]_vars => Inv'
  BY NextInv
<1> QED BY <1>1, <1>2, PTL DEF Spec

\* With nothing pending, no event is left of any kind.
LEMMA NothingPending ==
  ASSUME TypeInv, Pending = {}
  PROVE  /\ ~HasName(queue) /\ ~HasName(buf)
         /\ \A wd : ~HasWrite(queue, wd) /\ ~HasWrite(buf, wd)
BY DEF Pending, HasName, HasWrite

\* For every queue limit and read buffer, the state of inotify_file.c keeps its
\* type, and what it has read fits its buffer.
THEOREM TypeCorrect == Spec => []TypeOK
<1>1. Inv => TypeOK
  BY DEF Inv, TypeInv
<1> QED BY <1>1, Invariance, PTL

\* Once inotify_file.c has handled every event, it shows the first line of the
\* file now under the name, a write in progress apart.
THEOREM ShowsFile == Spec => []SettledShowsFile
<1>1. Inv => SettledShowsFile
  <2> SUFFICES ASSUME Inv, Settled, Undisturbed
               PROVE  IF AtPath = {} THEN old_line = NoLine
                      ELSE \A i \in AtPath : writing[i] \/ old_line = content[i]
    BY DEF SettledShowsFile
  <2>1. InStep /\ pc = "loop"
    BY NothingPending DEF Inv, Good, Settled
  <2> QED BY <2>1, NothingPending DEF Inv, Settled, InStep, Present
<1> QED BY <1>1, Invariance, PTL

\* Once inotify_file.c has handled every event, file_wd is the watch of the
\* file now under the name.
THEOREM WatchesFile == Spec => []SettledWatchesFile
<1>1. Inv => SettledWatchesFile
  <2> SUFFICES ASSUME Inv, Settled, Undisturbed
               PROVE  IF AtPath = {} THEN file_wd = NoWd
                      ELSE \A i \in AtPath : file_wd # NoWd /\ file_wd = wdOf[i]
    BY DEF SettledWatchesFile
  <2>1. InStep /\ pc = "loop"
    BY NothingPending DEF Inv, Good, Settled
  <2> QED BY <2>1 DEF InStep, Present
<1> QED BY <1>1, Invariance, PTL

\* inotify_file.c reaches fclose(NULL) for want of the file only with the event
\* that says the name has gone still unhandled.
THEOREM DiesBehind == Spec => []DiesOnlyBehind
<1>1. Inv => DiesOnlyBehind
  BY DEF Inv, Good, DiesOnlyBehind, HasVanish, IsVanish, Pending
<1> QED BY <1>1, Invariance, PTL

=============================================================================
