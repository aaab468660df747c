---------------------------- MODULE IsolateProofs ----------------------------
(***************************************************************************)
(* Proofs about Isolate, for any number of isolates started at once, with  *)
(* any arguments, over any instances: a --count run keeps to its count,    *)
(* and what one isolate stores for an instance changes no other, unless    *)
(* the file they share changed under it.                                   *)
(*                                                                         *)
(* An isolate carries the whole file in its offsetJson from its reading to *)
(* its writing, so what it writes is only as good as what it remembers.    *)
(* Copy says what it remembers: until another isolate touches the file, it *)
(* is the file itself but for the instance at hand.  Held says who has the *)
(* file open when it cannot be read, and rests on Counting for there being *)
(* an instance at hand.                                                    *)
(***************************************************************************)
EXTENDS Isolate, TLAPS

PCs == {"signal", "load", "read", "open", "dump", "said", "killed"}
Offsets == [Instances -> {NoOffset, 0, 1}]

\* TypeOK, and the types it leaves out.
Types ==
  /\ TypeOK
  /\ pc \in [Runs -> PCs] /\ DOMAIN todo = Runs
  /\ json \in [Runs -> Offsets]
  /\ done \in [Runs -> Nat] /\ stale \in [Runs -> BOOLEAN]

\* Nothing is done before the data is loaded, there is an instance at hand from
\* its reading to its writing, and a --count run that has instances left to go
\* through has not done its count.
Counting ==
  \A r \in Runs :
    /\ pc[r] \in {"signal", "load"} => done[r] = 0 /\ todo[r] = <<>>
    /\ pc[r] \in {"open", "dump"} => todo[r] # <<>>
    /\ ArgsOf[r].mode = "count" /\ todo[r] # <<>> => done[r] < Limit(r)

\* What an isolate whose file nobody else has touched is about to write.
Copy ==
  \A r \in Runs :
    pc[r] \in {"open", "dump"} /\ ~perFile /\ r \notin raced =>
      \A i \in Instances :
        json[r][i] = IF i = Head(todo[r]) THEN Offset(r) ELSE offsets[i]

IInv == Types /\ Counting /\ Copy

-----------------------------------------------------------------------------
\* Every offset is NoOffset, 0 or 1, and keepalived gets 0 or 1.
LEMMA OffsetTyped == \A r \in Runs : Offset(r) \in {0, 1}
BY ConstantsAssumption DEF Offset

\* A run may change at least one instance, and no more than its count.
LEMMA LimitTyped ==
  \A r \in Runs : /\ Limit(r) \in Nat \ {0}
                  /\ ArgsOf[r].count \in Int /\ ArgsOf[r].count <= Limit(r)
BY ConstantsAssumption DEF Limit

\* The initial states satisfy the invariant.
LEMMA InitIInv == Init => IInv
<1> SUFFICES ASSUME Init PROVE IInv
  OBVIOUS
<1>1. NoOffsets \in Offsets /\ offsets \in Offsets
  BY DEF Init, NoOffsets, Offsets
<1>2. /\ known \in [Instances -> {0, 1}] /\ state \in [Instances -> {"MASTER", "BACKUP"}]
      /\ torn \in [Instances -> BOOLEAN] /\ perFile \in BOOLEAN
      /\ dump = Partial \/ dump \in [Instances -> {"MASTER", "BACKUP"}]
  BY ConstantsAssumption DEF Init, Whole
<1>3. /\ pc \in [Runs -> PCs] /\ DOMAIN todo = Runs /\ done \in [Runs -> Nat]
      /\ stale \in [Runs -> BOOLEAN] /\ json \in [Runs -> Offsets]
  BY <1>1 DEF Init, PCs
<1>4. \A r \in Runs : pc[r] = "signal" /\ todo[r] = <<>> /\ done[r] = 0
  BY DEF Init
<1>5. \A r \in Runs : done[r] <= Limit(r)
  BY <1>4, LimitTyped
<1>6. request \in BOOLEAN /\ raced \subseteq Runs
  BY DEF Init
<1>7. home \in [Instances -> {"MASTER", "BACKUP"}]
  BY DEF Init
<1>8. TypeOK
  BY <1>1, <1>2, <1>4, <1>5, <1>6, <1>7 DEF TypeOK, Offsets
<1> QED
  <2>1. Types
    BY <1>3, <1>8 DEF Types
  <2>2. Counting
    BY <1>4 DEF Counting
  <2>3. Copy
    BY <1>4 DEF Copy
  <2> QED
    BY <2>1, <2>2, <2>3 DEF IInv

-----------------------------------------------------------------------------
(* keepalived's steps change nothing that an isolate relies on. *)

\* What get_vrrp_offset exits with.
LEMMA ExitTyped ==
  ASSUME Types, NEW i \in Instances PROVE get_vrrp_offset(i) \in {0, 1}
BY DEF Types, TypeOK, get_vrrp_offset, NoOffset

\* A step that leaves the store and the isolates alone keeps the invariant if
\* it keeps the types of keepalived's variables.
LEMMA KeepalivedStep ==
  ASSUME IInv, UNCHANGED <<store, pc, todo, json, done, stale, raced>>,
         home' \in [Instances -> {"MASTER", "BACKUP"}],
         state' \in [Instances -> {"MASTER", "BACKUP"}],
         known' \in [Instances -> {0, 1}], request' \in BOOLEAN,
         dump' = Partial \/ dump' \in [Instances -> {"MASTER", "BACKUP"}]
  PROVE  IInv'
<1>1. Types'
  BY DEF IInv, Types, TypeOK, store
<1>2. Counting' /\ Copy'
  BY DEF IInv, Counting, Copy, store
<1> QED
  BY <1>1, <1>2 DEF IInv

\* Poll, StartDump and EndDump keep the invariant.
LEMMA PollIInv == ASSUME IInv, NEW i \in Instances, Poll(i) PROVE IInv'
<1>1. Types
  BY DEF IInv
<1>2. known' \in [Instances -> {0, 1}]
  BY <1>1, ExitTyped DEF Poll, Types, TypeOK
<1>3. state' \in [Instances -> {"MASTER", "BACKUP"}]
  BY <1>1 DEF Poll, Types, TypeOK
<1> QED
  BY <1>1, <1>2, <1>3, KeepalivedStep DEF Poll, Types, TypeOK

LEMMA DumpsIInv == ASSUME IInv, StartDump \/ EndDump PROVE IInv'
BY KeepalivedStep DEF StartDump, EndDump, IInv, Types, TypeOK

\* The signals an isolate sends do so too: neither thread's getFreshData()
\* touches the store.
LEMMA CheckStatusIInv == ASSUME IInv, NEW r \in Runs, CheckStatus(r) PROVE IInv'
BY KeepalivedStep DEF CheckStatus, IInv, Types, TypeOK, keepalived

-----------------------------------------------------------------------------
(* The steps of an isolate. *)

\* A step that leaves the store, what was remembered and the count alone, and
\* takes an isolate to a place where it has no file in hand.
LEMMA MoveIInv ==
  ASSUME IInv, NEW r \in Runs, NEW to \in PCs \ {"load", "open", "dump"},
         pc' = [pc EXCEPT ![r] = to], to = "signal" => pc[r] = "signal",
         UNCHANGED <<keepalived, store, todo, json, done, stale, raced>>,
         request' \in BOOLEAN
  PROVE  IInv'
<1>1. pc' \in [Runs -> PCs]
  BY DEF IInv, Types
<1>2. Types'
  BY <1>1 DEF IInv, Types, TypeOK, PCs, keepalived, store
<1>3. \A q \in Runs : q # r => pc'[q] = pc[q]
  BY DEF IInv, Types
<1>4. pc'[r] = to
  BY DEF IInv, Types
<1>5. Counting'
  BY <1>3, <1>4 DEF IInv, Counting, PCs
<1>6. Copy'
  BY <1>3, <1>4 DEF IInv, Copy, PCs, store
<1> QED
  BY <1>2, <1>5, <1>6 DEF IInv

\* getFreshData()'s signal.
LEMMA SignalIInv == ASSUME IInv, NEW r \in Runs, Signal(r) PROVE IInv'
<1>1. pc[r] = "signal" /\ pc' = [pc EXCEPT ![r] = "load"]
  BY DEF Signal, At
<1>2. /\ pc'[r] = "load" /\ \A q \in Runs : q # r => pc'[q] = pc[q]
      /\ pc' \in [Runs -> PCs]
  BY <1>1 DEF IInv, Types, PCs
<1>3. Types'
  BY <1>2 DEF Signal, IInv, Types, TypeOK, PCs, keepalived, store
<1>4. Counting' /\ Copy'
  BY <1>1, <1>2 DEF Signal, IInv, Counting, Copy, store
<1> QED
  BY <1>3, <1>4 DEF IInv

\* Load: whatever instances the data gives, none of them is done.
LEMMA LoadIInv == ASSUME IInv, NEW r \in Runs, Load(r) PROVE IInv'
<1>1. pc[r] = "load" /\ pc' = [pc EXCEPT ![r] = "read"]
  BY DEF Load, At
<1>2. /\ pc'[r] = "read" /\ \A q \in Runs : q # r => pc'[q] = pc[q]
      /\ pc' \in [Runs -> PCs]
  BY <1>1 DEF IInv, Types, PCs
<1>3. DOMAIN todo' = Runs /\ \A q \in Runs : q # r => todo'[q] = todo[q]
  BY DEF Load, IInv, Types
<1>4. Types'
  BY <1>2, <1>3 DEF Load, IInv, Types, TypeOK, PCs, keepalived, store
<1>5. done'[r] = 0 /\ \A q \in Runs : done'[q] = done[q]
  BY <1>1 DEF Load, IInv, Counting
<1>6. 0 < Limit(r)
  BY LimitTyped
<1>7. Counting'
  <2> SUFFICES ASSUME NEW q \in Runs
               PROVE  /\ pc'[q] \in {"signal", "load"} => done'[q] = 0 /\ todo'[q] = <<>>
                      /\ pc'[q] \in {"open", "dump"} => todo'[q] # <<>>
                      /\ ArgsOf[q].mode = "count" /\ todo'[q] # <<>> => done'[q] < Limit(q)
    BY DEF Counting, Limit
  <2>1. CASE q = r
    BY <2>1, <1>2, <1>5, <1>6
  <2>2. CASE q # r
    BY <2>2, <1>2, <1>3, <1>5 DEF IInv, Counting
  <2> QED
    BY <2>1, <2>2
<1>8. Copy'
  BY <1>2, <1>3 DEF Load, IInv, Copy, store, Offset
<1> QED
  BY <1>4, <1>7, <1>8 DEF IInv

\* Read: an isolate that finds the file whole remembers it.
LEMMA ReadIInv == ASSUME IInv, NEW r \in Runs, Read(r) PROVE IInv'
<1> DEFINE h == Head(todo[r])
           new == [Found EXCEPT ![h] = Offset(r)]
<1>0. Offset(r) \in {0, 1} /\ todo[r] # <<>> /\ pc[r] = "read"
  BY OffsetTyped DEF Read, At
<1>1. Found \in Offsets /\ (torn = Whole => Found = offsets)
  BY DEF Found, Offsets, IInv, Types, TypeOK, Whole
<1>2. new \in Offsets /\ \A i \in Instances : new[i] = IF i = h THEN Offset(r) ELSE Found[i]
  BY <1>0, <1>1 DEF Offsets
<1>3. raced' \subseteq Runs /\ (r \notin raced' => torn = Whole)
      /\ \A q \in Runs : q # r => (q \in raced' <=> q \in raced)
  BY DEF Read, IInv, Types, TypeOK
<1>4. UNCHANGED <<keepalived, request, store, done, stale>>
  BY DEF Read
<1>5. CASE Changes(h, Offset(r))
  <2>1. pc' = [pc EXCEPT ![r] = "open"] /\ json' = [json EXCEPT ![r] = new] /\ todo' = todo
    BY <1>5 DEF Read, At
  <2> HIDE DEF new, h
  <2>2. /\ pc'[r] = "open" /\ \A q \in Runs : q # r => pc'[q] = pc[q]
        /\ pc' \in [Runs -> PCs]
    BY <2>1 DEF IInv, Types, PCs
  <2>3. /\ json'[r] = new /\ \A q \in Runs : q # r => json'[q] = json[q]
        /\ json' \in [Runs -> Offsets]
    BY <2>1, <1>2 DEF IInv, Types
  <2>4. Types'
    BY <1>3, <1>4, <2>1, <2>2, <2>3 DEF IInv, Types, TypeOK, PCs, keepalived, store
  <2>5. Counting'
    BY <1>0, <1>4, <2>1, <2>2 DEF IInv, Counting, Limit
  <2>6. Copy'
    <3> SUFFICES ASSUME NEW q \in Runs, pc'[q] \in {"open", "dump"}, ~perFile', q \notin raced',
                        NEW i \in Instances
                 PROVE  json'[q][i] = IF i = Head(todo'[q]) THEN Offset(q) ELSE offsets'[i]
      BY DEF Copy, Offset
    <3>1. CASE q = r
      BY <3>1, <1>1, <1>2, <1>3, <1>4, <2>1, <2>3 DEF store, h
    <3>2. CASE q # r
      BY <3>2, <1>3, <1>4, <2>1, <2>2, <2>3 DEF IInv, Copy, store
    <3> QED
      BY <3>1, <3>2
  <2> QED
    BY <2>4, <2>5, <2>6 DEF IInv
<1>6. CASE ~Changes(h, Offset(r))
  <2>1. pc' = [pc EXCEPT ![r] = "read"] /\ todo' = [todo EXCEPT ![r] = Tail(@)] /\ json' = json
    BY <1>6 DEF Read, At
  <2>2. /\ pc'[r] = "read" /\ \A q \in Runs : q # r => pc'[q] = pc[q]
        /\ pc' \in [Runs -> PCs]
    BY <2>1 DEF IInv, Types, PCs
  <2>3. DOMAIN todo' = Runs /\ \A q \in Runs : q # r => todo'[q] = todo[q]
    BY <2>1 DEF IInv, Types
  <2>4. Types'
    BY <1>3, <1>4, <2>1, <2>2, <2>3 DEF IInv, Types, TypeOK, PCs, keepalived, store
  <2>5. Counting'
    <3> SUFFICES ASSUME NEW q \in Runs
                 PROVE  /\ pc'[q] \in {"signal", "load"} => done'[q] = 0 /\ todo'[q] = <<>>
                        /\ pc'[q] \in {"open", "dump"} => todo'[q] # <<>>
                        /\ ArgsOf[q].mode = "count" /\ todo'[q] # <<>> => done'[q] < Limit(q)
      BY DEF Counting, Limit
    <3>1. CASE q = r
      BY <3>1, <1>0, <1>4, <2>2 DEF IInv, Counting
    <3>2. CASE q # r
      BY <3>2, <1>4, <2>2, <2>3 DEF IInv, Counting
    <3> QED
      BY <3>1, <3>2
  <2>6. Copy'
    BY <1>3, <1>4, <2>1, <2>2, <2>3 DEF IInv, Copy, store, Offset
  <2> QED
    BY <2>4, <2>5, <2>6 DEF IInv
<1> QED
  BY <1>5, <1>6

\* Open: whoever else has the file in hand is raced from here on.
LEMMA OpenIInv == ASSUME IInv, NEW r \in Runs, Open(r) PROVE IInv'
<1>1. pc[r] = "open" /\ pc' = [pc EXCEPT ![r] = "dump"]
  BY DEF Open, At
<1>2. /\ pc'[r] = "dump" /\ \A q \in Runs : q # r => pc'[q] = pc[q]
      /\ pc' \in [Runs -> PCs]
  BY <1>1 DEF IInv, Types, PCs
<1>3. torn' \in [Instances -> BOOLEAN] /\ stale' \in [Runs -> BOOLEAN]
  BY DEF Open, IInv, Types, TypeOK, AllTorn
<1>4. raced' \subseteq Runs /\ raced \subseteq raced'
      /\ \A q \in Runs : q # r /\ pc[q] \in {"open", "dump"} => q \in raced'
  BY DEF Open, Between, IInv, Types, TypeOK
<1>5. UNCHANGED <<keepalived, request, perFile, offsets, todo, json, done>>
  BY DEF Open
<1>6. Types'
  BY <1>2, <1>3, <1>4, <1>5 DEF IInv, Types, TypeOK, PCs, keepalived
<1>7. Counting'
  BY <1>1, <1>2, <1>5 DEF IInv, Counting, Limit
<1>8. Copy'
  BY <1>1, <1>2, <1>4, <1>5 DEF IInv, Copy, Offset
<1> QED
  BY <1>6, <1>7, <1>8 DEF IInv

\* What is stored is a set of offsets.
LEMMA StoredTyped == ASSUME Types, NEW r \in Runs PROVE Stored(r) \in Offsets
BY OffsetTyped DEF Stored, Types, TypeOK, Offsets

\* Dump: one more is done, and none is left to go through if that is the count.
LEMMA DumpIInv == ASSUME IInv, NEW r \in Runs, Dump(r) PROVE IInv'
<1>1. pc[r] = "dump" /\ pc' = [pc EXCEPT ![r] = "read"]
  BY DEF Dump, At
<1>2. /\ pc'[r] = "read" /\ \A q \in Runs : q # r => pc'[q] = pc[q]
      /\ pc' \in [Runs -> PCs]
  BY <1>1 DEF IInv, Types, PCs
<1>3. offsets' \in Offsets
  BY StoredTyped DEF Dump, IInv, Types, TypeOK, Offsets
<1>4. torn' \in [Instances -> BOOLEAN]
  <2>1. torn \in [Instances -> BOOLEAN]
    BY DEF IInv, Types, TypeOK
  <2>2. torn' \in {[torn EXCEPT ![Head(todo[r])] = FALSE], Whole, AllTorn}
    BY DEF Dump
  <2> QED
    BY <2>1, <2>2 DEF AllTorn, Whole
<1>5. stale' \in [Runs -> BOOLEAN]
  BY DEF Dump, IInv, Types
<1>6. raced' \subseteq Runs /\ raced \subseteq raced'
      /\ \A q \in Runs : q # r /\ pc[q] \in {"open", "dump"} => q \in raced'
  BY DEF Dump, Between, IInv, Types, TypeOK
<1>7. /\ done' \in [Runs -> Nat] /\ done'[r] = done[r] + 1
      /\ \A q \in Runs : q # r => done'[q] = done[q]
  BY DEF Dump, IInv, Types
<1>8. /\ DOMAIN todo' = Runs /\ (Finished(r) => todo'[r] = <<>>)
      /\ \A q \in Runs : q # r => todo'[q] = todo[q]
  BY DEF Dump, IInv, Types
<1>9. UNCHANGED <<keepalived, request, perFile, json>>
  BY DEF Dump
<1>10. ArgsOf[r].mode = "count" =>
         done'[r] <= Limit(r) /\ (todo'[r] # <<>> => done'[r] < Limit(r))
  <2> SUFFICES ASSUME ArgsOf[r].mode = "count"
               PROVE  done'[r] <= Limit(r) /\ (todo'[r] # <<>> => done'[r] < Limit(r))
    OBVIOUS
  <2>1. done[r] \in Nat /\ done[r] < Limit(r)
    BY <1>1 DEF IInv, Types, Counting
  <2>2. /\ Limit(r) \in Nat /\ ArgsOf[r].count \in Int
        /\ ArgsOf[r].count <= Limit(r)
    BY LimitTyped
  <2>3. todo'[r] # <<>> => done[r] + 1 < ArgsOf[r].count
    BY <1>8, <2>1, <2>2 DEF Finished
  <2> QED
    BY <1>7, <2>1, <2>2, <2>3
<1>11. \A q \in Runs : ArgsOf[q].mode = "count" => done'[q] <= Limit(q)
  BY <1>7, <1>10 DEF IInv, Types, TypeOK
<1>12. Types'
  <2>1. TypeOK'
    BY <1>2, <1>3, <1>4, <1>6, <1>9, <1>11
       DEF IInv, Types, TypeOK, PCs, keepalived, Offsets, Limit
  <2> QED
    BY <2>1, <1>2, <1>5, <1>7, <1>8, <1>9 DEF IInv, Types
<1>13. Counting'
  <2> SUFFICES ASSUME NEW q \in Runs
               PROVE  /\ pc'[q] \in {"signal", "load"} => done'[q] = 0 /\ todo'[q] = <<>>
                      /\ pc'[q] \in {"open", "dump"} => todo'[q] # <<>>
                      /\ ArgsOf[q].mode = "count" /\ todo'[q] # <<>> => done'[q] < Limit(q)
    BY DEF Counting, Limit
  <2>1. CASE q = r
    BY <2>1, <1>2, <1>10
  <2>2. CASE q # r
    BY <2>2, <1>2, <1>7, <1>8 DEF IInv, Counting
  <2> QED
    BY <2>1, <2>2
<1>14. Copy'
  BY <1>2, <1>6, <1>8, <1>9 DEF IInv, Copy, Offset
<1> QED
  BY <1>12, <1>13, <1>14 DEF IInv

\* Say, and the end of an isolate by an exception or a signal.
LEMMA SayKillIInv == ASSUME IInv, NEW r \in Runs, Say(r) \/ Kill(r) \/ Raises(r) PROVE IInv'
<1>1. CASE Say(r)
  BY <1>1, MoveIInv DEF Say, At, PCs, IInv, Types, TypeOK
<1>2. CASE Kill(r)
  BY <1>2, MoveIInv DEF Kill, PCs, IInv, Types, TypeOK
<1>3. CASE Raises(r)
  BY <1>3, MoveIInv DEF Raises, At, PCs, IInv, Types, TypeOK
<1> QED
  BY <1>1, <1>2, <1>3

\* Every step keeps the invariant.
LEMMA NextIInv == IInv /\ [Next]_vars => IInv'
<1> SUFFICES ASSUME IInv, [Next]_vars PROVE IInv'
  OBVIOUS
<1>1. CASE \E i \in Instances : Poll(i)
  BY <1>1, PollIInv
<1>2. CASE StartDump \/ EndDump
  BY <1>2, DumpsIInv
<1>3. ASSUME NEW r \in Runs, isolate(r) PROVE IInv'
  BY <1>3, SignalIInv, LoadIInv, ReadIInv, OpenIInv, DumpIInv, SayKillIInv DEF isolate
<1>4. ASSUME NEW r \in Runs, Raises(r) \/ CheckStatus(r) \/ Kill(r) PROVE IInv'
  BY <1>4, CheckStatusIInv, SayKillIInv
<1>5. CASE UNCHANGED vars
  BY <1>5, KeepalivedStep DEF vars, store, IInv, Types, TypeOK
<1> QED
  BY <1>1, <1>2, <1>3, <1>4, <1>5 DEF Next

\* The invariant holds at every step.
LEMMA Invariance == Spec => []IInv
BY InitIInv, NextIInv, PTL DEF Spec

-----------------------------------------------------------------------------
(* Who has an offset in hand that cannot be read. *)

\* An isolate that writes over what another wrote since it opened the file has
\* been raced.
Overwrites == \A r \in Runs : pc[r] = "dump" /\ stale[r] => r \in raced

\* What TornIsHeld says of one instance.
HeldBy(i) ==
  \/ \E r \in Runs : /\ pc[r] \in {"dump", "killed"} /\ todo[r] # <<>>
                     /\ perFile => i = Head(todo[r])
  \/ ~perFile /\ raced # {}

Held == Overwrites /\ \A i \in Instances : torn[i] => HeldBy(i)

\* A step of an isolate that has no file open, or ends with it open.
LEMMA MoveHeld ==
  ASSUME IInv, Held, NEW r \in Runs, NEW to \in PCs \ {"dump"},
         pc' = [pc EXCEPT ![r] = to], pc[r] \notin {"dump", "killed"} \/ to = "killed",
         to = "killed" => todo' = todo,
         \A q \in Runs : q # r => todo'[q] = todo[q],
         UNCHANGED <<store, stale, raced>>
  PROVE  Held'
<1>1. /\ pc'[r] = to /\ \A q \in Runs : q # r => pc'[q] = pc[q]
  BY DEF IInv, Types
<1>2. Overwrites'
  BY <1>1 DEF Held, Overwrites
<1>3. ASSUME NEW i \in Instances, torn'[i] PROVE HeldBy(i)'
  <2>1. HeldBy(i)
    BY <1>3 DEF Held, store
  <2>2. CASE ~perFile /\ raced # {}
    BY <2>2 DEF HeldBy, store
  <2>3. ASSUME NEW q \in Runs, pc[q] \in {"dump", "killed"}, todo[q] # <<>>,
               perFile => i = Head(todo[q])
        PROVE  HeldBy(i)'
    <3>1. pc'[q] \in {"dump", "killed"} /\ todo'[q] = todo[q]
      BY <1>1, <2>3
    <3> QED
      BY <3>1, <2>3 DEF HeldBy, store
  <2> QED
    BY <2>1, <2>2, <2>3 DEF HeldBy
<1> QED
  BY <1>2, <1>3 DEF Held

\* Read: an isolate is no longer raced only if it found the file whole.
LEMMA ReadHeld == ASSUME IInv, Held, NEW r \in Runs, Read(r) PROVE Held'
<1>1. pc[r] = "read" /\ pc'[r] \in {"open", "read"} /\ \A q \in Runs : q # r => pc'[q] = pc[q]
  BY DEF Read, At, IInv, Types
<1>2. UNCHANGED <<store, stale>> /\ \A q \in Runs : q # r => todo'[q] = todo[q]
  BY DEF Read, IInv, Types
<1>3. /\ \A q \in Runs : q # r => (q \in raced' <=> q \in raced)
      /\ torn # Whole => r \in raced'
  BY DEF Read
<1>4. Overwrites'
  BY <1>1, <1>2, <1>3 DEF Held, Overwrites
<1>5. ASSUME NEW i \in Instances, torn'[i] PROVE HeldBy(i)'
  <2>1. HeldBy(i) /\ torn # Whole
    BY <1>2, <1>5 DEF Held, store, Whole
  <2>2. CASE ~perFile
    BY <1>2, <1>3, <2>1, <2>2 DEF HeldBy, store
  <2>3. CASE perFile
    <3>1. PICK q \in Runs : /\ pc[q] \in {"dump", "killed"} /\ todo[q] # <<>>
                            /\ i = Head(todo[q])
      BY <2>1, <2>3 DEF HeldBy
    <3>2. pc'[q] = pc[q] /\ todo'[q] = todo[q]
      BY <1>1, <1>2, <3>1
    <3> QED
      BY <3>1, <3>2 DEF HeldBy
  <2> QED
    BY <2>2, <2>3
<1> QED
  BY <1>4, <1>5 DEF Held

\* Open: what it makes unreadable it has in hand.
LEMMA OpenHeld == ASSUME IInv, Held, NEW r \in Runs, Open(r) PROVE Held'
<1>1. pc[r] = "open" /\ pc'[r] = "dump" /\ \A q \in Runs : q # r => pc'[q] = pc[q]
  BY DEF Open, At, IInv, Types
<1>2. UNCHANGED <<perFile, todo>> /\ todo[r] # <<>>
  BY <1>1 DEF Open, IInv, Counting
<1>3. Overwrites'
  BY <1>1 DEF Open, Held, Overwrites, IInv, Types
<1>4. ASSUME NEW i \in Instances, torn'[i] PROVE HeldBy(i)'
  <2>1. CASE ~perFile \/ i = Head(todo[r])
    BY <1>1, <1>2, <2>1 DEF HeldBy
  <2>2. CASE perFile /\ i # Head(todo[r])
    <3>1. torn[i]
      BY <1>4, <2>2 DEF Open, IInv, Types, TypeOK
    <3>2. PICK q \in Runs : /\ pc[q] \in {"dump", "killed"} /\ todo[q] # <<>>
                            /\ i = Head(todo[q])
      BY <3>1, <2>2 DEF Held, HeldBy
    <3> QED
      BY <1>1, <1>2, <3>2 DEF HeldBy
  <2> QED
    BY <2>1, <2>2
<1> QED
  BY <1>3, <1>4 DEF Held

\* Dump: what stays unreadable another isolate has in hand, or wrote before.
LEMMA DumpHeld == ASSUME IInv, Held, NEW r \in Runs, Dump(r) PROVE Held'
<1>1. pc[r] = "dump" /\ pc'[r] = "read" /\ \A q \in Runs : q # r => pc'[q] = pc[q]
  BY DEF Dump, At, IInv, Types
<1>2. UNCHANGED perFile /\ \A q \in Runs : q # r => todo'[q] = todo[q]
  BY DEF Dump, IInv, Types
<1>3. /\ raced \subseteq raced'
      /\ \A q \in Runs : q # r /\ pc[q] \in {"open", "dump"} => q \in raced'
  BY DEF Dump, Between
<1>4. Overwrites'
  BY <1>1, <1>3 DEF Overwrites
<1>5. ASSUME NEW i \in Instances, torn'[i] PROVE HeldBy(i)'
  <2>1. CASE ~perFile
    <3>1. torn' = AllTorn /\ stale[r]
      BY <1>5, <2>1 DEF Dump, Whole
    <3>2. r \in raced
      BY <1>1, <3>1 DEF Held, Overwrites
    <3> QED
      BY <1>2, <1>3, <2>1, <3>2 DEF HeldBy
  <2>2. CASE perFile
    <3>1. torn[i] /\ i # Head(todo[r])
      BY <1>5, <2>2 DEF Dump, IInv, Types, TypeOK
    <3>2. PICK q \in Runs : /\ pc[q] \in {"dump", "killed"} /\ todo[q] # <<>>
                            /\ i = Head(todo[q])
      BY <3>1, <2>2 DEF Held, HeldBy
    <3>3. q # r
      BY <3>1, <3>2
    <3> QED
      BY <1>1, <1>2, <3>2, <3>3 DEF HeldBy
  <2> QED
    BY <2>1, <2>2
<1> QED
  BY <1>4, <1>5 DEF Held

\* A step of keepalived, or of the other thread.
LEMMA ElseHeld ==
  ASSUME Held, UNCHANGED <<store, pc, todo, stale, raced>> PROVE Held'
BY DEF Held, Overwrites, HeldBy, store

\* Every step keeps Held.
LEMMA NextHeld == IInv /\ Held /\ [Next]_vars => Held'
<1> SUFFICES ASSUME IInv, Held, [Next]_vars PROVE Held'
  OBVIOUS
<1>1. CASE \/ \E i \in Instances : Poll(i)
           \/ StartDump \/ EndDump \/ UNCHANGED vars
           \/ \E r \in Runs : CheckStatus(r)
  BY <1>1, ElseHeld DEF Poll, StartDump, EndDump, CheckStatus, vars, store
<1>2. ASSUME NEW r \in Runs, Signal(r) \/ Raises(r) \/ Say(r) \/ Kill(r) PROVE Held'
  BY <1>2, MoveHeld DEF Signal, Raises, Say, Kill, At, PCs
<1>3. ASSUME NEW r \in Runs, Load(r) PROVE Held'
  <2>1. \A q \in Runs : q # r => todo'[q] = todo[q]
    BY <1>3 DEF Load, IInv, Types
  <2> QED
    BY <1>3, <2>1, MoveHeld DEF Load, At, PCs
<1>4. ASSUME NEW r \in Runs, Read(r) \/ Open(r) \/ Dump(r) PROVE Held'
  BY <1>4, ReadHeld, OpenHeld, DumpHeld
<1> QED
  BY <1>1, <1>2, <1>3, <1>4 DEF Next, isolate

-----------------------------------------------------------------------------
\* However many isolates run at once and are interrupted, and whatever they
\* read, none started with --count changes more instances than its count
\* (main() 32-40); and an offset that cannot be read is in the hand of an isolate
\* that writes it or ended while it did, of no other where each instance has a
\* file, and else unless two wrote at once (updateOffset() 106-109).
THEOREM CountKept == Spec => []StoreInv
<1>1. Init => Held
  BY DEF Init, Held, Overwrites, Whole
<1>2. IInv /\ Held => StoreInv
  BY DEF IInv, Types, StoreInv, Held, HeldBy, TornIsHeld
<1> QED
  BY <1>1, <1>2, Invariance, NextHeld, PTL DEF Spec

\* What an isolate stores for one instance takes the offset of no other away,
\* unless its one file changed, or was not whole, between its reading and its
\* writing (updateOffset() 81-109): Copy at the moment of the writing.
THEOREM OneOnly == Spec => ChangesOneOnly
<1> DEFINE One ==
      \A i \in Instances : offsets'[i] # offsets[i] =>
        \E r \in Runs : /\ pc[r] = "dump"
                        /\ \/ i = Head(todo[r]) /\ offsets'[i] = Offset(r)
                           \/ ~perFile /\ r \in raced
<1>1. IInv /\ [Next]_vars => [One]_vars
  <2> SUFFICES ASSUME IInv, [Next]_vars, NEW i \in Instances, offsets'[i] # offsets[i]
               PROVE  \E r \in Runs : /\ pc[r] = "dump"
                                      /\ \/ i = Head(todo[r]) /\ offsets'[i] = Offset(r)
                                         \/ ~perFile /\ r \in raced
    OBVIOUS
  <2>1. PICK r \in Runs : Dump(r)
    BY DEF Next, vars, Poll, StartDump, EndDump, isolate, Raises, CheckStatus, Kill,
           Signal, Load, Read, Open, Say, store
  <2>2. pc[r] = "dump" /\ offsets' = Stored(r)
    BY <2>1 DEF Dump, At
  <2>3. CASE perFile
    BY <2>2, <2>3 DEF Stored, IInv, Types, TypeOK
  <2>4. CASE ~perFile
    BY <2>2, <2>4 DEF Stored, IInv, Copy
  <2> QED
    BY <2>3, <2>4
<1> QED
  BY <1>1, Invariance, PTL DEF Spec, ChangesOneOnly
==============================================================================
