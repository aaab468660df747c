------------------------------ MODULE Isolate ------------------------------
(***************************************************************************)
(* configs/679/isolate and get_vrrp_offset: operators drain VRRP instances *)
(* of a keepalived by setting an offset for each; keepalived polls the     *)
(* offsets and gives the mastership of a drained instance away.            *)
(* configs/679/track_file/isolate is the same program with one file for    *)
(* each instance instead of one JSON file for all.                         *)
(*                                                                         *)
(* An isolate asks keepalived for its data with a signal, waits 0.1        *)
(* seconds and reads the file keepalived may or may not have finished by   *)
(* then; its checkStatus thread sends the same signal meanwhile.  Files    *)
(* are rewritten in place, so they can be read, and abandoned, empty.      *)
(* keepalived is external: it dumps its data when signalled, and an        *)
(* instance it holds to be offset is not master.                           *)
(***************************************************************************)
EXTENDS Integers, Sequences, FiniteSets

CONSTANTS Order,      \* the instances, in the order of keepalived's data
          Runs,       \* the isolates started
          ArgsOf,     \* their arguments: mode, count (0 is none), instances, offset
          Stores,     \* one file per instance, as in track_file/isolate (TRUE), or one
          Killable    \* whether an isolate may be interrupted

Instances == {Order[n] : n \in 1..Len(Order)}

ASSUME ConstantsAssumption ==
  /\ Stores \subseteq BOOLEAN /\ Killable \in BOOLEAN
  /\ \A r \in Runs : /\ ArgsOf[r].mode \in {"all", "count", "instances"}
                     /\ ArgsOf[r].offset \in {0, 1}
                     /\ ArgsOf[r].count \in Int
                     /\ ArgsOf[r].mode = "count" => ArgsOf[r].count # 0

VARIABLES
  home,      \* the state of each instance when its priority is the base one
  state,     \* the state of each instance
  known,     \* the offset keepalived last got for it
  request,   \* a signal is pending
  dump,      \* /tmp/keepalived.json: not complete, or a state for each instance
  perFile,   \* whether each instance has a file
  offsets,   \* the offsets stored, NoOffset where there is none
  torn,      \* for each, whether its offset cannot be read: opened, not written
  pc,        \* each isolate: "signal", "load", "read", "open", "dump", "said", "killed"
  todo,      \* the instances it has still to go through
  json,      \* its offsetJson
  done,      \* how many it has changed
  stale,     \* another isolate has written since it opened the file
  raced      \* history: isolates whose file another has touched since they read it

keepalived == <<home, state, known, dump>>
store == <<perFile, offsets, torn>>
vars == <<home, state, known, request, dump, perFile, offsets, torn,
          pc, todo, json, done, stale, raced>>

Partial == <<>>
NoOffset == -1
NoOffsets == [i \in Instances |-> NoOffset]
Whole == [i \in Instances |-> FALSE]
AllTorn == [i \in Instances |-> TRUE]
Offset(r) == ArgsOf[r].offset

-----------------------------------------------------------------------------
(* keepalived. *)

\* What get_vrrp_offset exits with: 0 for whatever cannot be read.
get_vrrp_offset(i) == IF torn[i] \/ offsets[i] = NoOffset THEN 0 ELSE offsets[i]

\* keepalived runs get_vrrp_offset, as its vrrp_script says.
Poll(i) ==
  /\ known' = [known EXCEPT ![i] = get_vrrp_offset(i)]
  /\ state' = [state EXCEPT ![i] = IF known'[i] = 1 THEN "BACKUP" ELSE home[i]]
  /\ UNCHANGED <<home, request, dump, store, pc, todo, json, done, stale, raced>>

StartDump ==
  /\ request
  /\ request' = FALSE
  /\ dump' = Partial
  /\ UNCHANGED <<home, state, known, store, pc, todo, json, done, stale, raced>>

EndDump ==
  /\ dump = Partial
  /\ dump' = state
  /\ UNCHANGED <<home, state, known, request, store, pc, todo, json, done, stale, raced>>

-----------------------------------------------------------------------------
(* isolate. *)

At(r, a, b) == pc[r] = a /\ pc' = [pc EXCEPT ![r] = b]

\* getFreshData(): os.kill() and time.sleep().
Signal(r) ==
  /\ At(r, "signal", "load")
  /\ request' = TRUE
  /\ UNCHANGED <<keepalived, store, todo, json, done, stale, raced>>

\* getFreshData() raises, without a pid file or a process to signal: main() ends.
Raises(r) ==
  /\ At(r, "signal", "killed")
  /\ UNCHANGED <<keepalived, request, store, todo, json, done, stale, raced>>

\* checkStatus(): the other thread's getFreshData().
CheckStatus(r) ==
  /\ pc[r] \notin {"signal", "killed"}
  /\ request' = TRUE
  /\ UNCHANGED <<keepalived, store, pc, todo, json, done, stale, raced>>

\* The instances of keepalived's data: none if the data cannot be loaded.
getFreshData == IF dump = Partial THEN {} ELSE Instances
getMasters == {i \in getFreshData : dump[i] = "MASTER"}
getSlaves == {i \in getFreshData : dump[i] = "BACKUP"}

Listed(instances) == SelectSeq(Order, LAMBDA i : i \in instances)

\* json.load(), getMasters() or getSlaves(), and the choice of main().
Load(r) ==
  /\ At(r, "load", "read")
  /\ todo' = [todo EXCEPT ![r] =
       CASE ArgsOf[r].mode = "all" -> Listed(getFreshData)
         [] ArgsOf[r].mode = "instances" -> ArgsOf[r].instances
         [] ArgsOf[r].mode = "count" /\ Offset(r) = 1 -> Listed(getMasters)
         [] ArgsOf[r].mode = "count" /\ Offset(r) = 0 -> Listed(getSlaves)]
  /\ UNCHANGED <<keepalived, request, store, json, done, stale, raced>>

\* The offsets an isolate finds, and whether that of instance i must change.
Found == [i \in Instances |-> IF torn[i] THEN NoOffset ELSE offsets[i]]
Changes(i, offset) == IF Found[i] = NoOffset THEN offset # 0 ELSE Found[i] # offset

\* updateOffset() reads the stored offsets, and returns 0 if nothing changes.
Read(r) ==
  /\ todo[r] # <<>>
  /\ LET i == Head(todo[r])
     IN  IF Changes(i, Offset(r))
         THEN /\ At(r, "read", "open")
              /\ json' = [json EXCEPT ![r] = [Found EXCEPT ![i] = Offset(r)]]
              /\ UNCHANGED todo
         ELSE /\ At(r, "read", "read")
              /\ todo' = [todo EXCEPT ![r] = Tail(@)]
              /\ UNCHANGED json
  /\ raced' = IF torn = Whole THEN raced \ {r} ELSE raced \cup {r}
  /\ UNCHANGED <<keepalived, request, store, done, stale>>

\* The isolates between their reading of the file and their writing of it.
Between == {r \in Runs : pc[r] \in {"open", "dump"}}

\* Mutant: the files of all instances are opened.
OpenAll(r) ==
  /\ At(r, "open", "dump")
  /\ torn' = AllTorn
  /\ stale' = [stale EXCEPT ![r] = FALSE]
  /\ raced' = raced \cup (Between \ {r})
  /\ UNCHANGED <<keepalived, request, perFile, offsets, todo, json, done>>

\* open(..., "w").
Open(r) ==
  /\ At(r, "open", "dump")
  /\ torn' = IF perFile THEN [torn EXCEPT ![Head(todo[r])] = TRUE] ELSE AllTorn
  /\ stale' = [stale EXCEPT ![r] = FALSE]
  /\ raced' = raced \cup (Between \ {r})
  /\ UNCHANGED <<keepalived, request, perFile, offsets, todo, json, done>>

\* Mutant: only this instance is dumped.
Stored1(r) == [i \in Instances |-> IF i = Head(todo[r]) THEN Offset(r) ELSE NoOffset]

\* What json.dump(), or write(), leaves in the store.
Stored(r) == IF perFile THEN [offsets EXCEPT ![Head(todo[r])] = Offset(r)] ELSE json[r]

\* Mutant: the count is tested with > for >=.
FinishedLate(r) == ArgsOf[r].mode = "count" /\ done[r] + 1 > ArgsOf[r].count

\* if done >= args.count: break
Finished(r) == ArgsOf[r].mode = "count" /\ done[r] + 1 >= ArgsOf[r].count

\* json.dump() and close().  Over what another isolate wrote since the file was
\* opened, a shorter text leaves the end of the longer one: not JSON.
Dump(r) ==
  /\ At(r, "dump", "read")
  /\ \/ /\ offsets' = Stored(r)
        /\ torn' = IF perFile THEN [torn EXCEPT ![Head(todo[r])] = FALSE] ELSE Whole
     \/ stale[r] /\ ~perFile /\ UNCHANGED offsets /\ torn' = AllTorn
  /\ stale' = [q \in Runs |-> stale[q] \/ pc[q] = "dump"]
  /\ done' = [done EXCEPT ![r] = @ + 1]
  /\ todo' = [todo EXCEPT ![r] = IF Finished(r) THEN <<>> ELSE Tail(@)]
  /\ raced' = raced \cup (Between \ {r})
  /\ UNCHANGED <<keepalived, request, perFile, json>>

\* "All modifications in priorities have been made."
Say(r) ==
  /\ todo[r] = <<>>
  /\ At(r, "read", "said")
  /\ UNCHANGED <<keepalived, request, store, todo, json, done, stale, raced>>

\* An isolate is interrupted, or ended by an error at its file.
Kill(r) ==
  /\ Killable
  /\ pc[r] \notin {"said", "killed"}
  /\ pc' = [pc EXCEPT ![r] = "killed"]
  /\ UNCHANGED <<keepalived, request, store, todo, json, done, stale, raced>>

isolate(r) == Signal(r) \/ Load(r) \/ Read(r) \/ Open(r) \/ Dump(r) \/ Say(r)

\* Earlier isolates have left some offsets and some data behind.
Init ==
  /\ home \in [Instances -> {"MASTER", "BACKUP"}]
  /\ state = home
  /\ known = [i \in Instances |-> 0]
  /\ request = FALSE
  /\ dump \in {Partial, home}
  /\ offsets \in [Instances -> {NoOffset, 0, 1}]
  /\ torn = Whole /\ perFile \in Stores
  /\ pc = [r \in Runs |-> "signal"]
  /\ todo = [r \in Runs |-> <<>>]
  /\ json = [r \in Runs |-> NoOffsets]
  /\ done = [r \in Runs |-> 0]
  /\ stale = [r \in Runs |-> FALSE] /\ raced = {}

Next ==
  \/ StartDump \/ EndDump \/ \E i \in Instances : Poll(i)
  \/ \E r \in Runs : isolate(r) \/ Raises(r) \/ CheckStatus(r) \/ Kill(r)

Spec == Init /\ [][Next]_vars

-----------------------------------------------------------------------------
(* Properties. *)

\* The most a --count run may change: a negative count is as good as one.
Limit(r) == IF ArgsOf[r].count > 0 THEN ArgsOf[r].count ELSE 1

\* Every variable has its type, and a --count run never changes more instances
\* than it was told to (32-40).
TypeOK ==
  /\ home \in [Instances -> {"MASTER", "BACKUP"}]
  /\ state \in [Instances -> {"MASTER", "BACKUP"}]
  /\ known \in [Instances -> {0, 1}]
  /\ request \in BOOLEAN
  /\ dump = Partial \/ dump \in [Instances -> {"MASTER", "BACKUP"}]
  /\ offsets \in [Instances -> {NoOffset, 0, 1}]
  /\ torn \in [Instances -> BOOLEAN] /\ perFile \in BOOLEAN /\ raced \subseteq Runs
  /\ \A r \in Runs : /\ pc[r] \in {"signal", "load", "read", "open", "dump", "said", "killed"}
                     /\ ArgsOf[r].mode = "count" => done[r] <= Limit(r)

\* An offset that cannot be read is being written, or an isolate ended while it
\* wrote it.  With a file for each instance no other isolate can have done so;
\* with one file it may also be that two of them wrote at once (81-82, 106-109).
TornIsHeld ==
  \A i \in Instances : torn[i] =>
    \/ \E r \in Runs : /\ pc[r] \in {"dump", "killed"} /\ todo[r] # <<>>
                       /\ perFile => i = Head(todo[r])
    \/ ~perFile /\ raced # {}

\* The types, a --count run's limit, and who has an unreadable offset in hand.
StoreInv == TypeOK /\ TornIsHeld

\* What an isolate stores for one instance takes the offset of no other away
\* (updateOffset() 81-109), and one that shares its file with the others can
\* only do so when the file changed between its reading and its writing, or
\* was not whole when it was read.
ChangesOneOnly ==
  [][\A i \in Instances : offsets'[i] # offsets[i] =>
       \E r \in Runs : /\ pc[r] = "dump"
                       /\ \/ i = Head(todo[r]) /\ offsets'[i] = Offset(r)
                          \/ ~perFile /\ r \in raced]_vars

\* When an isolate for all instances says "All modifications in priorities have
\* been made" (138-141), they have been made.
AllMade ==
  \A r \in Runs : pc[r] = "said" /\ ArgsOf[r].mode = "all" =>
    \A i \in Instances : get_vrrp_offset(i) = Offset(r)
=============================================================================
