---------------------------- MODULE InotifyFile ----------------------------
(***************************************************************************)
(* code_test/inotify_file.c: a program that shows the first line of one    *)
(* file of a directory and keeps up with it through inotify, while other   *)
(* processes create, write, rename and delete that file.                   *)
(*                                                                         *)
(* The file system and the kernel's inotify queue are the environment; the *)
(* program is the actions from InitialWatch on.  Each action of the        *)
(* program ends where the file system can next be seen to have moved on:   *)
(* add_watch, fopen and fgets are three separate looks at it.              *)
(*                                                                         *)
(* IN_IGNORED events, and events about other names of the directory, are   *)
(* left out: no branch of the program acts on them.  A watch whose inode   *)
(* has been destroyed stays in wdOf, which nothing can observe: no event   *)
(* can come from it, and removing it fails as harmlessly as it succeeds.   *)
(***************************************************************************)
EXTENDS Integers, Sequences, FiniteSets

CONSTANTS Inodes,      \* the files that ever carry the watched name
          Lines,       \* the first lines a file may hold
          NoLine,      \* no first line: an empty file, and an empty old_line
          NoFile,      \* fp when no file is open
          MaxQueued,   \* fs.inotify.max_queued_events
          BufEvents,   \* how many events one read() returns at most
          MaxOps       \* bound: operations of the other processes

ASSUME ConstantsAssumption ==
  /\ NoLine \notin Lines
  /\ NoFile \notin Inodes
  /\ MaxQueued \in Nat \ {0}
  /\ BufEvents \in Nat \ {0}
  /\ MaxOps \in Nat

VARIABLES
  place,      \* where each inode is: not yet created ("new"), under the watched
              \* name ("path"), under another name ("away"), unlinked ("gone")
  content,    \* the first line of each inode
  writing,    \* whether some process has the inode open for writing
  dir,        \* the watched directory: "here", "moved" or "deleted"
  ops,        \* operations of the other processes so far
  wdOf,       \* kernel: the watch descriptor of each inode, NoWd if not watched
  nextWd,     \* kernel: the next watch descriptor
  queue,      \* kernel: events not yet read
  lost,       \* history: an event was dropped, or a watch, an open or a read refused
  pc,         \* where main() is
  buf,        \* events read and not yet handled
  file_wd,    \* static state of the program
  old_line,
  fp          \* the inode read_file() has open

fsVars == <<place, content, writing, dir, ops>>
kernelVars == <<wdOf, nextWd, queue, lost>>
programVars == <<pc, buf, file_wd, old_line, fp>>
vars == <<place, content, writing, dir, ops, wdOf, nextWd, queue, lost,
          pc, buf, file_wd, old_line, fp>>

NoWd == -1
DirWd == 1
Content == Lines \cup {NoLine}

DirMasks == {"CREATE", "MOVED_TO", "DELETE", "MOVED_FROM",
             "DELETE_SELF", "MOVE_SELF"}
Overflow == [wd |-> NoWd, mask |-> "Q_OVERFLOW"]
DirEvent(m) == [wd |-> DirWd, mask |-> m]
Event == [wd : {DirWd}, mask : DirMasks]
           \cup [wd : Nat, mask : {"CLOSE_WRITE"}] \cup {Overflow}

AppearMasks == {"CREATE", "MOVED_TO"}
VanishMasks == {"DELETE", "MOVED_FROM"}

-----------------------------------------------------------------------------
(* The kernel. *)

\* The queue after one more event: dropped when the queue is full, with one
\* overflow event to say so, and merged with an identical last event.
Queued(q, e) ==
  IF Len(q) >= MaxQueued
  THEN IF \E k \in 1..Len(q) : q[k] = Overflow THEN q ELSE Append(q, Overflow)
  ELSE IF q # <<>> /\ q[Len(q)] = e THEN q ELSE Append(q, e)

Notify(e) ==
  /\ queue' = Queued(queue, e)
  /\ lost' = (lost \/ Len(queue) >= MaxQueued)
  /\ UNCHANGED <<wdOf, nextWd>>

NotifyDir(m) == Notify(DirEvent(m))

\* What the path argv[1]/argv[2] leads to.
AtPath == {i \in Inodes : dir = "here" /\ place[i] = "path"}

-----------------------------------------------------------------------------
(* The other processes. *)

Op == ops < MaxOps /\ ops' = ops + 1 /\ UNCHANGED programVars

Create(i) ==
  /\ Op
  /\ dir # "deleted"
  /\ place[i] = "new"
  /\ \A j \in Inodes : place[j] # "path"
  /\ place' = [place EXCEPT ![i] = "path"]
  /\ content' = [content EXCEPT ![i] = NoLine]
  /\ writing' = [writing EXCEPT ![i] = TRUE]
  /\ NotifyDir("CREATE")
  /\ UNCHANGED dir

\* Rename into the watched name, over whatever is there.
MoveIn(i) ==
  /\ Op
  /\ dir # "deleted"
  /\ place[i] \in {"new", "away"}
  /\ place' = [j \in Inodes |-> IF j = i THEN "path"
                                ELSE IF place[j] = "path" THEN "gone"
                                ELSE place[j]]
  /\ NotifyDir("MOVED_TO")
  /\ UNCHANGED <<content, writing, dir>>

MoveOut(i) ==
  /\ Op
  /\ place[i] = "path"
  /\ place' = [place EXCEPT ![i] = "away"]
  /\ NotifyDir("MOVED_FROM")
  /\ UNCHANGED <<content, writing, dir>>

Delete(i) ==
  /\ Op
  /\ place[i] = "path"
  /\ place' = [place EXCEPT ![i] = "gone"]
  /\ NotifyDir("DELETE")
  /\ UNCHANGED <<content, writing, dir>>

\* Open for writing, truncating or not: the watch does not ask to hear of it.
OpenWrite(i) ==
  /\ Op
  /\ place[i] \in {"path", "away"}
  /\ ~writing[i]
  /\ writing' = [writing EXCEPT ![i] = TRUE]
  /\ \E c \in {content[i], NoLine} : content' = [content EXCEPT ![i] = c]
  /\ UNCHANGED <<place, dir, kernelVars>>

Write(i) ==
  /\ Op
  /\ writing[i]
  /\ \E c \in Content : content' = [content EXCEPT ![i] = c]
  /\ UNCHANGED <<place, writing, dir, kernelVars>>

CloseWrite(i) ==
  /\ writing[i]
  /\ writing' = [writing EXCEPT ![i] = FALSE]
  /\ IF wdOf[i] = NoWd THEN UNCHANGED kernelVars
     ELSE Notify([wd |-> wdOf[i], mask |-> "CLOSE_WRITE"])
  /\ UNCHANGED <<place, content, dir, ops, programVars>>

MoveDir ==
  /\ Op
  /\ dir = "here"
  /\ dir' = "moved"
  /\ NotifyDir("MOVE_SELF")
  /\ UNCHANGED <<place, content, writing>>

DeleteDir ==
  /\ Op
  /\ dir # "deleted"
  /\ \A i \in Inodes : place[i] # "path"
  /\ dir' = "deleted"
  /\ NotifyDir("DELETE_SELF")
  /\ UNCHANGED <<place, content, writing>>

Environment ==
  \/ \E i \in Inodes : \/ Create(i) \/ MoveIn(i) \/ MoveOut(i) \/ Delete(i)
                       \/ OpenWrite(i) \/ Write(i) \/ CloseWrite(i)
  \/ MoveDir
  \/ DeleteDir

-----------------------------------------------------------------------------
(* The program. *)

\* watch_file(): inotify_add_watch() gives an inode already watched the
\* descriptor it has, and may fail for want of a file or of room.
watch_file ==
  \/ /\ AtPath = {}
     /\ file_wd' = NoWd
     /\ UNCHANGED kernelVars
  \/ \E i \in AtPath :
       /\ wdOf[i] # NoWd
       /\ file_wd' = wdOf[i]
       /\ UNCHANGED kernelVars
  \/ \E i \in AtPath :
       /\ wdOf[i] = NoWd
       /\ file_wd' = nextWd
       /\ wdOf' = [wdOf EXCEPT ![i] = nextWd]
       /\ nextWd' = nextWd + 1
       /\ UNCHANGED <<queue, lost>>
  \/ \E i \in AtPath :
       /\ wdOf[i] = NoWd
       /\ file_wd' = NoWd
       /\ lost' = TRUE
       /\ UNCHANGED <<wdOf, nextWd, queue>>

\* Mutant: old_line is not cleared.
StopWatchingKeepsLine ==
  /\ wdOf' = [i \in Inodes |-> IF wdOf[i] = file_wd THEN NoWd ELSE wdOf[i]]
  /\ file_wd' = NoWd
  /\ UNCHANGED <<nextWd, queue, lost, old_line>>

\* inotify_rm_watch(), file_wd = -1, old_line[0] = '\0'.
StopWatching ==
  /\ wdOf' = [i \in Inodes |-> IF wdOf[i] = file_wd THEN NoWd ELSE wdOf[i]]
  /\ file_wd' = NoWd
  /\ old_line' = NoLine
  /\ UNCHANGED <<nextWd, queue, lost>>

\* Before the loop: watch, and read the file only if the watch was granted.
InitialWatch ==
  /\ pc = "start"
  /\ watch_file
  /\ pc' = IF file_wd' = NoWd THEN "loop" ELSE "fopen"
  /\ UNCHANGED <<fsVars, buf, old_line, fp>>

\* Mutant: read() is asked for more than sizeof(buf).
ReadEventsPast ==
  /\ pc = "loop"
  /\ buf = <<>>
  /\ queue # <<>>
  /\ buf' = queue
  /\ queue' = <<>>
  /\ UNCHANGED <<fsVars, wdOf, nextWd, lost, pc, file_wd, old_line, fp>>

\* read(): blocks until there is an event.
ReadEvents ==
  /\ pc = "loop"
  /\ buf = <<>>
  /\ queue # <<>>
  /\ LET n == IF Len(queue) < BufEvents THEN Len(queue) ELSE BufEvents
     IN  /\ buf' = SubSeq(queue, 1, n)
         /\ queue' = SubSeq(queue, n + 1, Len(queue))
  /\ UNCHANGED <<fsVars, wdOf, nextWd, lost, pc, file_wd, old_line, fp>>

\* One turn of the loop over the events read.
Handling == pc = "loop" /\ buf # <<>>
event == Head(buf)

\* Mutant: the new file is read, and not watched.
HandleAppearUnwatched ==
  /\ Handling /\ event.wd = DirWd /\ event.mask \in AppearMasks
  /\ buf' = Tail(buf)
  /\ pc' = "fopen"
  /\ UNCHANGED <<fsVars, kernelVars, file_wd, old_line, fp>>

\* The name has appeared: watch the file, then read it, watched or not.
HandleAppear ==
  /\ Handling /\ event.wd = DirWd /\ event.mask \in AppearMasks
  /\ watch_file
  /\ buf' = Tail(buf)
  /\ pc' = "fopen"
  /\ UNCHANGED <<fsVars, old_line, fp>>

\* Mutant: read_file() is called for these events too.
HandleVanishReads ==
  /\ Handling /\ event.wd = DirWd /\ event.mask \in VanishMasks
  /\ StopWatching
  /\ buf' = Tail(buf)
  /\ pc' = "fopen"
  /\ UNCHANGED <<fsVars, fp>>

\* The name has gone.
HandleVanish ==
  /\ Handling /\ event.wd = DirWd /\ event.mask \in VanishMasks
  /\ StopWatching
  /\ buf' = Tail(buf)
  /\ UNCHANGED <<fsVars, pc, fp>>

HandleCloseWrite ==
  /\ Handling /\ event.mask = "CLOSE_WRITE" /\ event.wd = file_wd
  /\ buf' = Tail(buf)
  /\ pc' = "fopen"
  /\ UNCHANGED <<fsVars, kernelVars, file_wd, old_line, fp>>

\* The directory has gone: the break leaves the events read with this one.
HandleDirGone ==
  /\ Handling /\ event.mask \in {"DELETE_SELF", "MOVE_SELF"}
  /\ buf' = <<>>
  /\ UNCHANGED <<fsVars, kernelVars, pc, file_wd, old_line, fp>>

\* Mutant: the event pointer is not advanced past an event of no interest.
HandleOtherStays ==
  /\ Handling
  /\ \/ event = Overflow
     \/ event.mask = "CLOSE_WRITE" /\ event.wd # file_wd
  /\ UNCHANGED <<fsVars, kernelVars, programVars>>

\* An overflow, or a write to a file no longer watched under file_wd.
HandleOther ==
  /\ Handling
  /\ \/ event = Overflow
     \/ event.mask = "CLOSE_WRITE" /\ event.wd # file_wd
  /\ buf' = Tail(buf)
  /\ UNCHANGED <<fsVars, kernelVars, pc, file_wd, old_line, fp>>

\* read_file(): fopen(); when it fails, fclose(NULL) ends the program.  It fails
\* for want of a file, or with one there (EACCES, EMFILE).
read_file_fopen ==
  /\ pc = "fopen"
  /\ \/ AtPath = {} /\ pc' = "dead" /\ UNCHANGED <<fp, lost>>
     \/ AtPath # {} /\ pc' = "dead" /\ lost' = TRUE /\ UNCHANGED fp
     \/ \E i \in AtPath : fp' = i /\ pc' = "fgets" /\ UNCHANGED lost
  /\ UNCHANGED <<fsVars, wdOf, nextWd, queue, buf, file_wd, old_line>>

\* fgets() and fclose(): a line that differs is copied; no line, or a read that
\* fails, clears.
read_file_fgets ==
  /\ pc = "fgets"
  /\ \/ old_line' = content[fp] /\ UNCHANGED lost
     \/ old_line' = NoLine /\ lost' = TRUE
  /\ fp' = NoFile
  /\ pc' = "loop"
  /\ UNCHANGED <<fsVars, wdOf, nextWd, queue, buf, file_wd>>

Program ==
  \/ InitialWatch \/ ReadEvents
  \/ HandleAppear \/ HandleVanish \/ HandleCloseWrite \/ HandleDirGone
  \/ HandleOther
  \/ read_file_fopen \/ read_file_fgets

-----------------------------------------------------------------------------
\* main() after the directory watch: the watched file is there or not, and
\* other files may be about to be renamed to it.
Init ==
  /\ \/ place = [i \in Inodes |-> "new"]
     \/ \E f \in Inodes : place = [i \in Inodes |-> IF i = f THEN "path" ELSE "new"]
  /\ content \in [Inodes -> Content]
  /\ writing = [i \in Inodes |-> FALSE]
  /\ dir = "here"
  /\ ops = 0
  /\ wdOf = [i \in Inodes |-> NoWd]
  /\ nextWd = DirWd + 1
  /\ queue = <<>>
  /\ lost = FALSE
  /\ pc = "start"
  /\ buf = <<>>
  /\ file_wd = NoWd
  /\ old_line = NoLine
  /\ fp = NoFile

Next == Environment \/ Program

Spec == Init /\ [][Next]_vars

\* The kernel runs the program; nothing obliges the other processes to act.
FairSpec == Spec /\ WF_vars(Program)

-----------------------------------------------------------------------------
(* Properties. *)

Pending == {buf[k] : k \in 1..Len(buf)} \cup {queue[k] : k \in 1..Len(queue)}

\* The program has handled every event and waits in read().
Settled == pc = "loop" /\ Pending = {}

\* The kernel dropped nothing and refused nothing, and the directory is where
\* it was.
Undisturbed == ~lost /\ dir = "here"

\* Every variable has its type, and the events read are no more than the buffer
\* holds (read() at 135).
TypeOK ==
  /\ place \in [Inodes -> {"new", "path", "away", "gone"}]
  /\ content \in [Inodes -> Content]
  /\ writing \in [Inodes -> BOOLEAN]
  /\ dir \in {"here", "moved", "deleted"}
  /\ ops \in 0..MaxOps
  /\ wdOf \in [Inodes -> Nat \cup {NoWd}]
  /\ nextWd \in Nat
  /\ queue \in Seq(Event)
  /\ lost \in BOOLEAN
  /\ pc \in {"start", "loop", "fopen", "fgets", "dead"}
  /\ buf \in Seq(Event) /\ Len(buf) <= BufEvents
  /\ file_wd \in Nat \cup {NoWd}
  /\ old_line \in Content
  /\ fp \in Inodes \cup {NoFile}

\* Once every event has been handled, old_line is the first line of the file
\* now under the watched name, however creations, renames, deletions and
\* writes were interleaved with the handling (main() 134-197); only a write
\* that is still in progress may be missing.
SettledShowsFile ==
  Settled /\ Undisturbed =>
    IF AtPath = {} THEN old_line = NoLine
    ELSE \A i \in AtPath : writing[i] \/ old_line = content[i]

\* Once every event has been handled, file_wd is the watch of the file now
\* under the name, not of an earlier one, so that the next write is heard of.
SettledWatchesFile ==
  Settled /\ Undisturbed =>
    IF AtPath = {} THEN file_wd = NoWd
    ELSE \A i \in AtPath : file_wd # NoWd /\ file_wd = wdOf[i]

\* The fclose(NULL) after a failed fopen() (read_file() 46-66) is reached for want
\* of the file only by a program that is behind: the event that says the name
\* has gone is still unhandled.  The open of a file that is there may be refused
\* at any time.
DiesOnlyBehind ==
  pc = "dead" /\ Undisturbed =>
    \E e \in Pending : e.wd = DirWd /\ e.mask \in VanishMasks

\* When the other processes stop, the program handles every event and then
\* shows the file (a write never closed apart), unless it died, the kernel
\* dropped or refused something, or the directory went.
CatchesUp ==
  <>[](\/ ~Undisturbed
       \/ pc = "dead"
       \/ Settled /\ \A i \in AtPath : writing[i] \/ old_line = content[i])
=============================================================================
