---------------------------- MODULE LookupProofs ----------------------------
(***************************************************************************)
(* Proofs about Lookup, for paths of any length, any directories and any   *)
(* number of names: what execvpe() runs, what find_path() resolves to and  *)
(* what which prints are the ones the path's order asks for.               *)
(*                                                                         *)
(* Each search is a loop, and what it says at its end follows from what it *)
(* has passed by: the invariant says of each entry before the one at hand  *)
(* that the search had no reason to stop there.                            *)
(***************************************************************************)
EXTENDS Lookup, TLAPS

-----------------------------------------------------------------------------
(* execvpe() and find_path(). *)

\* p is at an entry only of a name that is searched for, and at the colon that
\* ends it only if the entry was too long and is not the last.
AtEntry ==
  /\ name # "plain" => p = 0
  /\ p = 0 => ~got_eacces
  /\ colon => p > 0 /\ p < Len(path) /\ path[p] = Long

IsDenied(d) == Execve(d) = [did |-> "fails", why |-> "EACCES"]

\* No entry before p that fits holds a file that would have ended the search,
\* and got_eacces says whether one was denied.
ExecPassed ==
  (search = "execvpe" /\ outcome = Undecided) =>
    /\ \A j \in 1..(p - 1) : path[j] # Long => ~Decides(Place(j))
    /\ NoneTooLong => (got_eacces <=> \E j \in 1..(p - 1) : IsDenied(Place(j)))

\* There is no file in any entry before p.
StatPassed ==
  (search = "find_path" /\ outcome = Undecided /\ NoneTooLong) =>
    \A j \in 1..(p - 1) : ~There(Place(j))

SearchInv ==
  /\ TypeOK /\ AtEntry /\ ExecPassed /\ StatPassed
  /\ RunsFirst /\ ResolvesFirst /\ LongCostsNothing

-----------------------------------------------------------------------------
(* which. *)

\* What a set of pairs puts out for argument k, and what is to be put out.
Out(pairs, k) == {d \in Places : <<k, d>> \in pairs}
Answer(k) ==
  CASE slash[k] -> {d \in {Cwd} : found[k][d]}
    [] ~slash[k] /\ allmatches -> {W!Place(j) : j \in W!Matches(k)}
    [] ~slash[k] /\ ~allmatches ->
         IF W!Matches(k) = {} THEN {} ELSE {W!Place(W!Min(W!Matches(k)))}

\* The matches of the argument at hand that have been passed by.
SoFar == {j \in W!Matches(n) : j < i}

\* Nothing is done before there is a path, which asks for a name, and no
\* argument is at hand after the last.
WhichAt ==
  /\ dirs = <<>> => n = 1 /\ i = 1 /\ rval = 0 /\ notfound = 0 /\ printed = {}
  /\ dirs # <<>> => W!argc > 0
  /\ n = W!argc + 1 => i = 1 /\ rval = 0
  /\ \A j \in 1..(i - 1) : dirs[j] # Long

\* The arguments before n have had their answer and those behind it none; the
\* search of n has put out the matches it has passed, with -a, and otherwise
\* has passed none.
WhichOut ==
  /\ \A k \in 1..(n - 1) : Out(printed, k) = Answer(k)
  /\ \A k \in (n + 1)..W!argc : Out(printed, k) = {}
  /\ n <= W!argc =>
       /\ Out(printed, n) = {W!Place(j) : j \in SoFar}
       /\ ~allmatches => SoFar = {}
       /\ slash[n] => i = 1
       /\ rval = IF SoFar = {} THEN 0 ELSE 1

\* notfound is 0 if every argument so far was found and is their number if none
\* was.  With -a a search that a too long entry ends is not held to it.
WhichCount ==
  /\ notfound <= n - 1
  /\ (W!Fits \/ ~allmatches) =>
       /\ notfound = 0 <=> \A k \in 1..(n - 1) : Out(printed, k) # {}
       /\ notfound = n - 1 <=> \A k \in 1..(n - 1) : Out(printed, k) = {}

\* The exit status, once there is one.
WhichExit ==
  W!Searched =>
    /\ n = W!argc + 1
    /\ status = IF notfound = 0 THEN 0 ELSE IF notfound = W!argc THEN 2 ELSE 1

WhichInv == W!TypeOK /\ WhichAt /\ WhichOut /\ WhichCount /\ WhichExit

IInv == SearchInv /\ WhichInv

-----------------------------------------------------------------------------
(* Lemmas about the operators. *)

\* The least member of a set of numbers is its Min.
LEMMA MinIs ==
  ASSUME NEW S \in SUBSET Nat, NEW m \in S, \A y \in S : m <= y
  PROVE  Min(S) = m
<1> DEFINE Least(x) == x \in S /\ \A y \in S : x <= y
<1>1. Min(S) = CHOOSE x : Least(x)
  BY DEF Min
<1>2. Least(m)
  OBVIOUS
<1> HIDE DEF Least
<1>3. Least(Min(S))
  BY <1>1, <1>2, Zenon
<1>4. Min(S) \in Nat /\ m \in Nat
  BY <1>3, Zenon DEF Least
<1>5. m <= Min(S) /\ Min(S) <= m
  BY <1>2, <1>3, Zenon DEF Least
<1> QED
  BY <1>4, <1>5

\* What execve gives: a search that goes on after it has had one of the errors
\* of the switch.
LEMMA ExecveFacts ==
  ASSUME TypeOK, NEW d \in Places
  PROVE  /\ Execve(d) \in Running \cup Failing
         /\ ~Decides(d) => /\ Execve(d) = [did |-> "fails", why |-> Execve(d).why]
                           /\ Execve(d).why \in {"EACCES", "ENOENT", "ENOTDIR"}
                           /\ IsDenied(d) <=> Execve(d).why = "EACCES"
<1>1. file[d] \in Kinds /\ bshell \in Errors \cup {"runs"}
  BY DEF TypeOK
<1>2. CASE file[d] = "program"
  <2>1. Execve(d) = [did |-> "runs", where |-> d]
    BY <1>2 DEF Execve
  <2> QED
    BY <2>1 DEF Decides, Running
<1>3. CASE file[d] = "script" /\ bshell = "runs"
  <2>1. Execve(d) = [did |-> "shell", where |-> d]
    BY <1>3 DEF Execve, maybe_script_execute
  <2> QED
    BY <2>1 DEF Decides, Running
<1>4. ASSUME NEW e \in Errors, Execve(d) = [did |-> "fails", why |-> e]
      PROVE  /\ Execve(d) \in Failing
             /\ ~Decides(d) => /\ Execve(d) = [did |-> "fails", why |-> Execve(d).why]
                               /\ Execve(d).why \in {"EACCES", "ENOENT", "ENOTDIR"}
                               /\ IsDenied(d) <=> Execve(d).why = "EACCES"
  <2>1. Execve(d).why = e /\ Execve(d).did = "fails"
    BY <1>4
  <2>2. Execve(d) \in Failing
    BY <1>4 DEF Failing
  <2>3. IsDenied(d) <=> e = "EACCES"
    <3>1. IsDenied(d) => e = "EACCES"
      BY <2>1 DEF IsDenied
    <3> QED
      BY <1>4, <3>1 DEF IsDenied
  <2> QED
    BY <1>4, <2>1, <2>2, <2>3 DEF Decides
<1>5. CASE file[d] = "script" /\ bshell # "runs"
  <2>1. Execve(d) = [did |-> "fails", why |-> bshell] /\ bshell \in Errors
    BY <1>1, <1>5 DEF Execve, maybe_script_execute
  <2> QED
    BY <1>4, <2>1
<1>6. CASE file[d] \notin {"program", "script"}
  <2>1. \E e \in Errors : Execve(d) = [did |-> "fails", why |-> e]
    <3>1. CASE file[d] \in {"denied", "closed"}
      BY <3>1 DEF Execve, Errors
    <3>2. CASE file[d] = "busy"
      BY <3>2 DEF Execve, Errors
    <3>3. CASE file[d] = "near"
      BY <3>3 DEF Execve, Errors
    <3>4. CASE file[d] = "notdir"
      BY <3>4 DEF Execve, Errors
    <3>5. CASE file[d] = "absent"
      BY <3>5 DEF Execve, Errors
    <3> QED
      BY <1>1, <1>6, <3>1, <3>2, <3>3, <3>4, <3>5 DEF Kinds
  <2> QED
    BY <1>4, <2>1
<1> QED
  BY <1>1, <1>2, <1>3, <1>5, <1>6

\* Where the loop looks: at the entry itself, or at the current directory after
\* one that is too long.
LEMMA HereFacts ==
  ASSUME TypeOK, AtEntry, p > 0, ~TooLong
  PROVE  /\ p \in 1..Len(path) /\ Here \in Places
         /\ path[p] # Long => Here = Place(p)
         /\ path[p] = Long => colon /\ Here = Cwd
         /\ Here \in {path[p], Cwd}
<1>1. p \in 1..Len(path) /\ path[p] \in Entries
  BY DEF TypeOK
<1>2. colon => path[p] = Long
  BY DEF AtEntry
<1> QED
  BY <1>1, <1>2 DEF Here, TooLong, Place, Places, Entries

\* Undecided is not one of the ways a search ends.
LEMMA Ends_Undecided == \A o \in Running \cup Failing : o # Undecided
BY DEF Running, Failing, Undecided

-----------------------------------------------------------------------------
(* The steps of execvpe() and find_path(). *)

\* What all the steps leave alone.
Call == <<search, name, path, file, bshell>>

\* A call is at its beginning: nothing has been passed by.
LEMMA InitSearch == Init => SearchInv
<1> SUFFICES ASSUME Init PROVE SearchInv
  OBVIOUS
<1>1. path \in Seq(Entries) /\ path # <<>>
  <2>1. PICK k \in 1..MaxPath : path \in [1..k -> Entries]
    BY DEF Init
  <2>2. k \in Nat /\ k > 0
    BY PathAssumption
  <2> QED
    BY <2>1, <2>2
<1>2. TypeOK
  <2>0. bshell \in Errors \cup {"runs"} /\ errno \in Errors \cup {"before"}
    BY DEF Init, Errors
  <2>1. p \in 0..Len(path)
    BY <1>1 DEF Init
  <2>2. colon \in BOOLEAN /\ got_eacces \in BOOLEAN
    BY DEF Init
  <2> QED
    BY <1>1, <2>0, <2>1, <2>2 DEF Init, TypeOK
<1>3. AtEntry /\ ExecPassed /\ StatPassed
  BY DEF Init, AtEntry, ExecPassed, StatPassed
<1>4. RunsFirst /\ ResolvesFirst /\ LongCostsNothing
  BY DEF Init, RunsFirst, ResolvesFirst, LongCostsNothing, Searched
<1> QED
  BY <1>2, <1>3, <1>4 DEF SearchInv

\* A call that ends before the search has nothing to answer for; one that
\* begins it is at the first entry.
LEMMA BeginSearch == ASSUME SearchInv, BeginExecvpe \/ BeginFindPath PROVE SearchInv'
<1> USE DEF SearchInv
<1>1. UNCHANGED <<Call, colon, got_eacces, errno>> /\ p = 0 /\ outcome = Undecided
  BY DEF BeginExecvpe, BeginFindPath, Call
<1>2. Cwd \in Places
  BY DEF Places
<1>3. \/ p' = p /\ name # "plain" /\ outcome' \in Running \cup Failing
      \/ p' = 1 /\ name = "plain" /\ outcome' = outcome
  <2>1. name \in Names
    BY DEF TypeOK
  <2>2. Execve(Cwd) \in Running \cup Failing
    BY <1>2, ExecveFacts
  <2>3. [did |-> "resolves", where |-> Cwd] \in Running
    BY <1>2 DEF Running
  <2>4. /\ [did |-> "fails", why |-> "ENOENT"] \in Failing
        /\ [did |-> "fails", why |-> "ENAMETOOLONG"] \in Failing
    BY DEF Failing, Errors
  <2> QED
    BY <2>1, <2>2, <2>3, <2>4 DEF BeginExecvpe, BeginFindPath, Ends, Fails, Names
<1>4. Len(path) > 0
  BY DEF TypeOK
<1>5. TypeOK'
  BY <1>1, <1>3, <1>4 DEF TypeOK, Call
<1>6. AtEntry'
  BY <1>1, <1>3 DEF AtEntry, Call
<1>7. ~Searched'
  BY <1>1, <1>3 DEF Searched, Call
<1>8. RunsFirst' /\ ResolvesFirst' /\ LongCostsNothing'
  BY <1>7 DEF RunsFirst, ResolvesFirst, LongCostsNothing
<1>9. outcome' = Undecided => p' = 1
  BY <1>1, <1>3, Ends_Undecided
<1>10. ~got_eacces'
  BY <1>1 DEF AtEntry
<1>11. ExecPassed' /\ StatPassed'
  BY <1>9, <1>10 DEF ExecPassed, StatPassed
<1> QED
  BY <1>5, <1>6, <1>8, <1>11

\* What the properties are stated with does not change during a call.
LEMMA SameCall ==
  ASSUME UNCHANGED Call
  PROVE  /\ UNCHANGED <<NoneTooLong, Decisive, Denied>>
         /\ \A j : Place(j)' = Place(j)
         /\ \A d : Execve(d)' = Execve(d) /\ (Decides(d)' <=> Decides(d)) /\ (There(d)' <=> There(d))
         /\ \A d : IsDenied(d)' <=> IsDenied(d)
<1>1. \A j : Place(j)' = Place(j)
  BY DEF Call, Place
<1>2. \A d : Execve(d)' = Execve(d)
  BY DEF Call, Execve, maybe_script_execute
<1>3. \A d : (Decides(d)' <=> Decides(d)) /\ (IsDenied(d)' <=> IsDenied(d))
  BY <1>2 DEF Decides, IsDenied
<1>4. \A d : There(d)' <=> There(d)
  BY DEF Call, There
<1>5. UNCHANGED <<NoneTooLong, Decisive, Denied>>
  BY <1>1, <1>2, <1>3 DEF Call, NoneTooLong, Decisive, Denied
<1> QED
  BY <1>1, <1>2, <1>3, <1>4, <1>5

\* A search that has passed an entry and goes on with the next.
LEMMA AdvanceSearch ==
  ASSUME SearchInv, UNCHANGED Call, p > 0, ~TooLong, ~Last, outcome = Undecided, Advance,
         outcome' = outcome, got_eacces' \in BOOLEAN,
         errno' \in Errors \cup {"before"},
         search = "execvpe" =>
           /\ path[p] # Long => ~Decides(Place(p))
           /\ got_eacces' <=> got_eacces \/ IsDenied(Here),
         search = "find_path" /\ path[p] # Long => ~There(Place(p))
  PROVE  SearchInv'
<1> USE DEF SearchInv
<1>1. p \in 1..Len(path) /\ p < Len(path) /\ (path[p] # Long => Here = Place(p))
  BY HereFacts DEF Last, TypeOK
<1>2. p' = p + 1 /\ colon' = FALSE
  BY DEF Advance
<1>3. p' \in 0..Len(path) /\ 1..(p' - 1) = 1..(p - 1) \cup {p}
  BY <1>1, <1>2
<1>4. TypeOK'
  BY <1>2, <1>3 DEF TypeOK, Call
<1>5. AtEntry'
  BY <1>1, <1>2 DEF AtEntry, Call
<1>6. ~Searched'
  BY DEF Searched
<1>7. RunsFirst' /\ ResolvesFirst' /\ LongCostsNothing'
  BY <1>6 DEF RunsFirst, ResolvesFirst, LongCostsNothing
<1>8. ExecPassed'
  <2> SUFFICES ASSUME search = "execvpe"
               PROVE  /\ \A j \in 1..(p' - 1) :
                           path[j] # Long => ~Decides(Place(j))
                      /\ NoneTooLong =>
                           (got_eacces' <=> \E j \in 1..(p' - 1) : IsDenied(Place(j)))
    BY SameCall DEF ExecPassed, Call
  <2>1. \A j \in 1..(p' - 1) :
          path[j] # Long => ~Decides(Place(j))
    BY <1>3 DEF ExecPassed
  <2>2. ASSUME NoneTooLong
        PROVE  got_eacces' <=> \E j \in 1..(p' - 1) : IsDenied(Place(j))
    <3>1. path[p] # Long
      BY <1>1, <2>2 DEF NoneTooLong
    <3>2. got_eacces <=> \E j \in 1..(p - 1) : IsDenied(Place(j))
      BY <2>2 DEF ExecPassed
    <3> QED
      BY <1>1, <1>3, <3>1, <3>2
  <2> QED
    BY <2>1, <2>2
<1>9. StatPassed'
  <2> SUFFICES ASSUME search = "find_path", NoneTooLong
               PROVE  \A j \in 1..(p' - 1) : ~There(Place(j))
    BY SameCall DEF StatPassed, Call
  <2>1. path[p] # Long
    BY <1>1 DEF NoneTooLong
  <2> QED
    BY <1>3, <2>1 DEF StatPassed
<1> QED
  BY <1>4, <1>5, <1>7, <1>8, <1>9

\* A search that ends: what remains to be shown is what it says.
LEMMA EndSearch ==
  ASSUME SearchInv, UNCHANGED Call, UNCHANGED <<p, colon>>, p > 0,
         outcome' \in Running \cup Failing, got_eacces' \in BOOLEAN,
         errno' \in Errors \cup {"before"},
         RunsFirst', ResolvesFirst', LongCostsNothing'
  PROVE  SearchInv'
<1>1. TypeOK' /\ AtEntry'
  BY DEF SearchInv, TypeOK, AtEntry, Call
<1>2. ExecPassed' /\ StatPassed'
  BY Ends_Undecided DEF ExecPassed, StatPassed
<1> QED
  BY <1>1, <1>2 DEF SearchInv

\* What a search reports when the path ends.
LEMMA GivesUpTyped ==
  ASSUME NEW denied, NEW err \in Errors \cup {"before"},
         GivesUp(denied, err)
  PROVE  outcome' \in Failing
BY DEF GivesUp, Fails, Ends, Failing, Errors

\* A too long entry: there is no file in it to be run.
LEMMA PassOverSearch == ASSUME SearchInv, PassOver PROVE SearchInv'
<1> USE DEF SearchInv
<1>1. /\ UNCHANGED Call /\ UNCHANGED <<p, got_eacces, errno>>
      /\ outcome = Undecided /\ p > 0 /\ path[p] = Long /\ p \in 1..Len(path)
  BY DEF PassOver, Call, TooLong, TypeOK
<1>2. /\ ~NoneTooLong' /\ \A j : Place(j)' = Place(j)
      /\ \A d : (Decides(d)' <=> Decides(d)) /\ (IsDenied(d)' <=> IsDenied(d))
  BY <1>1, SameCall DEF NoneTooLong
<1>3. CASE Last
  <2>1. GivesUp(got_eacces, errno) /\ colon' = colon
    BY <1>3 DEF PassOver
  <2>2. outcome' \in Failing
    BY <2>1, GivesUpTyped DEF TypeOK
  <2>3. RunsFirst' /\ ResolvesFirst'
    BY <1>2 DEF RunsFirst, ResolvesFirst
  <2>4. LongCostsNothing'
    <3> SUFFICES ASSUME search = "execvpe", NEW k \in 1..Len(path), path[k] # Long,
                        Decides(Place(k))
                 PROVE  FALSE
      BY <1>1, <1>2 DEF LongCostsNothing, Call
    <3>1. k \in 1..(p - 1)
      BY <1>1, <1>3 DEF Last, TypeOK
    <3> QED
      BY <1>1, <3>1 DEF ExecPassed
  <2> QED
    BY <1>1, <2>1, <2>2, <2>3, <2>4, EndSearch DEF TypeOK
<1>4. CASE ~Last
  <2>1. colon' = TRUE /\ outcome' = outcome
    BY <1>4 DEF PassOver
  <2>2. p < Len(path)
    BY <1>1, <1>4 DEF Last, TypeOK
  <2>3. TypeOK' /\ AtEntry'
    BY <1>1, <2>1, <2>2 DEF TypeOK, AtEntry, Call
  <2>4. ~Searched'
    BY <1>1, <2>1 DEF Searched
  <2>5. RunsFirst' /\ ResolvesFirst' /\ LongCostsNothing'
    BY <2>4 DEF RunsFirst, ResolvesFirst, LongCostsNothing
  <2>6. ExecPassed'
    BY <1>1, <1>2 DEF ExecPassed, Call
  <2>7. StatPassed'
    BY <1>2 DEF StatPassed
  <2> QED
    BY <2>3, <2>5, <2>6, <2>7
<1> QED
  BY <1>3, <1>4

\* Where execvpe() stops is the first entry of the path at which it would.
LEMMA FirstDecisive ==
  ASSUME SearchInv, Looking("execvpe"), ~TooLong, NoneTooLong,
         Decides(Here)
  PROVE  Decisive # {} /\ Place(Min(Decisive)) = Here
<1>1. p \in 1..Len(path) /\ Here = Place(p)
  BY HereFacts DEF SearchInv, Looking, NoneTooLong
<1>2. p \in Decisive /\ Decisive \in SUBSET Nat
  BY <1>1 DEF Decisive
<1>3. \A j \in Decisive : p <= j
  <2> SUFFICES ASSUME NEW j \in 1..Len(path), j < p PROVE j \notin Decisive
    BY <1>1 DEF Decisive, SearchInv, TypeOK
  <2>1. j \in 1..(p - 1) /\ path[j] # Long
    BY <1>1 DEF NoneTooLong
  <2> QED
    BY <2>1 DEF SearchInv, ExecPassed, Looking, Decisive
<1>4. Min(Decisive) = p
  BY <1>2, <1>3, MinIs
<1> QED
  BY <1>1, <1>2, <1>4

\* An entry with an answer is not before p.
LEMMA NotBefore ==
  ASSUME SearchInv, Looking("execvpe"), NEW k \in 1..Len(path), path[k] # Long,
         Decides(Place(k))
  PROVE  p <= k /\ p \in 1..k
<1>1. p \in Nat /\ p > 0
  BY DEF SearchInv, TypeOK, Looking
<1>2. k \notin 1..(p - 1)
  BY DEF SearchInv, ExecPassed, Looking
<1> QED
  BY <1>1, <1>2

\* execvpe() at one entry.
LEMMA TryExecveSearch == ASSUME SearchInv, TryExecve PROVE SearchInv'
<1> DEFINE e == Execve(Here)
<1>1. /\ UNCHANGED Call /\ Looking("execvpe") /\ ~TooLong
      /\ search = "execvpe" /\ p > 0 /\ outcome = Undecided
  BY DEF TryExecve, Call, Looking
<1>2. TypeOK /\ AtEntry
  BY DEF SearchInv
<1>3. /\ p \in 1..Len(path) /\ Here \in Places /\ (path[p] # Long => Here = Place(p))
      /\ (path[p] = Long => Here = Cwd)
  BY <1>1, <1>2, HereFacts
<1>4. /\ e \in Running \cup Failing
      /\ ~Decides(Here) => /\ e = [did |-> "fails", why |-> e.why]
                           /\ e.why \in {"EACCES", "ENOENT", "ENOTDIR"}
                           /\ IsDenied(Here) <=> e.why = "EACCES"
  BY <1>2, <1>3, ExecveFacts
<1>5. e = Execve(Here)
  OBVIOUS
<1> HIDE DEF e
<1>6. /\ UNCHANGED <<NoneTooLong, Decisive, Denied>>
      /\ \A j : Place(j)' = Place(j)
      /\ \A d : Execve(d)' = Execve(d) /\ (Decides(d)' <=> Decides(d))
  BY <1>1, SameCall
<1>7. ResolvesFirst'
  BY <1>1 DEF ResolvesFirst, Call
<1>8. CASE Decides(Here)
  <2>1. outcome' = e /\ UNCHANGED <<p, colon, got_eacces, errno>>
    BY <1>5, <1>8 DEF TryExecve, Ends
  <2>2. RunsFirst'
    <3>1. NoneTooLong => Decisive # {} /\ Place(Min(Decisive)) = Here
      BY <1>1, <1>8, FirstDecisive
    <3> QED
      BY <1>5, <1>6, <2>1, <3>1 DEF RunsFirst
  <2>3. LongCostsNothing'
    <3> SUFFICES ASSUME NEW k \in 1..Len(path), path[k] # Long, Decides(Place(k))
                 PROVE  \E d \in {Cwd} \cup {Place(j) : j \in {m \in 1..k : path[m] # Long}} :
                          Decides(d) /\ outcome' = Execve(d)
      BY <1>1, <1>6 DEF LongCostsNothing, Call
    <3>1. p \in 1..k
      BY <1>1, NotBefore
    <3>2. Here \in {Cwd} \cup {Place(j) : j \in {m \in 1..k : path[m] # Long}}
      BY <1>3, <3>1
    <3> QED
      BY <1>5, <1>8, <2>1, <3>2
  <2>4. got_eacces' \in BOOLEAN /\ errno' \in Errors \cup {"before"}
    BY <1>2, <2>1 DEF TypeOK
  <2> QED
    BY <1>1, <1>4, <1>7, <2>1, <2>2, <2>3, <2>4, EndSearch
<1>9. CASE ~Decides(Here)
  <2> DEFINE denied == got_eacces \/ e.why = "EACCES"
  <2>1. TryNext(denied, e.why)
    BY <1>5, <1>9 DEF TryExecve
  <2>2. /\ e = [did |-> "fails", why |-> e.why] /\ e.why \in {"EACCES", "ENOENT", "ENOTDIR"}
        /\ IsDenied(Here) <=> e.why = "EACCES"
    BY <1>4, <1>9
  <2>3. e.why \in Errors \cup {"before"}
    BY <2>2 DEF Errors
  <2>4. got_eacces' = denied /\ errno' = e.why /\ denied \in BOOLEAN
    BY <1>2, <2>1 DEF TryNext, TypeOK
  <2>5. denied <=> got_eacces \/ IsDenied(Here)
    BY <2>2
  <2> HIDE DEF denied
  <2>6. CASE ~Last
    <3>1. Advance /\ outcome' = outcome
      BY <2>1, <2>6 DEF TryNext
    <3>2. path[p] # Long => ~Decides(Place(p))
      BY <1>3, <1>9
    <3> QED
      BY <1>1, <2>3, <2>4, <2>5, <2>6, <3>1, <3>2, AdvanceSearch
  <2>7. CASE Last
    <3>1. GivesUp(denied, e.why) /\ UNCHANGED <<p, colon>>
      BY <2>1, <2>7 DEF TryNext
    <3>2. outcome' \in Failing
      BY <2>3, <3>1, GivesUpTyped
    <3>3. outcome' = IF denied THEN [did |-> "fails", why |-> "EACCES"] ELSE e
      BY <1>1, <2>2, <3>1 DEF GivesUp, Fails, Ends
    <3>4. \A k \in 1..Len(path) : k \in 1..(p - 1) \/ k = p
      BY <1>3, <2>7 DEF Last
    <3>5. \A k \in 1..Len(path) : path[k] # Long => ~Decides(Place(k))
      BY <1>1, <1>3, <1>9, <3>4 DEF SearchInv, ExecPassed
    <3>6. RunsFirst'
      <4> SUFFICES ASSUME NoneTooLong
                   PROVE  outcome' = IF Decisive # {} THEN Execve(Place(Min(Decisive)))
                                     ELSE IF Denied # {} THEN [did |-> "fails", why |-> "EACCES"]
                                     ELSE Execve(Place(Len(path)))
        BY <1>1, <1>6 DEF RunsFirst, Call
      <4>1. Decisive = {}
        BY <3>5 DEF Decisive, NoneTooLong
      <4>2. got_eacces <=> \E j \in 1..(p - 1) : IsDenied(Place(j))
        BY <1>1 DEF SearchInv, ExecPassed
      <4>3. Here = Place(p)
        BY <1>3 DEF NoneTooLong
      <4>4. \A j \in 1..(p - 1) : j \in 1..Len(path)
        BY <1>3
      <4>5. denied <=> Denied # {}
        BY <1>3, <2>5, <3>4, <4>2, <4>3, <4>4 DEF Denied, IsDenied
      <4>6. e = Execve(Place(Len(path)))
        BY <1>5, <2>7, <4>3 DEF Last
      <4> QED
        BY <3>3, <4>1, <4>5, <4>6
    <3>7. LongCostsNothing'
      BY <1>1, <1>6, <3>5 DEF LongCostsNothing, Call
    <3> QED
      BY <1>1, <1>7, <2>3, <2>4, <3>1, <3>2, <3>6, <3>7, EndSearch
  <2> QED
    BY <2>6, <2>7
<1> QED
  BY <1>8, <1>9

\* find_path() at one entry.
LEMMA TryStatSearch == ASSUME SearchInv, TryStat PROVE SearchInv'
<1>1. /\ UNCHANGED Call /\ Looking("find_path") /\ ~TooLong
      /\ search = "find_path" /\ p > 0 /\ outcome = Undecided
  BY DEF TryStat, Call, Looking
<1>2. TypeOK /\ AtEntry
  BY DEF SearchInv
<1>3. p \in 1..Len(path) /\ Here \in Places /\ (path[p] # Long => Here = Place(p))
  BY <1>1, <1>2, HereFacts
<1>4. RunsFirst' /\ LongCostsNothing'
  BY <1>1 DEF RunsFirst, LongCostsNothing, Call
<1>5. /\ UNCHANGED NoneTooLong /\ \A j : Place(j)' = Place(j)
      /\ \A d : There(d)' <=> There(d)
  BY <1>1, SameCall
<1>6. ASSUME There(Here), outcome' = [did |-> "resolves", where |-> Here],
             UNCHANGED <<p, colon, got_eacces, errno>>
      PROVE  SearchInv'
  <2>1. ResolvesFirst'
    <3> SUFFICES ASSUME NoneTooLong
                 PROVE  /\ There(Here)
                        /\ \E k \in 1..Len(path) :
                             Place(k) = Here /\ \A j \in 1..(k - 1) : ~There(Place(j))
      BY <1>1, <1>5, <1>6 DEF ResolvesFirst, Call
    <3>1. Here = Place(p)
      BY <1>3 DEF NoneTooLong
    <3>2. \A j \in 1..(p - 1) : ~There(Place(j))
      BY <1>1 DEF SearchInv, StatPassed
    <3> QED
      BY <1>3, <1>6, <3>1, <3>2
  <2>2. outcome' \in Running
    BY <1>3, <1>6 DEF Running
  <2> QED
    BY <1>1, <1>2, <1>4, <1>6, <2>1, <2>2, EndSearch DEF TypeOK
<1>7. ASSUME outcome' \in Failing, UNCHANGED <<p, colon>>, got_eacces' \in BOOLEAN,
             errno' = errno
      PROVE  SearchInv'
  <2>1. outcome'.did = "fails"
    BY <1>7 DEF Failing
  <2>2. ResolvesFirst'
    BY <2>1 DEF ResolvesFirst
  <2> QED
    BY <1>1, <1>2, <1>4, <1>7, <2>2, EndSearch DEF TypeOK
<1>8. ASSUME ~There(Here), TryNext(TRUE, errno)
      PROVE  SearchInv'
  <2>1. got_eacces' = TRUE /\ errno' = errno
    BY <1>8 DEF TryNext
  <2>2. CASE Last
    <3>1. GivesUp(TRUE, errno) /\ UNCHANGED <<p, colon>>
      BY <1>8, <2>2 DEF TryNext
    <3>2. outcome' \in Failing
      BY <1>2, <3>1, GivesUpTyped DEF TypeOK
    <3> QED
      BY <1>7, <2>1, <3>1, <3>2
  <2>3. CASE ~Last
    <3>1. Advance /\ outcome' = outcome
      BY <1>8, <2>3 DEF TryNext
    <3>2. path[p] # Long => ~There(Place(p))
      BY <1>3, <1>8
    <3>3. errno' \in Errors \cup {"before"}
      BY <1>2, <2>1 DEF TypeOK
    <3> QED
      BY <1>1, <2>1, <2>3, <3>1, <3>2, <3>3, AdvanceSearch
  <2> QED
    BY <2>2, <2>3
<1>9. [did |-> "fails", why |-> "-1"] \in Failing
  BY DEF Failing
<1> QED
  BY <1>2, <1>6, <1>7, <1>8, <1>9 DEF TryStat, Ends, Fails, TypeOK

\* Every step of a search keeps its invariant, whatever else changes.
LEMMA SearchStep == SearchInv /\ [Next]_vars => SearchInv'
<1> SUFFICES ASSUME SearchInv, [Next]_vars PROVE SearchInv'
  OBVIOUS
<1>1. CASE UNCHANGED vars
  <2>1. UNCHANGED Call
    BY <1>1 DEF vars, Call
  <2>2. (TypeOK /\ AtEntry)'
    BY <1>1 DEF vars, SearchInv, TypeOK, AtEntry
  <2>3. (ExecPassed /\ StatPassed)'
    BY <1>1, <2>1, SameCall DEF vars, SearchInv, ExecPassed, StatPassed
  <2>4. (RunsFirst /\ ResolvesFirst /\ LongCostsNothing)'
    <3>0. UNCHANGED <<search, path, outcome>> /\ (Searched' <=> Searched)
      BY <1>1 DEF vars, Searched
    <3>1. RunsFirst'
      <4>1. /\ NoneTooLong' = NoneTooLong /\ Decisive' = Decisive /\ Denied' = Denied
            /\ \A j : Place(j)' = Place(j)
            /\ \A d : Execve(d)' = Execve(d)
        BY <2>1, SameCall
      <4>2. RunsFirst
        BY DEF SearchInv
      <4> QED
        BY <3>0, <4>1, <4>2 DEF RunsFirst
    <3>2. ResolvesFirst'
      BY <1>1, <2>1, SameCall DEF vars, SearchInv, ResolvesFirst, Searched
    <3>3. LongCostsNothing'
      BY <1>1, <2>1, SameCall DEF vars, SearchInv, LongCostsNothing, Searched
    <3> QED
      BY <3>1, <3>2, <3>3
  <2> QED
    BY <2>2, <2>3, <2>4 DEF SearchInv
<1> QED
  BY <1>1, BeginSearch, PassOverSearch, TryExecveSearch, TryStatSearch DEF Next, Done

-----------------------------------------------------------------------------
(* The steps of which. *)

\* What the command was given.
Given == <<allmatches, slash, found, dirs>>

\* What the answers are stated with does not change while it runs.
LEMMA SameGiven ==
  ASSUME UNCHANGED Given
  PROVE  /\ UNCHANGED <<W!argc, W!Fits, W!Reached>>
         /\ \A j : W!Place(j)' = W!Place(j)
         /\ \A k : W!Matches(k)' = W!Matches(k) /\ Answer(k)' = Answer(k)
<1>1. UNCHANGED <<W!argc, W!Fits, W!Reached>> /\ \A j : W!Place(j)' = W!Place(j)
  BY DEF Given, W!argc, W!Fits, W!Reached, W!Place
<1>2. \A k : W!Matches(k)' = W!Matches(k)
  BY <1>1 DEF Given, W!Matches
<1>3. \A k : Answer(k)' = Answer(k)
  BY <1>1, <1>2 DEF Given, Answer
<1> QED
  BY <1>1, <1>2, <1>3

\* The types, by their parts.
LEMMA WhichTypes ==
  ASSUME W!TypeOK
  PROVE  /\ W!argc \in Nat /\ Len(dirs) \in Nat /\ (dirs # <<>> => Len(dirs) > 0)
         /\ \A j \in 1..Len(dirs) : dirs[j] \in Entries
         /\ n \in 1..(W!argc + 1) /\ i \in 1..(Len(dirs) + 1) /\ n \in Nat /\ i \in Nat
         /\ notfound \in Nat
         /\ slash \in [1..W!argc -> BOOLEAN]
         /\ found \in [1..W!argc -> [Places -> BOOLEAN]]
<1>1. slash \in Seq(BOOLEAN)
  BY DEF W!TypeOK
<1>2. W!argc \in Nat /\ slash \in [1..W!argc -> BOOLEAN]
  BY <1>1 DEF W!argc
<1>3. /\ Len(dirs) \in Nat /\ (dirs # <<>> => Len(dirs) > 0)
      /\ \A j \in 1..Len(dirs) : dirs[j] \in Entries
  <2>1. CASE dirs = <<>>
    BY <2>1
  <2>2. CASE dirs \in W!Paths
    <3>1. PICK k \in 1..MaxPath : dirs \in [1..k -> W!Entries]
      BY <2>2 DEF W!Paths
    <3>2. k \in Nat /\ k > 0
      BY PathAssumption
    <3>3. dirs \in Seq(Entries) /\ Len(dirs) = k
      BY <3>1, <3>2 DEF W!Entries, Entries
    <3> QED
      BY <3>2, <3>3
  <2> QED
    BY <2>1, <2>2 DEF W!TypeOK
<1>4. n \in 1..(W!argc + 1) /\ i \in 1..(Len(dirs) + 1) /\ notfound \in 0..W!argc
  BY DEF W!TypeOK
<1>5. n \in Nat /\ i \in Nat /\ notfound \in Nat
  BY <1>2, <1>3, <1>4
<1>6. found \in [1..W!argc -> [Places -> BOOLEAN]]
  BY DEF W!TypeOK, W!Places, Places
<1> QED
  BY <1>2, <1>3, <1>4, <1>5, <1>6

\* The entries that are looked at name directories, and so do the matches.
LEMMA MatchesFacts ==
  ASSUME W!TypeOK, NEW k
  PROVE  /\ W!Matches(k) \subseteq W!Reached /\ W!Reached \subseteq 1..Len(dirs)
         /\ W!Matches(k) \in SUBSET Nat
         /\ \A j \in W!Reached : dirs[j] # Long /\ W!Place(j) \in Places
         /\ \A j \in W!Matches(k) : found[k][W!Place(j)]
<1>1. Len(dirs) \in Nat /\ \A j \in 1..Len(dirs) : dirs[j] \in Entries
  BY WhichTypes
<1>2. W!Matches(k) \subseteq W!Reached /\ W!Reached \subseteq 1..Len(dirs)
  BY DEF W!Matches, W!Reached
<1>3. \A j \in W!Reached : dirs[j] # Long
  BY DEF W!Reached
<1>4. \A j \in W!Reached : W!Place(j) \in Places
  BY <1>1, <1>2, <1>3 DEF W!Place, Places, Entries
<1>5. 1..Len(dirs) \subseteq Nat
  BY <1>1
<1> QED
  BY <1>2, <1>3, <1>4, <1>5 DEF W!Matches

\* Once the path ends, or an entry is too long, every match has been passed.
LEMMA AllPassed ==
  ASSUME WhichInv, i > Len(dirs) \/ (i <= Len(dirs) /\ dirs[i] = Long)
  PROVE  SoFar = W!Matches(n)
<1>1. i \in Nat /\ Len(dirs) \in Nat /\ i > 0
  BY WhichTypes DEF WhichInv
<1>2. \A j \in W!Reached : j < i
  BY <1>1 DEF W!Reached
<1> QED
  BY <1>2, MatchesFacts DEF SoFar, WhichInv

\* Nothing has been passed at the first entry.
LEMMA NonePassed == ASSUME W!TypeOK, i = 1 PROVE SoFar = {}
<1>1. \A j \in W!Matches(n) : j \in Nat /\ j >= 1
  <2>1. W!Matches(n) \subseteq 1..Len(dirs) /\ Len(dirs) \in Nat
    BY MatchesFacts, WhichTypes
  <2> QED
    BY <2>1
<1> QED
  BY <1>1 DEF SoFar

-----------------------------------------------------------------------------
\* Nothing is done yet.
LEMMA InitWhich == W!Init => WhichInv
<1> SUFFICES ASSUME W!Init PROVE WhichInv
  OBVIOUS
<1>1. PICK k \in 0..MaxArgs :
        slash \in [1..k -> BOOLEAN] /\ found \in [1..k -> [W!Places -> BOOLEAN]]
  BY DEF W!Init
<1>2. slash \in Seq(BOOLEAN) /\ W!argc = k /\ k \in Nat
  BY <1>1 DEF W!argc
<1>3. W!TypeOK
  <2>1. n \in 1..(W!argc + 1) /\ i \in 1..(Len(dirs) + 1)
    BY <1>2 DEF W!Init
  <2>2. rval \in 0..1 /\ notfound \in 0..W!argc /\ W!argc <= MaxArgs
    BY <1>1, <1>2 DEF W!Init
  <2>3. printed \subseteq (1..W!argc) \X W!Places /\ status \in {0, 1, 2, W!Running}
    BY DEF W!Init
  <2>4. allmatches \in BOOLEAN /\ dirs \in W!Paths \cup {<<>>}
    BY DEF W!Init
  <2> QED
    BY <1>1, <1>2, <2>1, <2>2, <2>3, <2>4 DEF W!TypeOK
<1>4. \A m : Out(printed, m) = {}
  BY DEF W!Init, Out
<1>5. SoFar = {}
  BY <1>3, NonePassed DEF W!Init
<1>6. WhichAt
  <2>1. W!argc + 1 = 1 => i = 1
    BY DEF W!Init
  <2> QED
    BY <1>2 DEF W!Init, WhichAt
<1>7. WhichOut
  BY <1>4, <1>5 DEF W!Init, WhichOut
<1>8. WhichCount
  BY DEF W!Init, WhichCount
<1>9. WhichExit
  BY DEF W!Init, WhichExit, W!Searched
<1> QED
  BY <1>3, <1>6, <1>7, <1>8, <1>9 DEF WhichInv

\* findprog() returns: the argument at hand has had its answer, and it counts as
\* found if that was not empty.
LEMMA ReturnWhich ==
  ASSUME WhichInv, W!Looking, UNCHANGED <<Given, status>>, NEW r \in {0, 1}, W!Return(r),
         printed' \subseteq (1..W!argc) \X Places,
         \A k \in 1..W!argc : k # n => Out(printed', k) = Out(printed, k),
         Out(printed', n) = Answer(n),
         (W!Fits \/ ~allmatches) => (r = 0 <=> Answer(n) = {})
  PROVE  WhichInv'
<1> USE DEF WhichInv
<1>1. /\ W!argc \in Nat /\ n \in Nat /\ n >= 1 /\ n <= W!argc /\ notfound \in Nat
      /\ notfound <= n - 1 /\ Len(dirs) \in Nat
  BY WhichTypes DEF W!Looking, WhichCount
<1>2. /\ n' = n + 1 /\ i' = 1 /\ rval' = 0
      /\ notfound' = IF r = 0 THEN notfound + 1 ELSE notfound
  BY DEF W!Return
<1>3. /\ UNCHANGED <<W!argc, W!Fits, W!Reached, allmatches, slash, found, dirs, status>>
      /\ \A j : W!Place(j)' = W!Place(j)
      /\ \A k : W!Matches(k)' = W!Matches(k) /\ Answer(k)' = Answer(k)
  BY SameGiven DEF Given
<1>4. W!TypeOK'
  <2>1. n' \in 1..(W!argc + 1) /\ i' \in 1..(Len(dirs) + 1) /\ rval' \in 0..1
    BY <1>1, <1>2
  <2>2. notfound' \in 0..W!argc
    BY <1>1, <1>2
  <2>3. W!Places = Places
    BY DEF W!Places, Places
  <2> QED
    BY <1>3, <2>1, <2>2, <2>3 DEF W!TypeOK
<1>5. WhichAt'
  <2>1. dirs' # <<>> /\ W!argc' > 0
    BY <1>1, <1>3 DEF W!Looking
  <2> QED
    BY <1>2, <2>1 DEF WhichAt
<1>6. \A k \in 1..n : k \in 1..(n - 1) \/ k = n
  BY <1>1
<1>7. \A k \in 1..(n' - 1) : Out(printed', k) = Answer(k)
  <2>1. \A k \in 1..(n - 1) : k \in 1..W!argc /\ k # n
    BY <1>1
  <2>2. \A k \in 1..(n - 1) : Out(printed', k) = Answer(k)
    BY <2>1 DEF WhichOut
  <2>3. n' - 1 = n
    BY <1>1, <1>2
  <2> QED
    BY <1>6, <2>2, <2>3
<1>8. \A k \in n'..W!argc : Out(printed', k) = {}
  <2>1. \A k \in n'..W!argc : k \in (n + 1)..W!argc /\ k \in 1..W!argc /\ k # n
    BY <1>1, <1>2
  <2> QED
    BY <2>1 DEF WhichOut
<1>9. WhichOut'
  <2>1. SoFar' = {}
    <3>1. \A j \in 1..Len(dirs) : ~(j < 1)
      BY <1>1
    <3>2. W!Reached' = W!Reached /\ W!Reached \subseteq 1..Len(dirs)
      BY <1>3 DEF W!Reached
    <3> QED
      BY <1>2, <3>1, <3>2 DEF SoFar, W!Matches
  <2>2. \A k \in (n' + 1)..W!argc : k \in n'..W!argc
    BY <1>1, <1>2
  <2>3. n' <= W!argc => n' \in n'..W!argc
    BY <1>1, <1>2
  <2>4. n' <= W!argc => Out(printed', n') = {}
    BY <1>8, <2>3 DEF Out
  <2>5. \A k \in 1..(n' - 1) : Out(printed', k) = Answer(k)'
    BY <1>3, <1>7
  <2>6. \A k \in (n' + 1)..W!argc' : Out(printed', k) = {}
    BY <1>3, <1>8, <2>2
  <2>7. (n <= W!argc => Out(printed, n) = {W!Place(j) : j \in SoFar})'
    BY <1>3, <2>1, <2>4 DEF Out
  <2> QED
    BY <1>2, <2>1, <2>5, <2>6, <2>7 DEF WhichOut
<1>10. WhichCount'
  <2>1. notfound' <= n' - 1
    BY <1>1, <1>2
  <2>2. ASSUME W!Fits \/ ~allmatches
        PROVE  /\ notfound' = 0 <=> \A k \in 1..(n' - 1) : Out(printed', k) # {}
               /\ notfound' = n' - 1 <=> \A k \in 1..(n' - 1) : Out(printed', k) = {}
    <3>1. n' - 1 = n /\ n \in 1..n /\ \A k \in 1..(n - 1) : k \in 1..n /\ k \in 1..W!argc /\ k # n
      BY <1>1, <1>2
    <3>2. \A k \in 1..(n - 1) : Out(printed', k) = Out(printed, k)
      BY <3>1
    <3>3. /\ notfound = 0 <=> \A k \in 1..(n - 1) : Out(printed, k) # {}
          /\ notfound = n - 1 <=> \A k \in 1..(n - 1) : Out(printed, k) = {}
      BY <2>2 DEF WhichCount
    <3>4. CASE r = 0
      <4>1. Out(printed', n) = {}
        BY <2>2, <3>4
      <4>2. notfound' = notfound + 1 /\ notfound' # 0 /\ (notfound' = n <=> notfound = n - 1)
        BY <1>1, <1>2, <3>4
      <4> QED
        BY <1>6, <3>1, <3>2, <3>3, <4>1, <4>2
    <3>5. CASE r = 1
      <4>1. Out(printed', n) # {}
        BY <2>2, <3>5
      <4>2. notfound' = notfound /\ notfound' # n
        BY <1>1, <1>2, <3>5
      <4> QED
        BY <1>6, <3>1, <3>2, <3>3, <4>1, <4>2
    <3> QED
      BY <3>4, <3>5
  <2> QED
    BY <1>3, <2>1, <2>2 DEF WhichCount
<1>11. WhichExit'
  BY <1>3 DEF WhichExit, W!Searched, W!Looking, W!Running
<1> QED
  BY <1>4, <1>5, <1>9, <1>10, <1>11

\* A name with a slash.
LEMMA NoSearchWhich == ASSUME WhichInv, W!NoSearch PROVE WhichInv'
<1> USE DEF WhichInv
<1>1. W!Looking /\ slash[n] /\ UNCHANGED <<Given, status>>
  BY DEF W!NoSearch, Given
<1>2. n \in 1..W!argc /\ Cwd \in Places /\ printed \subseteq (1..W!argc) \X Places
  <2>1. W!argc \in Nat /\ n \in 1..(W!argc + 1) /\ n <= W!argc
    BY <1>1, WhichTypes DEF W!Looking
  <2>2. Cwd \in Places /\ printed \subseteq (1..W!argc) \X Places
    BY DEF Places, W!TypeOK, W!Places
  <2> QED
    BY <2>1, <2>2
<1>3. Out(printed, n) = {}
  <2>1. i = 1 /\ Out(printed, n) = {W!Place(j) : j \in SoFar}
    BY <1>1 DEF WhichOut, W!Looking
  <2> QED
    BY <2>1, NonePassed
<1>4. Answer(n) = {d \in {Cwd} : found[n][d]}
  BY <1>1 DEF Answer
<1>5. CASE found[n][Cwd]
  <2>1. printed' = printed \cup {<<n, Cwd>>} /\ W!Return(1)
    BY <1>5 DEF W!NoSearch, W!At
  <2>2. printed' \subseteq (1..W!argc) \X Places
    BY <1>2, <2>1
  <2>3. \A k \in 1..W!argc : k # n => Out(printed', k) = Out(printed, k)
    BY <2>1 DEF Out
  <2>4. Out(printed', n) = {Cwd} /\ Answer(n) = {Cwd}
    BY <1>2, <1>3, <1>4, <1>5, <2>1 DEF Out
  <2> QED
    BY <1>1, <2>1, <2>2, <2>3, <2>4, ReturnWhich
<1>6. CASE ~found[n][Cwd]
  <2>1. printed' = printed /\ W!Return(0)
    BY <1>6 DEF W!NoSearch, W!At
  <2>2. \A k : Out(printed', k) = Out(printed, k)
    BY <2>1 DEF Out
  <2>3. Answer(n) = {}
    BY <1>4, <1>6
  <2> QED
    BY <1>1, <1>2, <1>3, <2>1, <2>2, <2>3, ReturnWhich
<1> QED
  BY <1>5, <1>6

\* The end of a search: at the end of the path, or at an entry that is too long.
LEMMA EndWhich == ASSUME WhichInv, W!PathEnds \/ W!NameTooLong PROVE WhichInv'
<1> USE DEF WhichInv
<1>1. /\ W!Looking /\ ~slash[n] /\ UNCHANGED <<Given, status, printed>>
      /\ i > Len(dirs) \/ (i <= Len(dirs) /\ dirs[i] = Long)
  BY DEF W!PathEnds, W!NameTooLong, W!Searching, Given
<1>2. printed' \subseteq (1..W!argc) \X Places
  BY <1>1 DEF Places, W!TypeOK, W!Places
<1>3. SoFar = W!Matches(n) /\ (~allmatches => W!Matches(n) = {})
      /\ Out(printed, n) = {W!Place(j) : j \in W!Matches(n)}
      /\ rval = IF W!Matches(n) = {} THEN 0 ELSE 1
  BY <1>1, AllPassed DEF WhichOut, W!Looking
<1>4. Answer(n) = {W!Place(j) : j \in W!Matches(n)}
  <2>1. allmatches \in BOOLEAN
    BY DEF W!TypeOK
  <2>2. CASE allmatches
    BY <1>1, <2>2 DEF Answer
  <2>3. CASE ~allmatches
    BY <1>1, <1>3, <2>3 DEF Answer
  <2> QED
    BY <2>1, <2>2, <2>3
<1>5. Answer(n) = {} <=> W!Matches(n) = {}
  BY <1>4
<1>6. Out(printed', n) = Answer(n) /\ \A k : Out(printed', k) = Out(printed, k)
  BY <1>1, <1>3, <1>4
<1>7. CASE W!PathEnds
  <2>1. W!Return(rval) /\ rval \in {0, 1}
    BY <1>3, <1>7 DEF W!PathEnds
  <2> QED
    <3>1. (W!Fits \/ ~allmatches) => (rval = 0 <=> Answer(n) = {})
      BY <1>3, <1>5
    <3> QED
      BY <1>1, <1>2, <1>6, <2>1, <3>1, ReturnWhich
<1>8. CASE W!NameTooLong
  <2>1. W!Return(0) /\ ~W!Fits
    <3>1. i \in 1..Len(dirs)
      BY <1>8, WhichTypes DEF W!NameTooLong
    <3> QED
      BY <1>8, <3>1 DEF W!NameTooLong, W!Fits
  <2>2. (W!Fits \/ ~allmatches) => Answer(n) = {}
    BY <1>3, <1>5, <2>1
  <2> QED
    BY <1>1, <1>2, <1>6, <2>1, <2>2, ReturnWhich
<1> QED
  BY <1>7, <1>8

\* What one more entry adds to the matches that have been passed.
LEMMA LookedAt ==
  ASSUME WhichInv, W!Looking, i <= Len(dirs), dirs[i] # Long
  PROVE  /\ i \in 1..Len(dirs) /\ i \in W!Reached /\ W!Here = W!Place(i) /\ W!Here \in Places
         /\ W!At(n, W!Here) <=> i \in W!Matches(n)
         /\ {j \in W!Matches(n) : j < i + 1} =
              IF W!At(n, W!Here) THEN SoFar \cup {i} ELSE SoFar
<1> USE DEF WhichInv
<1>1. i \in 1..Len(dirs) /\ i \in Nat /\ Len(dirs) \in Nat
  BY WhichTypes
<1>2. i \in W!Reached
  <2>1. \A k \in 1..i : k \in 1..(i - 1) \/ k = i
    BY <1>1
  <2> QED
    BY <1>1, <2>1 DEF W!Reached, WhichAt
<1>3. W!Here = W!Place(i)
  BY DEF W!Here, W!Place
<1>4. W!Place(i) \in Places /\ W!Matches(n) \in SUBSET Nat
  BY <1>2, MatchesFacts
<1>5. W!At(n, W!Here) <=> i \in W!Matches(n)
  BY <1>2, <1>3 DEF W!At, W!Matches
<1>6. \A j \in Nat : j < i + 1 <=> (j < i \/ j = i)
  BY <1>1
<1>7. {j \in W!Matches(n) : j < i + 1} = IF W!At(n, W!Here) THEN SoFar \cup {i} ELSE SoFar
  BY <1>1, <1>4, <1>5, <1>6 DEF SoFar
<1> QED
  BY <1>1, <1>2, <1>3, <1>4, <1>5, <1>7

\* The search goes on with the next entry: without a match, or with -a.
LEMMA GoOnWhich ==
  ASSUME WhichInv, W!Looking, ~slash[n], i <= Len(dirs), dirs[i] # Long,
         UNCHANGED <<Given, status, n, notfound>>, i' = i + 1,
         IF W!At(n, W!Here) THEN allmatches /\ rval' = 1 /\ printed' = printed \cup {<<n, W!Here>>}
                            ELSE rval' = rval /\ printed' = printed
  PROVE  WhichInv'
<1> USE DEF WhichInv
<1>1. /\ W!argc \in Nat /\ n \in 1..W!argc /\ n \in Nat /\ i \in Nat /\ Len(dirs) \in Nat /\ i >= 1
      /\ dirs # <<>>
  BY WhichTypes DEF W!Looking
<1>2. /\ UNCHANGED <<W!argc, W!Fits, W!Reached, allmatches, slash, found, dirs, status, n, notfound>>
      /\ \A j : W!Place(j)' = W!Place(j)
      /\ \A k : W!Matches(k)' = W!Matches(k) /\ Answer(k)' = Answer(k)
  BY SameGiven DEF Given
<1>3. /\ W!Here = W!Place(i) /\ W!Here \in Places
      /\ {j \in W!Matches(n) : j < i + 1} =
           IF W!At(n, W!Here) THEN SoFar \cup {i} ELSE SoFar
  BY LookedAt
<1>4. W!Matches(n)' = W!Matches(n)
  BY <1>2 DEF W!Matches
<1>5. SoFar' = IF W!At(n, W!Here) THEN SoFar \cup {i} ELSE SoFar
  BY <1>3, <1>4 DEF SoFar
<1>6. W!TypeOK'
  <2>1. i' \in 1..(Len(dirs) + 1)
    BY <1>1
  <2>2. W!Places = Places
    BY DEF W!Places, Places
  <2>3. printed' \subseteq (1..W!argc) \X W!Places
    <3>1. printed \subseteq (1..W!argc) \X W!Places
      BY DEF W!TypeOK
    <3>2. <<n, W!Here>> \in (1..W!argc) \X W!Places
      BY <1>1, <1>3, <2>2
    <3> QED
      BY <3>1, <3>2
  <2>4. rval' \in 0..1
    BY DEF W!TypeOK
  <2> QED
    BY <1>2, <2>1, <2>3, <2>4 DEF W!TypeOK
<1>7. WhichAt'
  <2>1. n # W!argc + 1
    BY <1>1
  <2>2. \A j \in 1..(i' - 1) : j \in 1..(i - 1) \/ j = i
    BY <1>1
  <2> QED
    BY <1>1, <1>2, <2>1, <2>2 DEF WhichAt
<1>8. \A k \in 1..W!argc : k # n => Out(printed', k) = Out(printed, k)
  BY DEF Out
<1>9. WhichOut'
  <2>1. \A k \in 1..(n' - 1) : Out(printed', k) = Answer(k)'
    <3>1. \A k \in 1..(n - 1) : k \in 1..W!argc /\ k # n
      BY <1>1
    <3> QED
      BY <1>2, <1>8, <3>1 DEF WhichOut
  <2>2. \A k \in (n' + 1)..W!argc' : Out(printed', k) = {}
    <3>1. \A k \in (n + 1)..W!argc : k \in 1..W!argc /\ k # n
      BY <1>1
    <3> QED
      BY <1>2, <1>8, <3>1 DEF WhichOut
  <2>3. /\ Out(printed, n) = {W!Place(j) : j \in SoFar} /\ (~allmatches => SoFar = {})
        /\ rval = IF SoFar = {} THEN 0 ELSE 1
    <3>1. n <= W!argc /\ WhichOut
      BY DEF W!Looking
    <3> QED
      BY <3>1, Zenon DEF WhichOut
  <2>4. Out(printed', n') = {W!Place(j) : j \in SoFar'}
    <3>1. CASE W!At(n, W!Here)
      <4>1. Out(printed', n) = Out(printed, n) \cup {W!Place(i)}
        BY <1>3, <3>1 DEF Out
      <4> QED
        BY <1>2, <1>5, <2>3, <3>1, <4>1
    <3>2. CASE ~W!At(n, W!Here)
      BY <1>2, <1>5, <2>3, <3>2
    <3> QED
      BY <3>1, <3>2
  <2>5. {W!Place(j) : j \in SoFar}' = {W!Place(j) : j \in SoFar'}
    BY <1>2
  <2>6. ~allmatches' => SoFar' = {}
    BY <1>2, <1>5, <2>3
  <2>7. rval' = IF SoFar' = {} THEN 0 ELSE 1
    BY <1>5, <2>3
  <2>8. ~slash'[n']
    BY <1>2
  <2> QED
    BY <2>1, <2>2, <2>4, <2>5, <2>6, <2>7, <2>8 DEF WhichOut
<1>10. WhichCount'
  <2>1. \A k \in 1..(n - 1) : k \in 1..W!argc /\ k # n
    BY <1>1
  <2> QED
    BY <1>2, <1>8, <2>1 DEF WhichCount
<1>11. WhichExit'
  BY <1>2 DEF WhichExit, W!Searched, W!Looking, W!Running
<1> QED
  BY <1>6, <1>7, <1>9, <1>10, <1>11

\* One entry of the path: the first match is the answer without -a.
LEMMA LookWhich == ASSUME WhichInv, W!Look PROVE WhichInv'
<1>1. W!Looking /\ ~slash[n] /\ i <= Len(dirs) /\ dirs[i] # Long /\ UNCHANGED <<Given, status>>
  BY DEF W!Look, W!Searching, Given
<1>2. CASE ~W!At(n, W!Here)
  BY <1>1, <1>2, GoOnWhich DEF W!Look
<1>3. CASE W!At(n, W!Here) /\ allmatches
  BY <1>1, <1>3, GoOnWhich DEF W!Look
<1>4. CASE W!At(n, W!Here) /\ ~allmatches
  <2>1. printed' = printed \cup {<<n, W!Here>>} /\ W!Return(1)
    BY <1>4 DEF W!Look
  <2>2. /\ W!Here = W!Place(i) /\ W!Here \in Places /\ i \in W!Matches(n)
        /\ W!Matches(n) \in SUBSET Nat /\ i \in Nat /\ n \in 1..W!argc
    <3>1. W!TypeOK /\ n <= W!argc
      BY <1>1 DEF WhichInv, W!Looking
    <3>2. W!argc \in Nat /\ n \in 1..(W!argc + 1) /\ i \in Nat
      BY <3>1, WhichTypes
    <3>3. W!Here = W!Place(i) /\ W!Here \in Places /\ i \in W!Matches(n)
      BY <1>1, <1>4, LookedAt
    <3>4. W!Matches(n) \in SUBSET Nat
      BY <3>1, MatchesFacts
    <3> QED
      BY <3>1, <3>2, <3>3, <3>4
  <2>3. SoFar = {} /\ Out(printed, n) = {}
    BY <1>1, <1>4 DEF WhichInv, WhichOut, W!Looking
  <2>4. \A j \in W!Matches(n) : i <= j
    BY <2>2, <2>3 DEF SoFar
  <2>5. W!Min(W!Matches(n)) = i
    <3>1. Min(W!Matches(n)) = i
      BY <2>2, <2>4, MinIs
    <3> QED
      BY <3>1 DEF W!Min, Min
  <2>6. Answer(n) = {W!Here}
    BY <1>1, <1>4, <2>2, <2>5 DEF Answer
  <2>7. Out(printed', n) = {W!Here}
    BY <2>1, <2>2, <2>3 DEF Out
  <2>8. \A k \in 1..W!argc : k # n => Out(printed', k) = Out(printed, k)
    BY <2>1 DEF Out
  <2>9. printed' \subseteq (1..W!argc) \X Places
    BY <2>1, <2>2 DEF WhichInv, W!TypeOK, W!Places, Places
  <2>10. Out(printed', n) = Answer(n) /\ (1 = 0 <=> Answer(n) = {})
    BY <2>6, <2>7
  <2> QED
    BY <1>1, <2>1, <2>8, <2>9, <2>10, ReturnWhich
<1> QED
  BY <1>2, <1>3, <1>4

\* The path is there, and no entry of it has been looked at.
LEMMA BeginWhich == ASSUME WhichInv, W!Begin PROVE WhichInv'
<1> USE DEF WhichInv
<1>1. /\ UNCHANGED <<allmatches, slash, found, n, i, rval, notfound, printed, status>>
      /\ dirs = <<>> /\ dirs' \in W!Paths /\ W!argc > 0 /\ status = W!Running
  BY DEF W!Begin
<1>2. n = 1 /\ i = 1 /\ rval = 0 /\ notfound = 0 /\ printed = {}
  BY <1>1 DEF WhichAt
<1>3. W!argc' = W!argc /\ W!argc \in Nat
  BY <1>1, WhichTypes DEF W!argc
<1>4. Len(dirs') \in Nat
  <2>1. PICK k \in 1..MaxPath : dirs' \in [1..k -> W!Entries]
    BY <1>1 DEF W!Paths
  <2> QED
    BY <2>1, PathAssumption
<1>5. W!TypeOK'
  <2>1. i' \in 1..(Len(dirs') + 1)
    BY <1>1, <1>2, <1>4
  <2> QED
    BY <1>1, <1>3, <2>1 DEF W!TypeOK
<1>6. SoFar' = {}
  BY <1>1, <1>2, <1>4 DEF SoFar, W!Matches, W!Reached
<1>7. \A k : Out(printed', k) = {}
  BY <1>1, <1>2 DEF Out
<1>8. WhichAt'
  <2>1. n' # W!argc' + 1 \/ (i' = 1 /\ rval' = 0)
    BY <1>1, <1>2
  <2>2. 1..(i' - 1) = {} /\ W!argc' > 0
    BY <1>1, <1>2, <1>3
  <2> QED
    BY <1>1, <1>2, <2>1, <2>2 DEF WhichAt
<1>9. WhichOut'
  <2>1. \A k \in 1..(n' - 1) : FALSE
    BY <1>1, <1>2
  <2>2. {W!Place(j)' : j \in SoFar'} = {}
    BY <1>6
  <2> QED
    BY <1>1, <1>2, <1>6, <1>7, <2>1, <2>2 DEF WhichOut
<1>10. WhichCount' /\ WhichExit'
  <2>1. 1..(n' - 1) = {} /\ n' = 1 /\ notfound' = 0
    BY <1>1, <1>2
  <2>2. WhichCount'
    BY <2>1 DEF WhichCount
  <2>3. WhichExit'
    BY <1>1 DEF WhichExit, W!Searched
  <2> QED
    BY <2>2, <2>3
<1> QED
  BY <1>5, <1>8, <1>9, <1>10

\* The command ends, with or without having searched; or nothing happens.
LEMMA ExitWhich ==
  ASSUME WhichInv, UNCHANGED <<Given, n, i, rval, notfound, printed>>,
         status' \in {0, 1, 2, W!Running}, WhichExit'
  PROVE  WhichInv'
<1> USE DEF WhichInv
<1>1. /\ UNCHANGED <<W!argc, W!Fits, W!Reached, allmatches, slash, found, dirs>>
      /\ \A j : W!Place(j)' = W!Place(j)
      /\ \A k : W!Matches(k)' = W!Matches(k) /\ Answer(k)' = Answer(k)
  BY SameGiven DEF Given
<1>2. W!TypeOK' /\ WhichAt'
  BY <1>1 DEF W!TypeOK, WhichAt
<1>3. W!Matches(n)' = W!Matches(n)
  BY <1>1 DEF W!Matches
<1>4. SoFar' = SoFar
  BY <1>3 DEF SoFar
<1>5. WhichOut' /\ WhichCount'
  BY <1>1, <1>4 DEF WhichOut, WhichCount
<1> QED
  BY <1>2, <1>5

\* Every step of which keeps its invariant.
LEMMA WhichStep == WhichInv /\ [W!Next]_whichVars => WhichInv'
<1> SUFFICES ASSUME WhichInv, [W!Next]_whichVars PROVE WhichInv'
  OBVIOUS
<1>0. CASE W!NoCopy
  <2>1. UNCHANGED <<Given, n, i, rval, notfound, printed>> /\ n <= W!argc /\ status' = 1
    BY <1>0 DEF W!NoCopy, W!Searching, W!Looking, W!Exit, Given
  <2>2. ~(n' > W!argc')
    <3>1. n' = n /\ W!argc' = W!argc /\ n \in Nat /\ W!argc \in Nat
      BY <2>1, SameGiven, WhichTypes DEF WhichInv
    <3> QED
      BY <2>1, <3>1
  <2>3. WhichExit'
    BY <2>2 DEF WhichExit, W!Searched
  <2> QED
    BY <2>1, <2>3, ExitWhich
<1>1. CASE W!Refuse
  <2>1. UNCHANGED <<Given, n, i, rval, notfound, printed>> /\ dirs = <<>> /\ status' = 1
    BY <1>1 DEF W!Refuse, W!Exit, Given
  <2>2. WhichExit'
    BY <2>1 DEF WhichExit, W!Searched, Given
  <2> QED
    BY <2>1, <2>2, ExitWhich
<1>2. CASE W!Finish
  <2>1. UNCHANGED <<Given, n, i, rval, notfound, printed>> /\ n > W!argc
        /\ status' = IF notfound = 0 THEN 0 ELSE IF notfound = W!argc THEN 2 ELSE 1
    BY <1>2 DEF W!Finish, W!Exit, Given
  <2>2. n = W!argc + 1
    BY <2>1, WhichTypes DEF WhichInv
  <2>3. WhichExit'
    <3>1. W!argc' = W!argc /\ n' = n /\ notfound' = notfound
      BY <2>1, SameGiven
    <3> QED
      BY <2>1, <2>2, <3>1 DEF WhichExit, W!Searched
  <2> QED
    BY <2>1, <2>3, ExitWhich
<1>3. CASE UNCHANGED whichVars
  <2>1. UNCHANGED <<Given, n, i, rval, notfound, printed, status>>
    BY <1>3 DEF whichVars, Given
  <2>2. WhichExit' /\ status' \in {0, 1, 2, W!Running}
    BY <2>1, SameGiven DEF WhichInv, WhichExit, W!Searched, W!TypeOK, Given
  <2> QED
    BY <2>1, <2>2, ExitWhich
<1>4. W!Done => UNCHANGED whichVars
  BY DEF W!Done, W!vars, whichVars
<1> QED
  BY <1>0, <1>1, <1>2, <1>3, <1>4, BeginWhich, NoSearchWhich, EndWhich, LookWhich DEF W!Next

-----------------------------------------------------------------------------
\* The invariant of both holds at every step of whichever runs.
LEMMA Invariance == LookupSpec => []IInv
<1>1. LookupInit => IInv
  BY InitSearch, InitWhich DEF LookupInit, IInv
<1>2. IInv /\ [LookupNext]_<<tool, vars, whichVars>> => IInv'
  BY SearchStep, WhichStep DEF IInv, LookupNext
<1> QED
  BY <1>1, <1>2, PTL DEF LookupSpec

\* For every path whose entries all fit, of whatever length, execvpe() executes
\* the first file on it that can be executed, and when there is none reports the
\* error that ended the search, EACCES if access was denied, or the error of the
\* last entry (execvpe.c 107-174).
THEOREM ExecutesFirst == LookupSpec => []RunsFirst
<1>1. IInv => RunsFirst
  BY DEF IInv, SearchInv
<1> QED
  BY <1>1, Invariance, PTL

\* For every path an entry of PATH_MAX or more costs execvpe() no answer of an
\* entry behind it (execvpe.c 111-120).
THEOREM LongIsSkipped == LookupSpec => []LookupInv
<1>1. IInv => LookupInv
  BY DEF IInv, SearchInv, WhichInv, LookupInv
<1> QED
  BY <1>1, Invariance, PTL

\* For every path on which no file of the name is one that cannot be executed,
\* what find_path() resolves to is the first file there is (find_path.c 87-126).
THEOREM TakesFirst == LookupSpec => []ResolvesFirst
<1>1. IInv => ResolvesFirst
  BY DEF IInv, SearchInv
<1> QED
  BY <1>1, Invariance, PTL

\* For every path and any number of names, which prints the first match of each
\* or with -a every match, and its exit status is the one its header promises
\* (which-bsd.c 43-46 and 116-164).
THEOREM WhichIsRight == LookupSpec => []WhichAnswers
<1>1. IInv => WhichAnswers
  <2> SUFFICES ASSUME IInv, W!Searched PROVE WhichAnswers
    BY DEF WhichAnswers, W!PrintsMatches, W!ExitMeans
  <2>1. /\ n = W!argc + 1 /\ W!argc \in Nat /\ W!argc > 0 /\ notfound \in Nat
        /\ status = IF notfound = 0 THEN 0 ELSE IF notfound = W!argc THEN 2 ELSE 1
    BY WhichTypes DEF IInv, WhichInv, WhichExit, WhichAt, W!Searched
  <2>2. n - 1 = W!argc
    BY <2>1
  <2>3. W!Places = Places
    BY DEF W!Places, Places
  <2>4. W!PrintsMatches
    <3>1. \A k \in 1..W!argc : Out(printed, k) = Answer(k)
      BY <2>2 DEF IInv, WhichInv, WhichOut
    <3> QED
      BY <2>3, <3>1 DEF W!PrintsMatches, Out, Answer
  <2>5. W!ExitMeans
    <3> SUFFICES ASSUME W!Fits \/ ~allmatches
                 PROVE  (status = 0 <=> W!Found = 1..W!argc) /\ (status = 2 <=> W!Found = {})
      BY DEF W!ExitMeans
    <3>1. \A k \in 1..W!argc : k \in W!Found <=> Out(printed, k) # {}
      BY <2>3 DEF W!Found, Out
    <3>2. W!Found \subseteq 1..W!argc
      BY DEF W!Found
    <3>3. /\ notfound = 0 <=> \A k \in 1..W!argc : Out(printed, k) # {}
          /\ notfound = W!argc <=> \A k \in 1..W!argc : Out(printed, k) = {}
      BY <2>2 DEF IInv, WhichInv, WhichCount
    <3>4. (status = 0 <=> notfound = 0) /\ (status = 2 <=> notfound = W!argc)
      BY <2>1
    <3> QED
      BY <3>1, <3>2, <3>3, <3>4
  <2> QED
    BY <2>4, <2>5 DEF WhichAnswers
<1> QED
  BY <1>1, Invariance, PTL
=============================================================================
