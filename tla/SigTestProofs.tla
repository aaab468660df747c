---------------------------- MODULE SigTestProofs ----------------------------
(***************************************************************************)
(* Proofs that, for either build, any initial actions of the two signals   *)
(* and any number of signals, sigtest's handlers are transparent to glibc  *)
(* and only the window in set_action() is fatal.                           *)
(*                                                                         *)
(* The argument: where main() is says, for each signal, which action the   *)
(* kernel has for it and which one signal_chain() would call.  The two are *)
(* both sig_handler() only at "restore"; everywhere else a handler that    *)
(* runs chains to what the signal's action was when main() started.        *)
(***************************************************************************)
EXTENDS SigTest, TLAPS

Actions == {"nptl", "DFL", "IGN", "sig_handler"}
Which(s) == IF s = "SIGCANCEL" THEN 1 ELSE 2

Types ==
  /\ TypeOK
  /\ orig \in [Signals -> {"nptl", "DFL", "IGN"}] /\ sav \in Actions
  /\ pending \in [Signals -> Seq(Info)]
  /\ sent \in [Signals -> Seq(Info)] /\ seen \in [Signals -> Seq(Info)]
  /\ frames \in Seq([sig : Signals, info : Info])

\* The actions of signal s, by where main() is.
Phase(s) ==
  /\ at = "save" => handler[s] = orig[s] /\ (Which(s) < k => act[s] = orig[s])
  /\ at \in {"assign", "install", "restore"} =>
       IF Which(s) = k /\ at # "assign"
       THEN /\ act[s] = "sig_handler" /\ sav = orig[s]
            /\ handler[s] = IF at = "restore" THEN "sig_handler" ELSE orig[s]
       ELSE /\ act[s] = orig[s]
            /\ handler[s] = IF Which(s) < k THEN "sig_handler" ELSE orig[s]
  /\ at \in {"sleep", "woken", "end"} => act[s] = orig[s] /\ handler[s] = "sig_handler"
  /\ at \in {"set", "block"} => act[s] = orig[s] /\ handler[s] = orig[s]
  /\ at \in {"ignore", "run"} => act[s] = orig[s] /\ handler[s] \in {orig[s], "IGN"}
  /\ orig[s] = "nptl" =>
       /\ at \in {"block", "ignore", "run"} \/ (at = "set" /\ Which(s) < k) => s \in registered
       /\ at \in {"ignore", "run"} => s \in blocked

\* Only sig_handler() has a frame, so main() is not before the sigaction() for it.
Framed == \A n \in 1..Len(frames) : handler[frames[n].sig] = "sig_handler"

\* The kernel's queue is part of what was sent, and the bound is kept.
Counted ==
  /\ \A s \in Signals : Len(pending[s]) <= Len(sent[s])
  /\ Len(sent["SIGCANCEL"]) + Len(sent["SIGSETXID"]) + lost <= MaxSent

\* glibc acts on the same members of the two sequences.
Agree(x, y) == Len(x) = Len(y) /\ \A n \in 1..Len(x) : Acts(x[n]) <=> Acts(y[n])

Passed ==
  \A s \in Signals : orig[s] = "nptl" /\ dead = "no" =>
    Agree(sent[s], seen[s] \o InHandler(s) \o pending[s])

\* The inductive invariant.
IInv == /\ Types /\ (\A s \in Signals : Phase(s)) /\ Framed /\ Counted
        /\ DiesOnlyInWindow /\ Passed

-----------------------------------------------------------------------------
(* What glibc's handler has got, what sig_handler() holds and what is queued. *)

\* The members of two sequences put together, and of three.
LEMMA JoinedTwo ==
  ASSUME NEW a \in Seq(Info), NEW b \in Seq(Info)
  PROVE  /\ a \o b \in Seq(Info)
         /\ Len(a) \in Nat /\ Len(b) \in Nat
         /\ Len(a \o b) = Len(a) + Len(b)
         /\ \A n \in 1..Len(a) : (a \o b)[n] = a[n]
         /\ \A n \in 1..Len(b) : (a \o b)[Len(a) + n] = b[n]
OBVIOUS

LEMMA Joined ==
  ASSUME NEW a \in Seq(Info), NEW b \in Seq(Info), NEW c \in Seq(Info)
  PROVE  /\ a \o b \o c \in Seq(Info)
         /\ Len(a) \in Nat /\ Len(b) \in Nat /\ Len(c) \in Nat
         /\ Len(a \o b \o c) = Len(a) + Len(b) + Len(c)
         /\ \A n \in 1..Len(a) : (a \o b \o c)[n] = a[n]
         /\ \A n \in 1..Len(b) : (a \o b \o c)[Len(a) + n] = b[n]
         /\ \A n \in 1..Len(c) : (a \o b \o c)[Len(a) + Len(b) + n] = c[n]
<1> DEFINE d == a \o b
<1>1. /\ d \in Seq(Info) /\ Len(d) = Len(a) + Len(b)
      /\ Len(a) \in Nat /\ Len(b) \in Nat /\ Len(c) \in Nat
      /\ \A n \in 1..Len(a) : d[n] = a[n]
      /\ \A n \in 1..Len(b) : d[Len(a) + n] = b[n]
  BY JoinedTwo
<1> HIDE DEF d
<1>2. /\ d \o c \in Seq(Info) /\ Len(d \o c) = Len(d) + Len(c)
      /\ \A n \in 1..Len(d) : (d \o c)[n] = d[n]
      /\ \A n \in 1..Len(c) : (d \o c)[Len(d) + n] = c[n]
  <2>1. d \in Seq(Info)  BY <1>1
  <2> QED  BY <2>1, JoinedTwo
<1>3. \A n \in 1..Len(a) : n \in 1..Len(d)  BY <1>1
<1>4. \A n \in 1..Len(b) : Len(a) + n \in 1..Len(d)  BY <1>1
<1>5. \A n \in 1..Len(a) : (d \o c)[n] = a[n]  BY <1>1, <1>2, <1>3
<1>6. \A n \in 1..Len(b) : (d \o c)[Len(a) + n] = b[n]  BY <1>1, <1>2, <1>4
<1>7. \A n \in 1..Len(c) : (d \o c)[Len(a) + Len(b) + n] = c[n]  BY <1>1, <1>2
<1> QED  BY <1>1, <1>2, <1>5, <1>6, <1>7 DEF d

\* The kernel calls sig_handler(): the head of the queue is in the handler now.
LEMMA ToHandler ==
  ASSUME NEW a \in Seq(Info), NEW q \in Seq(Info), q # <<>>
  PROVE  a \o <<Head(q)>> \o Tail(q) = a \o <<>> \o q
<1> DEFINE h == Head(q)
           r == Tail(q)
           x == a \o <<h>> \o r
           y == a \o <<>> \o q
<1>1. /\ h \in Info /\ r \in Seq(Info) /\ <<h>> \in Seq(Info) /\ <<>> \in Seq(Info)
      /\ Len(<<h>>) = 1 /\ <<h>>[1] = h /\ Len(<<>>) = 0
      /\ Len(q) \in Nat \ {0} /\ Len(r) = Len(q) - 1
      /\ q[1] = h /\ \A n \in 1..Len(r) : r[n] = q[n + 1]
  OBVIOUS
<1>2. /\ x \in Seq(Info) /\ Len(x) = Len(a) + 1 + Len(r) /\ Len(a) \in Nat
      /\ \A n \in 1..Len(a) : x[n] = a[n]
      /\ x[Len(a) + 1] = h
      /\ \A n \in 1..Len(r) : x[Len(a) + 1 + n] = r[n]
  <2> HIDE DEF h, r
  <2>1. <<h>> \in Seq(Info) /\ r \in Seq(Info)  BY <1>1
  <2>2. /\ x \in Seq(Info) /\ Len(a) \in Nat
        /\ Len(x) = Len(a) + Len(<<h>>) + Len(r)
        /\ \A n \in 1..Len(a) : x[n] = a[n]
        /\ \A n \in 1..Len(<<h>>) : x[Len(a) + n] = <<h>>[n]
        /\ \A n \in 1..Len(r) : x[Len(a) + Len(<<h>>) + n] = r[n]
    BY <2>1, Joined
  <2>3. 1 \in 1..Len(<<h>>)  BY <1>1
  <2> HIDE DEF x
  <2> QED  BY <2>2, <2>3, <1>1
<1>3. /\ y \in Seq(Info) /\ Len(y) = Len(a) + Len(q)
      /\ \A n \in 1..Len(a) : y[n] = a[n]
      /\ \A n \in 1..Len(q) : y[Len(a) + n] = q[n]
  <2>1. /\ Len(y) = Len(a) + Len(<<>>) + Len(q)
        /\ \A n \in 1..Len(a) : y[n] = a[n]
        /\ \A n \in 1..Len(q) : y[Len(a) + Len(<<>>) + n] = q[n]
        /\ y \in Seq(Info)
    BY <1>1, Joined
  <2> QED  BY <2>1, <1>1, <1>2
<1> HIDE DEF h, r, x, y
<1>4. Len(x) = Len(y) /\ Len(x) \in Nat  BY <1>1, <1>2, <1>3
<1>5. ASSUME NEW n \in 1..Len(x)  PROVE x[n] = y[n]
  <2>1. CASE n <= Len(a)
    <3>1. n \in 1..Len(a)  BY <2>1, <1>2
    <3> QED  BY <3>1, <1>2, <1>3
  <2>2. CASE n = Len(a) + 1
    <3>1. 1 \in 1..Len(q)  BY <1>1
    <3> QED  BY <2>2, <3>1, <1>1, <1>2, <1>3
  <2>3. CASE n > Len(a) + 1
    <3> DEFINE m == n - (Len(a) + 1)
    <3>1. m \in 1..Len(r) /\ n = Len(a) + 1 + m /\ m + 1 \in 1..Len(q) /\ n = Len(a) + (m + 1)
      BY <2>3, <1>1, <1>2, <1>4
    <3> HIDE DEF m
    <3>2. x[n] = r[m]  BY <3>1, <1>2
    <3>3. y[n] = q[m + 1]  BY <3>1, <1>3
    <3>4. r[m] = q[m + 1]  BY <3>1, <1>1
    <3> QED  BY <3>2, <3>3, <3>4
  <2> QED  BY <2>1, <2>2, <2>3, <1>2
<1>6. x = y  BY <1>2, <1>3, <1>4, <1>5
<1> QED  BY <1>6 DEF h, r, x, y

\* signal_chain(): what was in the handler has been passed to glibc's.
LEMMA ToGlibc ==
  ASSUME NEW a \in Seq(Info), NEW e \in Info, NEW f \in Info, NEW q \in Seq(Info),
         Acts(e) <=> Acts(f)
  PROVE  Agree(a \o <<e>> \o q, Append(a, f) \o <<>> \o q)
<1> DEFINE x == a \o <<e>> \o q
           b == Append(a, f)
           y == b \o <<>> \o q
<1>1. /\ b \in Seq(Info) /\ Len(b) = Len(a) + 1 /\ b[Len(a) + 1] = f
      /\ \A n \in 1..Len(a) : b[n] = a[n]
      /\ <<e>> \in Seq(Info) /\ <<>> \in Seq(Info)
      /\ Len(<<e>>) = 1 /\ <<e>>[1] = e /\ Len(<<>>) = 0
  OBVIOUS
<1>2. /\ Len(x) = Len(a) + 1 + Len(q) /\ Len(a) \in Nat /\ Len(q) \in Nat
      /\ \A n \in 1..Len(a) : x[n] = a[n]
      /\ x[Len(a) + 1] = e
      /\ \A n \in 1..Len(q) : x[Len(a) + 1 + n] = q[n]
  <2>1. 1 \in 1..Len(<<e>>)  BY <1>1
  <2> QED  BY <2>1, <1>1, Joined
<1> HIDE DEF b
<1>3. /\ Len(y) = Len(b) + Len(q)
      /\ \A n \in 1..Len(b) : y[n] = b[n]
      /\ \A n \in 1..Len(q) : y[Len(b) + n] = q[n]
  <2>1. /\ Len(y) = Len(b) + Len(<<>>) + Len(q) /\ Len(b) \in Nat
        /\ \A n \in 1..Len(b) : y[n] = b[n]
        /\ \A n \in 1..Len(q) : y[Len(b) + Len(<<>>) + n] = q[n]
    <3>1. b \in Seq(Info) /\ <<>> \in Seq(Info)  BY <1>1
    <3> QED  BY <3>1, Joined
  <2> QED  BY <2>1, <1>1
<1> HIDE DEF x, y
<1>4. ASSUME NEW n \in 1..Len(x)  PROVE Acts(x[n]) <=> Acts(y[n])
  <2>1. CASE n <= Len(a)
    <3>1. n \in 1..Len(a) /\ n \in 1..Len(b)  BY <2>1, <1>1, <1>2
    <3> QED  BY <3>1, <1>1, <1>2, <1>3
  <2>2. CASE n = Len(a) + 1
    <3>1. n \in 1..Len(b)  BY <2>2, <1>1, <1>2
    <3> QED  BY <2>2, <3>1, <1>1, <1>2, <1>3
  <2>3. CASE n > Len(a) + 1
    <3> DEFINE m == n - (Len(a) + 1)
    <3>1. m \in 1..Len(q) /\ n = Len(a) + 1 + m /\ n = Len(b) + m
      BY <2>3, <1>1, <1>2
    <3> HIDE DEF m
    <3> QED  BY <3>1, <1>2, <1>3
  <2>4. n <= Len(a) \/ n = Len(a) + 1 \/ n > Len(a) + 1
    <3>1. n \in Int /\ Len(a) \in Nat  BY <1>2
    <3> QED  BY <3>1
  <2> QED  BY <2>1, <2>2, <2>3, <2>4
<1>5. Len(x) = Len(y)  BY <1>1, <1>2, <1>3
<1> QED  BY <1>4, <1>5 DEF Agree, x, y, b

LEMMA AgreeTrans ==
  ASSUME NEW x \in Seq(Info), NEW y, NEW z, Agree(x, y), Agree(y, z)
  PROVE  Agree(x, z)
BY DEF Agree

\* A signal that is sent is queued behind the others.
LEMMA SentAgrees ==
  ASSUME NEW x \in Seq(Info), NEW a \in Seq(Info), NEW h \in Seq(Info), NEW q \in Seq(Info),
         NEW e \in Info, Agree(x, a \o h \o q)
  PROVE  Agree(Append(x, e), a \o h \o Append(q, e))
<1> DEFINE d == a \o h
           y == d \o q
           r == Append(q, e)
           z == d \o r
           w == Append(x, e)
<1>1. /\ r \in Seq(Info) /\ Len(r) = Len(q) + 1 /\ r[Len(q) + 1] = e
      /\ \A n \in 1..Len(q) : r[n] = q[n]
  OBVIOUS
<1>2. /\ w \in Seq(Info) /\ Len(w) = Len(x) + 1 /\ w[Len(x) + 1] = e
      /\ \A n \in 1..Len(x) : w[n] = x[n]
  OBVIOUS
<1>3. d \in Seq(Info)  BY JoinedTwo
<1> HIDE DEF d, r, w
<1>4. /\ Len(y) = Len(d) + Len(q) /\ Len(d) \in Nat /\ Len(q) \in Nat
      /\ \A n \in 1..Len(d) : y[n] = d[n]
      /\ \A n \in 1..Len(q) : y[Len(d) + n] = q[n]
  BY <1>3, JoinedTwo
<1>5. /\ Len(z) = Len(d) + Len(r)
      /\ \A n \in 1..Len(d) : z[n] = d[n]
      /\ \A n \in 1..Len(r) : z[Len(d) + n] = r[n]
  <2>1. r \in Seq(Info)  BY <1>1
  <2> QED  BY <2>1, <1>3, JoinedTwo
<1>6. Len(x) = Len(y) /\ \A n \in 1..Len(x) : Acts(x[n]) <=> Acts(y[n])
  BY DEF Agree, d
<1> HIDE DEF y, z
<1>7. ASSUME NEW n \in 1..Len(w)  PROVE Acts(w[n]) <=> Acts(z[n])
  <2>1. CASE n <= Len(d)
    <3>1. n \in 1..Len(d) /\ n \in 1..Len(x)  BY <2>1, <1>2, <1>4, <1>6
    <3> QED  BY <3>1, <1>2, <1>4, <1>5, <1>6
  <2>2. CASE n > Len(d) /\ n <= Len(x)
    <3> DEFINE m == n - Len(d)
    <3>1. n = Len(d) + m /\ m \in 1..Len(q) /\ m \in 1..Len(r) /\ n \in 1..Len(x)
      BY <2>2, <1>1, <1>2, <1>4, <1>6
    <3> HIDE DEF m
    <3> QED  BY <3>1, <1>1, <1>2, <1>4, <1>5, <1>6
  <2>3. CASE n > Len(x)
    <3>1. n = Len(x) + 1 /\ n = Len(d) + Len(r) /\ Len(r) \in 1..Len(r)
      BY <2>3, <1>1, <1>2, <1>4, <1>6
    <3> QED  BY <3>1, <1>1, <1>2, <1>5
  <2> QED  BY <2>1, <2>2, <2>3, <1>2, <1>4, <1>6
<1>8. Len(w) = Len(z)  BY <1>1, <1>2, <1>4, <1>5, <1>6
<1>9. Agree(w, z)  BY <1>7, <1>8 DEF Agree
<1> QED  BY <1>9 DEF w, z, r, d

\* The kernel discards what it has queued, when nothing is in the handler.
LEMMA DroppedAgrees ==
  ASSUME NEW x \in Seq(Info), NEW a \in Seq(Info), NEW q \in Seq(Info),
         Agree(x, a \o <<>> \o q)
  PROVE  Agree(SubSeq(x, 1, Len(x) - Len(q)), a \o <<>> \o <<>>)
<1> DEFINE y == a \o <<>> \o q
           z == a \o <<>> \o <<>>
<1>1. <<>> \in Seq(Info) /\ Len(<<>>) = 0  OBVIOUS
<1>2. /\ Len(y) = Len(a) + Len(q) /\ Len(a) \in Nat /\ Len(q) \in Nat
      /\ \A n \in 1..Len(a) : y[n] = a[n]
  <2>1. /\ Len(y) = Len(a) + Len(<<>>) + Len(q) /\ Len(a) \in Nat /\ Len(q) \in Nat
        /\ \A n \in 1..Len(a) : y[n] = a[n]
    BY <1>1, Joined
  <2> QED  BY <2>1, <1>1
<1>3. Len(z) = Len(a) /\ \A n \in 1..Len(a) : z[n] = a[n]
  <2>1. /\ Len(z) = Len(a) + Len(<<>>) + Len(<<>>)
        /\ \A n \in 1..Len(a) : z[n] = a[n]
    BY <1>1, Joined
  <2> QED  BY <2>1, <1>1, <1>2
<1>4. Len(x) = Len(y) /\ \A n \in 1..Len(x) : Acts(x[n]) <=> Acts(y[n])
  BY DEF Agree
<1> HIDE DEF y, z
<1>5. Len(x) - Len(q) = Len(a) /\ Len(a) <= Len(x)  BY <1>2, <1>4
<1> DEFINE w == SubSeq(x, 1, Len(a))
<1>6. Len(w) = Len(a) /\ \A n \in 1..Len(a) : w[n] = x[n]  BY <1>2, <1>5
<1> HIDE DEF w
<1>7. \A n \in 1..Len(a) : n \in 1..Len(x)  BY <1>2, <1>5
<1>8. Agree(w, z)  BY <1>2, <1>3, <1>4, <1>6, <1>7 DEF Agree
<1> QED  BY <1>5, <1>8 DEF w, z

-----------------------------------------------------------------------------
(* The handlers that are running. *)

Frame == [sig : Signals, info : Info]
Apart(fr) == \A m, n \in 1..Len(fr) : fr[m].sig = fr[n].sig => m = n
Runs(fr, s) == \E n \in 1..Len(fr) : fr[n].sig = s

\* InHandler, of any stack of frames.
Held(fr, s) ==
  IF \E n \in 1..Len(fr) : fr[n].sig = s
  THEN <<(CHOOSE f \in {fr[n] : n \in 1..Len(fr)} : f.sig = s).info>>
  ELSE <<>>

LEMMA InHandlerHeld == \A s : InHandler(s) = Held(frames, s) /\ InHandler(s)' = Held(frames', s)
BY DEF InHandler, Held

LEMMA HeldNone ==
  ASSUME NEW fr, NEW s, ~Runs(fr, s)
  PROVE  Held(fr, s) = <<>>
BY DEF Runs, Held

LEMMA HeldOne ==
  ASSUME NEW fr \in Seq(Frame), Apart(fr), NEW n \in 1..Len(fr)
  PROVE  Held(fr, fr[n].sig) = <<fr[n].info>>
<1> DEFINE s == fr[n].sig
           S == {fr[j] : j \in 1..Len(fr)}
           g == CHOOSE f \in S : f.sig = s
<1>1. fr[n] \in S /\ fr[n].sig = s  OBVIOUS
<1>2. g \in S /\ g.sig = s  BY <1>1
<1>3. PICK j \in 1..Len(fr) : g = fr[j]  BY <1>2
<1>4. j = n  BY <1>2, <1>3 DEF Apart
<1>5. Held(fr, s) = <<g.info>>  BY DEF Held
<1> QED  BY <1>3, <1>4, <1>5

\* A handler is called while none runs for its signal.
LEMMA PushFrame ==
  ASSUME NEW fr \in Seq(Frame), Apart(fr), NEW f \in Frame, ~Runs(fr, f.sig)
  PROVE  /\ Append(fr, f) \in Seq(Frame) /\ Apart(Append(fr, f))
         /\ Held(fr, f.sig) = <<>>
         /\ Held(Append(fr, f), f.sig) = <<f.info>>
         /\ \A s \in Signals \ {f.sig} : Held(Append(fr, f), s) = Held(fr, s)
         /\ \A n \in 1..Len(Append(fr, f)) :
              Append(fr, f)[n] = f \/ \E m \in 1..Len(fr) : Append(fr, f)[n] = fr[m]
<1> DEFINE g == Append(fr, f)
           l == Len(fr)
<1>1. /\ g \in Seq(Frame) /\ Len(g) = l + 1 /\ l \in Nat /\ g[l + 1] = f
      /\ \A n \in 1..l : g[n] = fr[n]
  OBVIOUS
<1> HIDE DEF g
<1>2. Apart(g)  BY <1>1 DEF Apart, Runs
<1>3. l + 1 \in 1..Len(g)  BY <1>1
<1>4. Held(g, f.sig) = <<f.info>>
  <2>1. Held(g, g[l + 1].sig) = <<g[l + 1].info>>
    <3> DEFINE j == l + 1
    <3>1. j \in 1..Len(g)  BY <1>3
    <3> HIDE DEF j
    <3>2. Held(g, g[j].sig) = <<g[j].info>>  BY <3>1, <1>1, <1>2, HeldOne
    <3> QED  BY <3>2 DEF j
  <2> QED  BY <2>1, <1>1
<1>5. ASSUME NEW s \in Signals \ {f.sig}  PROVE Held(g, s) = Held(fr, s)
  <2>1. CASE Runs(fr, s)
    <3>1. PICK n \in 1..l : fr[n].sig = s  BY <2>1 DEF Runs
    <3>2. n \in 1..Len(g) /\ g[n] = fr[n]  BY <1>1
    <3>3. Held(fr, fr[n].sig) = <<fr[n].info>>  BY HeldOne
    <3>4. Held(g, g[n].sig) = <<g[n].info>>  BY <3>2, <1>1, <1>2, HeldOne
    <3> QED  BY <3>1, <3>2, <3>3, <3>4
  <2>2. CASE ~Runs(fr, s)
    <3>1. ~Runs(g, s)  BY <2>2, <1>1 DEF Runs
    <3> QED  BY <2>2, <3>1, HeldNone
  <2> QED  BY <2>1, <2>2
<1>6. ASSUME NEW n \in 1..Len(g)  PROVE g[n] = f \/ \E m \in 1..l : g[n] = fr[m]
  BY <1>1
<1>7. Held(fr, f.sig) = <<>>  BY HeldNone
<1> QED  BY <1>1, <1>2, <1>4, <1>5, <1>6, <1>7 DEF g

\* The innermost handler returns.
LEMMA PopFrame ==
  ASSUME NEW fr \in Seq(Frame), Apart(fr), fr # <<>>
  PROVE  LET f == fr[Len(fr)]
             g == SubSeq(fr, 1, Len(fr) - 1)
         IN  /\ f \in Frame /\ Len(fr) \in 1..Len(fr)
             /\ g \in Seq(Frame) /\ Apart(g)
             /\ Held(fr, f.sig) = <<f.info>>
             /\ Held(g, f.sig) = <<>>
             /\ \A s \in Signals \ {f.sig} : Held(g, s) = Held(fr, s)
             /\ \A n \in 1..Len(g) : n \in 1..Len(fr) /\ g[n] = fr[n]
<1> DEFINE l == Len(fr)
           f == fr[l]
           g == SubSeq(fr, 1, l - 1)
<1>1. /\ l \in Nat \ {0} /\ l \in 1..l /\ f \in Frame
      /\ g \in Seq(Frame) /\ Len(g) = l - 1
      /\ \A n \in 1..(l - 1) : g[n] = fr[n]
  <2>1. l \in Nat \ {0} /\ \A n \in 1..l : fr[n] \in Frame  OBVIOUS
  <2>2. l \in 1..l /\ l - 1 \in 0..l  BY <2>1
  <2>3. \A n \in Int : n \in 0..l =>
          LET h == SubSeq(fr, 1, n) IN
          h \in Seq(Frame) /\ Len(h) = n /\ \A j \in 1..n : h[j] = fr[j]
    OBVIOUS
  <2>4. l - 1 \in Int  BY <2>1
  <2> QED  BY <2>1, <2>2, <2>3, <2>4, Zenon
<1> HIDE DEF g
<1>2. \A n \in 1..Len(g) : n \in 1..l /\ g[n] = fr[n] /\ n # l  BY <1>1
<1>3. Apart(g)  BY <1>2 DEF Apart
<1>4. Held(fr, f.sig) = <<f.info>>  BY <1>1, HeldOne
<1>5. Held(g, f.sig) = <<>>
  <2>1. ~Runs(g, f.sig)  BY <1>1, <1>2 DEF Runs, Apart
  <2> QED  BY <2>1, HeldNone
<1>6. ASSUME NEW s \in Signals \ {f.sig}  PROVE Held(g, s) = Held(fr, s)
  <2>1. CASE Runs(g, s)
    <3>1. PICK n \in 1..Len(g) : g[n].sig = s  BY <2>1 DEF Runs
    <3>2. n \in 1..l /\ g[n] = fr[n]  BY <1>2
    <3>3. Held(fr, fr[n].sig) = <<fr[n].info>>  BY <3>2, HeldOne
    <3>4. Held(g, g[n].sig) = <<g[n].info>>  BY <1>1, <1>3, HeldOne
    <3> QED  BY <3>1, <3>2, <3>3, <3>4
  <2>2. CASE ~Runs(g, s)
    <3>1. ~Runs(fr, s)
      <4> SUFFICES ASSUME NEW n \in 1..l, fr[n].sig = s  PROVE FALSE
        BY DEF Runs
      <4>1. n # l  OBVIOUS
      <4>2. n \in 1..Len(g)  BY <4>1, <1>1
      <4> QED  BY <4>2, <1>2, <2>2 DEF Runs
    <3> QED  BY <2>2, <3>1, HeldNone
  <2> QED  BY <2>1, <2>2
<1> QED  BY <1>1, <1>2, <1>3, <1>4, <1>5, <1>6 DEF g

-----------------------------------------------------------------------------
(* main() and restore_nptl_intercept(). *)

LEMMA NthWhich ==
  ASSUME k \in {1, 2}
  PROVE  Nth(k) \in Signals /\ \A s \in Signals : s = Nth(k) <=> Which(s) = k
BY DEF Nth, Which, Signals

LEMMA ThenEffect ==
  ASSUME k \in {1, 2}, NEW a, NEW b, Then(a, b)
  PROVE  /\ k' \in {1, 2} /\ at' \in {a, b}
         /\ (k = 1 /\ k' = 2 /\ at' = a) \/ (k = 2 /\ k' = 1 /\ at' = b)
BY DEF Then

\* A step of main() alone: it has no handler on top of it, and the signals stay
\* where they are.
LEMMA MainStep ==
  ASSUME IInv, dead = "no", frames = <<>>,
         UNCHANGED <<orig, pending, frames, history, dead>>,
         handler' \in [Signals -> Actions], act' \in [Signals -> Actions], sav' \in Actions,
         blocked' \subseteq Signals, registered' \subseteq Signals, k' \in {1, 2},
         at' \in {"save", "assign", "install", "restore", "sleep", "woken", "end",
                  "set", "block", "ignore", "run"},
         \A s \in Signals : Phase(s)'
  PROVE  IInv'
<1> USE DEF history
<1>1. TypeOK'
  <2>1. lost' \in 0..MaxSent /\ dead' \in {"no", "default", "noframe", "badcall", "overflow"}
    BY DEF IInv, Types, TypeOK
  <2>2. \A m, n \in 1..Len(frames') : frames'[m].sig = frames'[n].sig => m = n
    BY DEF IInv, Types, TypeOK
  <2> QED  BY <2>1, <2>2 DEF TypeOK, Actions
<1>2. Types'  BY <1>1 DEF IInv, Types
<1>3. Framed'  BY DEF Framed
<1>4. Counted'  BY DEF IInv, Counted
<1>5. DiesOnlyInWindow'  BY DEF DiesOnlyInWindow
<1>6. Passed'
  <2>1. \A s : InHandler(s)' = InHandler(s)  BY InHandlerHeld
  <2> QED  BY <2>1 DEF IInv, Passed
<1> QED  BY <1>2, <1>3, <1>4, <1>5, <1>6 DEF IInv

\* save_signal() for both signals comes before anything is changed.
LEMMA SaveInv == IInv /\ save_signal => IInv'
<1> SUFFICES ASSUME IInv, save_signal  PROVE IInv'
  OBVIOUS
<1>1. PICK fd \in Builds : Then("save", IF fd THEN "set" ELSE "assign")  BY DEF save_signal
<1>2. /\ dead = "no" /\ frames = <<>> /\ at = "save"
      /\ act' = [act EXCEPT ![Nth(k)] = handler[Nth(k)]]
      /\ UNCHANGED <<orig, frames, handler, blocked, registered, pending, sav, history, dead>>
  BY DEF save_signal, Main, kernel
<1>3. /\ k \in {1, 2} /\ handler \in [Signals -> Actions] /\ act \in [Signals -> Actions]
      /\ sav \in Actions /\ blocked \subseteq Signals /\ registered \subseteq Signals
  BY DEF IInv, Types, TypeOK, Actions
<1>4. Nth(k) \in Signals /\ \A s \in Signals : s = Nth(k) <=> Which(s) = k
  BY <1>3, NthWhich
<1>5. /\ k' \in {1, 2} /\ at' \in {"save", "set", "assign"}
      /\ (k = 1 /\ k' = 2 /\ at' = "save") \/ (k = 2 /\ k' = 1 /\ at' # "save")
  BY <1>1, <1>3 DEF Then
<1>6. act' \in [Signals -> Actions]  BY <1>2, <1>3, <1>4
<1>7. ASSUME NEW s \in Signals  PROVE Phase(s)'
  <2>1. handler[s] = orig[s] /\ (Which(s) < k => act[s] = orig[s])
    BY <1>2 DEF IInv, Phase
  <2>2. Which(s) \in {1, 2}  BY DEF Which
  <2>3. act'[s] = IF Which(s) = k THEN handler[s] ELSE act[s]  BY <1>2, <1>3, <1>4
  <2>4. k' = 2 => (Which(s) < 2 => act'[s] = orig[s])  BY <2>1, <2>2, <2>3, <1>5
  <2>5. k' = 1 => act'[s] = orig[s]  BY <2>1, <2>2, <2>3, <1>5, <1>3
  <2> QED  BY <2>1, <2>2, <2>4, <2>5, <1>2, <1>5 DEF Phase
<1> QED  BY <1>2, <1>3, <1>5, <1>6, <1>7, MainStep

\* act is lent to sigaction(): act and the kernel differ until it is called.
LEMMA SetActionInv == IInv /\ SetAction => IInv'
<1> SUFFICES ASSUME IInv, SetAction  PROVE IInv'
  OBVIOUS
<1>1. /\ dead = "no" /\ frames = <<>> /\ at = "assign" /\ at' = "install"
      /\ sav' = act[Nth(k)] /\ act' = [act EXCEPT ![Nth(k)] = "sig_handler"]
      /\ UNCHANGED <<orig, frames, handler, blocked, registered, pending, k, history, dead>>
  BY DEF SetAction, Main, kernel
<1>2. /\ k \in {1, 2} /\ handler \in [Signals -> Actions] /\ act \in [Signals -> Actions]
      /\ sav \in Actions /\ blocked \subseteq Signals /\ registered \subseteq Signals
  BY DEF IInv, Types, TypeOK, Actions
<1>3. Nth(k) \in Signals /\ \A s \in Signals : s = Nth(k) <=> Which(s) = k
  BY <1>2, NthWhich
<1>4. act' \in [Signals -> Actions] /\ sav' \in Actions  BY <1>1, <1>2, <1>3 DEF Actions
<1>5. ASSUME NEW s \in Signals  PROVE Phase(s)'
  <2>1. act[s] = orig[s] /\ handler[s] = IF Which(s) < k THEN "sig_handler" ELSE orig[s]
    BY <1>1 DEF IInv, Phase
  <2>2. act'[s] = IF Which(s) = k THEN "sig_handler" ELSE act[s]  BY <1>1, <1>2, <1>3
  <2>3. Which(s) = k => sav' = orig[s]  BY <2>1, <1>1, <1>3
  <2>4. Which(s) \in {1, 2}  BY DEF Which
  <2> QED  BY <2>1, <2>2, <2>3, <2>4, <1>1, <1>2 DEF Phase
<1> QED  BY <1>1, <1>2, <1>4, <1>5, MainStep

\* From sigaction() on sig_handler() would chain to itself ...
LEMMA InstallInv == IInv /\ Install => IInv'
<1> SUFFICES ASSUME IInv, Install  PROVE IInv'
  OBVIOUS
<1>1. /\ dead = "no" /\ frames = <<>> /\ at = "install" /\ at' = "restore"
      /\ handler' = [handler EXCEPT ![Nth(k)] = act[Nth(k)]]
      /\ UNCHANGED <<orig, frames, blocked, registered, pending, act, sav, k, history, dead>>
  BY DEF Install, Main
<1>2. /\ k \in {1, 2} /\ handler \in [Signals -> Actions] /\ act \in [Signals -> Actions]
      /\ sav \in Actions /\ blocked \subseteq Signals /\ registered \subseteq Signals
  BY DEF IInv, Types, TypeOK, Actions
<1>3. Nth(k) \in Signals /\ \A s \in Signals : s = Nth(k) <=> Which(s) = k
  BY <1>2, NthWhich
<1>4. handler' \in [Signals -> Actions]  BY <1>1, <1>2, <1>3
<1>5. ASSUME NEW s \in Signals  PROVE Phase(s)'
  <2>1. IF Which(s) = k
        THEN act[s] = "sig_handler" /\ sav = orig[s] /\ handler[s] = orig[s]
        ELSE act[s] = orig[s] /\ handler[s] = IF Which(s) < k THEN "sig_handler" ELSE orig[s]
    BY <1>1 DEF IInv, Phase
  <2>2. handler'[s] = IF Which(s) = k THEN act[s] ELSE handler[s]  BY <1>1, <1>2, <1>3
  <2> QED  BY <2>1, <2>2, <1>1 DEF Phase
<1> QED  BY <1>1, <1>2, <1>4, <1>5, MainStep

\* ... and from the statement after it to the action that was saved.
LEMMA RestoreInv == IInv /\ RestoreAction => IInv'
<1> SUFFICES ASSUME IInv, RestoreAction  PROVE IInv'
  OBVIOUS
<1>1. /\ dead = "no" /\ frames = <<>> /\ at = "restore" /\ Then("assign", "sleep")
      /\ act' = [act EXCEPT ![Nth(k)] = sav]
      /\ UNCHANGED <<orig, frames, handler, blocked, registered, pending, sav, history, dead>>
  BY DEF RestoreAction, Main, kernel
<1>2. /\ k \in {1, 2} /\ handler \in [Signals -> Actions] /\ act \in [Signals -> Actions]
      /\ sav \in Actions /\ blocked \subseteq Signals /\ registered \subseteq Signals
  BY DEF IInv, Types, TypeOK, Actions
<1>3. Nth(k) \in Signals /\ \A s \in Signals : s = Nth(k) <=> Which(s) = k
  BY <1>2, NthWhich
<1>4. /\ k' \in {1, 2} /\ at' \in {"assign", "sleep"}
      /\ (k = 1 /\ k' = 2 /\ at' = "assign") \/ (k = 2 /\ k' = 1 /\ at' = "sleep")
  BY <1>1, <1>2, ThenEffect
<1>5. act' \in [Signals -> Actions]  BY <1>1, <1>2, <1>3
<1>6. ASSUME NEW s \in Signals  PROVE Phase(s)'
  <2>1. IF Which(s) = k
        THEN sav = orig[s] /\ handler[s] = "sig_handler"
        ELSE act[s] = orig[s] /\ handler[s] = IF Which(s) < k THEN "sig_handler" ELSE orig[s]
    BY <1>1 DEF IInv, Phase
  <2>2. act'[s] = IF Which(s) = k THEN sav ELSE act[s]  BY <1>1, <1>2, <1>3
  <2>3. act'[s] = orig[s] /\ Which(s) \in {1, 2}  BY <2>1, <2>2 DEF Which
  <2>4. CASE k = 1 /\ k' = 2 /\ at' = "assign"
    BY <2>1, <2>3, <2>4, <1>1 DEF Phase
  <2>5. CASE k = 2 /\ k' = 1 /\ at' = "sleep"
    BY <2>1, <2>3, <2>5, <1>1 DEF Phase
  <2> QED  BY <2>4, <2>5, <1>4
<1> QED  BY <1>1, <1>2, <1>4, <1>5, <1>6, MainStep

LEMMA SleepReturnsInv == IInv /\ SleepReturns => IInv'
<1> SUFFICES ASSUME IInv, SleepReturns  PROVE IInv'
  OBVIOUS
<1>1. /\ dead = "no" /\ frames = <<>> /\ at \in {"sleep", "woken"} /\ at' = "end"
      /\ UNCHANGED <<orig, frames, handler, blocked, registered, pending, act, sav, k, history,
                     dead>>
  BY DEF SleepReturns, Main, kernel
<1>2. /\ k \in {1, 2} /\ handler \in [Signals -> Actions] /\ act \in [Signals -> Actions]
      /\ sav \in Actions /\ blocked \subseteq Signals /\ registered \subseteq Signals
  BY DEF IInv, Types, TypeOK, Actions
<1>3. \A s \in Signals : Phase(s)'  BY <1>1 DEF IInv, Phase
<1> QED  BY <1>1, <1>2, <1>3, MainStep

\* A signal of glibc's is registered, one with no handler is not.
LEMMA SignalSetInv == IInv /\ signal_set => IInv'
<1> SUFFICES ASSUME IInv, signal_set  PROVE IInv'
  OBVIOUS
<1>1. /\ dead = "no" /\ frames = <<>> /\ at = "set" /\ Then("set", "block")
      /\ registered' = IF act[Nth(k)] \in {"IGN", "DFL"} THEN registered
                       ELSE registered \cup {Nth(k)}
      /\ UNCHANGED <<orig, frames, handler, blocked, pending, act, sav, history, dead>>
  BY DEF signal_set, Main
<1>2. /\ k \in {1, 2} /\ handler \in [Signals -> Actions] /\ act \in [Signals -> Actions]
      /\ sav \in Actions /\ blocked \subseteq Signals /\ registered \subseteq Signals
  BY DEF IInv, Types, TypeOK, Actions
<1>3. Nth(k) \in Signals /\ \A s \in Signals : s = Nth(k) <=> Which(s) = k
  BY <1>2, NthWhich
<1>4. /\ k' \in {1, 2} /\ at' \in {"set", "block"}
      /\ (k = 1 /\ k' = 2 /\ at' = "set") \/ (k = 2 /\ k' = 1 /\ at' = "block")
  BY <1>1, <1>2, ThenEffect
<1>5. registered' \subseteq Signals  BY <1>1, <1>2, <1>3
<1>6. ASSUME NEW s \in Signals  PROVE Phase(s)'
  <2>1. /\ act[s] = orig[s] /\ handler[s] = orig[s]
        /\ orig[s] = "nptl" /\ Which(s) < k => s \in registered
    BY <1>1 DEF IInv, Phase
  <2>2. orig[s] = "nptl" /\ Which(s) = k => s \in registered'  BY <2>1, <1>1, <1>3
  <2>3. s \in registered => s \in registered'  BY <1>1
  <2>4. Which(s) \in {1, 2}  BY DEF Which
  <2>5. orig[s] = "nptl" /\ at' = "block" => s \in registered'
    BY <2>1, <2>2, <2>3, <2>4, <1>4
  <2>6. orig[s] = "nptl" /\ at' = "set" /\ Which(s) < k' => s \in registered'
    BY <2>1, <2>2, <2>3, <2>4, <1>4
  <2> QED  BY <2>1, <2>5, <2>6, <1>1, <1>4 DEF Phase
<1> QED  BY <1>1, <1>2, <1>4, <1>5, <1>6, MainStep

\* Both are blocked before either is ignored.
LEMMA SigprocmaskInv == IInv /\ our_sigprocmask => IInv'
<1> SUFFICES ASSUME IInv, our_sigprocmask  PROVE IInv'
  OBVIOUS
<1>1. /\ dead = "no" /\ frames = <<>> /\ at = "block" /\ at' = "ignore"
      /\ blocked' = blocked \cup registered
      /\ UNCHANGED <<orig, frames, handler, registered, pending, act, sav, k, history, dead>>
  BY DEF our_sigprocmask, Main
<1>2. /\ k \in {1, 2} /\ handler \in [Signals -> Actions] /\ act \in [Signals -> Actions]
      /\ sav \in Actions /\ blocked' \subseteq Signals /\ registered \subseteq Signals
  BY <1>1 DEF IInv, Types, TypeOK, Actions
<1>3. \A s \in Signals : Phase(s)'  BY <1>1 DEF IInv, Phase
<1> QED  BY <1>1, <1>2, <1>3, MainStep

LEMMA Prefix ==
  ASSUME NEW x \in Seq(Info), NEW n \in Nat, n <= Len(x)
  PROVE  SubSeq(x, 1, n) \in Seq(Info) /\ Len(SubSeq(x, 1, n)) = n
OBVIOUS

LEMMA Difference ==
  ASSUME NEW a \in Nat, NEW b \in Nat, b <= a
  PROVE  a - b \in Nat /\ a - b <= a
OBVIOUS

LEMMA Moved ==
  ASSUME NEW a \in Int, NEW b \in Int, NEW c \in Int, NEW m \in Int, NEW n \in Int,
         a + b + c <= n
  PROVE  (a - m) + b + (c + m) <= n /\ a + (b - m) + (c + m) <= n
OBVIOUS

LEMMA OneMore ==
  ASSUME NEW a \in Int, NEW b \in Int, NEW c \in Int, NEW n \in Int, a + b + c < n
  PROVE  (a + 1) + b + c <= n /\ a + (b + 1) + c <= n
OBVIOUS

LEMMA Within ==
  ASSUME NEW a \in Nat, NEW b \in Nat, NEW c \in Nat, NEW n \in Nat, a + b + c <= n
  PROVE  c \in 0..n
OBVIOUS

\* SIG_IGN: what is discarded was queued, and is counted as lost.
LEMMA IgnoreInv == IInv /\ Ignore => IInv'
<1> SUFFICES ASSUME IInv, Ignore  PROVE IInv'
  OBVIOUS
<1> DEFINE c == Nth(k)
           m == Len(pending[c])
<1>1. /\ dead = "no" /\ frames = <<>> /\ at = "ignore" /\ Then("ignore", "run")
      /\ handler' = [handler EXCEPT ![c] = "IGN"]
      /\ pending' = [pending EXCEPT ![c] = <<>>]
      /\ sent' = [sent EXCEPT ![c] = SubSeq(sent[c], 1, Len(sent[c]) - m)]
      /\ lost' = lost + m
      /\ UNCHANGED <<orig, frames, blocked, registered, act, sav, seen, dead>>
  BY DEF Ignore, Main
<1>2. /\ k \in {1, 2} /\ handler \in [Signals -> Actions] /\ act \in [Signals -> Actions]
      /\ sav \in Actions /\ blocked \subseteq Signals /\ registered \subseteq Signals
  BY DEF IInv, Types, TypeOK, Actions
<1>3. c \in Signals  BY <1>2, NthWhich
<1>4. k' \in {1, 2} /\ at' \in {"ignore", "run"}  BY <1>1, <1>2, ThenEffect
<1>5. /\ pending \in [Signals -> Seq(Info)] /\ sent \in [Signals -> Seq(Info)]
      /\ seen \in [Signals -> Seq(Info)] /\ lost \in 0..MaxSent
  BY DEF IInv, Types, TypeOK
<1> HIDE DEF c
<1>6. /\ pending[c] \in Seq(Info) /\ sent[c] \in Seq(Info) /\ m \in Nat
      /\ Len(sent[c]) \in Nat /\ m <= Len(sent[c])
  BY <1>3, <1>5 DEF IInv, Counted
<1> DEFINE q == SubSeq(sent[c], 1, Len(sent[c]) - m)
<1>7. q \in Seq(Info) /\ Len(q) = Len(sent[c]) - m
  <2> DEFINE n == Len(sent[c]) - m
  <2>1. n \in Nat /\ n <= Len(sent[c])
    <3>1. m \in Nat /\ Len(sent[c]) \in Nat /\ m <= Len(sent[c])  BY <1>6
    <3> HIDE DEF m
    <3> QED  BY <3>1, Difference
  <2> HIDE DEF n
  <2>2. SubSeq(sent[c], 1, n) \in Seq(Info) /\ Len(SubSeq(sent[c], 1, n)) = n
    BY <2>1, <1>6, Prefix
  <2> QED  BY <2>2 DEF n
<1>8. /\ handler' \in [Signals -> Actions] /\ pending' \in [Signals -> Seq(Info)]
      /\ sent' \in [Signals -> Seq(Info)]
  <2>1. <<>> \in Seq(Info)  OBVIOUS
  <2>2. pending' \in [Signals -> Seq(Info)]  BY <2>1, <1>1, <1>5
  <2>3. sent' \in [Signals -> Seq(Info)]  BY <1>7, <1>1, <1>5
  <2> QED  BY <2>2, <2>3, <1>1, <1>2 DEF Actions
<1>9. /\ pending'[c] = <<>> /\ sent'[c] = q
      /\ \A s \in Signals \ {c} : pending'[s] = pending[s] /\ sent'[s] = sent[s]
  BY <1>1, <1>3, <1>5
<1> HIDE DEF q, m
<1>10. Counted'
  <2>1. \A s \in Signals : Len(pending'[s]) <= Len(sent'[s])
    BY <1>6, <1>7, <1>9 DEF IInv, Counted
  <2>2. Len(sent["SIGCANCEL"]) + Len(sent["SIGSETXID"]) + lost <= MaxSent
    BY DEF IInv, Counted
  <2>3. Len(sent["SIGCANCEL"]) \in Int /\ Len(sent["SIGSETXID"]) \in Int
    BY <1>5 DEF Signals
  <2>4. lost' = lost + m /\ lost \in Int /\ m \in Int /\ MaxSent \in Int
    BY <1>1, <1>5, <1>6, ConstantsAssumption
  <2>5. Len(sent'["SIGCANCEL"]) + Len(sent'["SIGSETXID"]) + lost' <= MaxSent
    <3>1. CASE c = "SIGCANCEL"
      <4>1. sent'["SIGSETXID"] = sent["SIGSETXID"]  BY <3>1, <1>9 DEF Signals
      <4>2. Len(sent'["SIGCANCEL"]) = Len(sent["SIGCANCEL"]) - m  BY <3>1, <1>7, <1>9
      <4> QED  BY <4>1, <4>2, <2>2, <2>3, <2>4, Moved
    <3>2. CASE c = "SIGSETXID"
      <4>1. sent'["SIGCANCEL"] = sent["SIGCANCEL"]  BY <3>2, <1>9 DEF Signals
      <4>2. Len(sent'["SIGSETXID"]) = Len(sent["SIGSETXID"]) - m  BY <3>2, <1>7, <1>9
      <4> QED  BY <4>1, <4>2, <2>2, <2>3, <2>4, Moved
    <3> QED  BY <3>1, <3>2, <1>3 DEF Signals
  <2> QED  BY <2>1, <2>5 DEF Counted
<1>11. lost' \in 0..MaxSent
  <2>1. /\ Len(sent'["SIGCANCEL"]) \in Nat /\ Len(sent'["SIGSETXID"]) \in Nat
    BY <1>8 DEF Signals
  <2>2. Len(sent'["SIGCANCEL"]) + Len(sent'["SIGSETXID"]) + lost' <= MaxSent
    BY <1>10 DEF Counted
  <2>3. lost' \in Nat  BY <1>1, <1>5, <1>6, ConstantsAssumption
  <2>4. MaxSent \in Nat  BY ConstantsAssumption
  <2> QED  BY <2>1, <2>2, <2>3, <2>4, Within
<1>12. TypeOK'
  <2>1. \A a, n \in 1..Len(frames') : frames'[a].sig = frames'[n].sig => a = n
    BY <1>1 DEF IInv, Types, TypeOK
  <2>2. dead' \in {"no", "default", "noframe", "badcall", "overflow"}  BY <1>1
  <2> QED  BY <2>1, <2>2, <1>1, <1>2, <1>4, <1>8, <1>11 DEF TypeOK, Actions
<1>13. Types'  BY <1>1, <1>8, <1>12 DEF IInv, Types
<1>14. ASSUME NEW s \in Signals  PROVE Phase(s)'
  <2>1. handler'[s] \in {handler[s], "IGN"}  BY <1>1, <1>2
  <2> QED  BY <2>1, <1>1, <1>4 DEF IInv, Phase
<1>15. Framed'  BY <1>1 DEF Framed
<1>16. DiesOnlyInWindow'  BY <1>1 DEF DiesOnlyInWindow
<1>17. Passed'
  <2> SUFFICES ASSUME NEW s \in Signals, orig[s] = "nptl"
               PROVE  Agree(sent'[s], seen[s] \o InHandler(s)' \o pending'[s])
    BY <1>1 DEF Passed
  <2>1. InHandler(s)' = <<>> /\ InHandler(s) = <<>>
    <3>1. ~Runs(frames, s) /\ ~Runs(frames', s)  BY <1>1 DEF Runs
    <3> QED  BY <3>1, InHandlerHeld, HeldNone
  <2>2. Agree(sent[s], seen[s] \o <<>> \o pending[s])  BY <2>1, <1>1 DEF IInv, Passed
  <2>3. CASE s = c
    <3>1. seen[s] \in Seq(Info)  BY <1>5
    <3>2. Agree(q, seen[s] \o <<>> \o <<>>)
      BY <2>2, <2>3, <3>1, <1>6, DroppedAgrees DEF q, m
    <3> QED  BY <2>1, <2>3, <3>2, <1>9
  <2>4. CASE s # c  BY <2>1, <2>2, <2>4, <1>9
  <2> QED  BY <2>3, <2>4
<1> QED  BY <1>10, <1>13, <1>14, <1>15, <1>16, <1>17 DEF IInv

-----------------------------------------------------------------------------
(* The signals. *)

\* What may handle a signal, and what signal_chain() would then call.
LEMMA HandlerKinds ==
  ASSUME IInv, NEW s \in Signals
  PROVE  /\ handler[s] \in {orig[s], "sig_handler", "IGN"} /\ orig[s] # "sig_handler"
         /\ orig[s] = "nptl" /\ handler[s] = "IGN" => s \in blocked
         /\ handler[s] = "sig_handler" =>
              act[s] = orig[s] \/ (at = "restore" /\ act[s] = "sig_handler")
         /\ at = "run" => act[s] = orig[s] /\ (orig[s] = "nptl" => s \in blocked)
<1>1. orig[s] \in {"nptl", "DFL", "IGN"}  BY DEF IInv, Types
<1>2. at \in {"save", "assign", "install", "restore", "sleep", "woken", "end",
              "set", "block", "ignore", "run"}
  BY DEF IInv, Types, TypeOK
<1>3. Phase(s)  BY DEF IInv
<1> QED  BY <1>1, <1>2, <1>3 DEF Phase

\* A step of the signals: what main() has set up stays as it is.
LEMMA SignalStep ==
  ASSUME IInv, UNCHANGED <<orig, kernel, act, sav, k>>,
         at' = at \/ (at = "sleep" /\ at' = "woken"),
         pending' \in [Signals -> Seq(Info)], sent' \in [Signals -> Seq(Info)],
         seen' \in [Signals -> Seq(Info)], frames' \in Seq(Frame), Apart(frames'),
         lost' \in 0..MaxSent,
         dead' \in {"no", "default", "noframe", "badcall", "overflow"},
         Framed', Counted', DiesOnlyInWindow', Passed'
  PROVE  IInv'
<1> USE DEF kernel
<1>1. at' \in {"save", "assign", "install", "restore", "sleep", "woken", "end",
               "set", "block", "ignore", "run"}
  BY DEF IInv, Types, TypeOK
<1>2. TypeOK'  BY <1>1 DEF IInv, Types, TypeOK, Apart
<1>3. Types'  BY <1>2 DEF IInv, Types, Frame
<1>4. \A s \in Signals : Phase(s)'  BY DEF IInv, Phase
<1> QED  BY <1>3, <1>4 DEF IInv

\* The types of the variables that signals change.
LEMMA SignalTypes ==
  ASSUME IInv
  PROVE  /\ orig \in [Signals -> {"nptl", "DFL", "IGN"}]
         /\ pending \in [Signals -> Seq(Info)]
         /\ sent \in [Signals -> Seq(Info)] /\ seen \in [Signals -> Seq(Info)]
         /\ frames \in Seq(Frame) /\ Apart(frames) /\ lost \in 0..MaxSent
         /\ dead \in {"no", "default", "noframe", "badcall", "overflow"}
BY DEF IInv, Types, TypeOK, Frame, Apart

LEMMA SendInv ==
  ASSUME IInv, NEW s \in Signals, NEW e \in Info, Send(s, e)
  PROVE  IInv'
<1>1. /\ dead = "no"
      /\ Len(sent["SIGCANCEL"]) + Len(sent["SIGSETXID"]) + lost < MaxSent
      /\ pending' = [pending EXCEPT ![s] = Append(pending[s], e)]
      /\ sent' = [sent EXCEPT ![s] = Append(sent[s], e)]
      /\ UNCHANGED <<orig, kernel, act, sav, at, k, frames, seen, lost, dead>>
  BY DEF Send, main_
<1>2. /\ pending \in [Signals -> Seq(Info)]
      /\ sent \in [Signals -> Seq(Info)] /\ seen \in [Signals -> Seq(Info)]
      /\ frames \in Seq(Frame) /\ Apart(frames) /\ lost \in 0..MaxSent
  BY SignalTypes
<1>3. /\ pending[s] \in Seq(Info) /\ sent[s] \in Seq(Info)
      /\ Append(pending[s], e) \in Seq(Info) /\ Append(sent[s], e) \in Seq(Info)
      /\ Len(Append(pending[s], e)) = Len(pending[s]) + 1
      /\ Len(Append(sent[s], e)) = Len(sent[s]) + 1
  BY <1>2
<1>4. pending' \in [Signals -> Seq(Info)] /\ sent' \in [Signals -> Seq(Info)]
  BY <1>1, <1>2, <1>3
<1>5. /\ pending'[s] = Append(pending[s], e) /\ sent'[s] = Append(sent[s], e)
      /\ \A r \in Signals \ {s} : pending'[r] = pending[r] /\ sent'[r] = sent[r]
  BY <1>1, <1>2
<1>6. Counted'
  <2>1. ASSUME NEW r \in Signals  PROVE Len(pending'[r]) <= Len(sent'[r])
    <3>1. Len(pending[r]) <= Len(sent[r])  BY DEF IInv, Counted
    <3>2. Len(pending[r]) \in Nat /\ Len(sent[r]) \in Nat  BY <1>2
    <3>3. CASE r = s
      <4>1. Len(pending'[r]) = Len(pending[r]) + 1 /\ Len(sent'[r]) = Len(sent[r]) + 1
        BY <3>3, <1>3, <1>5
      <4> QED  BY <4>1, <3>1, <3>2
    <3>4. CASE r # s  BY <3>4, <3>1, <1>5
    <3> QED  BY <3>3, <3>4
  <2>2. /\ Len(sent["SIGCANCEL"]) \in Int /\ Len(sent["SIGSETXID"]) \in Int
        /\ lost \in Int /\ lost' = lost /\ MaxSent \in Int
    BY <1>1, <1>2, ConstantsAssumption DEF Signals
  <2>3. Len(sent'["SIGCANCEL"]) + Len(sent'["SIGSETXID"]) + lost' <= MaxSent
    <3>1. CASE s = "SIGCANCEL"
      <4>1. Len(sent'["SIGCANCEL"]) = Len(sent["SIGCANCEL"]) + 1  BY <3>1, <1>3, <1>5
      <4>2. sent'["SIGSETXID"] = sent["SIGSETXID"]  BY <3>1, <1>5 DEF Signals
      <4>3. Len(sent["SIGCANCEL"]) + Len(sent["SIGSETXID"]) + lost < MaxSent  BY <1>1
      <4> QED  BY <4>1, <4>2, <4>3, <2>2, OneMore
    <3>2. CASE s = "SIGSETXID"
      <4>1. Len(sent'["SIGSETXID"]) = Len(sent["SIGSETXID"]) + 1  BY <3>2, <1>3, <1>5
      <4>2. sent'["SIGCANCEL"] = sent["SIGCANCEL"]  BY <3>2, <1>5 DEF Signals
      <4>3. Len(sent["SIGCANCEL"]) + Len(sent["SIGSETXID"]) + lost < MaxSent  BY <1>1
      <4> QED  BY <4>1, <4>2, <4>3, <2>2, OneMore
    <3> QED  BY <3>1, <3>2 DEF Signals
  <2> QED  BY <2>1, <2>3 DEF Counted
<1>7. Framed'  BY <1>1 DEF IInv, Framed, kernel
<1>8. DiesOnlyInWindow'  BY <1>1 DEF DiesOnlyInWindow
<1>9. Passed'
  <2> SUFFICES ASSUME NEW r \in Signals, orig[r] = "nptl"
               PROVE  Agree(sent'[r], seen[r] \o InHandler(r)' \o pending'[r])
    BY <1>1 DEF Passed
  <2>1. InHandler(r)' = InHandler(r)  BY <1>1, InHandlerHeld
  <2>2. Agree(sent[r], seen[r] \o InHandler(r) \o pending[r])  BY <1>1 DEF IInv, Passed
  <2>3. CASE r = s
    <3>1. InHandler(s) \in Seq(Info)
      <4>1. CASE Runs(frames, s)
        <5>1. PICK n \in 1..Len(frames) : frames[n].sig = s  BY <4>1 DEF Runs
        <5>2. Held(frames, frames[n].sig) = <<frames[n].info>>  BY <1>2, HeldOne
        <5>3. frames[n] \in Frame  BY <1>2
        <5>4. frames[n].info \in Info  BY <5>3 DEF Frame
        <5>5. InHandler(s) = <<frames[n].info>>  BY <5>1, <5>2, InHandlerHeld
        <5> QED  BY <5>4, <5>5
      <4>2. CASE ~Runs(frames, s)
        <5>1. InHandler(s) = <<>>  BY <4>2, HeldNone, InHandlerHeld
        <5> QED  BY <5>1
      <4> QED  BY <4>1, <4>2
    <3>2. seen[s] \in Seq(Info)  BY <1>2
    <3>3. Agree(Append(sent[s], e), seen[s] \o InHandler(s) \o Append(pending[s], e))
      BY <2>2, <2>3, <3>1, <3>2, <1>3, SentAgrees
    <3> QED  BY <2>1, <2>3, <3>3, <1>5
  <2>4. CASE r # s  BY <2>1, <2>2, <2>4, <1>5
  <2> QED  BY <2>3, <2>4
<1>10. UNCHANGED <<orig, kernel, act, sav, k>> /\ at' = at  BY <1>1
<1>11. /\ seen' \in [Signals -> Seq(Info)] /\ frames' \in Seq(Frame) /\ Apart(frames')
       /\ lost' \in 0..MaxSent
       /\ dead' \in {"no", "default", "noframe", "badcall", "overflow"}
  BY <1>1, <1>2
<1> QED  BY <1>4, <1>6, <1>7, <1>8, <1>9, <1>10, <1>11, SignalStep

\* Taking the head of a signal's queue.
LEMMA TakeHead ==
  ASSUME IInv, NEW s \in Signals, pending[s] # <<>>,
         pending' = [pending EXCEPT ![s] = Tail(pending[s])], UNCHANGED <<sent, lost>>
  PROVE  /\ Head(pending[s]) \in Info /\ pending' \in [Signals -> Seq(Info)]
         /\ pending'[s] = Tail(pending[s])
         /\ \A r \in Signals \ {s} : pending'[r] = pending[r]
         /\ sent' \in [Signals -> Seq(Info)] /\ lost' \in 0..MaxSent
         /\ Counted'
<1>1. /\ pending \in [Signals -> Seq(Info)] /\ sent \in [Signals -> Seq(Info)]
      /\ lost \in 0..MaxSent
  BY SignalTypes
<1>2. /\ Head(pending[s]) \in Info /\ Tail(pending[s]) \in Seq(Info)
      /\ Len(Tail(pending[s])) = Len(pending[s]) - 1 /\ Len(pending[s]) \in Nat
  BY <1>1
<1>3. /\ pending' \in [Signals -> Seq(Info)] /\ pending'[s] = Tail(pending[s])
      /\ \A r \in Signals \ {s} : pending'[r] = pending[r]
  BY <1>1, <1>2
<1>4. Counted'
  <2>1. ASSUME NEW r \in Signals  PROVE Len(pending'[r]) <= Len(sent'[r])
    <3>1. Len(pending[r]) <= Len(sent[r]) /\ Len(sent[r]) \in Nat
      BY <1>1 DEF IInv, Counted
    <3>2. CASE r = s
      <4>1. Len(pending'[r]) = Len(pending[r]) - 1 /\ Len(pending[r]) \in Nat
        BY <3>2, <1>2, <1>3
      <4> QED  BY <4>1, <3>1
    <3>3. CASE r # s  BY <3>3, <3>1, <1>3
    <3> QED  BY <3>2, <3>3
  <2> QED  BY <2>1 DEF IInv, Counted
<1> QED  BY <1>1, <1>2, <1>3, <1>4

\* The head of the queue, or a copy glibc does not tell from it, goes to glibc.
LEMMA QueueToGlibc ==
  ASSUME NEW x \in Seq(Info), NEW a \in Seq(Info), NEW q \in Seq(Info), q # <<>>,
         NEW f \in Info, Acts(Head(q)) <=> Acts(f), Agree(x, a \o <<>> \o q)
  PROVE  Agree(x, Append(a, f) \o <<>> \o Tail(q))
<1>1. Agree(x, a \o <<Head(q)>> \o Tail(q))  BY ToHandler
<1>2. Head(q) \in Info /\ Tail(q) \in Seq(Info)  OBVIOUS
<1>3. Agree(a \o <<Head(q)>> \o Tail(q), Append(a, f) \o <<>> \o Tail(q))
  BY <1>2, ToGlibc
<1> QED  BY <1>1, <1>3, AgreeTrans

LEMMA NoneHeld ==
  ASSUME NEW s, ~Running(s)
  PROVE  InHandler(s) = <<>> /\ ~Runs(frames, s)
BY InHandlerHeld, HeldNone DEF Running, Runs

\* The kernel does what the action of a signal says.
LEMMA DeliverInv ==
  ASSUME IInv, NEW s \in Signals, Deliver(s)
  PROVE  IInv'
<1> DEFINE e == Head(pending[s])
           f == [sig |-> s, info |-> e]
<1>1. /\ dead = "no" /\ pending[s] # <<>> /\ s \notin blocked /\ ~Running(s)
      /\ pending' = [pending EXCEPT ![s] = Tail(pending[s])]
      /\ UNCHANGED <<orig, kernel, act, sav, k, sent, lost>>
  BY DEF Deliver
<1>2. /\ e \in Info /\ pending' \in [Signals -> Seq(Info)]
      /\ pending'[s] = Tail(pending[s])
      /\ \A r \in Signals \ {s} : pending'[r] = pending[r]
      /\ sent' \in [Signals -> Seq(Info)] /\ lost' \in 0..MaxSent
      /\ Counted'
  BY <1>1, TakeHead
<1>3. /\ pending \in [Signals -> Seq(Info)] /\ sent \in [Signals -> Seq(Info)]
      /\ seen \in [Signals -> Seq(Info)] /\ frames \in Seq(Frame) /\ Apart(frames)
  BY SignalTypes
<1>4. /\ handler[s] \in {orig[s], "sig_handler", "IGN"} /\ orig[s] # "sig_handler"
      /\ handler[s] = "IGN" => orig[s] # "nptl"
  BY <1>1, HandlerKinds
<1>5. InHandler(s) = <<>> /\ ~Runs(frames, s)  BY <1>1, NoneHeld
<1>6. \A r \in Signals : orig[r] = "nptl" =>
        Agree(sent[r], seen[r] \o InHandler(r) \o pending[r])
  BY <1>1 DEF IInv, Passed
<1>7. CASE /\ handler[s] = "nptl" /\ seen' = [seen EXCEPT ![s] = Append(seen[s], e)]
           /\ UNCHANGED <<frames, at, dead>>
  <2>1. Append(seen[s], e) \in Seq(Info)  BY <1>2, <1>3
  <2>2. /\ seen' \in [Signals -> Seq(Info)] /\ seen'[s] = Append(seen[s], e)
        /\ \A r \in Signals \ {s} : seen'[r] = seen[r]
    BY <2>1, <1>3, <1>7
  <2>3. Passed'
    <3> SUFFICES ASSUME NEW r \in Signals, orig[r] = "nptl"
                 PROVE  Agree(sent[r], seen'[r] \o InHandler(r)' \o pending'[r])
      BY <1>1 DEF Passed
    <3>1. InHandler(r)' = InHandler(r)  BY <1>7, InHandlerHeld
    <3>2. CASE r = s
      <4>1. Agree(sent[s], seen[s] \o <<>> \o pending[s])  BY <3>2, <1>5, <1>6
      <4>2. sent[s] \in Seq(Info) /\ seen[s] \in Seq(Info) /\ pending[s] \in Seq(Info)
        BY <1>3
      <4>3. Agree(sent[s], Append(seen[s], e) \o <<>> \o Tail(pending[s]))
        BY <4>1, <4>2, <1>1, <1>2, QueueToGlibc
      <4> QED  BY <4>3, <3>1, <3>2, <2>2, <1>2, <1>5
    <3>3. CASE r # s  BY <3>1, <3>3, <2>2, <1>2, <1>6
    <3> QED  BY <3>2, <3>3
  <2>4. Framed' /\ DiesOnlyInWindow'
    BY <1>1, <1>7 DEF IInv, Framed, DiesOnlyInWindow, kernel
  <2>5. /\ frames' \in Seq(Frame) /\ Apart(frames') /\ at' = at
        /\ dead' \in {"no", "default", "noframe", "badcall", "overflow"}
    BY <1>1, <1>3, <1>7
  <2> QED  BY <2>2, <2>3, <2>4, <2>5, <1>1, <1>2, SignalStep
<1>8. CASE /\ (handler[s] = "DFL" /\ dead' = "default") \/ (orig[s] # "nptl" /\ dead' = "noframe")
           /\ UNCHANGED <<frames, seen, at>>
  <2>1. orig[s] # "nptl" /\ dead' \in {"default", "noframe"}  BY <1>4, <1>8
  <2>2. Passed'  BY <2>1 DEF Passed
  <2>3. Framed' /\ DiesOnlyInWindow'
    BY <2>1, <1>1, <1>8 DEF IInv, Framed, DiesOnlyInWindow, kernel
  <2>4. /\ frames' \in Seq(Frame) /\ Apart(frames') /\ at' = at
        /\ seen' \in [Signals -> Seq(Info)]
        /\ dead' \in {"no", "default", "noframe", "badcall", "overflow"}
    BY <2>1, <1>3, <1>8
  <2> QED  BY <2>2, <2>3, <2>4, <1>1, <1>2, SignalStep
<1>9. CASE handler[s] = "IGN" /\ UNCHANGED <<frames, seen, at, dead>>
  <2>1. Passed'
    <3> SUFFICES ASSUME NEW r \in Signals, orig[r] = "nptl"
                 PROVE  Agree(sent[r], seen[r] \o InHandler(r)' \o pending'[r])
      BY <1>1, <1>9 DEF Passed
    <3>1. InHandler(r)' = InHandler(r)  BY <1>9, InHandlerHeld
    <3>2. r # s  BY <1>4, <1>9
    <3> QED  BY <3>1, <3>2, <1>2, <1>6
  <2>2. Framed' /\ DiesOnlyInWindow'
    BY <1>1, <1>9 DEF IInv, Framed, DiesOnlyInWindow, kernel
  <2>3. /\ frames' \in Seq(Frame) /\ Apart(frames') /\ at' = at
        /\ seen' \in [Signals -> Seq(Info)]
        /\ dead' \in {"no", "default", "noframe", "badcall", "overflow"}
    BY <1>1, <1>3, <1>9
  <2> QED  BY <2>1, <2>2, <2>3, <1>1, <1>2, SignalStep
<1>10. CASE /\ handler[s] = "sig_handler" /\ frames' = Append(frames, f)
            /\ at' = (IF at = "sleep" THEN "woken" ELSE at)
            /\ UNCHANGED <<seen, dead>>
  <2>1. f \in Frame /\ f.sig = s /\ f.info = e  BY <1>2 DEF Frame
  <2> HIDE DEF f
  <2>2. /\ frames' \in Seq(Frame) /\ Apart(frames')
        /\ Held(frames', s) = <<e>>
        /\ \A r \in Signals \ {s} : Held(frames', r) = Held(frames, r)
        /\ \A n \in 1..Len(frames') :
             frames'[n] = f \/ \E m \in 1..Len(frames) : frames'[n] = frames[m]
    BY <2>1, <1>3, <1>5, <1>10, PushFrame
  <2>3. Framed'
    <3>1. handler' = handler  BY <1>1 DEF kernel
    <3> QED  BY <3>1, <2>1, <2>2, <1>10 DEF IInv, Framed
  <2>4. Passed'
    <3> SUFFICES ASSUME NEW r \in Signals, orig[r] = "nptl"
                 PROVE  Agree(sent[r], seen[r] \o InHandler(r)' \o pending'[r])
      BY <1>1, <1>10 DEF Passed
    <3>1. CASE r = s
      <4>1. Agree(sent[s], seen[s] \o <<>> \o pending[s])  BY <3>1, <1>5, <1>6
      <4>2. seen[s] \in Seq(Info) /\ pending[s] \in Seq(Info)  BY <1>3
      <4>3. Agree(sent[s], seen[s] \o <<e>> \o Tail(pending[s]))
        BY <4>1, <4>2, <1>1, ToHandler
      <4> QED  BY <4>3, <3>1, <2>2, <1>2, InHandlerHeld
    <3>2. CASE r # s
      <4>1. InHandler(r)' = InHandler(r)  BY <3>2, <2>2, InHandlerHeld
      <4> QED  BY <4>1, <3>2, <1>2, <1>6
    <3> QED  BY <3>1, <3>2
  <2>5. DiesOnlyInWindow'  BY <1>1, <1>10 DEF DiesOnlyInWindow
  <2>6. /\ at' = at \/ (at = "sleep" /\ at' = "woken")
        /\ seen' \in [Signals -> Seq(Info)]
        /\ dead' \in {"no", "default", "noframe", "badcall", "overflow"}
    BY <1>1, <1>3, <1>10
  <2> QED  BY <2>2, <2>3, <2>4, <2>5, <2>6, <1>1, <1>2, SignalStep
<1> QED  BY <1>7, <1>8, <1>9, <1>10 DEF Deliver

\* sig_handler() chains to what the action was when main() started, except at
\* "restore", where it calls itself.
LEMMA SigHandlerInv == IInv /\ sig_handler => IInv'
<1> SUFFICES ASSUME IInv, sig_handler  PROVE IInv'
  OBVIOUS
<1> DEFINE f == frames[Len(frames)]
           s == f.sig
<1>1. /\ dead = "no" /\ frames # <<>> /\ signal_chain(s, f.info)
      /\ frames' = SubSeq(frames, 1, Len(frames) - 1)
      /\ UNCHANGED <<orig, kernel, pending, act, sav, at, k, sent, lost>>
  BY DEF sig_handler, main_
<1>2. /\ pending \in [Signals -> Seq(Info)] /\ sent \in [Signals -> Seq(Info)]
      /\ seen \in [Signals -> Seq(Info)] /\ frames \in Seq(Frame) /\ Apart(frames)
      /\ lost \in 0..MaxSent
  BY SignalTypes
<1>3. /\ f \in Frame /\ Len(frames) \in 1..Len(frames)
      /\ frames' \in Seq(Frame) /\ Apart(frames')
      /\ Held(frames, s) = <<f.info>> /\ Held(frames', s) = <<>>
      /\ \A r \in Signals \ {s} : Held(frames', r) = Held(frames, r)
      /\ \A n \in 1..Len(frames') : n \in 1..Len(frames) /\ frames'[n] = frames[n]
  BY <1>1, <1>2, PopFrame
<1>4. s \in Signals /\ f.info \in Info  BY <1>3 DEF Frame
<1>5. handler[s] = "sig_handler"  BY <1>3 DEF IInv, Framed
<1> HIDE DEF f
<1>6. orig[s] # "sig_handler" /\ (act[s] = orig[s] \/ (at = "restore" /\ act[s] = "sig_handler"))
  BY <1>4, <1>5, HandlerKinds
<1>7. Framed'  BY <1>1, <1>3 DEF IInv, Framed, kernel
<1>8. Counted'  BY <1>1 DEF IInv, Counted
<1>9. \A r \in Signals : orig[r] = "nptl" =>
        Agree(sent[r], seen[r] \o InHandler(r) \o pending[r])
  BY <1>1 DEF IInv, Passed
<1>10. \A r \in Signals \ {s} : InHandler(r)' = InHandler(r)  BY <1>3, InHandlerHeld
<1>11. /\ UNCHANGED <<orig, kernel, act, sav, k>> /\ at' = at /\ lost' \in 0..MaxSent
       /\ pending' \in [Signals -> Seq(Info)] /\ sent' \in [Signals -> Seq(Info)]
  BY <1>1, <1>2
<1>12. CASE act[s] = "DFL" /\ UNCHANGED <<seen, dead>>
  <2>1. \A r \in Signals : orig[r] = "nptl" => r # s  BY <1>6, <1>12
  <2>2. Passed'  BY <2>1, <1>1, <1>9, <1>10, <1>12 DEF Passed
  <2>3. /\ DiesOnlyInWindow' /\ seen' \in [Signals -> Seq(Info)]
        /\ dead' \in {"no", "default", "noframe", "badcall", "overflow"}
    BY <1>1, <1>2, <1>12 DEF DiesOnlyInWindow
  <2> QED  BY <2>2, <2>3, <1>3, <1>7, <1>8, <1>11, SignalStep
<1>13. CASE /\ act[s] = "nptl" /\ seen' = [seen EXCEPT ![s] = Append(seen[s], f.info)]
            /\ UNCHANGED dead
  <2>1. Append(seen[s], f.info) \in Seq(Info)  BY <1>2, <1>4
  <2>2. /\ seen' \in [Signals -> Seq(Info)] /\ seen'[s] = Append(seen[s], f.info)
        /\ \A r \in Signals \ {s} : seen'[r] = seen[r]
    BY <2>1, <1>2, <1>4, <1>13
  <2>3. Passed'
    <3> SUFFICES ASSUME NEW r \in Signals, orig[r] = "nptl"
                 PROVE  Agree(sent[r], seen'[r] \o InHandler(r)' \o pending[r])
      BY <1>1 DEF Passed
    <3>1. CASE r = s
      <4>1. Agree(sent[s], seen[s] \o <<f.info>> \o pending[s])
        BY <3>1, <1>3, <1>9, InHandlerHeld
      <4>2. sent[s] \in Seq(Info) /\ seen[s] \in Seq(Info) /\ pending[s] \in Seq(Info)
        BY <1>2, <1>4
      <4>3. Agree(seen[s] \o <<f.info>> \o pending[s],
                  Append(seen[s], f.info) \o <<>> \o pending[s])
        BY <4>2, <1>4, ToGlibc
      <4>4. Agree(sent[s], Append(seen[s], f.info) \o <<>> \o pending[s])
        BY <4>1, <4>2, <4>3, AgreeTrans
      <4> QED  BY <4>4, <3>1, <2>2, <1>3, InHandlerHeld
    <3>2. CASE r # s  BY <3>2, <2>2, <1>9, <1>10
    <3> QED  BY <3>1, <3>2
  <2>4. /\ DiesOnlyInWindow'
        /\ dead' \in {"no", "default", "noframe", "badcall", "overflow"}
    BY <1>1, <1>13 DEF DiesOnlyInWindow
  <2> QED  BY <2>2, <2>3, <2>4, <1>3, <1>7, <1>8, <1>11, SignalStep
<1>14. CASE act[s] = "IGN" /\ dead' = "badcall" /\ UNCHANGED seen
  <2>1. orig[s] # "nptl"  BY <1>6, <1>14
  <2>2. Passed' /\ DiesOnlyInWindow'
    BY <2>1, <1>1, <1>4, <1>14 DEF Passed, DiesOnlyInWindow
  <2>3. /\ seen' \in [Signals -> Seq(Info)]
        /\ dead' \in {"no", "default", "noframe", "badcall", "overflow"}
    BY <1>2, <1>14
  <2> QED  BY <2>2, <2>3, <1>3, <1>7, <1>8, <1>11, SignalStep
<1>15. CASE act[s] = "sig_handler" /\ dead' = "overflow" /\ UNCHANGED seen
  <2>1. at' = "restore"  BY <1>6, <1>11, <1>15
  <2>2. Passed' /\ DiesOnlyInWindow'
    BY <2>1, <1>15 DEF Passed, DiesOnlyInWindow
  <2>3. /\ seen' \in [Signals -> Seq(Info)]
        /\ dead' \in {"no", "default", "noframe", "badcall", "overflow"}
    BY <1>2, <1>15
  <2> QED  BY <2>2, <2>3, <1>3, <1>7, <1>8, <1>11, SignalStep
<1> QED  BY <1>1, <1>12, <1>13, <1>14, <1>15 DEF signal_chain

\* The copy of a signalfd_siginfo is one that glibc does not tell from it.
LEMMA CopiedActs ==
  ASSUME NEW e \in Info
  PROVE  Copied(e) \in Info /\ (Acts(e) <=> Acts(Copied(e)))
BY DEF Info, Copied, Acts

\* What keepalived reads from its signalfd goes to glibc's handler.
LEMMA NptlSignalInv ==
  ASSUME IInv, NEW s \in Signals, nptl_signal(s)
  PROVE  IInv'
<1> DEFINE e == Head(pending[s])
           c == Copied(e)
<1>1. /\ dead = "no" /\ frames = <<>> /\ at = "run" /\ pending[s] # <<>>
      /\ pending' = [pending EXCEPT ![s] = Tail(pending[s])]
      /\ signal_chain(s, c)
      /\ UNCHANGED <<orig, kernel, act, sav, at, k, frames, sent, lost>>
  BY DEF nptl_signal, Main, main_
<1>2. /\ e \in Info /\ pending' \in [Signals -> Seq(Info)]
      /\ pending'[s] = Tail(pending[s])
      /\ \A r \in Signals \ {s} : pending'[r] = pending[r]
      /\ sent' \in [Signals -> Seq(Info)] /\ lost' \in 0..MaxSent
      /\ Counted'
  BY <1>1, TakeHead
<1>3. /\ pending \in [Signals -> Seq(Info)] /\ sent \in [Signals -> Seq(Info)]
      /\ seen \in [Signals -> Seq(Info)] /\ frames \in Seq(Frame) /\ Apart(frames)
  BY SignalTypes
<1>4. act[s] = orig[s] /\ orig[s] # "sig_handler"  BY <1>1, HandlerKinds
<1>5. c \in Info /\ (Acts(e) <=> Acts(c))  BY <1>2, CopiedActs
<1> HIDE DEF c
<1>6. \A r \in Signals : InHandler(r)' = <<>> /\ InHandler(r) = <<>>
  <2>1. \A r : ~Runs(frames, r) /\ ~Runs(frames', r)  BY <1>1 DEF Runs
  <2> QED  BY <2>1, InHandlerHeld, HeldNone
<1>7. \A r \in Signals : orig[r] = "nptl" => Agree(sent[r], seen[r] \o <<>> \o pending[r])
  BY <1>1, <1>6 DEF IInv, Passed
<1>8. Framed' /\ frames' \in Seq(Frame) /\ Apart(frames')
  <2>1. frames' = frames /\ Len(frames') = 0  BY <1>1
  <2>2. Framed'  BY <2>1 DEF Framed
  <2> QED  BY <2>1, <2>2, <1>3
<1>9. CASE act[s] = "DFL" /\ UNCHANGED <<seen, dead>>
  <2>1. Passed'
    <3> SUFFICES ASSUME NEW r \in Signals, orig[r] = "nptl"
                 PROVE  Agree(sent[r], seen[r] \o InHandler(r)' \o pending'[r])
      BY <1>1, <1>9 DEF Passed
    <3>1. r # s  BY <1>4, <1>9
    <3> QED  BY <3>1, <1>2, <1>6, <1>7
  <2>2. /\ DiesOnlyInWindow' /\ seen' \in [Signals -> Seq(Info)]
        /\ dead' \in {"no", "default", "noframe", "badcall", "overflow"}
    BY <1>1, <1>3, <1>9 DEF DiesOnlyInWindow
  <2> QED  BY <2>1, <2>2, <1>1, <1>2, <1>8, SignalStep
<1>10. CASE act[s] = "nptl" /\ seen' = [seen EXCEPT ![s] = Append(seen[s], c)] /\ UNCHANGED dead
  <2>1. Append(seen[s], c) \in Seq(Info)  BY <1>3, <1>5
  <2>2. /\ seen' \in [Signals -> Seq(Info)] /\ seen'[s] = Append(seen[s], c)
        /\ \A r \in Signals \ {s} : seen'[r] = seen[r]
    BY <2>1, <1>3, <1>10
  <2>3. Passed'
    <3> SUFFICES ASSUME NEW r \in Signals, orig[r] = "nptl"
                 PROVE  Agree(sent[r], seen'[r] \o InHandler(r)' \o pending'[r])
      BY <1>1 DEF Passed
    <3>1. CASE r = s
      <4>1. sent[s] \in Seq(Info) /\ seen[s] \in Seq(Info) /\ pending[s] \in Seq(Info)
        BY <1>3
      <4>2. Agree(sent[s], Append(seen[s], c) \o <<>> \o Tail(pending[s]))
        BY <3>1, <4>1, <1>1, <1>5, <1>7, QueueToGlibc
      <4> QED  BY <4>2, <3>1, <2>2, <1>2, <1>6
    <3>2. CASE r # s  BY <3>2, <2>2, <1>2, <1>6, <1>7
    <3> QED  BY <3>1, <3>2
  <2>4. /\ DiesOnlyInWindow'
        /\ dead' \in {"no", "default", "noframe", "badcall", "overflow"}
    BY <1>1, <1>10 DEF DiesOnlyInWindow
  <2> QED  BY <2>2, <2>3, <2>4, <1>1, <1>2, <1>8, SignalStep
<1>11. CASE act[s] = "IGN" /\ dead' = "badcall" /\ UNCHANGED seen
  <2>1. Passed' /\ DiesOnlyInWindow'
    BY <1>1, <1>4, <1>11 DEF Passed, DiesOnlyInWindow
  <2>2. /\ seen' \in [Signals -> Seq(Info)]
        /\ dead' \in {"no", "default", "noframe", "badcall", "overflow"}
    BY <1>3, <1>11
  <2> QED  BY <2>1, <2>2, <1>1, <1>2, <1>8, SignalStep
<1> QED  BY <1>1, <1>4, <1>9, <1>10, <1>11 DEF signal_chain

-----------------------------------------------------------------------------
LEMMA InitIInv == Init => IInv
<1> SUFFICES ASSUME Init  PROVE IInv
  OBVIOUS
<1>1. orig \in [Signals -> {"nptl", "DFL", "IGN"}]  BY ConstantsAssumption DEF Init
<1>2. <<>> \in Seq(Info) /\ <<>> \in Seq(Frame)  OBVIOUS
<1>3. /\ pending \in [Signals -> Seq(Info)] /\ sent \in [Signals -> Seq(Info)]
      /\ seen \in [Signals -> Seq(Info)] /\ frames \in Seq(Frame)
  BY <1>2 DEF Init
<1>4. handler \in [Signals -> Actions] /\ act \in [Signals -> Actions] /\ sav \in Actions
  BY <1>1 DEF Init, Actions
<1>5. lost \in 0..MaxSent  BY ConstantsAssumption DEF Init
<1>6. \A m, n \in 1..Len(frames) : frames[m].sig = frames[n].sig => m = n  BY DEF Init
<1>7. TypeOK  BY <1>4, <1>5, <1>6 DEF Init, TypeOK, Actions
<1>8. Types  BY <1>1, <1>3, <1>4, <1>7 DEF Types, Frame
<1>9. ASSUME NEW s \in Signals  PROVE Phase(s)
  <2>1. at = "save" /\ k = 1 /\ handler[s] = orig[s]  BY DEF Init
  <2>2. ~(Which(s) < 1)  BY DEF Which
  <2> QED  BY <2>1, <2>2 DEF Phase
<1>10. Framed /\ DiesOnlyInWindow  BY DEF Init, Framed, DiesOnlyInWindow
<1>11. Counted
  <2>1. \A s \in Signals : pending[s] = <<>> /\ sent[s] = <<>>  BY DEF Init
  <2>2. "SIGCANCEL" \in Signals /\ "SIGSETXID" \in Signals /\ lost = 0  BY DEF Signals, Init
  <2>3. \A s \in Signals : Len(pending[s]) = 0 /\ Len(sent[s]) = 0  BY <2>1
  <2>4. \A s \in Signals : Len(pending[s]) <= Len(sent[s])  BY <2>3
  <2>5. Len(sent["SIGCANCEL"]) = 0 /\ Len(sent["SIGSETXID"]) = 0 /\ lost = 0
    BY <2>2, <2>3
  <2>6. Len(sent["SIGCANCEL"]) + Len(sent["SIGSETXID"]) + lost <= MaxSent
    BY <2>5, ConstantsAssumption
  <2> QED  BY <2>4, <2>6 DEF Counted
<1>12. Passed
  <2> SUFFICES ASSUME NEW s \in Signals
               PROVE  Agree(sent[s], seen[s] \o InHandler(s) \o pending[s])
    BY DEF Passed
  <2>1. ~Runs(frames, s)  BY DEF Init, Runs
  <2>2. InHandler(s) = <<>>  BY <2>1, HeldNone, InHandlerHeld
  <2>3. sent[s] = <<>> /\ seen[s] = <<>> /\ pending[s] = <<>>  BY DEF Init
  <2>4. Len(<<>>) = 0 /\ Len(<<>> \o <<>> \o <<>>) = 0  OBVIOUS
  <2> QED  BY <2>2, <2>3, <2>4 DEF Agree
<1> QED  BY <1>8, <1>9, <1>10, <1>11, <1>12 DEF IInv

LEMMA NextIInv == IInv /\ [Next]_vars => IInv'
<1> SUFFICES ASSUME IInv, [Next]_vars  PROVE IInv'
  OBVIOUS
<1>1. CASE \E s \in Signals : Deliver(s) \/ nptl_signal(s) \/ \E e \in Info : Send(s, e)
  BY <1>1, DeliverInv, NptlSignalInv, SendInv
<1>2. CASE sig_handler  BY <1>2, SigHandlerInv
<1>3. CASE main
  BY <1>3, SaveInv, SetActionInv, InstallInv, RestoreInv, SleepReturnsInv DEF main
<1>4. CASE restore_nptl_intercept
  BY <1>4, SignalSetInv, SigprocmaskInv, IgnoreInv DEF restore_nptl_intercept
<1>5. CASE UNCHANGED vars
  <2>1. \A s : InHandler(s)' = InHandler(s)  BY <1>5, InHandlerHeld DEF vars
  <2>2. Passed'  BY <2>1, <1>5 DEF vars, IInv, Passed
  <2>3. Types' /\ Framed' /\ Counted' /\ DiesOnlyInWindow'
    BY <1>5 DEF vars, IInv, Types, TypeOK, Framed, Counted, DiesOnlyInWindow
  <2>4. \A s \in Signals : Phase(s)'  BY <1>5 DEF vars, IInv, Phase
  <2> QED  BY <2>2, <2>3, <2>4 DEF IInv
<1> QED  BY <1>1, <1>2, <1>3, <1>4, <1>5 DEF Next

LEMMA Invariance == Spec => []IInv
BY InitIInv, NextIInv, PTL DEF Spec

\* With glibc's handlers there to be chained to, a signal kills the process only
\* between the sigaction() of set_action() and the statement that puts act back,
\* whatever the interleaving of the two handlers with main() (190-195).
THEOREM OneWindow == Spec => []Inv
<1>1. IInv => Inv  BY DEF IInv, Types, Inv
<1> QED  BY <1>1, Invariance, PTL

\* glibc's handler misses nothing and sees nothing twice, in either build: what was
\* sent is what it was called with, what sig_handler() holds and what is queued.
THEOREM IsTransparent == Spec => []Transparent
<1>1. IInv => Transparent
  <2> SUFFICES ASSUME IInv, NEW s \in Signals, orig[s] = "nptl", dead = "no"
               PROVE  ActsOn(sent[s]) = ActsOn(seen[s] \o InHandler(s) \o pending[s])
    BY DEF Transparent
  <2>1. Agree(sent[s], seen[s] \o InHandler(s) \o pending[s])  BY DEF IInv, Passed
  <2> QED  BY <2>1 DEF Agree, ActsOn, Acts
<1> QED  BY <1>1, Invariance, PTL

\* Once restore_nptl_intercept() is done a signal of glibc's leaves the kernel's
\* queue only by way of the signalfd, and so to glibc's handler: it is blocked
\* before it is ignored.
THEOREM NoLoss == Spec => NoLossOnceSet
<1> DEFINE A == at = "run" => \A s \in Signals :
                  orig[s] = "nptl" /\ Len(pending'[s]) < Len(pending[s])
                    => Len(seen'[s]) = Len(seen[s]) + 1
<1>1. IInv /\ [Next]_vars => [A]_vars
  <2> SUFFICES ASSUME IInv, Next, at = "run", NEW s \in Signals, orig[s] = "nptl",
                      Len(pending'[s]) < Len(pending[s])
               PROVE  Len(seen'[s]) = Len(seen[s]) + 1
    OBVIOUS
  <2>1. /\ pending \in [Signals -> Seq(Info)] /\ seen \in [Signals -> Seq(Info)]
    BY SignalTypes
  <2>2. Len(pending[s]) \in Nat  BY <2>1
  <2>3. act[s] = "nptl" /\ s \in blocked  BY HandlerKinds
  <2>4. ASSUME NEW r \in Signals, Deliver(r)  PROVE FALSE
    <3>1. r # s  BY <2>3, <2>4 DEF Deliver
    <3>2. pending'[s] = pending[s]  BY <3>1, <2>1, <2>4 DEF Deliver
    <3> QED  BY <3>2, <2>2
  <2>5. ASSUME NEW r \in Signals, NEW e \in Info, Send(r, e)  PROVE FALSE
    <3>1. pending' = [pending EXCEPT ![r] = Append(pending[r], e)]  BY <2>5 DEF Send
    <3>2. CASE r = s
      <4>1. pending'[s] = Append(pending[s], e)  BY <3>1, <3>2, <2>1
      <4>2. Len(pending'[s]) = Len(pending[s]) + 1  BY <4>1, <2>1
      <4> QED  BY <4>2, <2>2
    <3>3. CASE r # s
      <4>1. pending'[s] = pending[s]  BY <3>1, <3>3, <2>1
      <4> QED  BY <4>1, <2>2
    <3> QED  BY <3>2, <3>3
  <2>6. ASSUME NEW r \in Signals, nptl_signal(r)  PROVE Len(seen'[s]) = Len(seen[s]) + 1
    <3>1. /\ pending' = [pending EXCEPT ![r] = Tail(pending[r])]
          /\ signal_chain(r, Copied(Head(pending[r]))) /\ pending[r] # <<>>
      BY <2>6 DEF nptl_signal
    <3>2. CASE r # s
      <4>1. pending'[s] = pending[s]  BY <3>1, <3>2, <2>1
      <4> QED  BY <4>1, <2>2
    <3>3. CASE r = s
      <4>1. seen' = [seen EXCEPT ![s] = Append(seen[s], Copied(Head(pending[s])))]
        BY <3>1, <3>3, <2>3 DEF signal_chain
      <4>2. Copied(Head(pending[s])) \in Info
        <5>1. Head(pending[s]) \in Info  BY <3>1, <3>3, <2>1
        <5> QED  BY <5>1, CopiedActs
      <4>3. seen'[s] = Append(seen[s], Copied(Head(pending[s])))  BY <4>1, <2>1
      <4> QED  BY <4>2, <4>3, <2>1
    <3> QED  BY <3>2, <3>3
  <2>7. CASE sig_handler \/ main \/ restore_nptl_intercept
    <3>1. pending' = pending
      BY <2>7 DEF sig_handler, main, save_signal, SetAction, Install, RestoreAction,
                  SleepReturns, restore_nptl_intercept, signal_set, our_sigprocmask, Ignore,
                  Main
    <3> QED  BY <3>1, <2>2
  <2> QED  BY <2>4, <2>5, <2>6, <2>7 DEF Next
<1> QED  BY <1>1, Invariance, PTL DEF Spec, NoLossOnceSet
=============================================================================
