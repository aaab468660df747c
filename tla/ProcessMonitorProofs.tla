------------------------ MODULE ProcessMonitorProofs ------------------------
(***************************************************************************)
(* Proofs that, for any CPUs, any range of the sequence numbers, any size  *)
(* of the socket's buffer and any number of messages, each struct seq of   *)
(* ProcessMonitor stands for the last message received on its CPU, and     *)
(* that the Missed lines implement LossLedger: they account for exactly    *)
(* what was dropped, across every wrap of the sequence numbers.            *)
(*                                                                         *)
(* The argument: a CPU's messages are in the buffer in the order of their  *)
(* numbers, all above the last one handled; and a difference of sequence   *)
(* numbers is the difference of the numbers, up to the range.              *)
(***************************************************************************)
EXTENDS ProcessMonitor, TLAPS

-----------------------------------------------------------------------------
(* Arithmetic modulo the range of the sequence numbers. *)

\* Division with remainder.
LEMMA DivMod ==
  ASSUME NEW R \in Nat \ {0}, NEW x \in Int
  PROVE  /\ x \div R \in Int /\ x % R \in 0..(R - 1)
         /\ x = R * (x \div R) + (x % R)
OBVIOUS

\* A multiple of R that is less than R away from 0 is 0.
LEMMA SmallMultiple ==
  ASSUME NEW R \in Nat \ {0}, NEW q \in Int, NEW d \in Int, R * q = d, -R < d, d < R
  PROVE  q = 0
OBVIOUS

\* The remainder is unique.
LEMMA ModUnique ==
  ASSUME NEW R \in Nat \ {0}, NEW x \in Int, NEW q \in Int, NEW r \in 0..(R - 1),
         x = R * q + r
  PROVE  x % R = r
<1> DEFINE d == q - (x \div R)
           e == (x % R) - r
<1>1. x % R \in Int /\ d \in Int /\ e \in Int /\ R * d = e /\ -R < e /\ e < R
  BY DivMod
<1>2. d = 0
  <2> HIDE DEF d, e
  <2> QED BY <1>1, SmallMultiple
<1>3. e = 0
  BY <1>1, <1>2
<1> QED BY <1>1, <1>3

\* Multiples of R do not change the remainder.
LEMMA ModPeriodic ==
  ASSUME NEW R \in Nat \ {0}, NEW x \in Int, NEW m \in Int
  PROVE  (x + R * m) % R = x % R
<1> DEFINE y == x + R * m
           q == (x \div R) + m
           r == x % R
<1>1. y \in Int /\ q \in Int /\ r \in 0..(R - 1) /\ y = R * q + r
  BY DivMod
<1> HIDE DEF y, q, r
<1>2. y % R = r
  BY <1>1, ModUnique
<1> QED BY <1>2 DEF y, r

\* The gap between two sequence numbers is the gap between the numbers.
LEMMA GapModulo ==
  ASSUME NEW R \in Nat \ {0}, NEW n \in Int, NEW l \in Int
  PROVE  ((n % R) - (l % R) - 1) % R = (n - l - 1) % R
<1> DEFINE m == (l \div R) - (n \div R)
           y == n - l - 1
<1>1. /\ n \div R \in Int /\ n % R \in Int /\ n = R * (n \div R) + (n % R)
      /\ l \div R \in Int /\ l % R \in Int /\ l = R * (l \div R) + (l % R)
  BY DivMod
<1>2. m \in Int /\ y \in Int /\ (n % R) - (l % R) - 1 = y + R * m
  BY <1>1
<1>3. (y + R * m) % R = y % R
  BY <1>2, ModPeriodic
<1> QED BY <1>2, <1>3

\* There is no gap when the sequence number is the next one.
LEMMA NoGap ==
  ASSUME NEW R \in Nat \ {0}, NEW n \in Int, NEW l \in Int, ((l % R) + 1) % R = n % R
  PROVE  (n - l - 1) % R = 0
<1> DEFINE s == l % R
           a == n % R
<1>1. s \in 0..(R - 1) /\ a \in 0..(R - 1)
  BY DivMod
<1>2. 0 % R = 0
  <2>1. 0 = R * 0 + 0 /\ 0 \in 0..(R - 1)
    OBVIOUS
  <2> QED BY <2>1, ModUnique
<1>3. CASE s + 1 < R
  <2>1. s + 1 = R * 0 + (s + 1) /\ s + 1 \in 0..(R - 1)
    BY <1>1, <1>3
  <2>2. a = s + 1
    BY <2>1, ModUnique
  <2>3. a - s - 1 = 0
    BY <1>1, <2>2
  <2> QED BY <1>2, <2>3, GapModulo
<1>4. CASE s + 1 = R
  <2>1. s + 1 = R * 1 + 0 /\ 0 \in 0..(R - 1)
    BY <1>1, <1>4
  <2>2. a = 0
    BY <2>1, ModUnique
  <2>3. a - s - 1 = 0 + R * (-1)
    BY <1>1, <1>4, <2>2
  <2>4. (0 + R * (-1)) % R = 0 % R
    BY ModPeriodic
  <2> QED BY <1>2, <2>3, <2>4, GapModulo
<1> QED BY <1>1, <1>3, <1>4

-----------------------------------------------------------------------------
(* The messages. *)

\* The last message of a buffer after Append(), and the others.
LEMMA AppendSeq ==
  ASSUME NEW S, NEW q \in Seq(S), NEW e \in S
  PROVE  /\ Append(q, e) \in Seq(S) /\ Len(Append(q, e)) = Len(q) + 1
         /\ \A x \in 1..Len(q) : Append(q, e)[x] = q[x]
         /\ Append(q, e)[Len(q) + 1] = e
OBVIOUS

\* The first message of a buffer, and those behind it.
LEMMA HeadTailSeq ==
  ASSUME NEW S, NEW q \in Seq(S), q # <<>>
  PROVE  /\ Len(q) \in Nat \ {0} /\ Head(q) = q[1] /\ Head(q) \in S
         /\ Tail(q) \in Seq(S) /\ Len(Tail(q)) = Len(q) - 1
         /\ \A x \in 1..(Len(q) - 1) : Tail(q)[x] = q[x + 1]
OBVIOUS

\* A message that is not the acknowledgement names a CPU and has a number.
LEMMA EventType ==
  ASSUME NEW m \in Message, m.what = "event"
  PROVE  m # Ack /\ m.cpu \in CPUs /\ m.n \in Nat /\ SeqOf(m) \in 0..(SeqRange - 1)
<1>1. m # Ack /\ m.cpu \in CPUs /\ m.n \in Nat
  BY DEF Message, Ack
<1> QED BY <1>1, ConstantsAssumption, DivMod DEF SeqOf

\* The acknowledgement is not an event of any CPU.
LEMMA AckType == Ack \in Message /\ \A m \in Message : m # Ack => m.what = "event"
BY DEF Message, Ack

-----------------------------------------------------------------------------
(* The struct seq of a CPU stands for the last message handled on it. *)

LEMMA InitInv == Init => Inv
<1> SUFFICES ASSUME Init PROVE Inv
  OBVIOUS
<1> USE ConstantsAssumption DEF Init
<1>1. PICK b \in BOOLEAN, s \in {0, SeqRange - 1} :
        cpu_seq = [c \in CPUs |-> [initialised |-> FALSE, no_bufs |-> b, seq |-> s]]
  OBVIOUS
<1>2. s \in 0..(SeqRange - 1)
  OBVIOUS
<1>3. nextN \in [CPUs -> Nat]
  OBVIOUS
<1>4. TypeOK
  <2>1. cpu_seq \in [CPUs -> [initialised : BOOLEAN, no_bufs : BOOLEAN, seq : 0..(SeqRange - 1)]]
    BY <1>1, <1>2
  <2>2. rcvbuf \in Seq(Message) /\ Len(rcvbuf) <= BufLen
    OBVIOUS
  <2>3. sent \in 0..MaxSent /\ lastN \in [CPUs -> Nat \cup {-1}] /\ reported \in [CPUs -> Nat]
    OBVIOUS
  <2>4. /\ enobufs \in BOOLEAN /\ listening \in BOOLEAN
        /\ need_exit \in BOOLEAN /\ eintr \in BOOLEAN
    OBVIOUS
  <2> QED BY <1>3, <2>1, <2>2, <2>3, <2>4 DEF TypeOK
<1>5. ASSUME NEW c \in CPUs
      PROVE  Ordered(c) /\ lastN[c] = -1 /\ ~cpu_seq[c].initialised
  <2>1. lastN[c] = -1 /\ nextN[c] \in Nat /\ Len(rcvbuf) = 0
    BY <1>3
  <2> QED BY <1>1, <2>1 DEF Ordered
<1> QED BY <1>4, <1>5 DEF Inv, SeqStandsForLast

\* What the kernel sends on one CPU comes after all it has sent before on it.
LEMMA SendInv ==
  ASSUME Inv, NEW c \in CPUs, Send(c)
  PROVE  Inv'
<1> USE ConstantsAssumption
<1> DEFINE e == [what |-> "event", cpu |-> c, n |-> nextN[c]]
<1>1. /\ nextN \in [CPUs -> Nat] /\ rcvbuf \in Seq(Message) /\ Len(rcvbuf) <= BufLen
      /\ sent \in 0..MaxSent /\ Len(rcvbuf) \in Nat
  BY DEF Inv, TypeOK
<1>2. e \in Message /\ e # Ack /\ e.cpu = c /\ e.n = nextN[c]
  BY <1>1 DEF Message, Ack
<1>3. /\ nextN' = [nextN EXCEPT ![c] = @ + 1] /\ sent < MaxSent /\ sent' = sent + 1
      /\ UNCHANGED <<listening, need_exit, eintr, pc, cpu_seq, lastN, reported>>
  BY DEF Send
<1>4. \/ Len(rcvbuf) < BufLen /\ rcvbuf' = Append(rcvbuf, e) /\ UNCHANGED enobufs
      \/ enobufs' = TRUE /\ UNCHANGED rcvbuf
  BY DEF Send
<1> HIDE DEF e
<1>5. TypeOK'
  <2>1. rcvbuf' \in Seq(Message) /\ Len(rcvbuf') <= BufLen
    BY <1>1, <1>2, <1>4, AppendSeq
  <2>2. nextN' \in [CPUs -> Nat] /\ sent' \in 0..MaxSent
    BY <1>1, <1>3
  <2>3. enobufs' \in BOOLEAN
    BY <1>4 DEF Inv, TypeOK
  <2> QED BY <1>3, <2>1, <2>2, <2>3 DEF Inv, TypeOK
<1>6. ASSUME NEW d \in CPUs PROVE Ordered(d)'
  <2>1. Ordered(d)
    BY DEF Inv, SeqStandsForLast
  <2>2. /\ nextN[d] \in Nat /\ nextN'[d] = IF d = c THEN nextN[d] + 1 ELSE nextN[d]
        /\ lastN' = lastN /\ lastN[d] \in Int
    BY <1>1, <1>3 DEF Inv, TypeOK
  <2>3. \A x \in 1..Len(rcvbuf) : rcvbuf[x] # Ack => rcvbuf[x].n \in Nat
    BY <1>1, AckType, EventType
  <2>4. CASE UNCHANGED rcvbuf
    BY <2>1, <2>2, <2>3, <2>4 DEF Ordered
  <2>5. CASE rcvbuf' = Append(rcvbuf, e)
    <3>1. /\ Len(rcvbuf') = Len(rcvbuf) + 1 /\ rcvbuf'[Len(rcvbuf) + 1] = e
          /\ \A x \in 1..Len(rcvbuf) : rcvbuf'[x] = rcvbuf[x]
      BY <1>1, <1>2, <2>5, AppendSeq
    <3>2. lastN'[d] < nextN'[d]
      BY <2>1, <2>2 DEF Ordered
    <3>3. ASSUME NEW x \in 1..Len(rcvbuf'), rcvbuf'[x] # Ack /\ rcvbuf'[x].cpu = d
          PROVE  /\ lastN'[d] < rcvbuf'[x].n /\ rcvbuf'[x].n < nextN'[d]
                 /\ \A y \in 1..(x - 1) :
                      rcvbuf'[y] # Ack /\ rcvbuf'[y].cpu = d => rcvbuf'[y].n < rcvbuf'[x].n
      <4>1. CASE x \in 1..Len(rcvbuf)
        <5>1. rcvbuf'[x] = rcvbuf[x] /\ rcvbuf[x] # Ack /\ rcvbuf[x].cpu = d
          BY <3>1, <3>3, <4>1
        <5>2. /\ lastN[d] < rcvbuf[x].n /\ rcvbuf[x].n < nextN[d] /\ rcvbuf[x].n \in Nat
              /\ \A y \in 1..(x - 1) :
                   rcvbuf[y] # Ack /\ rcvbuf[y].cpu = d => rcvbuf[y].n < rcvbuf[x].n
          BY <2>1, <2>3, <4>1, <5>1 DEF Ordered
        <5>3. \A y \in 1..(x - 1) : y \in 1..Len(rcvbuf)
          BY <1>1, <4>1
        <5>4. \A y \in 1..(x - 1) : rcvbuf'[y] = rcvbuf[y]
          BY <3>1, <5>3
        <5>5. lastN'[d] < rcvbuf'[x].n /\ rcvbuf'[x].n < nextN'[d]
          BY <2>2, <5>1, <5>2
        <5> QED BY <5>1, <5>2, <5>4, <5>5
      <4>2. CASE x = Len(rcvbuf) + 1
        <5>1. rcvbuf'[x] = e /\ e.cpu = d /\ e.cpu = c /\ e.n = nextN[c]
          BY <1>2, <3>1, <3>3, <4>2
        <5>2. lastN[d] < nextN[d]
          BY <2>1 DEF Ordered
        <5>3. lastN'[d] < rcvbuf'[x].n /\ rcvbuf'[x].n < nextN'[d]
          BY <2>2, <5>1, <5>2
        <5>4. \A y \in 1..(x - 1) : y \in 1..Len(rcvbuf)
          BY <1>1, <4>2
        <5>5. \A y \in 1..Len(rcvbuf) :
                rcvbuf[y] # Ack /\ rcvbuf[y].cpu = d => rcvbuf[y].n < nextN[d]
          BY <2>1 DEF Ordered
        <5> QED BY <3>1, <5>1, <5>3, <5>4, <5>5
      <4> QED BY <1>1, <3>1, <4>1, <4>2
    <3> QED BY <3>2, <3>3 DEF Ordered
  <2> QED BY <1>4, <2>4, <2>5
<1>7. SeqStandsForLast'
  BY <1>3, <1>6 DEF Inv, SeqStandsForLast
<1> QED BY <1>5, <1>7 DEF Inv

\* What handling an event does: the message is taken, and its CPU's struct seq
\* and the count printed so far change as the message and the struct say.
LEMMA HandleEventEffect ==
  ASSUME Inv, HandleEvent
  PROVE  \E m \in Message :
           /\ rcvbuf # <<>> /\ m = rcvbuf[1] /\ m.what = "event"
           /\ m # Ack /\ m.cpu \in CPUs /\ m.n \in Nat /\ SeqOf(m) \in 0..(SeqRange - 1)
           /\ rcvbuf' = Tail(rcvbuf)
           /\ lastN[m.cpu] < m.n
           /\ lastN' = [lastN EXCEPT ![m.cpu] = m.n]
           /\ cpu_seq' = [cpu_seq EXCEPT ![m.cpu] =
                [initialised |-> TRUE, no_bufs |-> FALSE, seq |-> SeqOf(m)]]
           /\ Missed(cpu_seq[m.cpu], m) =
                IF lastN[m.cpu] = -1 THEN 0 ELSE (m.n - lastN[m.cpu] - 1) % SeqRange
           /\ reported' = [reported EXCEPT ![m.cpu] = @ + Missed(cpu_seq[m.cpu], m)]
<1> USE ConstantsAssumption
<1>1. rcvbuf \in Seq(Message) /\ rcvbuf # <<>>
  BY DEF HandleEvent, RecvMessage, Inv, TypeOK
<1> DEFINE m == Head(rcvbuf)
<1>2. m \in Message /\ m = rcvbuf[1] /\ 1 \in 1..Len(rcvbuf) /\ m.what = "event"
  BY <1>1, HeadTailSeq DEF HandleEvent
<1>3. m # Ack /\ m.cpu \in CPUs /\ m.n \in Nat /\ SeqOf(m) \in 0..(SeqRange - 1)
  BY <1>2, EventType
<1>4. Ordered(m.cpu)
  BY <1>3 DEF Inv, SeqStandsForLast
<1>5. lastN[m.cpu] < m.n
  BY <1>2, <1>3, <1>4 DEF Ordered
<1>6. Missed(cpu_seq[m.cpu], m) =
        IF lastN[m.cpu] = -1 THEN 0 ELSE (m.n - lastN[m.cpu] - 1) % SeqRange
  <2>1. cpu_seq[m.cpu].initialised <=> lastN[m.cpu] # -1
    BY <1>3 DEF Inv, SeqStandsForLast
  <2>2. CASE lastN[m.cpu] = -1
    BY <2>1, <2>2 DEF Missed
  <2>3. CASE lastN[m.cpu] # -1
    <3> DEFINE l == lastN[m.cpu]
    <3>1. l \in Int /\ m.n \in Int /\ cpu_seq[m.cpu].seq = l % SeqRange
      BY <1>3, <2>1, <2>3 DEF Inv, SeqStandsForLast, TypeOK
    <3>2. CASE ((l % SeqRange) + 1) % SeqRange = m.n % SeqRange
      <4>1. (m.n - l - 1) % SeqRange = 0
        BY <3>1, <3>2, NoGap
      <4> QED BY <2>3, <3>1, <3>2, <4>1 DEF Missed, SeqOf
    <3>3. CASE ((l % SeqRange) + 1) % SeqRange # m.n % SeqRange
      <4>1. ((m.n % SeqRange) - (l % SeqRange) - 1) % SeqRange = (m.n - l - 1) % SeqRange
        BY <3>1, GapModulo
      <4> QED BY <2>1, <2>3, <3>1, <3>3, <4>1 DEF Missed, SeqOf
    <3> QED BY <3>2, <3>3
  <2> QED BY <2>2, <2>3
<1>7. /\ rcvbuf' = Tail(rcvbuf)
      /\ lastN' = [lastN EXCEPT ![m.cpu] = m.n]
      /\ cpu_seq' = [cpu_seq EXCEPT ![m.cpu] =
           [initialised |-> TRUE, no_bufs |-> FALSE, seq |-> SeqOf(m)]]
      /\ reported' = [reported EXCEPT ![m.cpu] = @ + Missed(cpu_seq[m.cpu], m)]
  BY DEF HandleEvent, RecvMessage
<1> HIDE DEF m
<1> QED BY <1>1, <1>2, <1>3, <1>5, <1>6, <1>7

\* A buffer whose first message was taken is still in order on every CPU.
LEMMA TailOrdered ==
  ASSUME Inv, NEW c \in CPUs, rcvbuf # <<>>, rcvbuf' = Tail(rcvbuf), nextN' = nextN,
         \/ lastN'[c] = lastN[c]
         \/ rcvbuf[1] # Ack /\ rcvbuf[1].cpu = c /\ lastN'[c] = rcvbuf[1].n
  PROVE  Ordered(c)'
<1>1. Ordered(c) /\ rcvbuf \in Seq(Message)
  BY DEF Inv, SeqStandsForLast, TypeOK
<1>2. /\ Len(rcvbuf) \in Nat \ {0} /\ Len(rcvbuf') = Len(rcvbuf) - 1
      /\ \A x \in 1..(Len(rcvbuf) - 1) : rcvbuf'[x] = rcvbuf[x + 1]
  BY <1>1, HeadTailSeq
<1>3. lastN'[c] < nextN'[c]
  BY <1>1, <1>2 DEF Ordered
<1>4. ASSUME NEW x \in 1..Len(rcvbuf'), rcvbuf'[x] # Ack /\ rcvbuf'[x].cpu = c
      PROVE  /\ lastN'[c] < rcvbuf'[x].n /\ rcvbuf'[x].n < nextN'[c]
             /\ \A y \in 1..(x - 1) :
                  rcvbuf'[y] # Ack /\ rcvbuf'[y].cpu = c => rcvbuf'[y].n < rcvbuf'[x].n
  <2>1. x + 1 \in 1..Len(rcvbuf) /\ rcvbuf'[x] = rcvbuf[x + 1] /\ 1 \in 1..(x + 1 - 1)
    BY <1>2
  <2>2. lastN'[c] < rcvbuf'[x].n /\ rcvbuf'[x].n < nextN'[c]
    BY <1>1, <1>4, <2>1 DEF Ordered
  <2>3. ASSUME NEW y \in 1..(x - 1), rcvbuf'[y] # Ack /\ rcvbuf'[y].cpu = c
        PROVE  rcvbuf'[y].n < rcvbuf'[x].n
    <3>1. y + 1 \in 1..(x + 1 - 1) /\ rcvbuf'[y] = rcvbuf[y + 1]
      BY <1>2
    <3> QED BY <1>1, <1>4, <2>1, <2>3, <3>1 DEF Ordered
  <2> QED BY <2>2, <2>3
<1> QED BY <1>3, <1>4 DEF Ordered

LEMMA HandleEventInv ==
  ASSUME Inv, HandleEvent
  PROVE  Inv'
<1> USE ConstantsAssumption
<1>1. PICK m \in Message :
        /\ rcvbuf # <<>> /\ m = rcvbuf[1] /\ m # Ack /\ m.cpu \in CPUs /\ m.n \in Nat
        /\ SeqOf(m) \in 0..(SeqRange - 1) /\ lastN[m.cpu] < m.n
        /\ rcvbuf' = Tail(rcvbuf)
        /\ lastN' = [lastN EXCEPT ![m.cpu] = m.n]
        /\ cpu_seq' = [cpu_seq EXCEPT ![m.cpu] =
             [initialised |-> TRUE, no_bufs |-> FALSE, seq |-> SeqOf(m)]]
        /\ Missed(cpu_seq[m.cpu], m) =
             IF lastN[m.cpu] = -1 THEN 0 ELSE (m.n - lastN[m.cpu] - 1) % SeqRange
        /\ reported' = [reported EXCEPT ![m.cpu] = @ + Missed(cpu_seq[m.cpu], m)]
  BY HandleEventEffect
<1>2. /\ UNCHANGED <<nextN, sent, enobufs, listening, need_exit, eintr>> /\ pc' = "test"
  BY DEF HandleEvent, RecvMessage
<1>3. rcvbuf \in Seq(Message)
  BY DEF Inv, TypeOK
<1>4. TypeOK'
  <2>1. rcvbuf' \in Seq(Message) /\ Len(rcvbuf') <= BufLen
    BY <1>1, <1>3, HeadTailSeq DEF Inv, TypeOK
  <2>2. lastN' \in [CPUs -> Nat \cup {-1}]
    BY <1>1 DEF Inv, TypeOK
  <2>3. cpu_seq' \in [CPUs -> [initialised : BOOLEAN, no_bufs : BOOLEAN, seq : 0..(SeqRange - 1)]]
    BY <1>1 DEF Inv, TypeOK
  <2>4. Missed(cpu_seq[m.cpu], m) \in Nat
    <3>1. lastN[m.cpu] \in Int /\ m.n - lastN[m.cpu] - 1 \in Int
      <4>1. lastN \in [CPUs -> Nat \cup {-1}]
        BY DEF Inv, TypeOK
      <4>2. m.cpu \in CPUs /\ m.n \in Nat
        BY <1>1
      <4> QED BY <4>1, <4>2
    <3>2. (m.n - lastN[m.cpu] - 1) % SeqRange \in 0..(SeqRange - 1)
      BY <3>1, DivMod
    <3> QED BY <1>1, <3>2
  <2>5. reported' \in [CPUs -> Nat]
    <3>1. reported \in [CPUs -> Nat]
      BY DEF Inv, TypeOK
    <3> QED BY <1>1, <2>4, <3>1
  <2> QED BY <1>2, <2>1, <2>2, <2>3, <2>5 DEF Inv, TypeOK
<1>5. ASSUME NEW c \in CPUs
      PROVE  /\ Ordered(c)'
             /\ cpu_seq'[c].initialised <=> lastN'[c] # -1
             /\ cpu_seq'[c].initialised => cpu_seq'[c].seq = lastN'[c] % SeqRange
  <2>1. CASE c = m.cpu
    <3>1. lastN'[c] = m.n /\ cpu_seq'[c].initialised /\ cpu_seq'[c].seq = SeqOf(m)
      BY <1>1, <2>1 DEF Inv, TypeOK
    <3>2. Ordered(c)'
      BY <1>1, <1>2, <2>1, <3>1, TailOrdered
    <3> QED BY <1>1, <3>1, <3>2 DEF SeqOf
  <2>2. CASE c # m.cpu
    <3>1. lastN'[c] = lastN[c] /\ cpu_seq'[c] = cpu_seq[c]
      BY <1>1, <2>2 DEF Inv, TypeOK
    <3>2. Ordered(c)'
      BY <1>1, <1>2, <3>1, TailOrdered
    <3> QED BY <3>1, <3>2 DEF Inv, SeqStandsForLast
  <2> QED BY <2>1, <2>2
<1> QED BY <1>4, <1>5 DEF Inv, SeqStandsForLast

LEMMA NextInv == Inv /\ [Next]_vars => Inv'
<1> SUFFICES ASSUME Inv, [Next]_vars PROVE Inv'
  OBVIOUS
<1> USE ConstantsAssumption
<1>1. CASE Subscribe
  <2>1. /\ rcvbuf' = <<Ack>> /\ listening' = TRUE /\ pc' = "test"
        /\ UNCHANGED <<nextN, sent, enobufs, need_exit, eintr, cpu_seq, lastN, reported>>
    BY <1>1 DEF Subscribe
  <2>2. rcvbuf' \in Seq(Message) /\ Len(rcvbuf') = 1 /\ rcvbuf'[1] = Ack
    BY <2>1, AckType
  <2>3. TypeOK'
    BY <2>1, <2>2 DEF Inv, TypeOK
  <2>4. \A c \in CPUs : Ordered(c)'
    BY <2>1, <2>2 DEF Inv, SeqStandsForLast, Ordered
  <2> QED BY <2>1, <2>3, <2>4 DEF Inv, SeqStandsForLast
<1>2. CASE RecvNoBufs
  <2>1. /\ cpu_seq' = [c \in CPUs |-> [cpu_seq[c] EXCEPT !.no_bufs = TRUE]]
        /\ enobufs' = FALSE /\ pc' = "test"
        /\ UNCHANGED <<nextN, sent, rcvbuf, listening, need_exit, eintr, lastN, reported>>
    BY <1>2 DEF RecvNoBufs
  <2>2. cpu_seq' \in [CPUs -> [initialised : BOOLEAN, no_bufs : BOOLEAN, seq : 0..(SeqRange - 1)]]
    BY <2>1 DEF Inv, TypeOK
  <2>3. \A c \in CPUs : /\ cpu_seq'[c].initialised = cpu_seq[c].initialised
                        /\ cpu_seq'[c].seq = cpu_seq[c].seq
    BY <2>1 DEF Inv, TypeOK
  <2>4. TypeOK'
    BY <2>1, <2>2 DEF Inv, TypeOK
  <2>5. SeqStandsForLast'
    BY <2>1, <2>3 DEF Inv, SeqStandsForLast, Ordered
  <2> QED BY <2>4, <2>5 DEF Inv
<1>3. CASE HandleAck
  <2>1. /\ rcvbuf # <<>> /\ rcvbuf' = Tail(rcvbuf) /\ pc' \in {"test", "faulted"}
        /\ UNCHANGED <<nextN, sent, enobufs, listening, need_exit, eintr,
                       cpu_seq, lastN, reported>>
    BY <1>3 DEF HandleAck, RecvMessage
  <2>2. rcvbuf' \in Seq(Message) /\ Len(rcvbuf') <= BufLen
    BY <2>1, HeadTailSeq DEF Inv, TypeOK
  <2>3. TypeOK'
    BY <2>1, <2>2 DEF Inv, TypeOK
  <2>4. \A c \in CPUs : Ordered(c)'
    BY <2>1, TailOrdered
  <2> QED BY <2>1, <2>3, <2>4 DEF Inv, SeqStandsForLast
<1>4. CASE HandleEvent
  BY <1>4, HandleEventInv
<1>5. ASSUME NEW c \in CPUs, Send(c) PROVE Inv'
  BY <1>5, SendInv
<1>6. CASE TestExit \/ RecvInterrupted \/ SubscribeFails \/ RecvFails
            \/ on_sigint \/ UNCHANGED vars
  <2>1. UNCHANGED <<nextN, sent, rcvbuf, enobufs, cpu_seq, lastN, reported>>
    BY <1>6 DEF TestExit, RecvInterrupted, SubscribeFails, RecvFails, on_sigint, kernelVars, vars
  <2>2. /\ listening' \in BOOLEAN /\ need_exit' \in BOOLEAN /\ eintr' \in BOOLEAN
        /\ pc' \in {"start", "test", "recv", "failed", "faulted", "done"}
    BY <1>6 DEF TestExit, RecvInterrupted, SubscribeFails, RecvFails, on_sigint, kernelVars, vars, Inv, TypeOK
  <2>3. TypeOK'
    BY <2>1, <2>2 DEF Inv, TypeOK
  <2> QED BY <2>1, <2>3 DEF Inv, SeqStandsForLast, Ordered
<1> QED BY <1>1, <1>2, <1>3, <1>4, <1>5, <1>6 DEF Next, Program

\* For any CPUs, range of the sequence numbers, buffer and number of messages,
\* the struct seq that a message is compared with stands for the last message
\* handled on its CPU, with the width of a sequence number, and never for what
\* malloc() left; and the socket holds no more than its buffer
\* (handle_proc_ev() 229-240).
THEOREM StandsForLast == Spec => []Inv
BY InitInv, NextInv, PTL DEF Spec

-----------------------------------------------------------------------------
(* The Missed lines implement the ledger. *)

\* Handling an event is the ledger's step that sees a later message of the CPU;
\* no other step changes what was seen or claimed.
LEMMA StepRefines ==
  ASSUME Inv, [Next]_vars
  PROVE  [Ledger!Next]_<<lastN, reported>>
<1> USE ConstantsAssumption
<1>1. CASE HandleEvent
  <2>1. PICK m \in Message :
          /\ m.cpu \in CPUs /\ m.n \in Nat /\ lastN[m.cpu] < m.n
          /\ lastN' = [lastN EXCEPT ![m.cpu] = m.n]
          /\ Missed(cpu_seq[m.cpu], m) =
               IF lastN[m.cpu] = -1 THEN 0 ELSE (m.n - lastN[m.cpu] - 1) % SeqRange
          /\ reported' = [reported EXCEPT ![m.cpu] = @ + Missed(cpu_seq[m.cpu], m)]
    BY <1>1, HandleEventEffect
  <2>2. lastN'[m.cpu] = m.n /\ lastN[m.cpu] \in Int /\ reported[m.cpu] \in Nat
    BY <2>1 DEF Inv, TypeOK
  <2>3. reported' = [reported EXCEPT ![m.cpu] =
          IF lastN[m.cpu] = -1 THEN @ ELSE @ + ((lastN'[m.cpu] - lastN[m.cpu] - 1) % SeqRange)]
    <3> DEFINE gap == (m.n - lastN[m.cpu] - 1) % SeqRange
    <3>1. CASE lastN[m.cpu] = -1
      <4>1. reported[m.cpu] + Missed(cpu_seq[m.cpu], m) = reported[m.cpu]
        BY <2>1, <2>2, <3>1
      <4> QED BY <2>1, <3>1, <4>1
    <3>2. CASE lastN[m.cpu] # -1
      <4>1. Missed(cpu_seq[m.cpu], m) = gap /\ gap = (lastN'[m.cpu] - lastN[m.cpu] - 1) % SeqRange
        BY <2>1, <2>2, <3>2
      <4> HIDE DEF gap
      <4> QED BY <2>1, <3>2, <4>1
    <3> QED BY <3>1, <3>2
  <2>4. Ledger!See(m.cpu)
    BY <2>1, <2>2, <2>3 DEF Ledger!See
  <2> QED BY <2>1, <2>4 DEF Ledger!Next
<1>2. CASE ~HandleEvent
  BY <1>2 DEF Next, Program, Subscribe, SubscribeFails, TestExit, RecvInterrupted, RecvNoBufs, RecvFails,
              HandleAck, RecvMessage, on_sigint, Send, vars
<1> QED BY <1>1, <1>2

\* For any CPUs, range of the sequence numbers, buffer and number of messages,
\* the Missed lines account for exactly what was dropped between two messages
\* that arrived, up to a multiple of the range (handle_proc_ev() 229-238).
THEOREM AccountsForEveryLoss == Spec => AccountsForLoss
<1>1. Init => Ledger!Init
  BY DEF Init, Ledger!Init
<1>2. Inv /\ [Next]_vars => [Ledger!Next]_<<lastN, reported>>
  BY StepRefines
<1> QED BY <1>1, <1>2, StandsForLast, PTL DEF Spec, AccountsForLoss, Ledger!Spec
=============================================================================
