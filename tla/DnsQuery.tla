------------------------------ MODULE DnsQuery ------------------------------
(***************************************************************************)
(* dns_make_query of code_test/dns_test.c: a name with its labels between  *)
(* dots is written into a query, each label behind its length, and a zero  *)
(* length at the end.  One step is one iteration of the loop.              *)
(*                                                                         *)
(* A character is a dot or a letter.  In the query, lengths are numbers    *)
(* and characters are letters, and a length is cut to a byte; the header   *)
(* and the type and class are counted, their content is fixed.             *)
(***************************************************************************)
EXTENDS Naturals, Sequences, SequencesExt

CONSTANTS Letters,     \* the characters other than the dot
          MaxName,     \* bound: characters of a name
          MaxLabel,    \* 63, the longest label of a name
          Byte,        \* 256, the values of a byte
          Header,      \* sizeof(dns_header_t)
          BufSize      \* sizeof(buf) in do_query

VARIABLES name,        \* the name asked for
          s,           \* the characters written so far
          qname,       \* what they were written as
          length       \* of the whole query once it is made, 0 before

vars == <<name, s, qname, length>>

Char == Letters \cup {"."}
Names == UNION {[1..n -> Char] : n \in 0..MaxName}

TypeOK ==
  /\ name \in Names /\ s \in 0..Len(name)
  /\ qname \in Seq(Letters \cup 0..MaxName) /\ length \in 0..(Header + MaxName + 6)

Init == name \in Names /\ s = 0 /\ qname = <<>> /\ length = 0

\* The end of the label at s: the next dot, or the end of the name.
LabelEnd ==
  CHOOSE e \in s..Len(name) :
    /\ \A k \in (s + 1)..e : name[k] # "."
    /\ e = Len(name) \/ name[e + 1] = "."

\* Mutant: the dot stays in front of the next label.
LabelOn ==
  /\ length = 0 /\ s < Len(name)
  /\ qname' = qname \o <<(LabelEnd - s) % Byte>> \o SubSeq(name, s + 1, LabelEnd)
  /\ s' = IF LabelEnd = s THEN s + 1 ELSE LabelEnd
  /\ UNCHANGED <<name, length>>

\* One label is written behind its length, and the dot after it passed.
Label ==
  /\ length = 0 /\ s < Len(name)
  /\ qname' = qname \o <<(LabelEnd - s) % Byte>> \o SubSeq(name, s + 1, LabelEnd)
  /\ s' = IF LabelEnd < Len(name) THEN LabelEnd + 1 ELSE LabelEnd
  /\ UNCHANGED <<name, length>>

Root == <<".">>

\* The zero that ends the name, which "." has already, and type and class.
Finish ==
  /\ length = 0 /\ s = Len(name)
  /\ qname' = IF name # Root THEN Append(qname, 0) ELSE qname
  /\ length' = Header + Len(qname') + 4
  /\ UNCHANGED <<name, s>>

Done == length > 0 /\ UNCHANGED vars

Next == Label \/ Finish \/ Done

-----------------------------------------------------------------------------
(***************************************************************************)
(* Properties.                                                             *)
(***************************************************************************)
\* A server's reading of a name: labels up to the first zero length.
Read[q \in Seq(Letters \cup 0..MaxName)] ==
  IF q = <<>> \/ Head(q) = 0 THEN <<>>
  ELSE <<SubSeq(q, 2, Head(q) + 1)>> \o Read[SubSeq(q, Head(q) + 2, Len(q))]

\* A name with no label that is too long and no empty one but, perhaps, the last;
\* "." and "" are the root.
WellFormed ==
  /\ \A k \in 1..(Len(name) - MaxLabel) : \E j \in k..(k + MaxLabel) : name[j] = "."
  /\ \A k \in 1..(Len(name) - 1) : ~(name[k] = "." /\ name[k + 1] = ".")
  /\ Len(name) > 1 => name[1] # "."

Dotted(labels) == FoldLeft(LAMBDA acc, l : acc \o <<".">> \o l, <<>>, labels)
Stripped == IF name # <<>> /\ Last(name) = "." THEN Front(name) ELSE name

\* What a server reads is the name asked for, with or without a dot at its
\* end: every character of a well-formed name is accounted for, and the zero
\* comes after the last (dns_test.c 108-119).
ReadAsWritten ==
  (length > 0 /\ WellFormed) =>
    Dotted(Read[qname]) = IF Stripped = <<>> THEN <<>> ELSE <<".">> \o Stripped

\* The name ends with the zero a server stops at: nothing is left behind it
\* to be taken for the type (118-121).
NothingBehind ==
  (length > 0 /\ WellFormed) => Len(qname) = 1 + Len(Dotted(Read[qname]))

\* The buffer holds the query of every name that leaves room for the header,
\* the first length, the last zero, the type and the class; nothing checks
\* it (do_query's buf, 152).
Fits == (Len(name) <= BufSize - Header - 6) => length <= BufSize
=============================================================================
