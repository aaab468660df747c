---------------------------- MODULE StringParser ----------------------------
(***************************************************************************)
(* code_test/string_parser.c: splits a line into words, with quotes of two *)
(* kinds, escapes inside and outside them, and comments.                   *)
(*                                                                         *)
(* Characters are their codes, and src ends with the code 0.  One step is  *)
(* one turn of the inner loop, or what lies between two words.             *)
(***************************************************************************)
EXTENDS Integers, Sequences

LOCAL INSTANCE SequencesExt
LOCAL INSTANCE FiniteSetsExt

CONSTANTS
  Alphabet,     \* the characters of lines and of words
  MaxLine,      \* bound on the length of a line
  MaxWord       \* bound on the length of the words of a rendered line

VARIABLES
  src,
  ofs,          \* the place of the next character
  cur_quote,    \* the open quote, or 0
  word,         \* op_buf up to ofs_op
  words,        \* the words printed
  pc,           \* "between", "word", "ended", "error"
  wanted        \* history: the words src is written from, or any

vars == <<src, ofs, cur_quote, word, words, pc, wanted>>

Space == 32
DQuote == 34
SQuote == 39
Backslash == 92
WhiteSpace == {Space, 9}      \* and the tab
CommentStart == {35, 33}      \* # and !
Quotes == {DQuote, SQuote}

At(i) == IF i <= Len(src) THEN src[i] ELSE 0
FirstIn(from, chars) == LET hits == {i \in from..Len(src) : src[i] \in chars}
                        IN  IF hits = {} THEN Len(src) + 1 ELSE Min(hits)
FirstNotIn(from, chars) == LET hits == {i \in from..Len(src) : src[i] \notin chars}
                           IN  IF hits = {} THEN Len(src) + 1 ELSE Min(hits)

-----------------------------------------------------------------------------
(* Escapes. *)

Octal == 48..55
Hex == (48..57) \cup (65..70) \cup (97..102)
Digit(c) == IF c <= 57 THEN c - 48 ELSE IF c <= 70 THEN c - 55 ELSE c - 87

\* The number digits stand for, in the eight bits of a char.
Number(base, digits) == FoldLeft(LAMBDA n, c : (n * base + Digit(c)) % 256, 0, digits)

\* \a \b \f \n \r \t \v, and any other character for itself.
Letter(c) == CASE c = 97 -> 7 [] c = 98 -> 8 [] c = 102 -> 12 [] c = 110 -> 10
               [] c = 114 -> 13 [] c = 116 -> 9 [] c = 118 -> 11 [] OTHER -> c

\* Mutant: an octal escape takes all the digits there are.
EscapeGreedy(e) ==
  LET h == FirstNotIn(e + 1, Hex)
      o == FirstNotIn(e, Octal)
  IN  IF At(e) = 120 /\ At(e + 1) \in Hex THEN <<Number(16, SubSeq(src, e + 1, h - 1)), h>>
      ELSE IF At(e) \in Octal THEN <<Number(8, SubSeq(src, e, o - 1)), o>>
      ELSE <<Letter(At(e)), e + 1>>

\* The character of the escape at e, and the place behind it.
Escape(e) ==
  LET h == FirstNotIn(e + 1, Hex)
      o == Min({FirstNotIn(e, Octal), e + 3})
  IN  IF At(e) = 120 /\ At(e + 1) \in Hex THEN <<Number(16, SubSeq(src, e + 1, h - 1)), h>>
      ELSE IF At(e) \in Octal THEN <<Number(8, SubSeq(src, e, o - 1)), o>>
      ELSE <<Letter(At(e)), e + 1>>

-----------------------------------------------------------------------------
(* The parser. *)

\* What strpbrk looks for, and where it finds it.
Special == IF cur_quote # 0 THEN {cur_quote, Backslash}
           ELSE WhiteSpace \cup CommentStart \cup Quotes \cup {Backslash}
ofs1 == FirstIn(ofs, Special)
Saved == word \o SubSeq(src, ofs, ofs1 - 1)

\* The start of a word, or the end of the line or of what is not a comment.
Between ==
  /\ pc = "between"
  /\ ofs' = FirstNotIn(ofs, WhiteSpace)
  /\ pc' = IF At(ofs') = 0 \/ At(ofs') \in CommentStart THEN "ended" ELSE "word"
  /\ word' = <<>>
  /\ UNCHANGED <<src, cur_quote, words, wanted>>

\* The word ends, and is printed.
EndWord(w, next) ==
  /\ ofs' = next
  /\ words' = Append(words, w)
  /\ word' = w
  /\ pc' = IF At(next) = 0 THEN "ended" ELSE "between"

\* The end of the line where the turn begins: the inner loop is left, whether
\* a quote is open or not.
LineEnds ==
  /\ pc = "word" /\ At(ofs) = 0
  /\ EndWord(word, ofs)
  /\ UNCHANGED <<src, cur_quote, wanted>>

\* Nothing special is left: the rest is the end of the word, unless a quote
\* is open.
Rest ==
  /\ pc = "word" /\ At(ofs) # 0 /\ At(ofs1) = 0
  /\ IF cur_quote # 0
     THEN pc' = "error" /\ UNCHANGED <<ofs, word, words>>
     ELSE EndWord(Saved, ofs1)
  /\ UNCHANGED <<src, cur_quote, wanted>>

Escaped ==
  /\ pc = "word" /\ At(ofs) # 0 /\ At(ofs1) = Backslash
  /\ IF At(ofs1 + 1) = 0
     THEN pc' = "error" /\ UNCHANGED <<ofs, word>>
     ELSE /\ word' = Append(Saved, Escape(ofs1 + 1)[1])
          /\ ofs' = Escape(ofs1 + 1)[2]
          /\ UNCHANGED pc
  /\ UNCHANGED <<src, cur_quote, words, wanted>>

\* A quote closes the open one, or opens one.
Quote ==
  /\ pc = "word" /\ At(ofs) # 0 /\ At(ofs1) \in Quotes
  /\ cur_quote' = IF cur_quote # 0 THEN 0 ELSE At(ofs1)
  /\ ofs' = ofs1 + 1
  /\ word' = Saved
  /\ UNCHANGED <<src, words, pc, wanted>>

\* White space or a comment ends the word.
Break ==
  /\ pc = "word" /\ At(ofs) # 0 /\ At(ofs1) \in WhiteSpace \cup CommentStart
  /\ EndWord(Saved, ofs1)
  /\ UNCHANGED <<src, cur_quote, wanted>>

-----------------------------------------------------------------------------
(* Lines: all the short ones, and those written from words. *)

Lines == UNION {[1..n -> Alphabet] : n \in 0..MaxLine}
Words == UNION {[1..n -> Alphabet] : n \in 0..MaxWord}
Concat(seqs) == FoldLeft(\o, <<>>, seqs)

Guarded(w, chars) ==
  Concat([i \in DOMAIN w |-> IF w[i] \in chars THEN <<Backslash, w[i]>> ELSE <<w[i]>>])
Hexed(d) == IF d < 10 THEN 48 + d ELSE 87 + d

\* The ways to write a word.
Styles == {"plain", "double", "single", "octal", "hex"}
Render(w, style) ==
  CASE style = "plain"  -> Guarded(w, WhiteSpace \cup CommentStart \cup Quotes \cup {Backslash})
    [] style = "double" -> <<DQuote>> \o Guarded(w, {DQuote, Backslash}) \o <<DQuote>>
    [] style = "single" -> <<SQuote>> \o Guarded(w, {SQuote, Backslash}) \o <<SQuote>>
    [] style = "octal"  -> Concat([i \in DOMAIN w |->
         IF w[i] \notin Quotes \cup WhiteSpace \cup CommentStart \cup {Backslash} THEN <<w[i]>>
         ELSE <<Backslash, 48 + w[i] \div 64, 48 + ((w[i] \div 8) % 8), 48 + (w[i] % 8)>>])
    [] style = "hex"    -> Concat([i \in DOMAIN w |->
         <<Backslash, 120, Hexed(w[i] \div 16), Hexed(w[i] % 16)>>])

AnyWords == <<"any">>

Init ==
  /\ \/ src \in Lines /\ wanted = AnyWords
     \/ \E u, v \in Words, s, t \in Styles :
          /\ Len(v) < 2
          /\ s \notin {"double", "single"} => u # <<>>
          /\ t \notin {"double", "single"} => v # <<>>
          /\ src = Render(u, s) \o <<Space>> \o Render(v, t)
          /\ wanted = <<u, v>>
  /\ ofs = 1 /\ cur_quote = 0
  /\ word = <<>> /\ words = <<>>
  /\ pc = IF src = <<>> THEN "ended" ELSE "between"

Next == Between \/ LineEnds \/ Rest \/ Escaped \/ Quote \/ Break

Spec == Init /\ [][Next]_vars

-----------------------------------------------------------------------------
TypeOK ==
  /\ ofs \in 1..(Len(src) + 1)
  /\ cur_quote \in Quotes \cup {0}
  /\ word \in Seq(0..255) /\ words \in Seq(Seq(0..255))
  /\ pc \in {"between", "word", "ended", "error"}

\* No word is longer than what has been read of the line, so that op_buf is
\* large enough for a line shorter than it.
WordFits == pc = "word" => Len(word) < ofs

\* Words written with quotes, or with escapes of any kind, are read back as
\* they were, whatever characters are in them.
ReadsBack == wanted # AnyWords /\ pc \in {"ended", "error"} => pc = "ended" /\ words = wanted

\* A quote that is not closed is an error, unless the line ends right after the
\* quote that opened it or after an escape; an open quote never ends a word
\* that more of the line follows.
OpenQuote ==
  /\ pc = "between" => cur_quote = 0
  /\ pc = "ended" /\ cur_quote # 0 =>
       \/ src[Len(src)] = cur_quote
       \/ \E i \in 1..(Len(src) - 1) : src[i] = Backslash /\ Escape(i + 1)[2] = Len(src) + 1

Inv == TypeOK /\ WordFits /\ OpenQuote
=============================================================================
