------------------------------- MODULE Inputs -------------------------------
(***************************************************************************)
(* The programs about the strings a process is given, of which one runs:   *)
(* the PAM conversation (PamConversation), the parser of lines with quotes *)
(* and escapes (StringParser), the line read from a terminal without echo  *)
(* (GetInput), the process's own name (RenameProcess), and the file that   *)
(* root opens by a name (FopenSafe).                                       *)
(***************************************************************************)
EXTENDS PamConversation

CONSTANTS Alphabet, MaxLine, MaxWord,                 \* StringParser
          InputSize, MaxTyped,                        \* GetInput
          Names, Argv0, TASK_COMM_LEN, Page, MaxCalls, \* RenameProcess
          Files                                       \* FopenSafe

VARIABLES tool,     \* what runs
          src, ofs, cur_quote, word, words, at, wanted,
          step, handler, sig, echo, ctl_c, index, terminator, typed, owed, told,
          comm, invocation, argv0, others, mm, mm_size, start, end, mapped, name, truncated, stage,
          calls, refused, result,
          mode, path, link, owner, open, text, held, does, fd, late

parserVars == <<src, ofs, cur_quote, word, words, at, wanted>>
inputVars == <<step, handler, sig, echo, ctl_c, index, terminator, typed, owed, told>>
renameVars == <<comm, invocation, argv0, others, mm, mm_size, start, end, mapped, name, truncated,
                stage, calls, refused, result>>
fileVars == <<mode, path, link, owner, open, text, held, does, fd, late>>
allVars == <<tool, vars, parserVars, inputVars, renameVars, fileVars>>

P == INSTANCE StringParser WITH pc <- at
I == INSTANCE GetInput WITH at <- step, i <- index
R == INSTANCE RenameProcess WITH pc <- stage
F == INSTANCE FopenSafe WITH pc <- does

Pam(A) == tool = "pam" /\ A /\ UNCHANGED <<tool, parserVars, inputVars, renameVars, fileVars>>
Parser(A) == tool = "parser" /\ A /\ UNCHANGED <<tool, vars, inputVars, renameVars, fileVars>>
Getinput(A) == tool = "getinput" /\ A /\ UNCHANGED <<tool, vars, parserVars, renameVars, fileVars>>
Rename(A) == tool = "rename" /\ A /\ UNCHANGED <<tool, vars, parserVars, inputVars, fileVars>>
File(A) == tool = "file" /\ A /\ UNCHANGED <<tool, vars, parserVars, inputVars, renameVars>>

\* What does not run has its variables at some value: one is enough.
InputsInit ==
  /\ tool \in {"pam", "parser", "getinput", "rename", "file"}
  /\ tool # "parser" => src = <<>>
  /\ tool # "getinput" => handler = "default"
  /\ tool # "file" => mode = "bad" /\ path = F!NoFile /\ link = FALSE
                     /\ owner = [f \in Files |-> "root"]
  /\ Init /\ P!Init /\ I!Init /\ R!Init /\ F!Init

InputsNext == Pam(Next) \/ Parser(P!Next) \/ Getinput(I!Next) \/ Rename(R!Next)
              \/ File(F!Next)

InputsSpec == InputsInit /\ [][InputsNext]_allVars

\* What holds at every step: pam_tty_conv gives the library one response for
\* each message, or none on an error (PamConversation); a word of a line fits
\* the buffer, and a quote that stays open is noticed (StringParser); getinput
\* leaves the terminal echoing and passes an interrupt on (GetInput); and
\* rename_process tells whether the name was cut, and leaves the kernel an
\* argument area that is mapped (RenameProcess); and what fopen_safe opened is
\* root's alone before a line is written to it (FopenSafe).
InputsInv == Inv /\ P!Inv /\ I!Inv /\ R!Inv /\ F!Inv

\* StringParser: words written with quotes or escapes are read back.
ReadsBack == P!ReadsBack
=============================================================================
