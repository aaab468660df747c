-------------------------- MODULE PamConversation --------------------------
(***************************************************************************)
(* code_test/pam_authenticate.c: a user is authenticated with a password   *)
(* given on the command line, until it is accepted or the user is unknown, *)
(* and the account is then examined.  pam_tty_conv answers the messages of *)
(* the PAM library: one step per message, in an array of responses that    *)
(* belongs to the library on success and has to be freed on error.         *)
(*                                                                         *)
(* resp is what the program has allocated: the array, whose elements hold  *)
(* a string or NULL.  It is emptied when all of it is freed.               *)
(***************************************************************************)
EXTENDS Naturals, Sequences

CONSTANTS PAM_MAX_NUM_MSG,  \* the library's limit on the messages of a call
          Interrupts,       \* writing a message may be interrupted by a signal
          OutOfMemory       \* an allocation may fail

ASSUME PamAssumption == PAM_MAX_NUM_MSG \in Nat /\ PAM_MAX_NUM_MSG > 1

VARIABLES pc,
          messages,  \* the styles of the messages of the call
          i,         \* the loop variable
          resp,      \* the array of responses, <<>> when there is none
          given,     \* the array the library was given: what *resp points to
          returned,  \* what the last pam_tty_conv returned
          oom,       \* history: strdup failed during this call
          err        \* what the last library function returned

vars == <<pc, messages, i, resp, given, returned, oom, err>>

Prompts == {"PAM_PROMPT_ECHO_OFF", "PAM_PROMPT_ECHO_ON"}
Texts == {"PAM_ERROR_MSG", "PAM_TEXT_INFO"}
Styles == Prompts \cup Texts \cup {"unknown", "NULL"}
Responses == {"string", "null"}
Calls == UNION {[1..k -> Styles] : k \in 0..PAM_MAX_NUM_MSG}
Answers == {"PAM_SUCCESS", "PAM_USER_UNKNOWN", "PAM_AUTH_ERR"}

TypeOK ==
  /\ pc \in {"start", "auth", "conv", "acct", "ended", "failed", "aborted"}
  /\ messages \in Calls /\ i \in 0..Len(messages)
  /\ resp \in Seq(Responses) /\ Len(resp) \in {0, Len(messages)}
  /\ given \in Seq(Responses) /\ oom \in BOOLEAN
  /\ returned \in {"none", "PAM_SUCCESS", "PAM_CONV_ERR", "PAM_BUF_ERR"}
  /\ err \in Answers \cup {"none"}

Init ==
  /\ pc = "start" /\ messages = <<>> /\ i = 0 /\ resp = <<>> /\ given = <<>>
  /\ returned = "none" /\ oom = FALSE /\ err = "none"

\* getpwuid() and pam_start() may fail, which ends the program.
Start ==
  /\ pc = "start" /\ pc' \in {"auth", "failed"}
  /\ UNCHANGED <<messages, i, resp, given, returned, oom, err>>

ConvReturns(how, array) == returned' = how /\ given' = array /\ pc' = "auth"

\* The library calls pam_tty_conv, which refuses a bad number of messages.
Converse ==
  /\ pc = "auth"
  /\ messages' \in Calls
  /\ i' = 0 /\ oom' = FALSE
  /\ LET n == Len(messages') IN
     \/ /\ n = 0 \/ n >= PAM_MAX_NUM_MSG
        /\ ConvReturns("PAM_CONV_ERR", <<>>) /\ resp' = <<>>
     \/ /\ n \in 1..(PAM_MAX_NUM_MSG - 1) /\ OutOfMemory
        /\ ConvReturns("PAM_BUF_ERR", <<>>) /\ resp' = <<>>
     \/ /\ n \in 1..(PAM_MAX_NUM_MSG - 1)
        /\ resp' = [k \in 1..n |-> "null"] /\ pc' = "conv"
        /\ UNCHANGED <<returned, given>>
  /\ UNCHANGED err

Style == messages[i + 1]
Here(how) == [resp EXCEPT ![i + 1] = how]

(***************************************************************************)
(* free_resp(i, r) at the label err: r is the response the loop is at, so  *)
(* the strings of the i elements from there on are freed, and the array    *)
(* only when r is its start.  An address inside the array given to free()  *)
(* aborts the program or goes unnoticed.                                   *)
(***************************************************************************)
free_resp(array) ==
  [k \in DOMAIN array |-> IF k \in (i + 1)..(i + i) THEN "null" ELSE array[k]]

Freed(array) == i = 0 /\ \A k \in DOMAIN array : array[k] = "null"

ConvError(array) ==
  /\ resp' = IF Freed(free_resp(array)) THEN <<>> ELSE free_resp(array)
  /\ \/ ConvReturns("PAM_CONV_ERR", <<>>)
     \/ i > 0 /\ pc' = "aborted" /\ UNCHANGED <<returned, given>>
  /\ UNCHANGED i

\* A message without a text, or of an unknown style.
BadMessage ==
  /\ pc = "conv" /\ i < Len(messages) /\ Style \in {"NULL", "unknown"}
  /\ ConvError(Here("null"))
  /\ UNCHANGED <<messages, oom, err>>

\* Mutant: a text is answered like a prompt.
AnswersTo(style) == {"string"}

\* What one message is answered with: strdup may fail, and is not checked.
Answer(style) ==
  IF style \in Prompts THEN {"string"} \cup (IF OutOfMemory THEN {"null"} ELSE {})
                       ELSE {"null"}

Respond ==
  /\ pc = "conv" /\ i < Len(messages) /\ Style \in Prompts \cup Texts
  /\ \E a \in Answer(Style) :
       /\ \/ /\ resp' = Here(a) /\ i' = i + 1
             /\ UNCHANGED <<pc, given, returned>>
          \/ Interrupts /\ ConvError(Here(a))
       /\ oom' = (oom \/ (Style \in Prompts /\ a = "null"))
  /\ UNCHANGED <<messages, err>>

\* The array is handed over; the library frees it.
ConvSucceeds ==
  /\ pc = "conv" /\ i = Len(messages)
  /\ ConvReturns("PAM_SUCCESS", resp)
  /\ resp' = <<>>
  /\ UNCHANGED <<messages, i, oom, err>>

\* pam_authenticate returns: the loop ends on success or an unknown user.
Authenticate ==
  /\ pc = "auth"
  /\ err' \in Answers
  /\ pc' = IF err' \in {"PAM_USER_UNKNOWN", "PAM_SUCCESS"} THEN "acct" ELSE "auth"
  /\ UNCHANGED <<messages, i, resp, given, returned, oom>>

\* pam_acct_mgmt, whose every answer is printed, and pam_end.
Account ==
  /\ pc = "acct" /\ pc' = "ended"
  /\ UNCHANGED <<messages, i, resp, given, returned, oom, err>>

Done == pc \in {"ended", "failed", "aborted"} /\ UNCHANGED vars

Next == \/ Start \/ Converse \/ BadMessage \/ Respond \/ ConvSucceeds
        \/ Authenticate \/ Account \/ Done

Spec == Init /\ [][Next]_vars

-----------------------------------------------------------------------------
(***************************************************************************)
(* Properties.                                                             *)
(***************************************************************************)
\* On success the library is given one response for each message: the
\* password for a prompt, where there was memory for it, and NULL for a text
\* (pam_authenticate.c 72-132).
OneResponseEach ==
  (pc = "auth" /\ returned = "PAM_SUCCESS") =>
    /\ Len(given) = Len(messages)
    /\ \A k \in 1..Len(given) :
         (given[k] = "string") => messages[k] \in Prompts
    /\ ~oom => \A k \in 1..Len(given) :
         messages[k] \in Prompts => given[k] = "string"

\* No error leaves the library a response: *resp is NULL (63, 66-68, 136).
NoResponseOnError ==
  (pc = "auth" /\ returned \in {"PAM_CONV_ERR", "PAM_BUF_ERR"}) => given = <<>>

\* What holds at every step of the conversation: the types, and what the
\* library holds when pam_tty_conv() has returned, on success and on error.
Inv == TypeOK /\ OneResponseEach /\ NoResponseOnError
=============================================================================
