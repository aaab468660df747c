------------------------------ MODULE ConfGen ------------------------------
(***************************************************************************)
(* configs/1173.sh: writes a keepalived configuration file for each of a   *)
(* range of virtual servers, with the same range of real servers in each.  *)
(* The files are written by background jobs, for which the script waits.   *)
(*                                                                         *)
(* An address is its last two parts; a part has Base values, 256 in an     *)
(* IPv4 address and 65536 in an IPv6 one.  A value the script draws at     *)
(* random is "random".  Of the options, -d, -p and -k only set texts that  *)
(* are copied out, and are left out with them.                             *)
(***************************************************************************)
EXTENDS Integers, Sequences

CONSTANTS
  Base,       \* the values of one part of an address
  Counts      \* the numbers of servers given with -v and -r

VARIABLES
  options,    \* the -v, -r and -h options still to be read
  OTHER_ARGS, \* the key=value arguments that follow them
  VIP,        \* <<VIP_START, VIP_END>>
  RIP,
  HC_TYPE,
  nv,         \* the next virtual server to launch a job for
  jobs,       \* the jobs that run
  files,      \* the content of each file written
  pc,         \* "options", "launch", "done"
  given       \* history: the addresses and counts given last

vars == <<options, OTHER_ARGS, VIP, RIP, HC_TYPE, nv, jobs, files, pc, given>>

Addresses == (0..(Base - 1)) \X (0..(Base - 1))
Ranges == [at : Addresses, count : Counts]

-----------------------------------------------------------------------------
(* Numbers and addresses.  Division is the shell's, towards zero. *)

Quot(n) == IF n >= 0 THEN n \div Base ELSE -((-n) \div Base)

\* Mutant: the third part starts from 0.
num_to_ip_from0(n) == <<Quot(n), n - Base * Quot(n)>>

num_to_ip(n) == <<Quot(n) + 1, n - Base * Quot(n)>>

ip_to_num(ip) == (ip[1] - 1) * Base + ip[2]

-----------------------------------------------------------------------------
(* The content of a file. *)

\* [[ "$tmp_pair" =~ "$tmp_key=" ]] holds too of a key that ends in the one
\* sought.
Matches(pair, key) == pair[1] = key \/ (pair[1] = "delay_before_retry" /\ key = "retry")

NoDefault == "none"

\* The first argument that matches, as it is; or the default; or a comment.
ak_read_pair(key, default) ==
  LET found == {i \in DOMAIN OTHER_ARGS : Matches(OTHER_ARGS[i], key)}
  IN  IF found # {} THEN OTHER_ARGS[CHOOSE i \in found : \A j \in found : i <= j]
      ELSE IF default # NoDefault THEN <<key, default>>
      ELSE <<"#">>

\* The misc checker has a fixed text, and a type that is not known no text.
ak_add_checker(type) ==
  IF type \notin {"tcp", "http", "ssl"} THEN {}
  ELSE {ak_read_pair("connect_timeout", "random"), ak_read_pair("delay_before_retry", "random"),
        ak_read_pair("retry", "random"), ak_read_pair("bindto", NoDefault)}

ak_add_rs(n) ==
  [rip |-> num_to_ip(n), weight |-> ak_read_pair("weight", "random"),
   checker |-> ak_add_checker(HC_TYPE)]

ak_add_vs(n) ==
  [vip |-> num_to_ip(n), dev |-> ak_read_pair("dev", "lo"),
   loop |-> {ak_read_pair("delay_loop", "random"), ak_read_pair("persistence_timeout", "random")},
   rss |-> [i \in 1..(RIP[2] - RIP[1] + 1) |-> ak_add_rs(RIP[1] + i - 1)]]

-----------------------------------------------------------------------------
(* The script. *)

Range(r) == <<ip_to_num(r.at), ip_to_num(r.at) + r.count - 1>>

\* One turn of the loop over the options: a later one overrides.
Option ==
  /\ pc = "options" /\ options # <<>>
  /\ LET o == Head(options) IN
       /\ VIP' = IF o.opt = "-v" THEN Range(o.range) ELSE VIP
       /\ RIP' = IF o.opt = "-r" THEN Range(o.range) ELSE RIP
       /\ HC_TYPE' = IF o.opt = "-h" THEN o.type ELSE HC_TYPE
       /\ given' = IF o.opt = "-h" THEN given ELSE [given EXCEPT ![o.opt] = o.range]
  /\ options' = Tail(options)
  /\ UNCHANGED <<OTHER_ARGS, nv, jobs, files, pc>>

\* OTHER_ARGS="$*"
EndOptions ==
  /\ pc = "options" /\ options = <<>>
  /\ pc' = "launch"
  /\ nv' = VIP[1]
  /\ UNCHANGED <<options, OTHER_ARGS, VIP, RIP, HC_TYPE, jobs, files, given>>

\* ak_add_vs $vip >$tmp_conf &
Launch ==
  /\ pc = "launch" /\ nv <= VIP[2]
  /\ jobs' = jobs \cup {nv}
  /\ nv' = nv + 1
  /\ UNCHANGED <<options, OTHER_ARGS, VIP, RIP, HC_TYPE, files, pc, given>>

Job(n) ==
  /\ n \in jobs
  /\ jobs' = jobs \ {n}
  /\ files' = [m \in DOMAIN files \cup {n} |-> IF m = n THEN ak_add_vs(n) ELSE files[m]]
  /\ UNCHANGED <<options, OTHER_ARGS, VIP, RIP, HC_TYPE, nv, pc, given>>

\* wait
Wait ==
  /\ pc = "launch" /\ nv > VIP[2] /\ jobs = {}
  /\ pc' = "done"
  /\ UNCHANGED <<options, OTHER_ARGS, VIP, RIP, HC_TYPE, nv, jobs, files, given>>

Options ==
  [opt : {"-v", "-r"}, range : Ranges] \cup [opt : {"-h"}, type : {"http", "misc"}]

Init ==
  /\ options \in {<<>>} \cup {<<o>> : o \in Options} \cup (Options \X Options)
  /\ OTHER_ARGS \in {<<>>, <<<<"bindto", "x">>>>, <<<<"delay_before_retry", "x">>>>,
                     <<<<"retry", "y">>, <<"delay_before_retry", "x">>>>}
  /\ VIP = <<1, 1>> /\ RIP = <<1, 1>>
  /\ HC_TYPE = "tcp"
  /\ nv = 1 /\ jobs = {} /\ files = <<>>
  /\ pc = "options"
  /\ given = [o \in {"-v", "-r"} |-> [at |-> <<1, 1>>, count |-> 1]]

Next == Option \/ EndOptions \/ Launch \/ (\E n \in jobs : Job(n)) \/ Wait

Spec == Init /\ [][Next]_vars

-----------------------------------------------------------------------------
TypeOK ==
  /\ VIP \in Int \X Int /\ RIP \in Int \X Int
  /\ jobs \subseteq VIP[1]..VIP[2]
  /\ pc \in {"options", "launch", "done"}

\* The i-th address of a range: as one counts from the address given.
Ith(r, i) ==
  IF r.at[2] + i < Base THEN <<r.at[1], r.at[2] + i>>
  ELSE <<r.at[1] + (r.at[2] + i) \div Base, (r.at[2] + i) % Base>>

\* When the script ends there is one file for each virtual server asked for,
\* from the address given on, and in it each real server asked for in order,
\* whatever the order in which the jobs ended; unless a third part of 0 was
\* given, for which the division towards zero gives parts that are negative.
FilesAsAsked ==
  pc = "done" /\ given["-v"].at[1] > 0 /\ given["-r"].at[1] > 0 =>
    /\ {files[n].vip : n \in DOMAIN files} = {Ith(given["-v"], i) : i \in 0..(given["-v"].count - 1)}
    /\ \A n \in DOMAIN files :
         [i \in DOMAIN files[n].rss |-> files[n].rss[i].rip]
           = [i \in 1..given["-r"].count |-> Ith(given["-r"], i - 1)]

\* A checker gets a retry of its own, given or random, unless delay_before_retry
\* was given and retry was not given before it: that argument then stands in
\* the place of both.
RetryIsSet ==
  \A n \in DOMAIN files : \A i \in DOMAIN files[n].rss :
    LET lines == files[n].rss[i].checker IN
    lines = {} \/ (\E l \in lines : l[1] = "retry")
               \/ (OTHER_ARGS # <<>> /\ OTHER_ARGS[1][1] = "delay_before_retry")

Inv == TypeOK /\ FilesAsAsked /\ RetryIsSet
=============================================================================
