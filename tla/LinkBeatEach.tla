---------------------------- MODULE LinkBeatEach ----------------------------
(***************************************************************************)
(* code_test/linkbeat.c, the first version of linkbeat1.c: each of the     *)
(* three ways of asking for the link opens a socket of its own and closes  *)
(* it when it returns.  The requests, and what is made of them, are those  *)
(* of LinkBeat, whose one socket is here always at hand.                   *)
(***************************************************************************)
EXTENDS Naturals

CONSTANTS Mii, Faults

VARIABLES link, latched, pc, bmsr, new_bmsr, report, history,
          fd,        \* the function that runs has opened its socket
          socks      \* the sockets of the process

B == INSTANCE LinkBeat WITH fd <- ~FALSE

Init == B!Start /\ fd = FALSE /\ socks = 0

\* socket(), of the function at step, which goes on at next; or which says r
\* and is left for after.
Opens(step, next, way, r, after) ==
  /\ pc = step /\ ~fd
  /\ \/ /\ pc' = next /\ fd' = TRUE /\ socks' = socks + 1
        /\ UNCHANGED <<report, history>>
     \/ /\ Faults /\ pc' = after /\ B!Said(way, r) /\ B!Fault
        /\ UNCHANGED <<fd, socks>>
  /\ UNCHANGED <<link, latched, bmsr, new_bmsr>>

\* A request on the open socket.  The function goes on, or it closes it and
\* returns.
Asks(A) ==
  /\ fd /\ A
  /\ fd' = (pc' \in {"probe", "bmcr", "bmsr", "bmsr2"})
  /\ socks' = IF fd' THEN socks ELSE socks - 1

if_mii_status == Asks(B!ReadBMCR) \/ Asks(B!ReadBMSR) \/ Asks(B!if_mii_status)

\* Mutant: the socket is left open when the driver does not report BMSR.
if_mii_probe_leaves ==
  \/ Opens("socket", "phy", "mii", B!Failed, "ethtool")
  \/ Asks(B!if_mii_probe)
  \/ fd /\ B!ProbeBMSR /\ fd' = (pc' = "bmcr") /\ UNCHANGED socks

if_mii_probe ==
  \/ Opens("socket", "phy", "mii", B!Failed, "ethtool")
  \/ Asks(B!if_mii_probe) \/ Asks(B!ProbeBMSR)

if_ethtool_status == Asks(B!if_ethtool_status)

if_ethtool_probe == Opens("ethtool", "ethtool", "ethtool", B!Failed, "flags")

\* The flags count as up, too, when there is no socket to ask for them.
if_ioctl_flags ==
  \/ Opens("flags", "flags", "flags", B!LINK_UP, "sleep")
  \/ Asks(B!if_ioctl_flags)

Sleep == B!Sleep /\ UNCHANGED <<fd, socks>>

main == if_mii_probe \/ if_mii_status \/ if_ethtool_probe \/ if_ethtool_status
        \/ if_ioctl_flags \/ Sleep

Next == main \/ (B!Change /\ UNCHANGED <<fd, socks>>)

-----------------------------------------------------------------------------
\* However the requests of a poll fail, no socket is left behind: there is
\* one while a way of asking runs and none between two (linkbeat.c 85-113,
\* 134-145, 152-165).
NoneLeft == socks = IF fd THEN 1 ELSE 0
=============================================================================
