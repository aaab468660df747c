------------------------------ MODULE LinkBeat ------------------------------
(***************************************************************************)
(* code_test/linkbeat1.c: every three seconds an interface is asked in     *)
(* three ways whether its link is up: through the MII registers of its     *)
(* transceiver, through ethtool, and through its flags.                    *)
(*                                                                         *)
(* One step is one ioctl(); the link changes between any two.  The link    *)
(* bit of the status register BMSR stays low after the link was lost until *)
(* it is read (latched).  A register is read as "ffff" when the ioctl      *)
(* fails, and otherwise as "0", or with or without the link bit.           *)
(***************************************************************************)
EXTENDS Naturals

CONSTANTS Mii,       \* the driver answers MII requests
          Faults     \* an ioctl() may fail

VARIABLES link,      \* the interface is up and has a carrier
          latched,   \* BMSR: the link was lost since the last read
          fd,        \* whether the socket is open
          pc,
          bmsr, new_bmsr,
          report,    \* what each of the three ways said: 1, 0 or -1 (here 2)
          history    \* of the poll: was the link always up, always down, a fault

vars == <<link, latched, fd, pc, bmsr, new_bmsr, report, history>>

LINK_UP == 1
LINK_DOWN == 0
Failed == 2
Registers == {"ffff", "0", "link", "nolink"}
Steps == {"socket", "phy", "probe", "bmcr", "bmsr", "bmsr2", "ethtool", "flags", "sleep"}
Ways == {"mii", "ethtool", "flags"}

TypeOK ==
  /\ link \in BOOLEAN /\ latched \in BOOLEAN /\ fd \in BOOLEAN
  /\ pc \in Steps
  /\ bmsr \in Registers /\ new_bmsr \in Registers
  /\ report \in [Ways -> {LINK_UP, LINK_DOWN, Failed}]
  /\ history \in [up : BOOLEAN, down : BOOLEAN, fault : BOOLEAN]

\* A poll is about to begin, and nothing has been asked.
Start ==
  /\ link \in BOOLEAN /\ latched \in BOOLEAN /\ pc = "socket"
  /\ bmsr = "0" /\ new_bmsr = "0"
  /\ report = [w \in Ways |-> Failed]
  /\ history = [up |-> link, down |-> ~link, fault |-> FALSE]

Init == Start /\ fd = FALSE

\* The link is lost or comes back.
Change ==
  /\ link' = ~link
  /\ latched' = (latched \/ link)
  /\ history' = [history EXCEPT !.up = FALSE, !.down = FALSE]
  /\ UNCHANGED <<fd, pc, bmsr, new_bmsr, report>>

At(step) == pc = step
Go(step) == pc' = step
Said(way, r) == report' = [report EXCEPT ![way] = r]
Fault == history' = [history EXCEPT !.fault = TRUE]

\* The driver's answer when BMSR is read, which ends the latch.
BMSR == IF link /\ ~latched THEN "link" ELSE "nolink"
ReadsBMSR == latched' = ~link

\* Mutant: nothing is asked when the socket was open already.
SocketOnly ==
  /\ At("socket")
  /\ \/ ~fd /\ fd' = TRUE /\ Go("phy")
     \/ UNCHANGED fd /\ Go("sleep")
  /\ UNCHANGED <<link, latched, bmsr, new_bmsr, report, history>>

\* The socket is opened once and kept; nothing is asked when that fails.
Socket ==
  /\ At("socket")
  /\ \/ fd' = TRUE /\ Go("phy")
     \/ ~fd /\ Faults /\ UNCHANGED fd /\ Go("sleep")
  /\ UNCHANGED <<link, latched, bmsr, new_bmsr, report, history>>

MiiFails == Said("mii", Failed) /\ Go("ethtool")

\* SIOCGMIIPHY; a driver without MII, or a failure, ends this way of asking.
if_mii_probe ==
  /\ At("phy")
  /\ \/ Mii /\ Go("probe") /\ UNCHANGED <<report, history>>
     \/ (~Mii \/ Faults) /\ MiiFails /\ Fault
  /\ UNCHANGED <<link, latched, fd, bmsr, new_bmsr>>

\* The first read of BMSR, only to see that it can be read.
ProbeBMSR ==
  /\ At("probe")
  /\ \/ Go("bmcr") /\ ReadsBMSR /\ UNCHANGED <<report, history>>
     \/ Faults /\ MiiFails /\ Fault /\ UNCHANGED latched
  /\ UNCHANGED <<link, fd, bmsr, new_bmsr>>

\* BMCR reads as ffff when the ioctl fails, which is noticed.
ReadBMCR ==
  /\ At("bmcr")
  /\ \/ Go("bmsr") /\ UNCHANGED <<report, history>>
     \/ Faults /\ MiiFails /\ Fault
  /\ UNCHANGED <<link, latched, fd, bmsr, new_bmsr>>

\* A status of 0 is noticed, ffff is not.
ReadBMSR ==
  /\ At("bmsr")
  /\ \/ /\ bmsr' = BMSR /\ ReadsBMSR /\ Go("bmsr2")
        /\ UNCHANGED <<report, history>>
     \/ /\ Faults /\ bmsr' = "0" /\ MiiFails /\ Fault /\ UNCHANGED latched
     \/ /\ Faults /\ bmsr' = "ffff" /\ Go("bmsr2") /\ Fault
        /\ UNCHANGED <<latched, report>>
  /\ UNCHANGED <<link, fd, new_bmsr>>

\* Mutant: the whole register is tested and not its link bit.
HasAny(r) == r # "0"

HasLink(r) == r \in {"link", "ffff"}

\* Mutant: the link must be seen by both reads.
StatusOfBoth(first, second) ==
  IF HasLink(first) /\ HasLink(second) THEN LINK_UP ELSE LINK_DOWN

StatusOf(first, second) ==
  IF HasLink(first) \/ HasLink(second) THEN LINK_UP ELSE LINK_DOWN

if_mii_status ==
  /\ At("bmsr2")
  /\ \/ new_bmsr' = BMSR /\ ReadsBMSR /\ UNCHANGED history
     \/ Faults /\ new_bmsr' \in {"ffff", "0"} /\ Fault /\ UNCHANGED latched
  /\ Said("mii", StatusOf(bmsr, new_bmsr')) /\ Go("ethtool")
  /\ UNCHANGED <<link, fd, bmsr>>

Linked == IF link THEN LINK_UP ELSE LINK_DOWN

if_ethtool_status ==
  /\ At("ethtool") /\ Go("flags")
  /\ \/ Said("ethtool", Linked) /\ UNCHANGED history
     \/ Faults /\ Said("ethtool", Failed) /\ Fault
  /\ UNCHANGED <<link, latched, fd, bmsr, new_bmsr>>

\* The flags count as up when they cannot be read.
if_ioctl_flags ==
  /\ At("flags") /\ Go("sleep")
  /\ \/ Said("flags", Linked) /\ UNCHANGED history
     \/ Faults /\ Said("flags", LINK_UP) /\ Fault
  /\ UNCHANGED <<link, latched, fd, bmsr, new_bmsr>>

Sleep ==
  /\ At("sleep") /\ Go("socket")
  /\ history' = [up |-> link, down |-> ~link, fault |-> FALSE]
  /\ UNCHANGED <<link, latched, fd, bmsr, new_bmsr, report>>

Poll == \/ Socket \/ if_mii_probe \/ ProbeBMSR \/ ReadBMCR \/ ReadBMSR
        \/ if_mii_status \/ if_ethtool_status \/ if_ioctl_flags \/ Sleep

Next == Change \/ Poll

-----------------------------------------------------------------------------
(***************************************************************************)
(* Properties.                                                             *)
(***************************************************************************)
Polled == pc = "sleep" /\ fd

\* The link a poll finds up throughout is reported up, whatever was latched
\* before the poll; one it finds down throughout is reported down; so the
\* three ways agree (linkbeat1.c 84-113, 144-158, 173-207).
SteadyAgrees ==
  (Polled /\ Mii /\ ~history.fault) =>
    /\ history.up => \A w \in Ways : report[w] = LINK_UP
    /\ history.down => \A w \in Ways : report[w] = LINK_DOWN

\* The registers say down only when the link was lost during the poll, even
\* when requests fail: a loss latched earlier is read away (99-104).
DownIsRecent ==
  (pc = "ethtool" /\ report["mii"] = LINK_DOWN) => ~history.up

\* Once the socket is open, a link that stays up is reported up by the flags
\* for good: the polls go on whatever fails (221-237).
KeepsPolling == (<>fd /\ <>[]link) => <>[](report["flags"] = LINK_UP)
=============================================================================
