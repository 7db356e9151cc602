------------------------------ MODULE MacSetup ------------------------------
(***************************************************************************)
(* cfe_ether_init: the way from reset to a running Ethernet MAC            *)
(* (dev_sb_mac.c), with the switch configured in its middle (RoboSwitch).  *)
(* The rings and buffers that it sets up too are in SbMac.                 *)
(***************************************************************************)
EXTENDS RoboSwitch

VARIABLES
  chip,        \* what getchipid returns: "bcm5350", "bcm535x", "bcm5354", "other"
  pc,
  internal,    \* R_DEV_CONTROL: an integrated PHY
  phyint,      \* phy_interrupt
  status, linkspeed, tries,  \* of mii_autonegotiate; linkspeed is sc's
  cam, busy,   \* the MAC address in the CAM; a CAM write under way
  enet, xmt,   \* bits set in R_ENET_CONTROL and R_XMT_CONTROL1
  intmask      \* R_INT_MASK

mac  == <<internal, phyint, status, linkspeed, tries, cam, busy, enet, xmt, intmask>>
vars == <<robovars, chip, pc, mac>>

isbcm535x == chip # "other"
PHY_ADDR == IF isbcm535x THEN 30 ELSE 0  \* cfe_ether_init
Speeds == {"100FDX", "100HDX", "10FDX", "10HDX"}

Init ==
  /\ RoboInit
  /\ chip \in {"bcm5350", "bcm535x", "bcm5354", "other"} /\ (robo => isbcm535x)
  /\ pc = "attach" /\ internal \in BOOLEAN /\ phyint = FALSE
  /\ status = {} /\ linkspeed = "AUTO" /\ tries = 0
  /\ cam = "none" /\ busy = FALSE /\ enet = {} /\ xmt = {} /\ intmask = {}

Go(from, to) == pc = from /\ pc' = to /\ UNCHANGED chip

-----------------------------------------------------------------------------
(* sb_ether_attach: the core out of reset, twice, and mii_enable.          *)
Attach ==
  /\ Go("attach", "probe")
  /\ enet' = IF internal THEN {} ELSE {"external PHY"}
  /\ UNCHANGED <<robovars, internal, phyint, status, linkspeed, tries, cam, busy, xmt, intmask>>

(* bcm4401_hwinit.  mii_probe asks all 32 addresses and keeps the last     *)
(* identity that answers, whatever the address used later is.              *)
MiiProbe ==
  /\ Go("probe", "autoneg")
  /\ phyint' \in BOOLEAN
  /\ UNCHANGED <<robovars, internal, status, linkspeed, tries, cam, busy, enet, xmt, intmask>>

(* mii_autonegotiate.  With the switch only the local linkspeed is set.    *)
IsSwitch ==
  /\ Go("autoneg", IF chip = "bcm5354" THEN "address" ELSE "robosw")
  /\ PHY_ADDR = 30
  /\ at' = IF chip = "bcm5354" THEN at ELSE "probe"
  /\ UNCHANGED <<nvram, robo, vid, cur, row, val8, acc, switch>>
  /\ UNCHANGED <<internal, phyint, status, linkspeed, tries, cam, busy, enet, xmt, intmask>>

Robosw == pc = "robosw" /\ UNCHANGED <<chip, pc, mac>>
RoboswCpu == Robosw /\ (Bus \/ Config)
RoboswCommit == Robosw /\ Commit
RoboswStore == Robosw /\ StoreAddress
RoboswDone ==
  /\ Go("robosw", "address") /\ at = "done"
  /\ UNCHANGED <<robovars, mac>>

IsPhy ==  \* MII_BMSR, read twice
  /\ pc = "autoneg" /\ PHY_ADDR # 30
  /\ status' \in SUBSET {"autoneg", "link", "complete"}
  /\ tries' = 8
  /\ pc' = IF {"autoneg", "link"} \subseteq status' THEN "remote" ELSE "converge"
  /\ UNCHANGED <<robovars, chip, internal, phyint, linkspeed, cam, busy, enet, xmt, intmask>>

(* 4*CFE_HZ in steps of CFE_HZ/2.  The body of cfe_sleep is not built.     *)
Converge ==
  /\ pc = "converge" /\ tries > 0
  /\ status' \in SUBSET {"autoneg", "link", "complete"}
  /\ IF "complete" \in status' THEN pc' = "remote" /\ UNCHANGED tries
     ELSE tries' = tries - 1 /\ pc' = IF tries = 1 THEN "remote" ELSE "converge"
  /\ UNCHANGED <<robovars, chip, internal, phyint, linkspeed, cam, busy, enet, xmt, intmask>>

(* What the partner offers, or nothing that the code looks for.            *)
Remote ==
  /\ Go("remote", "address")
  /\ linkspeed' \in IF "complete" \in status THEN Speeds \cup {"UNKNOWN"} ELSE {"UNKNOWN"}
  /\ UNCHANGED <<robovars, internal, phyint, status, tries, cam, busy, enet, xmt, intmask>>

(* bcm4401_set_hw_addr: it stops looking when the write is under way, or   *)
(* after ten reads.                                                        *)
SetHwAddr ==
  /\ Go("address", "start") /\ UNCHANGED <<robovars, internal, phyint, status, linkspeed, tries, enet, xmt, intmask>>
  /\ \/ chip = "bcm5350" /\ UNCHANGED <<cam, busy>>  \* CFE's address stays
     \/ chip # "bcm5350" /\ busy' \in BOOLEAN /\ cam' = IF busy' THEN cam ELSE "hwaddr"

CamWritten ==  \* the CAM (external) completes the write
  /\ busy
  /\ busy' = FALSE /\ cam' = "hwaddr"
  /\ UNCHANGED <<robovars, chip, pc, internal, phyint, status, linkspeed, tries, enet, xmt, intmask>>

Duplex == IF linkspeed \in {"100FDX", "10FDX"} THEN {"FD", "SB"} ELSE {}
(* The rest of bcm4401_hwinit and bcm4401_start.  On the bcm5350 ctrl is   *)
(* still R_EMAC_CONTROL when R_ENET_CONTROL is written.                    *)
Start ==
  /\ Go("start", "on")
  /\ xmt' = IF chip = "bcm5350" THEN xmt ELSE Duplex
  /\ enet' = {"enable"} \cup (IF chip = "bcm5350" THEN {"CRC"} ELSE enet)
  /\ intmask' = {"RI", "XI"} \cup (IF phyint THEN {"TO"} ELSE {})
  /\ UNCHANGED <<robovars, internal, phyint, status, linkspeed, tries, cam, busy>>

-----------------------------------------------------------------------------
Cpu == Attach \/ MiiProbe \/ IsSwitch \/ RoboswDone \/ IsPhy \/ Converge \/ Remote \/ SetHwAddr \/ Start
Next == Cpu \/ RoboswCpu \/ RoboswCommit \/ RoboswStore \/ CamWritten
Spec == Init /\ [][Next]_vars

(* The processor goes on; the switch answers and stores in the end.        *)
LiveSpec ==
  Spec /\ WF_vars(Cpu) /\ WF_vars(RoboswCpu) /\ WF_vars(RoboswCommit) /\ WF_vars(RoboswStore)

-----------------------------------------------------------------------------
(* The type invariant.                                                     *)
TypeOK ==
  /\ at \in {"off", "probe", "done", "rvmii", "forward", "vlan", "token", "stored", "access"}
            \cup DOMAIN Reads \cup DOMAIN Writes
  /\ vid \in 0..NumVlans /\ acc.step \in {"none", "page", "data", "wait"}
  /\ linkspeed \in Speeds \cup {"AUTO", "UNKNOWN"} /\ tries \in 0..8
  /\ xmt \subseteq {"FD", "SB"} /\ cam \in {"none", "hwaddr"} /\ busy \in BOOLEAN

(* Bring-up ends, through every poll, whatever nvram holds.                *)
BringUpEnds == <>(pc = "on")
=============================================================================
