----------------------------- MODULE RoboSwitch -----------------------------
(***************************************************************************)
(* robosw_init (etc_robo.c): the VLANs of the switch, set up from nvram    *)
(* through the MII registers of its pseudo PHY (robosw_r and robosw_w,     *)
(* dev_sb_mac.c).                                                          *)
(*                                                                         *)
(* A register access takes several MII operations; the switch carries the  *)
(* command out when it likes, with what the MII registers hold then.       *)
(* Addresses of registers and digits are names; a data word is a record of *)
(* what is in it: a set of named bits, a VLAN, a part of something longer.      *)
(* What is not built (#if 0, DEVID5395) is left out.                       *)
(***************************************************************************)
EXTENDS Integers, Sequences, FiniteSetsExt

CONSTANTS
  NumVlans,    \* VLAN_NUMVLANS
  PortLists,   \* values of vlan0ports and vlan1ports, sequences of characters
  NULL         \* nvram has no such name

RoboAssumption ==  \* assumed in Parts
  NumVlans \in Nat \ {0} /\ NULL \notin PortLists /\ \A s \in PortLists : s \in Seq(STRING)

VARIABLES
  nvram,       \* nvram_get of vlan0ports and vlan1ports
  robo,        \* the chip has a switch
  at, vid,     \* the place in robosw_init; the loop over VLANs
  cur, row,    \* the rest of the port list; untag and member
  val8,        \* what the last read_reg read
  acc,         \* the register access under way
  page, data, cmd,  \* MII registers of the switch: access control, data, command
  regs,        \* its own registers
  vtable, arl  \* its VLAN and address tables

config == <<at, vid, cur, row>>
mii    == <<page, data, cmd>>
switch == <<mii, regs, vtable, arl>>
robovars == <<nvram, robo, config, val8, acc, switch>>

-----------------------------------------------------------------------------
Bits(s) == [bits |-> s]
Id(v) == [vid |-> v]
Part(x) == [part |-> x]

R(p, a) == [page |-> p, addr |-> a]
Ports == {"0", "1", "2", "3", "4", "5"}  \* 5 is the MII port
MIIPO == R("CTRL", "MIIPO")         MODE == R("CTRL", "MODE")
CTRL0 == R("VLAN", "CTRL0")         CTRL1 == R("VLAN", "CTRL1")
CTRL4 == R("VLAN", "CTRL4")         CTRL5 == R("VLAN", "CTRL5")
PMAP == R("VLAN", "PMAP")           PTAG(p) == R("VLAN", p)
VWRITE == R("VLAN", "WRITE")        VACCESS == R("VLAN", "ACCESS")
ARL_E0 == R("VTBL", "ARL_E0")       ARL_E1 == R("VTBL", "ARL_E1")
VID_E0 == R("VTBL", "VID_E0")       VID_E1 == R("VTBL", "VID_E1")
MINDX == R("VTBL", "MINDX")         VINDX == R("VTBL", "VINDX")
START == R("VTBL", "CTRL")
Registers ==
  {MIIPO, MODE, CTRL0, CTRL1, CTRL4, CTRL5, PMAP, VWRITE, VACCESS, ARL_E0, ARL_E1,
   VID_E0, VID_E1, MINDX, VINDX, START} \cup {PTAG(p) : p \in Ports}

(* 16-bit words in a register (external)                                   *)
Width(r) == IF r \in {ARL_E0, ARL_E1} THEN 4 ELSE IF r = MINDX THEN 3
            ELSE IF r \in {VWRITE, PMAP} THEN 2 ELSE 1

Vids == 0..NumVlans - 1
Mac == <<Part("mac54"), Part("mac32"), Part("mac10")>>  \* hwaddr backwards, two bytes to a word
Static == Part("port MII, static, valid")
NoRow == [untag |-> {}, member |-> {}]
NoAcc == [step |-> "none"]

RoboInit ==
  /\ nvram \in [0..1 -> PortLists \cup {NULL}] /\ robo \in BOOLEAN
  /\ at = "off" /\ vid = 0 /\ cur = <<>> /\ row = NoRow
  /\ val8 = {} /\ acc = NoAcc
  /\ page = "CTRL" /\ data = [w \in 0..3 |-> Part("old")] /\ cmd = [op |-> "none"]
  /\ regs \in {[r \in Registers |-> [w \in 1..Width(r) |->
                   IF r \in {MODE, MIIPO} THEN Bits(s) ELSE IF r \in {CTRL0, CTRL1, START} THEN Bits({})
                   ELSE Part("old")]] : s \in {{}, {"rvmii", "forward"}}}
  /\ vtable = [v \in Vids |-> <<>>] /\ arl = {}

-----------------------------------------------------------------------------
(* robosw_r and robosw_w.                                                  *)

\* Definitions whose names end in _Mut are faulty variants of the definition that
\* follows them; no other definition uses them.  They show that the properties bite.
Order_Mut(n) == IF n = 4 THEN <<3>> ELSE IF n = 3 THEN <<2, 1, 0>>
                ELSE [k \in 1..n |-> k - 1]  \* no fall-through from len 8 to len 6
(* The order in which robosw_w stores n data words.                        *)
Order(n) == IF n > 2 THEN [k \in 1..n |-> n - k] ELSE [k \in 1..n |-> k - 1]
Write(r, words) ==
  acc' = [step |-> "page", op |-> "write", reg |-> r, words |-> words, left |-> Order(Len(words))]
Read(r) == acc' = [step |-> "page", op |-> "read", reg |-> r, words |-> <<>>, left |-> <<>>]

AccPage ==
  /\ acc.step = "page"
  /\ page' = acc.reg.page /\ acc' = [acc EXCEPT !.step = "data"]
  /\ UNCHANGED <<nvram, robo, config, val8, data, cmd, regs, vtable, arl>>

AccData ==
  /\ acc.step = "data" /\ acc.left # <<>>
  /\ data' = [data EXCEPT ![Head(acc.left)] = acc.words[Head(acc.left) + 1]]
  /\ acc' = [acc EXCEPT !.left = Tail(@)]
  /\ UNCHANGED <<nvram, robo, config, val8, page, cmd, regs, vtable, arl>>

AccGo ==
  /\ acc.step = "data" /\ acc.left = <<>>
  /\ cmd' = [op |-> acc.op, addr |-> acc.reg.addr]
  /\ acc' = [acc EXCEPT !.step = "wait"]
  /\ UNCHANGED <<nvram, robo, config, val8, page, data, regs, vtable, arl>>

(* The wait, in which an mii_read that times out reads as busy, and the    *)
(* data words.                                                             *)
AccEnd ==
  /\ acc.step = "wait" /\ cmd.op = "none"
  /\ val8' = IF acc.op = "read" THEN data[0].bits ELSE val8
  /\ acc' = NoAcc
  /\ UNCHANGED <<nvram, robo, config, switch>>

(* The switch (external) carries out a command, and what the register      *)
(* written makes it do: store a VLAN's row at once, an address later.      *)
Commit ==
  LET r == R(page, cmd.addr) IN
  /\ cmd.op # "none" /\ cmd' = [op |-> "none"]
  /\ IF cmd.op = "read"
       THEN data' = [data EXCEPT ![0] = regs[r][1]] /\ UNCHANGED <<regs, vtable>>
       ELSE /\ regs' = [regs EXCEPT ![r] = [w \in 1..Width(r) |-> data[w - 1]]]
            /\ vtable' = IF r = VACCESS THEN [vtable EXCEPT ![data[0].vid] = regs[VWRITE]]
                                        ELSE vtable
            /\ UNCHANGED data
  /\ UNCHANGED <<nvram, robo, config, val8, acc, page, arl>>

StoreAddress ==
  /\ regs[START] = <<Bits({"start"})>>
  /\ regs' = [regs EXCEPT ![START] = <<Bits({})>>]
  /\ arl' = arl \cup {[hash |-> regs[MINDX] \o regs[VINDX], entry |-> regs[ARL_E0], vid |-> regs[VID_E0]]}
  /\ UNCHANGED <<nvram, robo, config, val8, acc, mii, vtable>>

-----------------------------------------------------------------------------
(* robosw_init, one register access after the other.                       *)

Step(label, next) == at = label /\ acc = NoAcc /\ at' = next
InTables == <<vid, cur, row>>

Probe ==
  /\ Step("probe", IF robo THEN "device" ELSE "done")
  /\ UNCHANGED <<nvram, robo, InTables, val8, acc, switch>>

Reads == [device |-> [reg |-> MIIPO, next |-> "rvmii"], rvmiiback |-> [reg |-> MIIPO, next |-> "ctrl0"],
          ctrl0 |-> [reg |-> CTRL0, next |-> "ctrl1"],  \* written back only in a comment
          ctrl1 |-> [reg |-> CTRL1, next |-> "multicast"],
          poll |-> [reg |-> START, next |-> "stored"],
          mode |-> [reg |-> MODE, next |-> "forward"], modeback |-> [reg |-> MODE, next |-> "done"]]
ReadReg ==  \* both read-backs only set a status that nobody looks at
  /\ at \in DOMAIN Reads
  /\ Step(at, Reads[at].next) /\ Read(Reads[at].reg)
  /\ UNCHANGED <<nvram, robo, InTables, val8, switch>>

(* Sets bit in the register just read, unless it is set.                   *)
SetBit(label, r, bit, next, nextset) ==
  /\ Step(label, IF bit \in val8 THEN nextset ELSE next)
  /\ IF bit \in val8 THEN UNCHANGED acc ELSE Write(r, <<Bits(val8 \cup {bit})>>)
  /\ UNCHANGED <<nvram, robo, InTables, val8, switch>>
ReverseMii == SetBit("rvmii", MIIPO, "rvmii", "rvmiiback", "ctrl0")
Forward == SetBit("forward", MODE, "forward", "modeback", "done")

Zeros == [w \in 1..4 |-> Id(0)]
Writes ==
  [multicast |-> [reg |-> CTRL1, words |-> <<Bits(val8 \cup {"multicast"})>>, next |-> "arl1"],
   arl1 |-> [reg |-> ARL_E1, words |-> Zeros, next |-> "vid1"],
   vid1 |-> [reg |-> VID_E1, words |-> <<Id(0)>>, next |-> "arl0"],
   arl0 |-> [reg |-> ARL_E0, words |-> Append(Mac, Static), next |-> "mindx"],
   mindx |-> [reg |-> MINDX, words |-> Mac, next |-> "ctrl4"],
   ctrl4 |-> [reg |-> CTRL4, words |-> <<Bits({"drop violations"})>>, next |-> "ctrl5"],
   ctrl5 |-> [reg |-> CTRL5, words |-> <<Bits({"drop misses"})>>, next |-> "vlan"],
   vid0 |-> [reg |-> VID_E0, words |-> <<Id(vid)>>, next |-> "vindx"],
   vindx |-> [reg |-> VINDX, words |-> <<Id(vid)>>, next |-> "start"],
   start |-> [reg |-> START, words |-> <<Bits({"start"})>>, next |-> "poll"],
   row |-> [reg |-> VWRITE, words |-> <<row, Part("valid")>>, next |-> "access"],
   pmap |-> [reg |-> PMAP, words |-> <<Part("identity"), Part("identity")>>, next |-> "mode"]]
WriteReg ==
  /\ at \in DOMAIN Writes
  /\ Step(at, Writes[at].next) /\ Write(Writes[at].reg, Writes[at].words)
  /\ UNCHANGED <<nvram, robo, InTables, val8, switch>>

NoPorts_Mut == row  \* untag and member outlive a VLAN
NoPorts == NoRow
Vlan ==  \* the head of the loop; only VLANs 0 and 1 are looked up
  LET ports == IF vid \in 0..1 THEN nvram[vid] ELSE NULL IN
  /\ Step("vlan", IF vid = NumVlans THEN "pmap" ELSE IF ports = NULL THEN "row" ELSE "token")
  /\ row' = NoPorts /\ cur' = IF ports = NULL THEN <<>> ELSE ports
  /\ UNCHANGED <<nvram, robo, vid, val8, acc, switch>>

(* One port of the list.  Only its first character names it, four are      *)
(* kept; _CFE_ is defined: the CPU port's default tag is set with a '*'    *)
(* only, and every member is untagged.                                     *)
Index(s, P(_)) == LET I == {i \in 1..Len(s) : P(s[i])} IN IF I = {} THEN 0 ELSE Min(I)
Blank == " "
Token ==
  LET start == Index(cur, LAMBDA c : c # Blank)
      tail  == SubSeq(cur, start, Len(cur))
      len   == LET n == Index(tail, LAMBDA c : c = Blank) IN IF n = 0 THEN Len(tail) ELSE n - 1
      port  == SubSeq(tail, 1, IF len > 4 THEN 4 ELSE len)
      pid   == port[1]
  IN /\ Step("token", IF start = 0 THEN "vid0" ELSE "token")
     /\ IF start = 0 THEN UNCHANGED <<cur, row, acc>>
        ELSE /\ cur' = SubSeq(tail, len + 1, Len(tail))
             /\ IF pid \notin Ports THEN UNCHANGED <<row, acc>>
                ELSE /\ row' = [untag |-> row.untag \cup {pid}, member |-> row.member \cup {pid}]
                     /\ IF pid # "5" \/ "*" \in Range(port) THEN Write(PTAG(pid), <<Id(vid)>>)
                                                          ELSE UNCHANGED acc
     /\ UNCHANGED <<nvram, robo, vid, val8, switch>>

Busy_Mut == val8 = {}  \* the test turned round
Busy == "start" \in val8
Stored ==
  /\ Step("stored", IF Busy THEN "poll" ELSE "row")
  /\ UNCHANGED <<nvram, robo, InTables, val8, acc, switch>>

Access ==
  /\ Step("access", "vlan")
  /\ Write(VACCESS, <<[start |-> "write", vid |-> vid]>>) /\ vid' = vid + 1
  /\ UNCHANGED <<nvram, robo, cur, row, val8, switch>>

-----------------------------------------------------------------------------
Bus == AccPage \/ AccData \/ AccGo \/ AccEnd
Switch == Commit \/ StoreAddress
Config == Probe \/ ReadReg \/ ReverseMii \/ Forward \/ WriteReg \/ Vlan \/ Token \/ Stored \/ Access
RoboNext == Bus \/ Switch \/ Config

(* Every access to a register lands whole: the switch changes only the     *)
(* register that robosw_w was asked to write, and to all of its words.     *)
Landed ==
  \A r \in Registers \ {START} : regs'[r] # regs[r] =>
    acc.step = "wait" /\ acc.op = "write" /\ r = acc.reg /\ regs'[r] = acc.words

(* What nvram describes: the ports that begin a word of vlan<v>ports.      *)
Begins(s, k) == s[k] # Blank /\ (k = 1 \/ s[k - 1] = Blank)
Described(v) ==
  LET s == nvram[v] IN
  IF v \notin 0..1 \/ s = NULL THEN {}
  ELSE {s[k] : k \in {k \in 1..Len(s) : Begins(s, k)}} \cap Ports
Configured == {v \in Vids \cap 0..1 : nvram[v] # NULL}

(* Before the program lets the switch forward, every VLAN has exactly the  *)
(* ports that nvram lists, a port's default VLAN is the last that lists    *)
(* it, and the address of this host leads to the MII port in every VLAN    *)
(* there is.                                                               *)
SwitchDescribed ==
  at = "forward" =>
    /\ \A v \in Vids : vtable[v] = <<[untag |-> Described(v), member |-> Described(v)], Part("valid")>>
    /\ \A p \in Ports \ {"5"}, v \in Configured :
         p \in Described(v) /\ (v = 0 /\ 1 \in Configured => p \notin Described(1))
           => regs[PTAG(p)] = <<Id(v)>>
    /\ arl = {[hash |-> Append(Mac, Id(v)), entry |-> Append(Mac, Static), vid |-> <<Id(v)>>] : v \in Configured}
=============================================================================
