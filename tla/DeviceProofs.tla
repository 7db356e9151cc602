---------------------------- MODULE DeviceProofs ----------------------------
(***************************************************************************)
(* Proofs about the parts that drive pins and registers access by access.  *)
(* robosw_init: the accesses to the registers of the switch, and what they *)
(* have set up when it is about to forward, for every number of VLANs and  *)
(* every list of ports.  i2c_write and i2c_read: what the slave has heard  *)
(* at every access to the pins, for every number of bits in a byte.        *)
(***************************************************************************)
EXTENDS Parts, SequenceTheorems, FiniteSetTheorems, WellFoundedInduction, TLAPS

-----------------------------------------------------------------------------
(* A register access under way: the page stays, a data word is stored or   *)
(* still to be stored, and only an access that waits has a command out.    *)
AccInv ==
  /\ acc = [step |-> acc.step, op |-> acc.op, reg |-> acc.reg, words |-> acc.words, left |-> acc.left]
  /\ acc.step \in {"page", "data", "wait"} /\ acc.op \in {"read", "write"}
  /\ acc.reg \in Mac!Registers /\ acc.left \in Seq(0..3)
  /\ acc.step # "page" => page = acc.reg.page
  /\ acc.step = "wait" => /\ acc.left = <<>>
                          /\ cmd.op = "none" \/ cmd = [op |-> acc.op, addr |-> acc.reg.addr]
  /\ acc.op = "write" =>
       /\ acc.words = [w \in 1..Mac!Width(acc.reg) |-> acc.words[w]]
       /\ \A w \in 0..(Mac!Width(acc.reg) - 1) :
            data[w] = acc.words[w + 1] \/ \E k \in 1..Len(acc.left) : acc.left[k] = w
BusInv ==
  /\ data = [w \in 0..3 |-> data[w]] /\ regs = [r \in Mac!Registers |-> regs[r]]
  /\ acc = Mac!NoAcc \/ AccInv
  /\ acc = Mac!NoAcc \/ acc.step # "wait" => cmd.op = "none"

-----------------------------------------------------------------------------
(* A register access under way, and one that was carried out.              *)
Writing == acc # Mac!NoAcc /\ acc.op = "write"
Sent == acc # Mac!NoAcc /\ acc.step = "wait" /\ cmd.op = "none"
(* What the registers and the rows of the VLAN table hold when it ends.    *)
Effs == [r \in Mac!Registers \ {Mac!START} |-> IF Writing /\ acc.reg = r THEN acc.words ELSE regs[r]]
Rows == [v \in Mac!Vids |->
          IF Writing /\ acc.reg = Mac!VACCESS /\ acc.words[1].vid = v THEN regs[Mac!VWRITE] ELSE vtable[v]]

(* The rows and the addresses that nvram describes; the addresses of the   *)
(* VLANs before this one, with this one, and up to this one if it is given. *)
RowOf(s) == <<[untag |-> s, member |-> s], Mac!Part("valid")>>
Lists == [v \in Mac!Vids |-> Mac!Described(v)]
Given == {c \in Mac!Vids : c \in 0..1 /\ nvram[c] # NULL}
Entry(v) == [hash |-> Append(Mac!Mac, Mac!Id(v)), entry |-> Append(Mac!Mac, Mac!Static), vid |-> <<Mac!Id(v)>>]
Above == {Entry(c) : c \in {d \in Given : d < vid}}
AndThis == Above \cup {Entry(vid)}
Through == {Entry(c) : c \in {d \in Given : d <= vid}}
Start(s) == regs[Mac!START] = <<Mac!Bits(s)>>

(* The places in robosw_init: before the loop over the VLANs, in it, after *)
(* it, and when the switch may forward.                                    *)
Early == {"off", "probe", "device", "rvmii", "rvmiiback", "ctrl0", "ctrl1", "multicast", "arl1", "vid1", "arl0",
          "mindx", "ctrl4", "ctrl5"}
InVlan == {"token", "vid0", "vindx", "start", "poll", "stored", "row", "access"}
Late == {"pmap", "mode", "forward"}
Ended == {"modeback", "done"}

(* A write that was carried out shows in the registers and in the table.   *)
SentInv ==
  Writing =>
    /\ acc.reg = Mac!VACCESS => acc.words[1].vid \in Mac!Vids
    /\ Sent => /\ acc.reg # Mac!START => regs[acc.reg] = acc.words
               /\ acc.reg = Mac!VACCESS => vtable[acc.words[1].vid] = regs[Mac!VWRITE]

(* The address of this VLAN: stored, asked for, or about to be asked for.  *)
Stored == arl = AndThis /\ Start({})
Storing == arl = Above /\ Start({"start"})
ToStore == /\ arl = Above /\ Start({})
           /\ Writing /\ ~Sent /\ acc.reg = Mac!START /\ acc.words = <<Mac!Bits({"start"})>>
StartInv ==
  /\ at \notin {"poll", "stored"} => Start({}) /\ (Writing => acc.reg # Mac!START)
  /\ at = "poll" =>
       \/ ToStore
       \/ (Writing => Sent /\ acc.reg = Mac!START) /\ (Stored \/ Storing)
  /\ at = "stored" =>
       /\ Stored \/ Storing
       /\ ~Writing
       /\ acc # Mac!NoAcc => acc.reg = Mac!START
       /\ Sent /\ "start" \notin data[0].bits => Stored
       /\ acc = Mac!NoAcc /\ "start" \notin val8 => Stored

(* The registers that an address is stored from, and what has been stored. *)
AddressInv ==
  /\ at \notin Early \ {"mindx", "ctrl4", "ctrl5"} => Effs[Mac!ARL_E0] = Append(Mac!Mac, Mac!Static)
  /\ at \notin Early \ {"ctrl4", "ctrl5"} => Effs[Mac!MINDX] = Mac!Mac
  /\ at \in {"vindx", "start", "poll", "stored"} => Effs[Mac!VID_E0] = <<Mac!Id(vid)>>
  /\ at \in {"start", "poll", "stored"} => Effs[Mac!VINDX] = <<Mac!Id(vid)>>
TableInv ==
  /\ at \in Early => arl = {}
  /\ at \in {"vlan", "token", "vid0", "vindx", "start"} \cup Late => arl = Above
  /\ at \in {"row", "access"} => arl = Through

(* The words of the list up to its d-th character have been taken.         *)
Taken(s, d) == {s[k] : k \in {j \in 1..d : Mac!Begins(s, j)}} \cap Mac!Ports
TokenInv ==
  \E d \in 0..Len(nvram[vid]) :
    /\ cur \in Seq(STRING) /\ Len(cur) = Len(nvram[vid]) - d
    /\ \A k \in 1..Len(cur) : cur[k] = nvram[vid][d + k]
    /\ d # 0 /\ d < Len(nvram[vid]) => nvram[vid][d + 1] = Mac!Blank
    /\ row = [untag |-> Taken(nvram[vid], d), member |-> Taken(nvram[vid], d)]
ListInv ==
  /\ at = "token" => TokenInv
  /\ at \in InVlan \ {"token"} => row = [untag |-> Lists[vid], member |-> Lists[vid]]
  /\ at = "access" => Effs[Mac!VWRITE] = RowOf(Lists[vid])

(* The ports of the list so far have this VLAN as their default, the others *)
(* the last VLAN before it that lists them.                                *)
Seen == IF at \in InVlan THEN row.member ELSE {}
LastOf(p, v) == p \in Lists[v] /\ \A w \in (v + 1)..(vid - 1) : p \notin Lists[w]
RowInv == \A v \in 0..(vid - 1) : Rows[v] = RowOf(Lists[v])
TagInv ==
  \A p \in Mac!Ports \ {"5"} :
    /\ p \in Seen => Effs[Mac!PTAG(p)] = <<Mac!Id(vid)>>
    /\ p \notin Seen => \A v \in 0..(vid - 1) : LastOf(p, v) => Effs[Mac!PTAG(p)] = <<Mac!Id(v)>>

(* Where robosw_init is in the loop.                                       *)
PlaceInv ==
  /\ pc \in {"attach", "probe", "autoneg"} => at = "off"
  /\ at \in Early \cup {"vlan"} \cup InVlan \cup Late \cup Ended
  /\ at = "off" => acc = Mac!NoAcc
  /\ at = "forward" => ~Writing
  /\ at \in Early => vid = 0
  /\ vid \in 0..NumVlans
  /\ at \in InVlan => vid < NumVlans
  /\ at \in InVlan \ {"row", "access"} => vid \in Given
  /\ at \in Late => vid = NumVlans
  /\ nvram \in [0..1 -> PortLists \cup {NULL}]
  /\ vtable = [v \in Mac!Vids |-> vtable[v]]

WorkInv == StartInv /\ AddressInv /\ TableInv /\ ListInv /\ RowInv /\ TagInv
SwitchInv == PlaceInv /\ SentInv /\ (at \notin Ended => WorkInv)

-----------------------------------------------------------------------------
(* Every set of natural numbers has a least one: with it, what holds of 0  *)
(* and of n + 1 when it holds of n is proved by its least counterexample.  *)
LEMMA NatMin ==
  ASSUME NEW T, T \subseteq Nat, T # {}
  PROVE  \E m \in T : \A k \in T : m <= k
<1>1. IsWellFoundedOn(OpToRel(<, Nat), Nat)
  BY NatLessThanWellFounded
<1>2. PICK m \in T : \A k \in T : ~(<<k, m>> \in OpToRel(<, Nat))
  BY <1>1, WFMin, Zenon
<1>3. \A k \in T : k < m => <<k, m>> \in OpToRel(<, Nat)
  BY DEF OpToRel
<1>5. ASSUME NEW k \in T PROVE m <= k
  <2>1. k \in Nat /\ m \in Nat /\ ~(k < m)
    BY <1>2, <1>3
  <2> QED BY <2>1
<1> QED BY <1>5

(* Induction over an initial part of the naturals, for a set T.            *)
LEMMA Upward ==
  ASSUME NEW N \in Nat, NEW T, 0 \in T, \A k \in 0..N - 1 : k \in T => k + 1 \in T
  PROVE  \A k \in 0..N : k \in T
<1> DEFINE Bad == {k \in 0..N : k \notin T}
<1>1. SUFFICES ASSUME Bad # {} PROVE FALSE
  OBVIOUS
<1>2. Bad \subseteq Nat
  OBVIOUS
<1>3. PICK m \in Bad : \A k \in Bad : m <= k
  BY <1>1, <1>2, NatMin
<1>4. m \in 1..N /\ m - 1 \in 0..N - 1
  BY <1>3
<1>5. m - 1 \in T
  BY <1>3, <1>4
<1>6. (m - 1) + 1 \in T /\ (m - 1) + 1 = m
  BY <1>4, <1>5
<1> QED BY <1>3, <1>6

(* The least of a set of positions, 0 when there is none.                  *)
LEMMA FirstIs ==
  ASSUME NEW top \in Nat, NEW I, I \subseteq 1..top
  PROVE  LET i == IF I # {} THEN Mac!Min(I) ELSE 0
         IN /\ i \in 0..top /\ (i = 0 <=> I = {})
            /\ i # 0 => i \in I
            /\ \A k \in I : i <= k
<1>1. ASSUME I # {} PROVE Mac!Min(I) \in I /\ \A k \in I : Mac!Min(I) <= k
  <2>1. I \subseteq Nat
    OBVIOUS
  <2>2. PICK m \in I : \A k \in I : m <= k
    BY <2>1, <1>1, NatMin
  <2> QED BY <2>2 DEF Mac!Min
<1>2. CASE I = {}
  BY <1>2
<1>3. CASE I # {}
  <2>1. Mac!Min(I) \in 1..top /\ Mac!Min(I) \in I /\ \A k \in I : Mac!Min(I) <= k
    BY <1>1, <1>3
  <2> QED BY <1>3, <2>1
<1> QED BY <1>2, <1>3

-----------------------------------------------------------------------------
(* The registers of the switch.                                            *)
LEMMA RegistersAre ==
  \A r \in Mac!Registers : r = Mac!R(r.page, r.addr) /\ Mac!Width(r) \in 1..4
<1>1. \A p, x : Mac!R(p, x) = Mac!R(Mac!R(p, x).page, Mac!R(p, x).addr)
  BY DEF Mac!R
<1>2. \A r \in Mac!Registers : \E p, x : r = Mac!R(p, x)
  BY DEF Mac!Registers, Mac!MIIPO, Mac!MODE, Mac!CTRL0, Mac!CTRL1, Mac!CTRL4, Mac!CTRL5, Mac!PMAP,
     Mac!PTAG, Mac!VWRITE, Mac!VACCESS, Mac!ARL_E0, Mac!ARL_E1, Mac!VID_E0, Mac!VID_E1, Mac!MINDX,
     Mac!VINDX, Mac!START
<1>3. \A r : Mac!Width(r) \in 1..4
  BY DEF Mac!Width
<1> QED BY <1>1, <1>2, <1>3

(* robosw_w stores every word, in either order.                            *)
LEMMA OrderIs ==
  ASSUME NEW k \in 1..4
  PROVE  Mac!Order(k) \in Seq(0..3) /\ \A w \in 0..(k - 1) : \E j \in 1..Len(Mac!Order(k)) : Mac!Order(k)[j] = w
<1>1. CASE k > 2
  <2>1. Mac!Order(k) = [j \in 1..k |-> k - j]
    BY <1>1 DEF Mac!Order
  <2>2. Mac!Order(k) \in [1..k -> 0..3]
    BY <2>1
  <2>3. Mac!Order(k) \in Seq(0..3) /\ Len(Mac!Order(k)) = k
    BY <2>2
  <2>4. \A w \in 0..(k - 1) : k - w \in 1..k /\ Mac!Order(k)[k - w] = w
    BY <2>1
  <2> QED BY <2>3, <2>4
<1>2. CASE ~(k > 2)
  <2>1. Mac!Order(k) = [j \in 1..k |-> j - 1]
    BY <1>2 DEF Mac!Order
  <2>2. Mac!Order(k) \in [1..k -> 0..3]
    BY <2>1
  <2>3. Mac!Order(k) \in Seq(0..3) /\ Len(Mac!Order(k)) = k
    BY <2>2
  <2>4. \A w \in 0..(k - 1) : w + 1 \in 1..k /\ Mac!Order(k)[w + 1] = w
    BY <2>1
  <2> QED BY <2>3, <2>4
<1> QED BY <1>1, <1>2

(* Each write of robosw_init gives as many words as its register has.      *)
Fits(words, k) == words \in [1..k -> {words[w] : w \in 1..k}]
LEMMA TuplesFit ==
  ASSUME NEW x, NEW y, NEW z, NEW u
  PROVE  Fits(<<x>>, 1) /\ Fits(<<x, y>>, 2) /\ Fits(<<x, y, z>>, 3) /\ Fits(<<x, y, z, u>>, 4)
BY DEF Fits

LEMMA WriteBegins ==
  ASSUME BusInv, acc = Mac!NoAcc, NEW r \in Mac!Registers, NEW words,
         Fits(words, Mac!Width(r)),
         Mac!Write(r, words), UNCHANGED Mac!switch
  PROVE  BusInv'
<1>1. Mac!Width(r) \in 1..4
  BY RegistersAre
<1>2. Len(words) = Mac!Width(r)
  BY <1>1 DEF Fits
<1>3. PICK left : left = Mac!Order(Mac!Width(r))
  OBVIOUS
<1>4. acc' = [step |-> "page", op |-> "write", reg |-> r, words |-> words, left |-> left]
  BY <1>2, <1>3 DEF Mac!Write
<1>5. left \in Seq(0..3) /\ \A w \in 0..(Mac!Width(r) - 1) : \E j \in 1..Len(left) : left[j] = w
  BY <1>1, <1>3, OrderIs
<1>6. AccInv'
  BY <1>4, <1>5 DEF AccInv, Fits
<1> QED BY <1>4, <1>6 DEF BusInv, Mac!switch, Mac!mii

LEMMA ReadBegins ==
  ASSUME BusInv, acc = Mac!NoAcc, NEW r \in Mac!Registers, Mac!Read(r), UNCHANGED Mac!switch
  PROVE  BusInv'
<1>1. acc' = [step |-> "page", op |-> "read", reg |-> r, words |-> <<>>, left |-> <<>>]
  BY DEF Mac!Read
<1>2. AccInv'
  BY <1>1 DEF AccInv
<1> QED BY <1>1, <1>2 DEF BusInv, Mac!switch, Mac!mii

-----------------------------------------------------------------------------
LEMMA BusInit == ASSUME Mac!Init PROVE BusInv
<1>1. acc = Mac!NoAcc /\ cmd.op = "none" /\ data = [w \in 0..3 |-> Mac!Part("old")]
  BY DEF Mac!Init, Mac!RoboInit
<1>2. regs = [r \in Mac!Registers |-> regs[r]]
  BY DEF Mac!Init, Mac!RoboInit
<1> QED BY <1>1, <1>2 DEF BusInv

(* robosw_r and robosw_w: one MII operation after the other.               *)
LEMMA AccStep == ASSUME BusInv, Mac!Bus PROVE BusInv' /\ regs' = regs
<1> USE DEF Mac!config, Mac!switch, Mac!mii
<1>1. acc # Mac!NoAcc /\ AccInv
  <2>1. acc.step \in {"page", "data", "wait"}
    BY DEF Mac!Bus, Mac!AccPage, Mac!AccData, Mac!AccGo, Mac!AccEnd
  <2>2. Mac!NoAcc.step = "none"
    BY DEF Mac!NoAcc
  <2> QED BY <2>1, <2>2 DEF BusInv
<1>2. CASE Mac!AccPage
  <2>1. /\ page' = acc.reg.page /\ acc' = [acc EXCEPT !.step = "data"] /\ acc.step = "page"
        /\ data' = data /\ cmd' = cmd /\ regs' = regs
    BY <1>2 DEF Mac!AccPage
  <2>2. /\ acc'.step = "data" /\ acc'.op = acc.op /\ acc'.reg = acc.reg
        /\ acc'.words = acc.words /\ acc'.left = acc.left
        /\ acc' = [step |-> acc'.step, op |-> acc'.op, reg |-> acc'.reg, words |-> acc'.words, left |-> acc'.left]
    BY <1>1, <2>1 DEF AccInv
  <2>3. AccInv'
    BY <1>1, <2>1, <2>2 DEF AccInv
  <2> QED BY <1>1, <2>1, <2>2, <2>3 DEF BusInv
<1>3. CASE Mac!AccData
  <2>1. /\ data' = [data EXCEPT ![Head(acc.left)] = acc.words[Head(acc.left) + 1]]
        /\ acc' = [acc EXCEPT !.left = Tail(acc.left)] /\ acc.step = "data" /\ acc.left # <<>>
        /\ page' = page /\ cmd' = cmd /\ regs' = regs
    BY <1>3 DEF Mac!AccData
  <2>2. /\ acc'.step = "data" /\ acc'.op = acc.op /\ acc'.reg = acc.reg
        /\ acc'.words = acc.words /\ acc'.left = Tail(acc.left)
        /\ acc' = [step |-> acc'.step, op |-> acc'.op, reg |-> acc'.reg, words |-> acc'.words, left |-> acc'.left]
    BY <1>1, <2>1 DEF AccInv
  <2>3. acc.left \in Seq(0..3) /\ Tail(acc.left) \in Seq(0..3) /\ Head(acc.left) \in 0..3
    BY <1>1, <2>1 DEF AccInv
  <2>4. data' = [w \in 0..3 |-> data'[w]]
    BY <2>1 DEF BusInv
  <2>5. ASSUME acc.op = "write", NEW w \in 0..(Mac!Width(acc.reg) - 1)
        PROVE  data'[w] = acc.words[w + 1] \/ \E k \in 1..Len(Tail(acc.left)) : Tail(acc.left)[k] = w
    <3>1. w \in 0..3
      <4>1. Mac!Width(acc.reg) \in 1..4
        BY <1>1, RegistersAre DEF AccInv
      <4> QED BY <4>1
    <3>2. CASE w = Head(acc.left)
      BY <2>1, <3>1, <3>2 DEF BusInv
    <3>3. CASE w # Head(acc.left)
      <4>1. data'[w] = data[w]
        BY <2>1, <3>1, <3>3 DEF BusInv
      <4>2. data[w] = acc.words[w + 1] \/ \E k \in 1..Len(acc.left) : acc.left[k] = w
        BY <1>1, <2>5 DEF AccInv
      <4>3. ASSUME NEW k \in 1..Len(acc.left), acc.left[k] = w
            PROVE  \E j \in 1..Len(Tail(acc.left)) : Tail(acc.left)[j] = w
        <5>1. k # 1
          BY <2>1, <2>3, <3>3, <4>3
        <5>2. k - 1 \in 1..Len(Tail(acc.left)) /\ Tail(acc.left)[k - 1] = acc.left[k]
          BY <2>1, <2>3, <5>1
        <5> QED BY <4>3, <5>2
      <4> QED BY <4>1, <4>2, <4>3
    <3> QED BY <3>2, <3>3
  <2>6. AccInv'
    BY <1>1, <2>1, <2>2, <2>3, <2>5 DEF AccInv
  <2> QED BY <1>1, <2>1, <2>2, <2>4, <2>6 DEF BusInv
<1>4. CASE Mac!AccGo
  <2>1. /\ cmd' = [op |-> acc.op, addr |-> acc.reg.addr]
        /\ acc' = [acc EXCEPT !.step = "wait"] /\ acc.step = "data" /\ acc.left = <<>>
        /\ page' = page /\ data' = data /\ regs' = regs
    BY <1>4 DEF Mac!AccGo
  <2>2. /\ acc'.step = "wait" /\ acc'.op = acc.op /\ acc'.reg = acc.reg
        /\ acc'.words = acc.words /\ acc'.left = acc.left
        /\ acc' = [step |-> acc'.step, op |-> acc'.op, reg |-> acc'.reg, words |-> acc'.words, left |-> acc'.left]
    BY <1>1, <2>1 DEF AccInv
  <2>3. page = acc.reg.page /\ acc.op \in {"read", "write"} /\ acc.reg \in Mac!Registers
    BY <1>1, <2>1 DEF AccInv
  <2>4. acc.op = "write" =>
          /\ acc.words = [w \in 1..Mac!Width(acc.reg) |-> acc.words[w]]
          /\ \A w \in 0..(Mac!Width(acc.reg) - 1) :
               data[w] = acc.words[w + 1] \/ \E k \in 1..Len(acc.left) : acc.left[k] = w
    BY <1>1 DEF AccInv
  <2>5. <<>> \in Seq(0..3)
    OBVIOUS
  <2>6. AccInv'
    <3>1. acc'.left = <<>> /\ cmd' = [op |-> acc'.op, addr |-> acc'.reg.addr]
      BY <2>1, <2>2
    <3>2. acc'.op = "write" =>
            /\ acc'.words = [w \in 1..Mac!Width(acc'.reg) |-> acc'.words[w]]
            /\ \A w \in 0..(Mac!Width(acc'.reg) - 1) :
                 data'[w] = acc'.words[w + 1] \/ \E k \in 1..Len(acc'.left) : acc'.left[k] = w
      BY <2>1, <2>2, <2>4
    <3>3. acc'.op \in {"read", "write"} /\ acc'.reg \in Mac!Registers /\ page' = acc'.reg.page
      BY <2>1, <2>2, <2>3
    <3>4. acc'.left \in Seq(0..3)
      BY <2>5, <3>1
    <3>5. Mac!Width(acc.reg)' = Mac!Width(acc'.reg)
      BY DEF Mac!Width
    <3> QED BY ONLY <2>2, <3>1, <3>2, <3>3, <3>4, <3>5 DEF AccInv
  <2>7. acc' # Mac!NoAcc
    BY <2>2 DEF Mac!NoAcc
  <2> QED BY <1>1, <2>1, <2>2, <2>6, <2>7 DEF BusInv
<1>5. CASE Mac!AccEnd
  BY <1>5 DEF Mac!AccEnd, BusInv
<1> QED BY <1>2, <1>3, <1>4, <1>5 DEF Mac!Bus

(* The switch: a command out is the access that waits for it.              *)
LEMMA SwitchStep == ASSUME BusInv, Mac!Switch PROVE BusInv' /\ Mac!Landed
<1> USE DEF Mac!config, Mac!mii
<1>1. CASE Mac!Commit
  <2>1. PICK r : r = Mac!R(page, cmd.addr)
    OBVIOUS
  <2>2. /\ cmd.op # "none" /\ cmd' = [op |-> "none"] /\ acc' = acc /\ page' = page
        /\ cmd.op = "read" => data' = [data EXCEPT ![0] = regs[r][1]] /\ regs' = regs
        /\ cmd.op # "read" =>
             data' = data /\ regs' = [regs EXCEPT ![r] = [w \in 1..Mac!Width(r) |-> data[w - 1]]]
    BY <1>1, <2>1 DEF Mac!Commit
  <2>3. acc # Mac!NoAcc /\ AccInv /\ acc.step = "wait"
    BY <2>2 DEF BusInv
  <2>4. cmd = [op |-> acc.op, addr |-> acc.reg.addr] /\ page = acc.reg.page /\ acc.left = <<>>
    BY <2>2, <2>3 DEF AccInv
  <2>5. r = acc.reg /\ r \in Mac!Registers /\ cmd.op = acc.op
    BY <2>1, <2>3, <2>4, RegistersAre DEF AccInv
  <2>6. data' = [w \in 0..3 |-> data'[w]] /\ regs' = [q \in Mac!Registers |-> regs'[q]]
    BY <2>2 DEF BusInv
  <2>7. AccInv'
    BY <2>2, <2>3, <2>5 DEF AccInv
  <2>8. BusInv'
    BY <2>2, <2>3, <2>6, <2>7 DEF BusInv
  <2>9. ASSUME cmd.op # "read"
        PROVE  regs'[r] = acc.words /\ \A q \in Mac!Registers \ {r} : regs'[q] = regs[q]
    <3>1. acc.op = "write"
      BY <2>3, <2>5, <2>9 DEF AccInv
    <3>2. /\ acc.words = [w \in 1..Mac!Width(r) |-> acc.words[w]]
          /\ \A w \in 0..(Mac!Width(r) - 1) : data[w] = acc.words[w + 1]
      BY <2>3, <2>4, <2>5, <3>1 DEF AccInv
    <3>3. \A w \in 1..Mac!Width(r) : data[w - 1] = acc.words[w]
      <4>1. Mac!Width(r) \in 1..4
        BY <2>5, RegistersAre
      <4> TAKE w \in 1..Mac!Width(r)
      <4>2. w - 1 \in 0..(Mac!Width(r) - 1) /\ (w - 1) + 1 = w
        BY <4>1
      <4> QED BY <3>2, <4>2
    <3>4. [w \in 1..Mac!Width(r) |-> data[w - 1]] = acc.words
      BY <3>2, <3>3
    <3> QED BY <2>2, <2>5, <2>9, <3>4 DEF BusInv
  <2>10. Mac!Landed
    BY <2>2, <2>3, <2>5, <2>9 DEF AccInv, Mac!Landed
  <2> QED BY <2>8, <2>10
<1>2. CASE Mac!StoreAddress
  <2>1. /\ regs' = [regs EXCEPT ![Mac!START] = <<Mac!Bits({})>>]
        /\ acc' = acc /\ page' = page /\ data' = data /\ cmd' = cmd
    BY <1>2 DEF Mac!StoreAddress
  <2>2. regs' = [q \in Mac!Registers |-> regs'[q]] /\ \A q \in Mac!Registers \ {Mac!START} : regs'[q] = regs[q]
    BY <2>1 DEF BusInv
  <2>3. AccInv' <=> AccInv
    BY <2>1 DEF AccInv
  <2> QED BY <2>1, <2>2, <2>3 DEF BusInv, Mac!Landed
<1> QED BY <1>1, <1>2 DEF Mac!Switch

(* The registers of one word.                                              *)
LEMMA Narrow ==
  /\ \A r \in {Mac!MIIPO, Mac!MODE, Mac!VACCESS} : r \in Mac!Registers /\ Mac!Width(r) = 1
  /\ \A p \in Mac!Ports : Mac!PTAG(p) \in Mac!Registers /\ Mac!Width(Mac!PTAG(p)) = 1
<1> USE DEF Mac!R, Mac!MIIPO, Mac!MODE, Mac!VACCESS, Mac!PTAG, Mac!ARL_E0, Mac!ARL_E1, Mac!MINDX, Mac!VWRITE, Mac!PMAP
<1>1. \A r \in {Mac!MIIPO, Mac!MODE, Mac!VACCESS} : r \in Mac!Registers
  BY DEF Mac!Registers
<1>2. \A r \in {Mac!MIIPO, Mac!MODE, Mac!VACCESS} : Mac!Width(r) = 1
  BY DEF Mac!Width
<1>3. \A p \in Mac!Ports : Mac!PTAG(p) \in Mac!Registers
  BY DEF Mac!Registers
<1>4. \A p \in Mac!Ports : Mac!Width(Mac!PTAG(p)) = 1
  BY DEF Mac!Width, Mac!Ports
<1> QED BY <1>1, <1>2, <1>3, <1>4

LEMMA WidthsAre ==
  /\ \A r \in {Mac!CTRL1, Mac!VID_E1, Mac!CTRL4, Mac!CTRL5, Mac!VID_E0, Mac!VINDX, Mac!START} :
       r \in Mac!Registers /\ Mac!Width(r) = 1
  /\ \A r \in {Mac!VWRITE, Mac!PMAP} : r \in Mac!Registers /\ Mac!Width(r) = 2
  /\ Mac!MINDX \in Mac!Registers /\ Mac!Width(Mac!MINDX) = 3
  /\ \A r \in {Mac!ARL_E0, Mac!ARL_E1} : r \in Mac!Registers /\ Mac!Width(r) = 4
<1> USE DEF Mac!R, Mac!CTRL1, Mac!VID_E1, Mac!CTRL4, Mac!CTRL5, Mac!VID_E0, Mac!VINDX, Mac!START,
        Mac!VWRITE, Mac!PMAP, Mac!MINDX, Mac!ARL_E0, Mac!ARL_E1
<1>1. \A r \in {Mac!CTRL1, Mac!VID_E1, Mac!CTRL4, Mac!CTRL5, Mac!VID_E0, Mac!VINDX, Mac!START,
               Mac!VWRITE, Mac!PMAP, Mac!MINDX, Mac!ARL_E0, Mac!ARL_E1} : r \in Mac!Registers
  BY DEF Mac!Registers
<1>2. \A r \in {Mac!CTRL1, Mac!VID_E1, Mac!CTRL4, Mac!CTRL5, Mac!VID_E0, Mac!VINDX, Mac!START} : Mac!Width(r) = 1
  BY DEF Mac!Width
<1>3. \A r \in {Mac!VWRITE, Mac!PMAP} : Mac!Width(r) = 2
  BY DEF Mac!Width
<1>4. Mac!Width(Mac!MINDX) = 3
  BY DEF Mac!Width
<1>5. \A r \in {Mac!ARL_E0, Mac!ARL_E1} : Mac!Width(r) = 4
  BY DEF Mac!Width
<1> QED BY <1>1, <1>2, <1>3, <1>4, <1>5

LEMMA WritesFit ==
  ASSUME NEW l \in DOMAIN Mac!Writes
  PROVE  /\ Mac!Writes[l].reg \in Mac!Registers
         /\ Fits(Mac!Writes[l].words, Mac!Width(Mac!Writes[l].reg))
<1>1. l \in {"multicast", "arl1", "vid1", "arl0", "mindx", "ctrl4", "ctrl5", "vid0", "vindx", "start", "row", "pmap"}
  BY DEF Mac!Writes
<1>2. CASE l \in {"multicast", "vid1", "ctrl4", "ctrl5", "vid0", "vindx", "start"}
  <2>1. Mac!Writes[l].reg \in {Mac!CTRL1, Mac!VID_E1, Mac!CTRL4, Mac!CTRL5, Mac!VID_E0, Mac!VINDX, Mac!START}
    <3>1. Mac!Writes["multicast"].reg = Mac!CTRL1
      BY DEF Mac!Writes
    <3>2. Mac!Writes["vid1"].reg = Mac!VID_E1
      BY DEF Mac!Writes
    <3>3. Mac!Writes["ctrl4"].reg = Mac!CTRL4
      BY DEF Mac!Writes
    <3>4. Mac!Writes["ctrl5"].reg = Mac!CTRL5
      BY DEF Mac!Writes
    <3>5. Mac!Writes["vid0"].reg = Mac!VID_E0
      BY DEF Mac!Writes
    <3>6. Mac!Writes["vindx"].reg = Mac!VINDX
      BY DEF Mac!Writes
    <3>7. Mac!Writes["start"].reg = Mac!START
      BY DEF Mac!Writes
    <3> QED BY <1>2, <3>1, <3>2, <3>3, <3>4, <3>5, <3>6, <3>7
  <2>2. \E x : Mac!Writes[l].words = <<x>>
    <3>1. \E x : Mac!Writes["multicast"].words = <<x>>
      BY DEF Mac!Writes
    <3>2. \E x : Mac!Writes["vid1"].words = <<x>>
      BY DEF Mac!Writes
    <3>3. \E x : Mac!Writes["ctrl4"].words = <<x>>
      BY DEF Mac!Writes
    <3>4. \E x : Mac!Writes["ctrl5"].words = <<x>>
      BY DEF Mac!Writes
    <3>5. \E x : Mac!Writes["vid0"].words = <<x>>
      BY DEF Mac!Writes
    <3>6. \E x : Mac!Writes["vindx"].words = <<x>>
      BY DEF Mac!Writes
    <3>7. \E x : Mac!Writes["start"].words = <<x>>
      BY DEF Mac!Writes
    <3> QED BY <1>2, <3>1, <3>2, <3>3, <3>4, <3>5, <3>6, <3>7
  <2> QED BY <2>1, <2>2, TuplesFit, WidthsAre
<1>3. CASE l = "row" \/ l = "pmap"
  <2>1. /\ Mac!Writes["row"].reg = Mac!VWRITE /\ Mac!Writes["pmap"].reg = Mac!PMAP
        /\ \E x, y : Mac!Writes["row"].words = <<x, y>>
        /\ \E x, y : Mac!Writes["pmap"].words = <<x, y>>
    BY DEF Mac!Writes
  <2> QED BY <1>3, <2>1, TuplesFit, WidthsAre
<1>4. CASE l = "mindx"
  <2>1. Mac!Writes["mindx"].reg = Mac!MINDX /\ \E x, y, z : Mac!Writes["mindx"].words = <<x, y, z>>
    BY DEF Mac!Writes, Mac!Mac
  <2> QED BY <1>4, <2>1, TuplesFit, WidthsAre
<1>5. CASE l = "arl0" \/ l = "arl1"
  <2>1. Mac!Writes["arl0"].reg = Mac!ARL_E0 /\ Mac!Writes["arl1"].reg = Mac!ARL_E1
    BY DEF Mac!Writes
  <2>2. ASSUME NEW x, NEW y, NEW z, NEW u PROVE Fits(Append(<<x, y, z>>, u), 4)
    <3>1. <<x, y, z>> \in Seq({x, y, z, u}) /\ Len(<<x, y, z>>) = 3
      OBVIOUS
    <3>2. PICK s : s = <<x, y, z>>
      OBVIOUS
    <3>3. Append(s, u) \in Seq({x, y, z, u}) /\ Len(Append(s, u)) = 4
      BY <3>1, <3>2
    <3>4. Append(s, u) \in [1..4 -> {x, y, z, u}]
      <4>1. PICK t : t = Append(s, u)
        OBVIOUS
      <4>2. t \in [1..Len(t) -> {x, y, z, u}]
        BY <3>3, <4>1, LenProperties
      <4> QED BY <3>3, <4>1, <4>2
    <3> QED BY <3>2, <3>4 DEF Fits
  <2>3. Fits(Mac!Writes["arl0"].words, 4)
    <3>1. Mac!Writes["arl0"].words = Append(Mac!Mac, Mac!Static)
      BY DEF Mac!Writes
    <3> QED BY <2>2, <3>1 DEF Mac!Mac
  <2>4. Fits(Mac!Writes["arl1"].words, 4)
    <3>1. Mac!Writes["arl1"].words = Mac!Zeros
      BY DEF Mac!Writes
    <3> QED BY <3>1 DEF Mac!Zeros, Fits
  <2> QED BY <1>5, <2>1, <2>3, <2>4, TuplesFit, WidthsAre
<1> QED BY <1>1, <1>2, <1>3, <1>4, <1>5

(* robosw_init begins an access when none is under way, with as many words *)
(* as the register has.                                                    *)
LEMMA ConfigStep == ASSUME BusInv, Mac!Config PROVE BusInv' /\ regs' = regs
<1>1. acc = Mac!NoAcc /\ UNCHANGED Mac!switch
  BY DEF Mac!Config, Mac!Probe, Mac!ReadReg, Mac!ReverseMii, Mac!Forward, Mac!SetBit, Mac!WriteReg,
     Mac!Vlan, Mac!Token, Mac!Stored, Mac!Access, Mac!Step
<1>2. regs' = regs
  BY <1>1 DEF Mac!switch
<1>3. ASSUME acc' = acc PROVE BusInv'
  BY <1>1, <1>3 DEF BusInv, AccInv, Mac!switch, Mac!mii
<1>4. ASSUME NEW r \in Mac!Registers, NEW x, Mac!Width(r) = 1, Mac!Write(r, <<x>>) PROVE BusInv'
  BY <1>1, <1>4, TuplesFit, WriteBegins
<1>5. CASE Mac!Probe \/ Mac!Vlan \/ Mac!Stored
  <2>1. Mac!Probe => acc' = acc
    BY DEF Mac!Probe
  <2>2. Mac!Vlan => acc' = acc
    BY DEF Mac!Vlan
  <2>3. Mac!Stored => acc' = acc
    BY DEF Mac!Stored
  <2> QED BY <1>2, <1>3, <1>5, <2>1, <2>2, <2>3
<1>6. CASE Mac!ReadReg
  <2>1. at \in DOMAIN Mac!Reads /\ Mac!Read(Mac!Reads[at].reg)
    BY <1>6 DEF Mac!ReadReg
  <2>2. Mac!Reads[at].reg \in {Mac!MIIPO, Mac!CTRL0, Mac!CTRL1, Mac!START, Mac!MODE}
    BY <2>1 DEF Mac!Reads
  <2>3. Mac!Reads[at].reg \in Mac!Registers
    BY <2>2 DEF Mac!Registers
  <2> QED BY <1>1, <1>2, <2>1, <2>3, ReadBegins
<1>7. CASE Mac!ReverseMii \/ Mac!Forward
  <2>1. ASSUME NEW r, NEW l, NEW m, NEW o, NEW p, Mac!SetBit(l, r, m, o, p)
        PROVE  acc' = acc \/ \E x : Mac!Write(r, <<x>>)
    BY <2>1 DEF Mac!SetBit
  <2>2. CASE Mac!ReverseMii
    <3>1. acc' = acc \/ \E x : Mac!Write(Mac!MIIPO, <<x>>)
      BY <2>1, <2>2 DEF Mac!ReverseMii
    <3> QED BY <1>2, <1>3, <1>4, <3>1, Narrow
  <2>3. CASE Mac!Forward
    <3>1. acc' = acc \/ \E x : Mac!Write(Mac!MODE, <<x>>)
      BY <2>1, <2>3 DEF Mac!Forward
    <3> QED BY <1>2, <1>3, <1>4, <3>1, Narrow
  <2> QED BY <1>7, <2>2, <2>3
<1>8. CASE Mac!WriteReg
  <2>1. at \in DOMAIN Mac!Writes /\ Mac!Write(Mac!Writes[at].reg, Mac!Writes[at].words)
    BY <1>8 DEF Mac!WriteReg
  <2> QED BY <1>1, <1>2, <2>1, WritesFit, WriteBegins
<1>9. CASE Mac!Token
  <2>1. acc' = acc \/ \E p \in Mac!Ports : \E x : Mac!Write(Mac!PTAG(p), <<x>>)
    BY <1>9 DEF Mac!Token
  <2> QED BY <1>2, <1>3, <1>4, <2>1, Narrow
<1>10. CASE Mac!Access
  <2>1. \E x : Mac!Write(Mac!VACCESS, <<x>>)
    BY <1>10 DEF Mac!Access
  <2> QED BY <1>2, <1>4, <2>1, Narrow
<1> QED BY <1>2, <1>5, <1>6, <1>7, <1>8, <1>9, <1>10 DEF Mac!Config

LEMMA BusStep == ASSUME BusInv, [Mac!Next]_(Mac!vars) PROVE BusInv' /\ Mac!Landed
<1>1. ASSUME UNCHANGED <<acc, page, data, cmd, regs>> PROVE BusInv' /\ Mac!Landed
  <2>1. AccInv' <=> AccInv
    BY <1>1 DEF AccInv
  <2> QED BY <1>1, <2>1 DEF BusInv, Mac!Landed
<1>2. CASE UNCHANGED Mac!vars \/ Mac!Cpu \/ Mac!CamWritten
  <2>1. UNCHANGED <<acc, page, data, cmd, regs>>
    BY <1>2 DEF Mac!vars, Mac!robovars, Mac!switch, Mac!mii, Mac!Cpu, Mac!Attach, Mac!MiiProbe, Mac!IsSwitch,
       Mac!RoboswDone, Mac!IsPhy, Mac!Converge, Mac!Remote, Mac!SetHwAddr, Mac!Start, Mac!CamWritten
  <2> QED BY <1>1, <2>1
<1>3. CASE Mac!RoboswCpu
  BY <1>3, AccStep, ConfigStep DEF Mac!RoboswCpu, Mac!Landed
<1>4. CASE Mac!RoboswCommit \/ Mac!RoboswStore
  BY <1>4, SwitchStep DEF Mac!RoboswCommit, Mac!RoboswStore, Mac!Switch
<1> QED BY <1>2, <1>3, <1>4 DEF Mac!Next

-----------------------------------------------------------------------------
(* The registers that the tables are set up with are different ones.       *)
LEMMA RegistersDiffer ==
  /\ {Mac!ARL_E0, Mac!MINDX, Mac!VID_E0, Mac!VINDX, Mac!VWRITE, Mac!VACCESS, Mac!START} \subseteq Mac!Registers
  /\ Mac!ARL_E0 \notin {Mac!MINDX, Mac!VID_E0, Mac!VINDX, Mac!VWRITE, Mac!VACCESS, Mac!START}
  /\ Mac!MINDX \notin {Mac!VID_E0, Mac!VINDX, Mac!VWRITE, Mac!VACCESS, Mac!START}
  /\ Mac!VID_E0 \notin {Mac!VINDX, Mac!VWRITE, Mac!VACCESS, Mac!START}
  /\ Mac!VINDX \notin {Mac!VWRITE, Mac!VACCESS, Mac!START}
  /\ Mac!VWRITE \notin {Mac!VACCESS, Mac!START} /\ Mac!VACCESS # Mac!START
  /\ \A p \in Mac!Ports :
       /\ Mac!PTAG(p) \in Mac!Registers /\ Mac!PTAG(p) \notin {Mac!VWRITE, Mac!VACCESS, Mac!START}
       /\ Mac!PTAG(p) \notin {Mac!ARL_E0, Mac!MINDX, Mac!VID_E0, Mac!VINDX}
       /\ \A q \in Mac!Ports : p # q => Mac!PTAG(p) # Mac!PTAG(q)
<1> USE DEF Mac!R, Mac!ARL_E0, Mac!MINDX, Mac!VID_E0, Mac!VINDX, Mac!START, Mac!VWRITE, Mac!VACCESS, Mac!PTAG
<1>1. {Mac!ARL_E0, Mac!MINDX, Mac!VID_E0, Mac!VINDX, Mac!VWRITE, Mac!VACCESS, Mac!START} \subseteq Mac!Registers
  BY DEF Mac!Registers
<1>2. \A p \in Mac!Ports : Mac!PTAG(p) \in Mac!Registers
  BY DEF Mac!Registers
<1>3. \A p \in Mac!Ports : /\ Mac!PTAG(p) \notin {Mac!VWRITE, Mac!VACCESS, Mac!START}
                           /\ Mac!PTAG(p) \notin {Mac!ARL_E0, Mac!MINDX, Mac!VID_E0, Mac!VINDX}
  BY DEF Mac!Ports
<1>4. \A p, q \in Mac!Ports : p # q => Mac!PTAG(p) # Mac!PTAG(q)
  OBVIOUS
<1>5. /\ Mac!ARL_E0 \notin {Mac!MINDX, Mac!VID_E0, Mac!VINDX, Mac!VWRITE, Mac!VACCESS, Mac!START}
      /\ Mac!MINDX \notin {Mac!VID_E0, Mac!VINDX, Mac!VWRITE, Mac!VACCESS, Mac!START}
      /\ Mac!VID_E0 \notin {Mac!VINDX, Mac!VWRITE, Mac!VACCESS, Mac!START}
      /\ Mac!VINDX \notin {Mac!VWRITE, Mac!VACCESS, Mac!START}
      /\ Mac!VWRITE \notin {Mac!VACCESS, Mac!START} /\ Mac!VACCESS # Mac!START
  OBVIOUS
<1> QED BY <1>1, <1>2, <1>3, <1>4, <1>5

(* The other registers that are written.                                   *)
Others == {Mac!MIIPO, Mac!MODE, Mac!CTRL1, Mac!CTRL4, Mac!CTRL5, Mac!PMAP, Mac!ARL_E1, Mac!VID_E1}
LEMMA OthersDiffer ==
  \A r \in Others :
    /\ r \in Mac!Registers
    /\ r \notin {Mac!ARL_E0, Mac!MINDX, Mac!VID_E0, Mac!VINDX, Mac!VWRITE, Mac!VACCESS, Mac!START}
    /\ \A p \in Mac!Ports : r # Mac!PTAG(p)
<1> USE DEF Mac!R, Mac!ARL_E0, Mac!MINDX, Mac!VID_E0, Mac!VINDX, Mac!START, Mac!VWRITE, Mac!VACCESS, Mac!PTAG, Others,
        Mac!MIIPO, Mac!MODE, Mac!CTRL1, Mac!CTRL4, Mac!CTRL5, Mac!PMAP, Mac!ARL_E1, Mac!VID_E1
<1>1. \A r \in Others : r \in Mac!Registers
  BY DEF Mac!Registers
<1>2. \A r \in Others : r \notin {Mac!ARL_E0, Mac!MINDX, Mac!VID_E0, Mac!VINDX, Mac!VWRITE, Mac!VACCESS, Mac!START}
  OBVIOUS
<1>3. \A r \in Others, p \in Mac!Ports : r # Mac!PTAG(p)
  BY DEF Mac!Ports
<1> QED BY <1>1, <1>2, <1>3

(* Nothing is written, and nothing waits, when no access is under way.     *)
LEMMA Idle ==
  ASSUME acc = Mac!NoAcc
  PROVE  /\ ~Writing /\ ~Sent
         /\ Effs = [r \in Mac!Registers \ {Mac!START} |-> regs[r]] /\ Rows = [v \in Mac!Vids |-> vtable[v]]
BY DEF Writing, Sent, Effs, Rows

(* An access that begins to write.                                         *)
LEMMA WritingBegins ==
  ASSUME acc = Mac!NoAcc, NEW r \in Mac!Registers, NEW words, Mac!Write(r, words), UNCHANGED Mac!switch
  PROVE  /\ Writing' /\ ~Sent' /\ acc'.reg = r /\ acc'.words = words /\ acc' # Mac!NoAcc
         /\ Effs' = [q \in Mac!Registers \ {Mac!START} |-> IF q = r THEN words ELSE Effs[q]]
         /\ Rows' = [v \in Mac!Vids |-> IF r = Mac!VACCESS /\ words[1].vid = v THEN Effs[Mac!VWRITE] ELSE Rows[v]]
<1>1. /\ acc' = [step |-> "page", op |-> "write", reg |-> r, words |-> words, left |-> Mac!Order(Len(words))]
      /\ regs' = regs /\ vtable' = vtable
  BY DEF Mac!Write, Mac!switch
<1>2. /\ acc'.step = "page" /\ acc'.op = "write" /\ acc'.reg = r /\ acc'.words = words
  BY <1>1
<1>3. acc' # Mac!NoAcc
  BY <1>2 DEF Mac!NoAcc
<1>4. Writing' /\ ~Sent'
  BY <1>2, <1>3 DEF Writing, Sent
<1>5. Effs' = [q \in Mac!Registers \ {Mac!START} |-> IF q = r THEN words ELSE Effs[q]]
  <2>1. Effs' = [q \in Mac!Registers \ {Mac!START} |-> IF q = r THEN words ELSE regs[q]]
    BY <1>1, <1>2, <1>4 DEF Effs
  <2> QED BY <2>1, Idle
<1>6. Rows' = [v \in Mac!Vids |-> IF r = Mac!VACCESS /\ words[1].vid = v THEN Effs[Mac!VWRITE] ELSE Rows[v]]
  <2>1. Rows' = [v \in Mac!Vids |-> IF r = Mac!VACCESS /\ words[1].vid = v THEN regs[Mac!VWRITE] ELSE vtable[v]]
    BY <1>1, <1>2, <1>4 DEF Rows
  <2>2. Effs[Mac!VWRITE] = regs[Mac!VWRITE] /\ \A v \in Mac!Vids : Rows[v] = vtable[v]
    BY Idle, RegistersDiffer
  <2> QED BY <2>1, <2>2
<1> QED BY <1>2, <1>3, <1>4, <1>5, <1>6

(* An access that begins to read.                                          *)
LEMMA ReadingBegins ==
  ASSUME acc = Mac!NoAcc, NEW r, Mac!Read(r), UNCHANGED Mac!switch
  PROVE  ~Writing' /\ ~Sent' /\ acc'.reg = r /\ acc' # Mac!NoAcc /\ Effs' = Effs /\ Rows' = Rows
<1>1. /\ acc' = [step |-> "page", op |-> "read", reg |-> r, words |-> <<>>, left |-> <<>>]
      /\ regs' = regs /\ vtable' = vtable
  BY DEF Mac!Read, Mac!switch
<1>2. acc'.step = "page" /\ acc'.op = "read" /\ acc'.reg = r
  BY <1>1
<1>3. acc' # Mac!NoAcc
  BY <1>2 DEF Mac!NoAcc
<1>4. ~Writing' /\ ~Sent'
  BY <1>2, <1>3 DEF Writing, Sent
<1>5. Effs' = Effs /\ Rows' = Rows
  BY <1>1, <1>4, Idle DEF Effs, Rows
<1> QED BY <1>2, <1>3, <1>4, <1>5

(* What nvram describes does not change.                                   *)
LEMMA ListsStay ==
  ASSUME nvram' = nvram
  PROVE  Lists' = Lists /\ Given' = Given
BY DEF Lists, Given, Mac!Described, Mac!Begins

LEMMA GivenIs ==
  /\ Given \subseteq Mac!Vids
  /\ \A v \in Mac!Vids \ Given : Lists[v] = {}
  /\ \A v \in Given : v \in 0..1 /\ nvram[v] # NULL /\
       Lists[v] = {nvram[v][k] : k \in {k \in 1..Len(nvram[v]) : Mac!Begins(nvram[v], k)}} \cap Mac!Ports
BY DEF Lists, Given, Mac!Described

(* The bus and the switch carry an access out: what the registers will     *)
(* hold does not change.                                                   *)
LEMMA AccKeeps ==
  ASSUME BusInv, SentInv, Mac!Bus
  PROVE  /\ Effs' = Effs /\ Rows' = Rows /\ SentInv'
         /\ acc # Mac!NoAcc /\ (Writing' => Writing /\ acc'.reg = acc.reg /\ acc'.words = acc.words)
         /\ UNCHANGED <<nvram, at, vid, cur, row, regs, vtable, arl>>
<1>0. UNCHANGED <<nvram, at, vid, cur, row, regs, vtable, arl>>
  BY DEF Mac!Bus, Mac!AccPage, Mac!AccData, Mac!AccGo, Mac!AccEnd, Mac!config, Mac!switch, Mac!mii
<1>1. acc # Mac!NoAcc /\ AccInv
  <2>1. acc.step \in {"page", "data", "wait"}
    BY DEF Mac!Bus, Mac!AccPage, Mac!AccData, Mac!AccGo, Mac!AccEnd
  <2>2. Mac!NoAcc.step = "none"
    BY DEF Mac!NoAcc
  <2> QED BY <2>1, <2>2 DEF BusInv
<1>2. CASE Mac!AccPage \/ Mac!AccData \/ Mac!AccGo
  <2>1. /\ acc'.step \in {"data", "wait"} /\ acc'.op = acc.op /\ acc'.reg = acc.reg /\ acc'.words = acc.words
        /\ acc'.step = "wait" => cmd'.op \in {"read", "write"}
    <3>1. CASE Mac!AccPage
      <4>1. acc' = [acc EXCEPT !.step = "data"]
        BY <3>1 DEF Mac!AccPage
      <4> QED BY <1>1, <4>1 DEF AccInv
    <3>2. CASE Mac!AccData
      <4>1. acc' = [acc EXCEPT !.left = Tail(acc.left)] /\ acc.step = "data"
        BY <3>2 DEF Mac!AccData
      <4> QED BY <1>1, <4>1 DEF AccInv
    <3>3. CASE Mac!AccGo
      <4>1. acc' = [acc EXCEPT !.step = "wait"] /\ cmd' = [op |-> acc.op, addr |-> acc.reg.addr]
        BY <3>3 DEF Mac!AccGo
      <4> QED BY <1>1, <4>1 DEF AccInv
    <3> QED BY <1>2, <3>1, <3>2, <3>3
  <2>2. acc' # Mac!NoAcc
    BY <2>1 DEF Mac!NoAcc
  <2>3. (Writing' <=> Writing) /\ ~Sent'
    BY <1>1, <2>1, <2>2 DEF Writing, Sent
  <2>4. Effs' = Effs /\ Rows' = Rows
    BY <1>0, <2>1, <2>3 DEF Effs, Rows
  <2>5. SentInv'
    BY <1>0, <2>1, <2>3 DEF SentInv
  <2> QED BY <1>0, <1>1, <2>1, <2>3, <2>4, <2>5
<1>3. CASE Mac!AccEnd
  <2>1. acc.step = "wait" /\ cmd.op = "none" /\ acc' = Mac!NoAcc
    BY <1>3 DEF Mac!AccEnd
  <2>2. ~Writing' /\ Sent
    BY <1>1, <2>1 DEF Writing, Sent
  <2>3. Effs' = [r \in Mac!Registers \ {Mac!START} |-> regs[r]] /\ Rows' = [v \in Mac!Vids |-> vtable[v]]
    BY <1>0, <2>2 DEF Effs, Rows
  <2>4. Effs = [r \in Mac!Registers \ {Mac!START} |-> regs[r]] /\ Rows = [v \in Mac!Vids |-> vtable[v]]
    BY <2>2 DEF SentInv, Effs, Rows
  <2> QED BY <1>0, <1>1, <2>2, <2>3, <2>4 DEF SentInv
<1> QED BY <1>2, <1>3 DEF Mac!Bus

(* A command out is the access that waits for it.                          *)
LEMMA CommitIs ==
  ASSUME BusInv, Mac!Commit
  PROVE  /\ acc # Mac!NoAcc /\ AccInv /\ acc.step = "wait" /\ acc' = acc /\ ~Sent
         /\ acc.op = "read" => UNCHANGED <<regs, vtable>> /\ data' = [data EXCEPT ![0] = regs[acc.reg][1]]
         /\ acc.op = "write" =>
              /\ regs' = [regs EXCEPT ![acc.reg] = acc.words] /\ UNCHANGED data
              /\ vtable' = IF acc.reg = Mac!VACCESS THEN [vtable EXCEPT ![acc.words[1].vid] = regs[Mac!VWRITE]]
                           ELSE vtable
         /\ UNCHANGED <<nvram, at, vid, cur, row, arl, val8>> /\ cmd'.op = "none"
<1> DEFINE r == Mac!R(page, cmd.addr)
<1>1. /\ cmd.op # "none" /\ cmd' = [op |-> "none"] /\ acc' = acc
      /\ cmd.op = "read" => data' = [data EXCEPT ![0] = regs[r][1]] /\ UNCHANGED <<regs, vtable>>
      /\ cmd.op # "read" =>
           /\ regs' = [regs EXCEPT ![r] = [w \in 1..Mac!Width(r) |-> data[w - 1]]] /\ UNCHANGED data
           /\ vtable' = IF r = Mac!VACCESS THEN [vtable EXCEPT ![data[0].vid] = regs[Mac!VWRITE]] ELSE vtable
      /\ UNCHANGED <<nvram, at, vid, cur, row, arl, val8>>
  BY DEF Mac!Commit, Mac!config
<1> HIDE DEF r
<1>2. acc # Mac!NoAcc /\ AccInv /\ acc.step = "wait" /\ ~Sent
  BY <1>1 DEF BusInv, Sent
<1>3. cmd = [op |-> acc.op, addr |-> acc.reg.addr] /\ page = acc.reg.page /\ acc.left = <<>>
  BY <1>1, <1>2 DEF AccInv
<1>4. r = acc.reg /\ r \in Mac!Registers /\ cmd.op = acc.op
  BY <1>2, <1>3, RegistersAre DEF r, AccInv
<1>5. ASSUME acc.op = "write"
      PROVE  [w \in 1..Mac!Width(r) |-> data[w - 1]] = acc.words /\ data[0] = acc.words[1]
  <2>1. /\ acc.words = [w \in 1..Mac!Width(r) |-> acc.words[w]]
        /\ \A w \in 0..(Mac!Width(r) - 1) : data[w] = acc.words[w + 1]
    BY <1>2, <1>3, <1>4, <1>5 DEF AccInv
  <2>2. Mac!Width(r) \in 1..4
    BY <1>4, RegistersAre
  <2>3. \A w \in 1..Mac!Width(r) : data[w - 1] = acc.words[w]
    <3> TAKE w \in 1..Mac!Width(r)
    <3>1. w - 1 \in 0..(Mac!Width(r) - 1) /\ (w - 1) + 1 = w
      BY <2>2
    <3> QED BY <2>1, <3>1
  <2>4. 1 \in 1..Mac!Width(r) /\ 1 - 1 = 0
    BY <2>2
  <2> QED BY <2>1, <2>3, <2>4
<1>6. cmd'.op = "none"
  BY <1>1
<1>7. acc.op = "read" => UNCHANGED <<regs, vtable>> /\ data' = [data EXCEPT ![0] = regs[acc.reg][1]]
  BY <1>1, <1>4
<1>8. acc.op = "write" => /\ regs' = [regs EXCEPT ![acc.reg] = acc.words] /\ UNCHANGED data
                          /\ vtable' = IF acc.reg = Mac!VACCESS THEN [vtable EXCEPT ![acc.words[1].vid] = regs[Mac!VWRITE]]
                                       ELSE vtable
  BY <1>1, <1>4, <1>5
<1> QED BY <1>1, <1>2, <1>6, <1>7, <1>8

(* What the access said holds when the command is carried out.             *)
LEMMA CommitKeeps ==
  ASSUME BusInv, SentInv, Mac!Commit, vtable = [v \in Mac!Vids |-> vtable[v]]
  PROVE  /\ Effs' = Effs /\ Rows' = Rows /\ SentInv' /\ vtable' = [v \in Mac!Vids |-> vtable'[v]]
<1>1. CASE acc.op = "read"
  <2>1. ~Writing /\ ~Writing'
    BY <1>1, CommitIs DEF Writing
  <2>2. regs' = regs /\ vtable' = vtable
    BY <1>1, CommitIs
  <2>3. Effs' = Effs /\ Rows' = Rows
    BY <2>1, <2>2 DEF Effs, Rows
  <2> QED BY <2>1, <2>2, <2>3 DEF SentInv
<1>2. CASE acc.op = "write"
  <2>1. Writing /\ Writing' /\ acc' = acc /\ acc.reg \in Mac!Registers
    BY <1>2, CommitIs DEF Writing, AccInv
  <2>2. /\ regs' = [regs EXCEPT ![acc.reg] = acc.words]
        /\ vtable' = IF acc.reg = Mac!VACCESS THEN [vtable EXCEPT ![acc.words[1].vid] = regs[Mac!VWRITE]]
                     ELSE vtable
    BY <1>2, CommitIs
  <2>3. regs'[acc.reg] = acc.words /\ \A q \in Mac!Registers \ {acc.reg} : regs'[q] = regs[q]
    BY <2>1, <2>2 DEF BusInv
  <2>4. Effs' = Effs
    BY <2>1, <2>3 DEF Effs
  <2>5. acc.reg = Mac!VACCESS => acc.words[1].vid \in Mac!Vids /\ regs'[Mac!VWRITE] = regs[Mac!VWRITE]
    BY <2>1, <2>3, RegistersDiffer DEF SentInv
  <2>6. vtable' = [v \in Mac!Vids |-> vtable'[v]]
    BY <2>2
  <2>7. CASE acc.reg = Mac!VACCESS
    <3>1. \A v \in Mac!Vids : vtable'[v] = IF v = acc.words[1].vid THEN regs[Mac!VWRITE] ELSE vtable[v]
      BY <2>2, <2>7
    <3>2. Rows' = Rows
      BY <2>1, <2>5, <2>7, <3>1 DEF Rows
    <3>3. SentInv'
      BY <2>1, <2>3, <2>5, <2>7, <3>1 DEF SentInv
    <3> QED BY <2>4, <2>6, <3>2, <3>3
  <2>8. CASE acc.reg # Mac!VACCESS
    <3>1. Rows' = Rows
      BY <2>1, <2>2, <2>8 DEF Rows
    <3>2. SentInv'
      BY <2>1, <2>3, <2>8 DEF SentInv
    <3> QED BY <2>4, <2>6, <3>1, <3>2
  <2> QED BY <2>7, <2>8
<1>3. acc.op \in {"read", "write"}
  BY CommitIs DEF AccInv
<1> QED BY <1>1, <1>2, <1>3

(* What does not look at the access under way.                             *)
LEMMA TablesStay ==
  ASSUME UNCHANGED <<nvram, at, vid, cur, row>>, Effs' = Effs, Rows' = Rows,
         AddressInv, ListInv, RowInv, TagInv
  PROVE  AddressInv' /\ ListInv' /\ RowInv' /\ TagInv' /\ Lists' = Lists /\ Given' = Given
<1>1. Lists' = Lists /\ Given' = Given
  BY ListsStay
<1>2. AddressInv'
  BY DEF AddressInv
<1>3. ListInv'
  <2>1. \A z, d : Taken(z, d)' = Taken(z, d)
    BY DEF Taken, Mac!Begins
  <2>2. TokenInv' <=> TokenInv
    BY <2>1 DEF TokenInv
  <2> QED BY <1>1, <2>2 DEF ListInv
<1>4. RowInv'
  BY <1>1 DEF RowInv
<1>5. Seen' = Seen
  BY DEF Seen
<1>6. \A p, v : LastOf(p, v)' <=> LastOf(p, v)
  BY <1>1 DEF LastOf
<1>7. TagInv'
  BY <1>1, <1>5 DEF TagInv, LastOf
<1> QED BY <1>1, <1>2, <1>3, <1>4, <1>7

LEMMA ArlStays ==
  ASSUME UNCHANGED <<nvram, vid, at, arl>>
  PROVE  Above' = Above /\ AndThis' = AndThis /\ Through' = Through /\ (TableInv => TableInv')
<1>1. Given' = Given
  BY ListsStay
<1>2. Above' = Above /\ Through' = Through
  BY <1>1 DEF Above, Through, Entry
<1>3. AndThis' = AndThis
  BY <1>2 DEF AndThis, Entry
<1> QED BY <1>2, <1>3 DEF TableInv

LEMMA BitsDiffer == <<Mac!Bits({})>> # <<Mac!Bits({"start"})>>
<1>1. Mac!Bits({}) # Mac!Bits({"start"})
  <2>1. Mac!Bits({}).bits = {} /\ Mac!Bits({"start"}).bits = {"start"}
    BY DEF Mac!Bits
  <2> QED BY <2>1
<1> QED BY <1>1

(* The bus moves no table.                                                 *)
LEMMA BusSwitch ==
  ASSUME BusInv, SwitchInv, Mac!Bus, pc' = pc
  PROVE  SwitchInv'
<1>1. /\ Effs' = Effs /\ Rows' = Rows /\ SentInv'
      /\ acc # Mac!NoAcc /\ (Writing' => Writing /\ acc'.reg = acc.reg /\ acc'.words = acc.words)
      /\ UNCHANGED <<nvram, at, vid, cur, row, regs, vtable, arl>>
  BY AccKeeps DEF SwitchInv
<1>2. Given' = Given
  BY <1>1, ListsStay
<1>3. PlaceInv'
  BY <1>1, <1>2 DEF SwitchInv, PlaceInv
<1>4. ASSUME at \notin Ended PROVE WorkInv'
  <2>0. WorkInv
    BY <1>4 DEF SwitchInv
  <2>1. AddressInv' /\ ListInv' /\ RowInv' /\ TagInv'
    BY <1>1, <2>0, TablesStay DEF WorkInv
  <2>2. TableInv' /\ Above' = Above /\ AndThis' = AndThis
    BY <1>1, <2>0, ArlStays DEF WorkInv
  <2>3. \A s : Start(s)' <=> Start(s)
    BY <1>1 DEF Start
  <2>4. (Stored' <=> Stored) /\ (Storing' <=> Storing)
    BY <1>1, <2>2 DEF Stored, Storing, Start
  <2>5. CASE at \notin {"poll", "stored"}
    BY <1>1, <2>0, <2>1, <2>2, <2>3, <2>5 DEF WorkInv, StartInv, Start
  <2>6. CASE at = "poll"
    <3>1. CASE ToStore /\ Writing'
      <4>1. ~Mac!AccEnd
        <5>1. acc.step = "wait" /\ cmd.op = "none" => Sent
          BY <1>1 DEF Sent
        <5> QED BY <3>1, <5>1 DEF ToStore, Mac!AccEnd
      <4>2. ~Sent'
        <5>1. acc.step \in {"page", "data"} /\ acc.op \in {"read", "write"}
          BY <1>1, <4>1 DEF Mac!Bus, Mac!AccPage, Mac!AccData, Mac!AccGo, BusInv, AccInv
        <5>2. CASE Mac!AccGo
          <6>1. cmd'.op = acc.op
            BY <5>2 DEF Mac!AccGo
          <6> QED BY <5>1, <6>1 DEF Sent
        <5>3. CASE Mac!AccPage
          <6>1. acc'.step = "data"
            BY <1>1, <5>3 DEF Mac!AccPage, BusInv, AccInv
          <6> QED BY <6>1 DEF Sent
        <5>4. CASE Mac!AccData
          <6>1. acc'.step = "data"
            BY <1>1, <5>4 DEF Mac!AccData, BusInv, AccInv
          <6> QED BY <6>1 DEF Sent
        <5> QED BY <4>1, <5>2, <5>3, <5>4 DEF Mac!Bus
      <4>3. ToStore'
        BY <1>1, <2>2, <3>1, <4>2 DEF ToStore, Start
      <4> QED BY <1>1, <2>1, <2>2, <2>6, <4>3 DEF WorkInv, StartInv
    <3>2. CASE ToStore /\ ~Writing'
      <4>1. Mac!AccEnd
        <5>1. Mac!AccPage => Writing'
          <6> SUFFICES ASSUME Mac!AccPage PROVE Writing'
            OBVIOUS
          <6>1. acc'.step = "data" /\ acc'.op = acc.op
            BY <1>1 DEF Mac!AccPage, BusInv, AccInv
          <6> QED BY <3>2, <6>1 DEF ToStore, Writing, Mac!NoAcc
        <5>2. Mac!AccData => Writing'
          <6> SUFFICES ASSUME Mac!AccData PROVE Writing'
            OBVIOUS
          <6>1. acc'.step = "data" /\ acc'.op = acc.op
            BY <1>1 DEF Mac!AccData, BusInv, AccInv
          <6> QED BY <3>2, <6>1 DEF ToStore, Writing, Mac!NoAcc
        <5>3. Mac!AccGo => Writing'
          <6> SUFFICES ASSUME Mac!AccGo PROVE Writing'
            OBVIOUS
          <6>1. acc'.step = "wait" /\ acc'.op = acc.op
            BY <1>1 DEF Mac!AccGo, BusInv, AccInv
          <6> QED BY <3>2, <6>1 DEF ToStore, Writing, Mac!NoAcc
        <5> QED BY <3>2, <5>1, <5>2, <5>3 DEF Mac!Bus
      <4>2. Sent
        BY <1>1, <4>1 DEF Sent, Mac!AccEnd
      <4> QED BY <3>2, <4>2 DEF ToStore
    <3>3. CASE (Writing => Sent /\ acc.reg = Mac!START) /\ (Stored \/ Storing)
      <4>1. Writing' => FALSE
        <5> SUFFICES ASSUME Writing' PROVE FALSE
          OBVIOUS
        <5>1. Sent
          BY <1>1, <3>3
        <5>2. Mac!AccEnd
          BY <5>1 DEF Sent, Mac!Bus, Mac!AccPage, Mac!AccData, Mac!AccGo
        <5> QED BY <5>2 DEF Mac!AccEnd, Writing
      <4> QED BY <1>1, <2>1, <2>2, <2>4, <2>6, <3>3, <4>1 DEF WorkInv, StartInv
    <3> QED BY <2>0, <2>6, <3>1, <3>2, <3>3 DEF WorkInv, StartInv
  <2>7. CASE at = "stored"
    <3>1. /\ Stored \/ Storing
          /\ ~Writing
          /\ acc # Mac!NoAcc => acc.reg = Mac!START
          /\ Sent /\ "start" \notin data[0].bits => Stored
      BY <2>0, <2>7 DEF WorkInv, StartInv
    <3>2. CASE Mac!AccEnd
      <4>1. acc' = Mac!NoAcc /\ Sent /\ val8' = data[0].bits
        <5>1. acc.op = "read"
          BY <1>1, <3>1 DEF Writing, BusInv, AccInv
        <5> QED BY <1>1, <3>2, <5>1 DEF Mac!AccEnd, Sent
      <4>2. ~Sent' /\ ~Writing'
        BY <4>1 DEF Sent, Writing
      <4>3. StartInv'
        BY <1>1, <2>4, <2>7, <3>1, <4>1, <4>2 DEF StartInv
      <4> QED BY <2>1, <2>2, <4>3 DEF WorkInv
    <3>3. CASE Mac!AccPage \/ Mac!AccData \/ Mac!AccGo
      <4>1. acc.op \in {"read", "write"} /\ acc.reg = Mac!START
        BY <1>1, <3>1 DEF BusInv, AccInv
      <4>2. acc' # Mac!NoAcc /\ acc'.reg = acc.reg /\ ~Sent'
        <5>1. CASE Mac!AccPage
          <6>1. acc'.step = "data" /\ acc'.reg = acc.reg
            BY <1>1, <5>1 DEF Mac!AccPage, BusInv, AccInv
          <6> QED BY <6>1 DEF Sent, Mac!NoAcc
        <5>2. CASE Mac!AccData
          <6>1. acc'.step = "data" /\ acc'.reg = acc.reg
            BY <1>1, <5>2 DEF Mac!AccData, BusInv, AccInv
          <6> QED BY <6>1 DEF Sent, Mac!NoAcc
        <5>3. CASE Mac!AccGo
          <6>1. acc'.step = "wait" /\ acc'.reg = acc.reg /\ cmd'.op = acc.op
            BY <1>1, <5>3 DEF Mac!AccGo, BusInv, AccInv
          <6> QED BY <4>1, <6>1 DEF Sent, Mac!NoAcc
        <5> QED BY <3>3, <5>1, <5>2, <5>3
      <4>3. StartInv'
        BY <1>1, <2>4, <2>7, <3>1, <4>1, <4>2 DEF StartInv
      <4> QED BY <2>1, <2>2, <4>3 DEF WorkInv
    <3> QED BY <3>2, <3>3 DEF Mac!Bus
  <2> QED BY <2>5, <2>6, <2>7
<1> QED BY <1>1, <1>3, <1>4 DEF SwitchInv

(* The switch carries a command out.                                       *)
LEMMA CommitSwitch ==
  ASSUME BusInv, SwitchInv, Mac!Commit, pc' = pc
  PROVE  SwitchInv'
<1>1. /\ acc # Mac!NoAcc /\ AccInv /\ acc.step = "wait" /\ acc' = acc /\ ~Sent
      /\ acc.op = "read" => UNCHANGED <<regs, vtable>> /\ data' = [data EXCEPT ![0] = regs[acc.reg][1]]
      /\ acc.op = "write" => regs' = [regs EXCEPT ![acc.reg] = acc.words] /\ UNCHANGED data
      /\ UNCHANGED <<nvram, at, vid, cur, row, arl, val8>> /\ cmd'.op = "none"
  BY CommitIs
<1>2. Effs' = Effs /\ Rows' = Rows /\ SentInv' /\ vtable' = [v \in Mac!Vids |-> vtable'[v]]
  BY CommitKeeps DEF SwitchInv, PlaceInv
<1>3. (Writing' <=> Writing) /\ Sent' /\ Given' = Given /\ (Writing <=> acc.op = "write") /\ acc.op \in {"read", "write"}
  BY <1>1, ListsStay DEF Writing, Sent, AccInv
<1>4. PlaceInv'
  BY <1>1, <1>2, <1>3 DEF SwitchInv, PlaceInv
<1>5. ASSUME at \notin Ended PROVE WorkInv'
  <2>0. WorkInv
    BY <1>5 DEF SwitchInv
  <2>1. AddressInv' /\ ListInv' /\ RowInv' /\ TagInv'
    BY <1>1, <1>2, <2>0, TablesStay DEF WorkInv
  <2>2. TableInv' /\ Above' = Above /\ AndThis' = AndThis
    BY <1>1, <2>0, ArlStays DEF WorkInv
  <2>3. Mac!START \in Mac!Registers /\ acc.reg \in Mac!Registers
    BY <1>1, RegistersDiffer DEF AccInv
  <2>4. ASSUME ~Writing \/ acc.reg # Mac!START
        PROVE  regs'[Mac!START] = regs[Mac!START] /\ (Stored' <=> Stored) /\ (Storing' <=> Storing)
    <3>1. regs'[Mac!START] = regs[Mac!START]
      BY <1>1, <1>3, <2>3, <2>4 DEF BusInv
    <3> QED BY <1>1, <2>2, <3>1 DEF Stored, Storing, Start
  <2>5. CASE at \notin {"poll", "stored"}
    BY <1>1, <1>3, <2>0, <2>1, <2>2, <2>4, <2>5 DEF WorkInv, StartInv, Start
  <2>6. CASE at = "poll"
    <3>1. CASE ToStore
      <4>1. regs'[Mac!START] = <<Mac!Bits({"start"})>>
        BY <1>1, <1>3, <2>3, <3>1 DEF ToStore, BusInv
      <4>2. Storing'
        BY <1>1, <2>2, <3>1, <4>1 DEF Storing, Start, ToStore
      <4> QED BY <1>1, <1>3, <2>1, <2>2, <2>6, <3>1, <4>2 DEF WorkInv, StartInv, ToStore
    <3>2. CASE (Writing => Sent /\ acc.reg = Mac!START) /\ (Stored \/ Storing)
      <4>1. ~Writing
        BY <1>1, <3>2
      <4> QED BY <1>1, <1>3, <2>1, <2>2, <2>4, <2>6, <3>2, <4>1 DEF WorkInv, StartInv
    <3> QED BY <2>0, <2>6, <3>1, <3>2 DEF WorkInv, StartInv
  <2>7. CASE at = "stored"
    <3>1. (Stored \/ Storing) /\ ~Writing /\ acc.reg = Mac!START
      BY <1>1, <2>0, <2>7 DEF WorkInv, StartInv
    <3>2. data'[0] = regs[Mac!START][1]
      BY <1>1, <1>3, <3>1 DEF BusInv
    <3>3. "start" \notin data'[0].bits => Stored
      <4>1. Storing => data'[0] = Mac!Bits({"start"})
        BY <3>2 DEF Storing, Start
      <4>2. Mac!Bits({"start"}).bits = {"start"}
        BY DEF Mac!Bits
      <4> QED BY <3>1, <4>1, <4>2
    <3>4. StartInv'
      BY <1>1, <1>3, <2>4, <2>7, <3>1, <3>3 DEF StartInv
    <3> QED BY <2>1, <2>2, <3>4 DEF WorkInv
  <2> QED BY <2>5, <2>6, <2>7
<1> QED BY <1>1, <1>2, <1>4, <1>5 DEF SwitchInv

(* The switch stores the address that the registers hold.                  *)
LEMMA StoreSwitch ==
  ASSUME BusInv, SwitchInv, Mac!StoreAddress, pc' = pc
  PROVE  SwitchInv'
<1>1. /\ regs[Mac!START] = <<Mac!Bits({"start"})>>
      /\ regs' = [regs EXCEPT ![Mac!START] = <<Mac!Bits({})>>]
      /\ arl' = arl \cup {[hash |-> regs[Mac!MINDX] \o regs[Mac!VINDX], entry |-> regs[Mac!ARL_E0],
                           vid |-> regs[Mac!VID_E0]]}
      /\ UNCHANGED <<nvram, at, vid, cur, row, val8, acc, page, data, cmd, vtable>>
  BY DEF Mac!StoreAddress, Mac!config, Mac!mii
<1>2. /\ Mac!START \in Mac!Registers /\ regs'[Mac!START] = <<Mac!Bits({})>>
      /\ \A q \in Mac!Registers \ {Mac!START} : regs'[q] = regs[q]
  BY <1>1, RegistersDiffer DEF BusInv
<1>3. (Writing' <=> Writing) /\ (Sent' <=> Sent) /\ Given' = Given
  BY <1>1, ListsStay DEF Writing, Sent
<1>4. Effs' = Effs /\ Rows' = Rows
  <2>1. regs'[Mac!VWRITE] = regs[Mac!VWRITE]
    BY <1>2, RegistersDiffer
  <2> QED BY <1>1, <1>2, <1>3, <2>1 DEF Effs, Rows
<1>5. SentInv'
  <2>1. regs'[Mac!VWRITE] = regs[Mac!VWRITE]
    BY <1>2, RegistersDiffer
  <2>2. acc # Mac!NoAcc => acc.reg \in Mac!Registers
    BY DEF BusInv, AccInv
  <2> QED BY <1>1, <1>2, <1>3, <2>1, <2>2 DEF SwitchInv, SentInv, Writing
<1>6. PlaceInv'
  BY <1>1, <1>3 DEF SwitchInv, PlaceInv
<1>7. ASSUME at \notin Ended PROVE WorkInv'
  <2>0. WorkInv
    BY <1>7 DEF SwitchInv
  <2>1. AddressInv' /\ ListInv' /\ RowInv' /\ TagInv'
    BY <1>1, <1>4, <2>0, TablesStay DEF WorkInv
  <2>2. ~Start({})
    BY <1>1, BitsDiffer DEF Start
  <2>3. /\ at \in {"poll", "stored"} /\ Storing
        /\ (Writing => Sent /\ acc.reg = Mac!START)
        /\ at = "stored" => ~Writing /\ (acc # Mac!NoAcc => acc.reg = Mac!START)
    BY <2>0, <2>2 DEF WorkInv, StartInv, ToStore, Stored
  <2>4. /\ regs[Mac!ARL_E0] = Append(Mac!Mac, Mac!Static) /\ regs[Mac!MINDX] = Mac!Mac
        /\ regs[Mac!VID_E0] = <<Mac!Id(vid)>> /\ regs[Mac!VINDX] = <<Mac!Id(vid)>>
    <3>1. /\ Effs[Mac!ARL_E0] = regs[Mac!ARL_E0] /\ Effs[Mac!MINDX] = regs[Mac!MINDX]
          /\ Effs[Mac!VID_E0] = regs[Mac!VID_E0] /\ Effs[Mac!VINDX] = regs[Mac!VINDX]
      BY <2>3, RegistersDiffer DEF Effs
    <3> QED BY <2>0, <2>3, <3>1 DEF WorkInv, AddressInv, Early
  <2>5. Mac!Mac \o <<Mac!Id(vid)>> = Append(Mac!Mac, Mac!Id(vid))
    BY DEF Mac!Mac
  <2>6. arl' = Above \cup {Entry(vid)}
    BY <1>1, <2>3, <2>4, <2>5 DEF Storing, Entry
  <2>7. Above' = Above /\ AndThis' = AndThis
    BY <1>1, <1>3 DEF Above, AndThis, Entry
  <2>8. Stored'
    BY <1>2, <2>6, <2>7 DEF Stored, AndThis, Start
  <2>9. StartInv'
    BY <1>1, <1>3, <2>3, <2>8 DEF StartInv
  <2>10. TableInv'
    BY <1>1, <2>3 DEF TableInv, Early, Late
  <2> QED BY <2>1, <2>9, <2>10 DEF WorkInv
<1> QED BY <1>1, <1>5, <1>6, <1>7 DEF SwitchInv

(* The rows and the tags, when neither the loop nor the list goes on.      *)
LEMMA VlansStay ==
  ASSUME nvram' = nvram, vid' = vid, Rows' = Rows, Seen' = Seen,
         \A p \in Mac!Ports : Effs'[Mac!PTAG(p)] = Effs[Mac!PTAG(p)], RowInv, TagInv
  PROVE  RowInv' /\ TagInv'
<1>1. Lists' = Lists
  BY ListsStay
<1> QED BY <1>1 DEF RowInv, TagInv, LastOf

(* A step of robosw_init that leaves the tables of the switch alone.       *)
LEMMA ConfigIs ==
  ASSUME Mac!Config
  PROVE  /\ acc = Mac!NoAcc /\ UNCHANGED Mac!switch
         /\ UNCHANGED <<nvram, val8, regs, vtable, arl, data, cmd>> /\ Lists' = Lists /\ Given' = Given
         /\ ~Writing /\ ~Sent
<1>1. acc = Mac!NoAcc /\ UNCHANGED Mac!switch /\ UNCHANGED <<nvram, val8>>
  BY DEF Mac!Config, Mac!Probe, Mac!ReadReg, Mac!ReverseMii, Mac!Forward, Mac!SetBit, Mac!WriteReg,
     Mac!Vlan, Mac!Token, Mac!Stored, Mac!Access, Mac!Step
<1> QED BY <1>1, Idle, ListsStay DEF Mac!switch, Mac!mii

(* The invariant before the loop.                                          *)
LEMMA EarlyInv ==
  ASSUME at' \in Early, vid' = 0, arl' = {}, SentInv', PlaceInv', Start({})',
         Writing' => acc'.reg # Mac!START,
         at' \in {"mindx", "ctrl4", "ctrl5"} => Effs'[Mac!ARL_E0] = Append(Mac!Mac, Mac!Static),
         at' \in {"ctrl4", "ctrl5"} => Effs'[Mac!MINDX] = Mac!Mac
  PROVE  SwitchInv'
<1>1. at' \notin {"poll", "stored", "vindx", "start", "token", "vlan", "vid0", "row", "access"} \cup Late \cup InVlan
  BY DEF Early, Late, InVlan
<1>2. StartInv' /\ AddressInv' /\ TableInv' /\ ListInv'
  BY <1>1 DEF StartInv, AddressInv, TableInv, ListInv
<1>3. RowInv'
  BY DEF RowInv
<1>4. TagInv'
  <2>1. Seen' = {}
    BY <1>1 DEF Seen
  <2> QED BY <2>1 DEF TagInv
<1> QED BY <1>2, <1>3, <1>4 DEF SwitchInv, WorkInv

(* The rows of Writes.                                                     *)
LEMMA WritesAre ==
  /\ Mac!Writes["multicast"].reg = Mac!CTRL1 /\ Mac!Writes["multicast"].next = "arl1"
  /\ Mac!Writes["arl1"].reg = Mac!ARL_E1 /\ Mac!Writes["arl1"].next = "vid1"
  /\ Mac!Writes["vid1"].reg = Mac!VID_E1 /\ Mac!Writes["vid1"].next = "arl0"
  /\ Mac!Writes["arl0"].reg = Mac!ARL_E0 /\ Mac!Writes["arl0"].next = "mindx" /\ Mac!Writes["arl0"].words = Append(Mac!Mac, Mac!Static)
  /\ Mac!Writes["mindx"].reg = Mac!MINDX /\ Mac!Writes["mindx"].next = "ctrl4" /\ Mac!Writes["mindx"].words = Mac!Mac
  /\ Mac!Writes["ctrl4"].reg = Mac!CTRL4 /\ Mac!Writes["ctrl4"].next = "ctrl5"
  /\ Mac!Writes["ctrl5"].reg = Mac!CTRL5 /\ Mac!Writes["ctrl5"].next = "vlan"
  /\ Mac!Writes["vid0"].reg = Mac!VID_E0 /\ Mac!Writes["vid0"].next = "vindx" /\ Mac!Writes["vid0"].words = <<Mac!Id(vid)>>
  /\ Mac!Writes["vindx"].reg = Mac!VINDX /\ Mac!Writes["vindx"].next = "start" /\ Mac!Writes["vindx"].words = <<Mac!Id(vid)>>
  /\ Mac!Writes["start"].reg = Mac!START /\ Mac!Writes["start"].next = "poll" /\ Mac!Writes["start"].words = <<Mac!Bits({"start"})>>
  /\ Mac!Writes["row"].reg = Mac!VWRITE /\ Mac!Writes["row"].next = "access" /\ Mac!Writes["row"].words = <<row, Mac!Part("valid")>>
  /\ Mac!Writes["pmap"].reg = Mac!PMAP /\ Mac!Writes["pmap"].next = "mode"
  /\ DOMAIN Mac!Writes = {"multicast", "arl1", "vid1", "arl0", "mindx", "ctrl4", "ctrl5", "vid0", "vindx", "start", "row", "pmap"}
<1>1. Mac!Writes["multicast"].reg = Mac!CTRL1 /\ Mac!Writes["multicast"].next = "arl1"
  BY DEF Mac!Writes
<1>2. Mac!Writes["arl1"].reg = Mac!ARL_E1 /\ Mac!Writes["arl1"].next = "vid1"
  BY DEF Mac!Writes
<1>3. Mac!Writes["vid1"].reg = Mac!VID_E1 /\ Mac!Writes["vid1"].next = "arl0"
  BY DEF Mac!Writes
<1>4. Mac!Writes["arl0"].reg = Mac!ARL_E0 /\ Mac!Writes["arl0"].next = "mindx" /\ Mac!Writes["arl0"].words = Append(Mac!Mac, Mac!Static)
  BY DEF Mac!Writes
<1>5. Mac!Writes["mindx"].reg = Mac!MINDX /\ Mac!Writes["mindx"].next = "ctrl4" /\ Mac!Writes["mindx"].words = Mac!Mac
  BY DEF Mac!Writes
<1>6. Mac!Writes["ctrl4"].reg = Mac!CTRL4 /\ Mac!Writes["ctrl4"].next = "ctrl5"
  BY DEF Mac!Writes
<1>7. Mac!Writes["ctrl5"].reg = Mac!CTRL5 /\ Mac!Writes["ctrl5"].next = "vlan"
  BY DEF Mac!Writes
<1>8. Mac!Writes["vid0"].reg = Mac!VID_E0 /\ Mac!Writes["vid0"].next = "vindx" /\ Mac!Writes["vid0"].words = <<Mac!Id(vid)>>
  BY DEF Mac!Writes
<1>9. Mac!Writes["vindx"].reg = Mac!VINDX /\ Mac!Writes["vindx"].next = "start" /\ Mac!Writes["vindx"].words = <<Mac!Id(vid)>>
  BY DEF Mac!Writes
<1>10. Mac!Writes["start"].reg = Mac!START /\ Mac!Writes["start"].next = "poll" /\ Mac!Writes["start"].words = <<Mac!Bits({"start"})>>
  BY DEF Mac!Writes
<1>11. Mac!Writes["row"].reg = Mac!VWRITE /\ Mac!Writes["row"].next = "access" /\ Mac!Writes["row"].words = <<row, Mac!Part("valid")>>
  BY DEF Mac!Writes
<1>12. Mac!Writes["pmap"].reg = Mac!PMAP /\ Mac!Writes["pmap"].next = "mode"
  BY DEF Mac!Writes
<1>13. DOMAIN Mac!Writes = {"multicast", "arl1", "vid1", "arl0", "mindx", "ctrl4", "ctrl5", "vid0", "vindx", "start", "row", "pmap"}
  BY DEF Mac!Writes
<1> QED BY <1>1, <1>2, <1>3, <1>4, <1>5, <1>6, <1>7, <1>8, <1>9, <1>10, <1>11, <1>12, <1>13, Zenon

(* Before the loop: nothing is stored, and CTRL1 to MINDX are written.     *)
LEMMA BeforeLoop ==
  ASSUME BusInv, SwitchInv, Mac!Probe \/ Mac!ReadReg \/ Mac!ReverseMii \/ Mac!WriteReg, at \in Early, pc' = pc, pc = "robosw"
  PROVE  SwitchInv'
<1>1. /\ acc = Mac!NoAcc /\ UNCHANGED Mac!switch
      /\ UNCHANGED <<nvram, val8, regs, vtable, arl, data, cmd>> /\ Lists' = Lists /\ Given' = Given
      /\ ~Writing /\ ~Sent
  BY ConfigIs DEF Mac!Config
<1>2. vid' = vid /\ vid = 0 /\ arl = {} /\ Start({}) /\ Start({})' /\ PlaceInv
  <2>1. vid' = vid
    BY DEF Mac!Probe, Mac!ReadReg, Mac!ReverseMii, Mac!SetBit, Mac!WriteReg, Mac!InTables
  <2>2. WorkInv /\ PlaceInv /\ at \notin {"poll", "stored"}
    BY DEF SwitchInv, Early, Ended
  <2>3. vid = 0 /\ arl = {} /\ Start({})
    BY <2>2 DEF PlaceInv, WorkInv, StartInv, TableInv
  <2> QED BY <1>1, <2>1, <2>2, <2>3 DEF Start
<1>3. NumVlans \in Nat \ {0}
  BY PartsAssumption DEF Mac!RoboAssumption
<1>4. ASSUME at' \in Early, at' # "off" PROVE PlaceInv'
  BY <1>1, <1>2, <1>3, <1>4 DEF PlaceInv, Early, InVlan, Late
<1>5. ASSUME ~Writing' \/ acc'.reg # Mac!VACCESS PROVE SentInv' \/ Sent'
  BY <1>5 DEF SentInv
<1>6. CASE Mac!Probe
  <2>1. at' \in {"device", "done"} /\ acc' = acc
    BY <1>6 DEF Mac!Probe, Mac!Step
  <2>2. ~Writing' /\ SentInv'
    BY <1>1, <2>1 DEF Writing, SentInv
  <2>3. CASE at' = "device"
    BY <1>1, <1>2, <1>4, <2>2, <2>3, EarlyInv DEF Early
  <2>4. CASE at' = "done"
    <3>1. PlaceInv'
      BY <1>1, <1>2, <1>3, <2>4 DEF PlaceInv, Early, InVlan, Late, Ended
    <3> QED BY <2>2, <2>4, <3>1 DEF SwitchInv, Ended
  <2> QED BY <2>1, <2>3, <2>4
<1>7. CASE Mac!ReadReg
  <2>1. at \in {"device", "rvmiiback", "ctrl0", "ctrl1"}
    BY <1>7 DEF Mac!ReadReg, Mac!Reads, Early
  <2>2. at' \in {"rvmii", "ctrl0", "ctrl1", "multicast"}
    <3>1. at' = Mac!Reads[at].next
      BY <1>7 DEF Mac!ReadReg, Mac!Step
    <3> QED BY <2>1, <3>1 DEF Mac!Reads
  <2>3. ~Writing'
    <3>1. Mac!Read(Mac!Reads[at].reg)
      BY <1>7 DEF Mac!ReadReg
    <3> QED BY <1>1, <3>1, ReadingBegins
  <2> QED BY <1>1, <1>2, <1>4, <2>2, <2>3, EarlyInv DEF Early, SentInv
<1>8. CASE Mac!ReverseMii
  <2>1. at' \in {"rvmiiback", "ctrl0"} /\ (acc' = acc \/ \E x : Mac!Write(Mac!MIIPO, <<x>>))
    BY <1>8 DEF Mac!ReverseMii, Mac!SetBit, Mac!Step
  <2>2. acc' = acc => ~Writing'
    BY <1>1 DEF Writing
  <2>3. ASSUME NEW x, Mac!Write(Mac!MIIPO, <<x>>) PROVE Writing' /\ ~Sent' /\ acc'.reg = Mac!MIIPO
    BY <1>1, <2>3, OthersDiffer, WritingBegins DEF Others
  <2>4. Writing' => ~Sent' /\ acc'.reg \in Others
    BY <2>1, <2>2, <2>3 DEF Others
  <2>5. SentInv' /\ (Writing' => acc'.reg # Mac!START)
    BY <2>4, OthersDiffer DEF SentInv
  <2> QED BY <1>1, <1>2, <1>4, <2>1, <2>5, EarlyInv DEF Early
<1>9. CASE Mac!WriteReg
  <2>1. /\ at \in DOMAIN Mac!Writes /\ at' = Mac!Writes[at].next
        /\ Mac!Write(Mac!Writes[at].reg, Mac!Writes[at].words)
    BY <1>9 DEF Mac!WriteReg, Mac!Step
  <2>2. at \in {"multicast", "arl1", "vid1", "arl0", "mindx", "ctrl4", "ctrl5"}
    BY <2>1, WritesAre DEF Early
  <2> DEFINE r == Mac!Writes[at].reg
             words == Mac!Writes[at].words
  <2>3. /\ at = "multicast" => r = Mac!CTRL1 /\ at' = "arl1"
        /\ at = "arl1" => r = Mac!ARL_E1 /\ at' = "vid1"
        /\ at = "vid1" => r = Mac!VID_E1 /\ at' = "arl0"
        /\ at = "arl0" => r = Mac!ARL_E0 /\ at' = "mindx" /\ words = Append(Mac!Mac, Mac!Static)
        /\ at = "mindx" => r = Mac!MINDX /\ at' = "ctrl4" /\ words = Mac!Mac
        /\ at = "ctrl4" => r = Mac!CTRL4 /\ at' = "ctrl5"
        /\ at = "ctrl5" => r = Mac!CTRL5 /\ at' = "vlan"
    BY <2>1, WritesAre
  <2>4. r \in Others \cup {Mac!ARL_E0, Mac!MINDX}
    BY <2>2, <2>3 DEF Others
  <2>5. r \in Mac!Registers /\ r # Mac!START /\ r # Mac!VACCESS
    BY <2>4, OthersDiffer, RegistersDiffer
  <2> HIDE DEF r, words
  <2>6. /\ Writing' /\ ~Sent' /\ acc'.reg = r
        /\ Effs' = [q \in Mac!Registers \ {Mac!START} |-> IF q = r THEN words ELSE Effs[q]]
        /\ Rows' = [v \in Mac!Vids |-> IF r = Mac!VACCESS /\ words[1].vid = v THEN Effs[Mac!VWRITE] ELSE Rows[v]]
    <3>1. Mac!Write(r, words)
      BY <2>1 DEF r, words
    <3> QED BY <1>1, <2>5, <3>1, WritingBegins
  <2>7. SentInv'
    BY <2>5, <2>6 DEF SentInv
  <2>8. /\ at \in {"ctrl4", "ctrl5"} => Effs[Mac!MINDX] = Mac!Mac
        /\ at \in {"mindx", "ctrl4", "ctrl5"} => Effs[Mac!ARL_E0] = Append(Mac!Mac, Mac!Static)
    BY DEF SwitchInv, WorkInv, AddressInv, Ended, Early
  <2>9. /\ at' \in {"mindx", "ctrl4", "ctrl5", "vlan"} => Effs'[Mac!ARL_E0] = Append(Mac!Mac, Mac!Static)
        /\ at' \in {"ctrl4", "ctrl5", "vlan"} => Effs'[Mac!MINDX] = Mac!Mac
    <3>1. Mac!ARL_E0 \in Mac!Registers \ {Mac!START} /\ Mac!MINDX \in Mac!Registers \ {Mac!START} /\ Mac!ARL_E0 # Mac!MINDX
      BY RegistersDiffer
    <3>2. r \in Others => r # Mac!ARL_E0 /\ r # Mac!MINDX
      BY OthersDiffer
    <3>3. at \in {"ctrl4", "ctrl5"} => r \in Others
      BY <2>3 DEF Others
    <3>4. /\ Effs'[Mac!ARL_E0] = IF Mac!ARL_E0 = r THEN words ELSE Effs[Mac!ARL_E0]
          /\ Effs'[Mac!MINDX] = IF Mac!MINDX = r THEN words ELSE Effs[Mac!MINDX]
      BY <2>6, <3>1
    <3> QED BY <2>2, <2>3, <2>8, <3>1, <3>2, <3>3, <3>4
  <2>10. CASE at # "ctrl5"
    <3>1. at' \in Early /\ at' # "off"
      BY <2>2, <2>3, <2>10 DEF Early
    <3> QED BY <1>1, <1>2, <1>4, <2>5, <2>6, <2>7, <2>9, <3>1, EarlyInv
  <2>11. CASE at = "ctrl5"
    <3>1. at' = "vlan"
      BY <2>3, <2>11
    <3>2. PlaceInv'
      BY <1>1, <1>2, <1>3, <3>1 DEF PlaceInv, Early, InVlan, Late, Ended
    <3>3. Above' = {}
      BY <1>1, <1>2 DEF Above, Given, Mac!Vids
    <3>4. StartInv' /\ AddressInv' /\ TableInv' /\ ListInv'
      BY <1>1, <1>2, <2>5, <2>6, <2>9, <3>1, <3>3 DEF StartInv, AddressInv, TableInv, ListInv, Early, InVlan
    <3>5. RowInv' /\ TagInv'
      BY <1>2, <3>1 DEF RowInv, TagInv, Seen, InVlan
    <3> QED BY <2>7, <3>2, <3>4, <3>5 DEF SwitchInv, WorkInv
  <2> QED BY <2>10, <2>11
<1> QED BY <1>6, <1>7, <1>8, <1>9

LEMMA VidsAre == NumVlans \in Nat \ {0} /\ Mac!Vids = 0..(NumVlans - 1)
BY PartsAssumption DEF Mac!RoboAssumption, Mac!Vids

(* The last steps, when the tables stand.                                  *)
LEMMA AfterLoop ==
  ASSUME BusInv, SwitchInv, Mac!ReadReg \/ Mac!Forward \/ Mac!WriteReg, at \in Late \cup Ended, pc' = pc, pc = "robosw"
  PROVE  SwitchInv'
<1>1. /\ acc = Mac!NoAcc /\ UNCHANGED Mac!switch
      /\ UNCHANGED <<nvram, val8, regs, vtable, arl, data, cmd>> /\ Lists' = Lists /\ Given' = Given
      /\ ~Writing /\ ~Sent
  BY ConfigIs DEF Mac!Config
<1>2. vid' = vid /\ row' = row /\ cur' = cur
  BY DEF Mac!ReadReg, Mac!Forward, Mac!SetBit, Mac!WriteReg, Mac!InTables
<1>3. at' \in {"mode", "forward", "modeback", "done"} /\ (at \in Ended => at' = "done") /\ (at' = "forward" => Mac!ReadReg)
  <2>1. CASE Mac!ReadReg
    <3>1. at \in {"mode", "modeback"}
      BY <2>1 DEF Mac!ReadReg, Mac!Reads, Late, Ended
    <3>2. at' = Mac!Reads[at].next
      BY <2>1 DEF Mac!ReadReg, Mac!Step
    <3> QED BY <2>1, <3>1, <3>2 DEF Mac!Reads, Ended
  <2>2. CASE Mac!Forward
    BY <2>2 DEF Mac!Forward, Mac!SetBit, Mac!Step, Ended
  <2>3. CASE Mac!WriteReg
    <3>1. at = "pmap" /\ at' = Mac!Writes[at].next
      BY <2>3, WritesAre DEF Mac!WriteReg, Mac!Step, Late, Ended
    <3> QED BY <3>1, WritesAre DEF Ended
  <2> QED BY <2>1, <2>2, <2>3
<1>4. \/ ~Writing' /\ Effs' = Effs /\ Rows' = Rows
      \/ /\ Writing' /\ ~Sent' /\ acc'.reg \in Others /\ at' # "forward" /\ Rows' = Rows
         /\ \A q \in Mac!Registers \ {Mac!START} : q \notin Others => Effs'[q] = Effs[q]
  <2>1. ASSUME NEW r \in Others, NEW words, Mac!Write(r, words)
        PROVE  /\ Writing' /\ ~Sent' /\ acc'.reg \in Others /\ Rows' = Rows
               /\ \A q \in Mac!Registers \ {Mac!START} : q \notin Others => Effs'[q] = Effs[q]
    <3>1. r \in Mac!Registers /\ r # Mac!VACCESS
      BY OthersDiffer
    <3>2. /\ Writing' /\ ~Sent' /\ acc'.reg = r
          /\ Effs' = [q \in Mac!Registers \ {Mac!START} |-> IF q = r THEN words ELSE Effs[q]]
          /\ Rows' = [v \in Mac!Vids |-> IF r = Mac!VACCESS /\ words[1].vid = v THEN Effs[Mac!VWRITE] ELSE Rows[v]]
      BY <1>1, <2>1, <3>1, WritingBegins
    <3>3. Rows' = Rows
      BY <3>1, <3>2 DEF Rows
    <3> QED BY <3>2, <3>3
  <2>2. CASE Mac!ReadReg
    <3>1. Mac!Read(Mac!Reads[at].reg)
      BY <2>2 DEF Mac!ReadReg
    <3> QED BY <1>1, <3>1, ReadingBegins
  <2>3. CASE Mac!Forward
    <3>1. at' # "forward"
      BY <2>3 DEF Mac!Forward, Mac!SetBit, Mac!Step
    <3>2. acc' = acc \/ \E x : Mac!Write(Mac!MODE, <<x>>)
      BY <2>3 DEF Mac!Forward, Mac!SetBit
    <3>3. acc' = acc => ~Writing' /\ Effs' = Effs /\ Rows' = Rows
      BY <1>1 DEF Writing, Effs, Rows
    <3>4. Mac!MODE \in Others
      BY DEF Others
    <3> QED BY <2>1, <3>1, <3>2, <3>3, <3>4
  <2>4. CASE Mac!WriteReg
    <3>1. at = "pmap" /\ at' = Mac!Writes[at].next /\ Mac!Write(Mac!Writes[at].reg, Mac!Writes[at].words)
      BY <2>4, WritesAre DEF Mac!WriteReg, Mac!Step, Late, Ended
    <3>2. at' = "mode" /\ Mac!Writes[at].reg = Mac!PMAP
      BY <3>1, WritesAre
    <3>3. Mac!PMAP \in Others
      BY DEF Others
    <3> QED BY <2>1, <3>1, <3>2, <3>3
  <2> QED BY <2>2, <2>3, <2>4
<1>5. SentInv' /\ (Writing' => acc'.reg # Mac!START)
  BY <1>4, OthersDiffer DEF SentInv
<1>6. PlaceInv'
  <2>1. PlaceInv
    BY DEF SwitchInv
  <2>2. at' = "forward" => ~Writing'
    BY <1>4
  <2>3. at' \in Late => vid' = NumVlans
    BY <1>2, <1>3, <2>1 DEF PlaceInv, Ended, Late
  <2>4. at' \notin Early \cup InVlan /\ at' \in Late \cup Ended
    BY <1>3 DEF Early, InVlan, Late, Ended
  <2> QED BY <1>1, <1>2, <2>1, <2>2, <2>3, <2>4 DEF PlaceInv, InVlan, Early
<1>7. ASSUME at' \notin Ended PROVE WorkInv'
  <2>1. at \in Late /\ at' \in {"mode", "forward"} /\ WorkInv
    BY <1>3, <1>7 DEF SwitchInv, Ended, Late
  <2>2. /\ Effs'[Mac!ARL_E0] = Effs[Mac!ARL_E0] /\ Effs'[Mac!MINDX] = Effs[Mac!MINDX] /\ Rows' = Rows
        /\ \A p \in Mac!Ports : Effs'[Mac!PTAG(p)] = Effs[Mac!PTAG(p)]
    BY <1>4, RegistersDiffer, OthersDiffer
  <2>3. StartInv'
    <3>1. Start({})
      BY <2>1 DEF WorkInv, StartInv, Late
    <3> QED BY <1>1, <1>5, <2>1, <3>1 DEF StartInv, Start
  <2>4. AddressInv' /\ ListInv'
    BY <2>1, <2>2 DEF WorkInv, AddressInv, ListInv, Early, Late, InVlan
  <2>5. TableInv'
    <3>1. arl = Above
      BY <2>1 DEF WorkInv, TableInv, Late
    <3>2. Above' = Above
      BY <1>1, <1>2 DEF Above, Entry
    <3> QED BY <1>1, <2>1, <3>1, <3>2 DEF TableInv, Late, Early
  <2>6. Seen' = Seen
    BY <2>1 DEF Seen, InVlan, Late
  <2>7. RowInv' /\ TagInv'
    BY <1>1, <1>2, <2>1, <2>2, <2>6, VlansStay DEF WorkInv
  <2> QED BY <2>3, <2>4, <2>5, <2>7 DEF WorkInv
<1> QED BY <1>5, <1>6, <1>7 DEF SwitchInv

-----------------------------------------------------------------------------
(* A port list without its next word, and what that word does.             *)
LEMMA TokenStep ==
  ASSUME cur \in Seq(STRING), Mac!Token
  PROVE  \/ /\ \A k \in 1..Len(cur) : cur[k] = Mac!Blank
            /\ at' = "vid0" /\ UNCHANGED <<cur, row, acc>>
         \/ /\ at' = "token"
            /\ \E start, end \in 1..Len(cur) :
                 /\ start <= end /\ \A k \in 1..(start - 1) : cur[k] = Mac!Blank
                 /\ \A k \in start..end : cur[k] # Mac!Blank
                 /\ end < Len(cur) => cur[end + 1] = Mac!Blank
                 /\ cur' \in Seq(STRING) /\ Len(cur') = Len(cur) - end
                 /\ \A k \in 1..Len(cur') : cur'[k] = cur[end + k]
                 /\ IF cur[start] \notin Mac!Ports THEN UNCHANGED <<row, acc>>
                    ELSE /\ row' = [untag |-> row.untag \cup {cur[start]}, member |-> row.member \cup {cur[start]}]
                         /\ Mac!Write(Mac!PTAG(cur[start]), <<Mac!Id(vid)>>) \/ (cur[start] = "5" /\ UNCHANGED acc)
<1> DEFINE start == Mac!Index(cur, LAMBDA c : c # Mac!Blank)
           tail == SubSeq(cur, start, Len(cur))
           m == Mac!Index(tail, LAMBDA c : c = Mac!Blank)
           len == IF m = 0 THEN Len(tail) ELSE m - 1
           port == SubSeq(tail, 1, IF len > 4 THEN 4 ELSE len)
<1>0. m = IF {i \in 1..Len(tail) : tail[i] = Mac!Blank} # {} THEN Mac!Min({i \in 1..Len(tail) : tail[i] = Mac!Blank}) ELSE 0
  BY DEF Mac!Index
<1>1. start = IF {i \in 1..Len(cur) : cur[i] # Mac!Blank} # {} THEN Mac!Min({i \in 1..Len(cur) : cur[i] # Mac!Blank}) ELSE 0
  BY DEF Mac!Index
<1>2. /\ at' = IF start = 0 THEN "vid0" ELSE "token"
      /\ IF start = 0 THEN UNCHANGED <<cur, row, acc>>
         ELSE /\ cur' = SubSeq(tail, len + 1, Len(tail))
              /\ IF port[1] \notin Mac!Ports THEN UNCHANGED <<row, acc>>
                 ELSE /\ row' = [untag |-> row.untag \cup {port[1]}, member |-> row.member \cup {port[1]}]
                      /\ \/ Mac!Write(Mac!PTAG(port[1]), <<Mac!Id(vid)>>)
                         \/ port[1] = "5" /\ UNCHANGED acc
  BY DEF Mac!Token, Mac!Step, Mac!Index
<1>3. tail = SubSeq(cur, start, Len(cur)) /\ len = (IF m = 0 THEN Len(tail) ELSE m - 1)
      /\ port = SubSeq(tail, 1, IF len > 4 THEN 4 ELSE len)
  OBVIOUS
<1> HIDE DEF start, tail, m, len, port
<1> DEFINE W == {i \in 1..Len(cur) : cur[i] # Mac!Blank}
<1>4. Len(cur) \in Nat /\ W \subseteq 1..Len(cur)
  BY DEF W
<1>5. start = IF W # {} THEN Mac!Min(W) ELSE 0
  BY <1>1
<1> HIDE DEF W
<1>6. /\ start \in 0..Len(cur) /\ (start = 0 <=> W = {}) /\ (start # 0 => start \in W)
      /\ \A k \in W : start <= k
  BY <1>4, <1>5, FirstIs
<1>7. \A k \in 1..Len(cur) : k \in W <=> cur[k] # Mac!Blank
  BY DEF W
<1>8. CASE start = 0
  <2>1. \A k \in 1..Len(cur) : cur[k] = Mac!Blank
    BY <1>4, <1>6, <1>7, <1>8
  <2> QED BY <1>2, <1>8, <2>1
<1>9. CASE start # 0
  <2>1. /\ start \in 1..Len(cur) /\ cur[start] # Mac!Blank
    BY <1>4, <1>6, <1>7, <1>9
  <2>1a. \A k \in 1..(start - 1) : cur[k] = Mac!Blank
    BY <1>4, <1>6, <1>7, <1>9
  <2>2. tail \in Seq(STRING) /\ Len(tail) = Len(cur) - start + 1 /\ \A i \in 1..Len(tail) : tail[i] = cur[start + i - 1]
    <3>1. \A i \in start..Len(cur) : cur[i] \in STRING
      BY <1>4, <2>1
    <3>2. start <= Len(cur) + 1
      BY <1>4, <2>1
    <3>3. /\ tail \in Seq(STRING) /\ Len(tail) = (IF start <= Len(cur) THEN Len(cur) - start + 1 ELSE 0)
          /\ \A i \in 1..(Len(cur) - start + 1) : tail[i] = cur[start + i - 1]
      BY <1>3, <1>4, <2>1, <3>1, SubSeqProperties
    <3>4. Len(tail) = Len(cur) - start + 1
      BY <1>4, <2>1, <3>3
    <3> QED BY <3>3, <3>4
  <2> DEFINE B == {i \in 1..Len(tail) : tail[i] = Mac!Blank}
  <2>3. Len(tail) \in 1..Len(cur)
    BY <1>4, <2>1, <2>2
  <2>3a. tail[1] = cur[start]
    <3>1. 1 \in 1..Len(tail) /\ start + 1 - 1 = start
      BY <2>1, <2>3, <1>4
    <3> QED BY <2>2, <3>1
  <2>3b. B \subseteq 1..Len(tail) /\ m = IF B # {} THEN Mac!Min(B) ELSE 0
    BY <1>0
  <2>3c. \A k \in 1..Len(tail) : k \in B <=> tail[k] = Mac!Blank
    OBVIOUS
  <2> HIDE DEF B
  <2>4. m \in 0..Len(tail) /\ (m = 0 <=> B = {}) /\ (m # 0 => m \in B) /\ \A k \in B : m <= k
    <3>1. Len(tail) \in Nat
      BY <2>3, <1>4
    <3> QED BY <2>3b, <3>1, FirstIs
  <2>5. m # 1
    BY <2>1, <2>3, <2>3a, <2>3c, <2>4
  <2>6. /\ len \in 1..Len(tail) /\ \A k \in 1..len : tail[k] # Mac!Blank
        /\ len < Len(tail) => tail[len + 1] = Mac!Blank
    <3>0. Len(tail) \in Nat /\ 1 <= Len(tail)
      BY <2>3, <1>4
    <3>01. len = IF m = 0 THEN Len(tail) ELSE m - 1
      BY <1>3, Zenon
    <3>1. CASE m = 0
      <4>1. len = Len(tail) /\ len \in 1..Len(tail) /\ ~(len < Len(tail))
        BY <3>0, <3>01, <3>1
      <4>2. \A k \in 1..len : tail[k] # Mac!Blank
        BY <2>3c, <2>4, <3>1, <4>1
      <4> QED BY <4>1, <4>2
    <3>2. CASE m # 0
      <4>1. len = m - 1 /\ len + 1 = m /\ len \in 1..Len(tail)
        BY <3>01, <2>4, <2>5, <3>0, <3>2
      <4>2. tail[m] = Mac!Blank
        BY <2>3c, <2>4, <3>2
      <4>3. ASSUME NEW k \in 1..len PROVE tail[k] # Mac!Blank
        <5>1. k \in 1..Len(tail) /\ ~(m <= k)
          BY <2>4, <3>0, <4>1
        <5> QED BY <2>3c, <2>4, <5>1
      <4> QED BY <4>1, <4>2, <4>3
    <3> QED BY <3>1, <3>2
  <2>7. port[1] = cur[start]
    <3> DEFINE e == IF len > 4 THEN 4 ELSE len
    <3>1. e \in 1..Len(tail) /\ 1 \in 1..(e - 1 + 1)
      BY <1>4, <2>3, <2>6
    <3>1a. port = SubSeq(tail, 1, e)
      BY <1>3
    <3>2. \A i \in 1..e : tail[i] \in STRING
      BY <1>4, <2>2, <2>3, <3>1
    <3> HIDE DEF e
    <3> DEFINE z == SubSeq(tail, 1, e)
    <3>3. \A i \in 1..(e - 1 + 1) : z[i] = tail[1 + i - 1]
      <4>1. 1 \in 1..(Len(tail) + 1) /\ e \in 0..Len(tail) /\ Len(tail) \in Nat
        BY <1>4, <2>3, <3>1
      <4> QED BY <2>2, <3>2, <4>1, SubSeqProperties
    <3> HIDE DEF z
    <3>4. z[1] = tail[1]
      BY <3>1, <3>3
    <3>5. port = z
      BY <3>1a DEF z
    <3> QED BY <2>3a, <3>5, <3>4, Zenon
  <2> DEFINE end == start + len - 1
             cc == SubSeq(tail, len + 1, Len(tail))
  <2>13. at' = "token" /\ cur' = cc
    BY <1>2, <1>9
  <2>8. /\ cc \in Seq(STRING) /\ Len(cc) = Len(tail) - len
        /\ \A i \in 1..Len(cc) : cc[i] = tail[len + i]
    <3>0. len \in Nat /\ len + 1 \in Nat /\ Len(tail) \in Nat
      BY <1>4, <2>3, <2>6
    <3>1. \A i \in (len + 1)..Len(tail) : tail[i] \in STRING
      BY <2>2, <2>3, <2>6
    <3>2. /\ cc \in Seq(STRING) /\ Len(cc) = IF len + 1 <= Len(tail) THEN Len(tail) - (len + 1) + 1 ELSE 0
          /\ \A i \in 1..(Len(tail) - (len + 1) + 1) : cc[i] = tail[(len + 1) + i - 1]
      BY <2>3, <2>6, <3>0, <3>1, SubSeqProperties
    <3> HIDE DEF cc
    <3>3. Len(cc) = Len(tail) - len
      BY <3>0, <2>6, <3>2
    <3>4. ASSUME NEW i \in 1..Len(cc) PROVE cc[i] = tail[len + i]
      <4>1. i \in 1..(Len(tail) - (len + 1) + 1) /\ (len + 1) + i - 1 = len + i
        BY <3>0, <3>3
      <4> QED BY <3>2, <4>1
    <3> QED BY <3>2, <3>3, <3>4
  <2> HIDE DEF cc
  <2>9. end \in 1..Len(cur) /\ start <= end /\ Len(cc) = Len(cur) - end
    <3>1. Len(cc) = Len(tail) - len /\ Len(tail) = Len(cur) - start + 1
      BY <2>2, <2>8
    <3>2. len \in Nat /\ 1 <= len /\ len <= Len(tail) /\ start \in Nat /\ 1 <= start
      BY <1>4, <2>1, <2>3, <2>6
    <3> QED BY <1>4, <3>1, <3>2
  <2>10. \A k \in start..end : cur[k] # Mac!Blank
    <3> TAKE k \in start..end
    <3>1. k - start + 1 \in 1..len /\ k - start + 1 \in 1..Len(tail) /\ start + (k - start + 1) - 1 = k
      BY <1>4, <2>1, <2>3, <2>6
    <3>2. tail[k - start + 1] = cur[k]
      BY <2>2, <3>1
    <3> QED BY <2>6, <3>1, <3>2
  <2>11. end < Len(cur) => cur[end + 1] = Mac!Blank
    <3> HAVE end < Len(cur)
    <3>1. len < Len(tail) /\ len + 1 \in 1..Len(tail) /\ start + (len + 1) - 1 = end + 1
      BY <1>4, <2>1, <2>2, <2>3, <2>6
    <3> QED BY <2>2, <2>6, <3>1
  <2>12. \A k \in 1..Len(cc) : cc[k] = cur[end + k]
    <3> TAKE k \in 1..Len(cc)
    <3>1. len + k \in 1..Len(tail) /\ start + (len + k) - 1 = end + k
      BY <1>4, <2>1, <2>2, <2>3, <2>6, <2>8
    <3> QED BY <2>2, <2>8, <3>1
  <2>14. IF cur[start] \notin Mac!Ports THEN UNCHANGED <<row, acc>>
         ELSE /\ row' = [untag |-> row.untag \cup {cur[start]}, member |-> row.member \cup {cur[start]}]
              /\ Mac!Write(Mac!PTAG(cur[start]), <<Mac!Id(vid)>>) \/ (cur[start] = "5" /\ UNCHANGED acc)
    BY <1>2, <1>9, <2>7
  <2> HIDE DEF end
  <2>15. cur' \in Seq(STRING) /\ Len(cur') = Len(cur) - end /\ \A k \in 1..Len(cur') : cur'[k] = cur[end + k]
    BY <2>8, <2>9, <2>12, <2>13
  <2>16. end \in 1..Len(cur) /\ start \in 1..Len(cur) /\ start <= end
    BY <2>1, <2>9
  <2> QED BY <2>1a, <2>10, <2>11, <2>13, <2>14, <2>15, <2>16, Zenon
<1> QED BY <1>8, <1>9

-----------------------------------------------------------------------------
LEMMA NoPortsAre == Mac!NoPorts = [untag |-> {}, member |-> {}] /\ Mac!NoPorts.member = {}
BY DEF Mac!NoPorts, Mac!NoRow

(* The head of the loop.                                                   *)
LEMMA VlanSwitch ==
  ASSUME BusInv, SwitchInv, Mac!Vlan, pc' = pc, pc = "robosw"
  PROVE  SwitchInv'
<1> DEFINE ports == IF vid \in 0..1 THEN nvram[vid] ELSE NULL
<1>1. /\ acc = Mac!NoAcc /\ UNCHANGED Mac!switch
      /\ UNCHANGED <<nvram, val8, regs, vtable, arl, data, cmd>> /\ Lists' = Lists /\ Given' = Given
      /\ ~Writing /\ ~Sent
  BY ConfigIs DEF Mac!Config
<1>2. /\ at = "vlan" /\ at' = (IF vid = NumVlans THEN "pmap" ELSE IF ports = NULL THEN "row" ELSE "token")
      /\ row' = Mac!NoPorts /\ cur' = (IF ports = NULL THEN <<>> ELSE ports) /\ vid' = vid /\ acc' = acc
  BY DEF Mac!Vlan, Mac!Step
<1>3. WorkInv /\ PlaceInv /\ arl = Above /\ Start({})
  <2>1. WorkInv /\ PlaceInv
    BY <1>2 DEF SwitchInv, Ended
  <2> QED BY <1>2, <2>1 DEF WorkInv, StartInv, TableInv
<1>4. ~Writing' /\ ~Sent' /\ Effs' = Effs /\ Rows' = Rows /\ SentInv'
  BY <1>1, <1>2 DEF Writing, Sent, Effs, Rows, SentInv
<1>5. vid \in 0..NumVlans /\ (vid # NumVlans => vid \in Mac!Vids) /\ NumVlans \in Nat \ {0}
  BY <1>3, VidsAre DEF PlaceInv
<1>6. ports # NULL /\ vid # NumVlans => vid \in Given /\ ports = nvram[vid] /\ nvram[vid] \in Seq(STRING)
  <2> SUFFICES ASSUME ports # NULL, vid # NumVlans PROVE vid \in Given /\ ports = nvram[vid] /\ nvram[vid] \in Seq(STRING)
    OBVIOUS
  <2>1. vid \in 0..1 /\ ports = nvram[vid] /\ vid \in Given
    BY <1>5 DEF Given
  <2>2. nvram[vid] \in PortLists
    BY <1>3, <2>1 DEF PlaceInv
  <2> QED BY <2>1, <2>2, PartsAssumption DEF Mac!RoboAssumption
<1>7. ports = NULL => vid \notin Given
  BY DEF Given
<1> HIDE DEF ports
<1>8. PlaceInv'
  BY <1>1, <1>2, <1>3, <1>4, <1>5, <1>6 DEF PlaceInv, Early, InVlan, Late, Ended
<1>9. StartInv' /\ AddressInv'
  BY <1>1, <1>2, <1>3, <1>4 DEF WorkInv, StartInv, Start, AddressInv, Early
<1>10. TableInv'
  <2>1. Above' = Above /\ Through' = Through
    BY <1>1, <1>2 DEF Above, Through, Entry
  <2>2. ports = NULL => Through = Above
    <3>1. ASSUME vid \notin Given, NEW d \in Given PROVE d <= vid <=> d < vid
      <4>1. d \in Nat /\ vid \in Nat /\ d # vid
        BY <1>5, <3>1, GivenIs, VidsAre
      <4> QED BY <4>1
    <3>2. vid \notin Given => {d \in Given : d < vid} = {d \in Given : d <= vid}
      BY <3>1
    <3> QED BY <1>7, <3>2 DEF Above, Through
  <2> QED BY <1>1, <1>2, <1>3, <2>1, <2>2 DEF TableInv, Late, Early
<1>11. ListInv'
  <2>1. CASE at' = "pmap"
    BY <2>1 DEF ListInv, InVlan
  <2>2. CASE at' = "row"
    <3>1. vid \in Mac!Vids \ Given
      BY <1>2, <1>5, <1>7, <2>2
    <3>2. Lists[vid] = {}
      BY <3>1, GivenIs
    <3> QED BY <1>1, <1>2, <2>2, <3>2, NoPortsAre DEF ListInv
  <2>3. CASE at' = "token"
    <3>1. vid' = vid /\ nvram' = nvram /\ cur' = nvram[vid] /\ nvram[vid] \in Seq(STRING)
      BY <1>1, <1>2, <1>6, <2>3
    <3>2. 0 \in 0..Len(nvram[vid]) /\ Len(nvram[vid]) \in Nat
      BY <3>1
    <3>3. row' = [untag |-> Taken(nvram[vid], 0), member |-> Taken(nvram[vid], 0)]
      <4>1. Taken(nvram[vid], 0) = {}
        BY DEF Taken
      <4> QED BY <1>2, <4>1, NoPortsAre
    <3>4. \E d \in 0..Len(nvram[vid]) :
            /\ cur' \in Seq(STRING) /\ Len(cur') = Len(nvram[vid]) - d
            /\ \A k \in 1..Len(cur') : cur'[k] = nvram[vid][d + k]
            /\ d # 0 /\ d < Len(nvram[vid]) => nvram[vid][d + 1] = Mac!Blank
            /\ row' = [untag |-> Taken(nvram[vid], d), member |-> Taken(nvram[vid], d)]
      <4>1. Len(cur') = Len(nvram[vid]) - 0 /\ \A k \in 1..Len(cur') : cur'[k] = nvram[vid][0 + k]
        BY <3>1, <3>2
      <4> QED BY <3>1, <3>2, <3>3, <4>1
    <3>5. \A z, d : Taken(z, d)' = Taken(z, d)
      BY DEF Taken, Mac!Begins
    <3>6. TokenInv'
      BY <3>1, <3>4, <3>5 DEF TokenInv
    <3> QED BY <2>3, <3>6 DEF ListInv
  <2> QED BY <1>2, <2>1, <2>2, <2>3
<1>12. Seen' = Seen
  BY <1>2, NoPortsAre DEF Seen, InVlan
<1>13. RowInv' /\ TagInv'
  BY <1>1, <1>2, <1>3, <1>4, <1>12, VlansStay DEF WorkInv
<1> QED BY <1>4, <1>8, <1>9, <1>10, <1>11, <1>13 DEF SwitchInv, WorkInv

(* One port of the list, or its end.                                       *)
LEMMA TokenList ==
  ASSUME TokenInv, Mac!Token, nvram' = nvram, vid' = vid, nvram[vid] \in Seq(STRING)
  PROVE  \/ /\ at' = "vid0" /\ row' = row /\ acc' = acc
            /\ row = [untag |-> Taken(nvram[vid], Len(nvram[vid])), member |-> Taken(nvram[vid], Len(nvram[vid]))]
         \/ /\ at' = "token" /\ TokenInv' /\ row'.member = row.member /\ acc' = acc
         \/ \E p \in Mac!Ports :
              /\ at' = "token" /\ TokenInv' /\ row'.member = row.member \cup {p}
              /\ Mac!Write(Mac!PTAG(p), <<Mac!Id(vid)>>) \/ (p = "5" /\ acc' = acc)
<1> DEFINE s == nvram[vid]
<1>1. PICK d \in 0..Len(s) :
        /\ cur \in Seq(STRING) /\ Len(cur) = Len(s) - d
        /\ \A k \in 1..Len(cur) : cur[k] = s[d + k]
        /\ d # 0 /\ d < Len(s) => s[d + 1] = Mac!Blank
        /\ row = [untag |-> Taken(s, d), member |-> Taken(s, d)]
  BY DEF TokenInv
<1>2. Len(s) \in Nat /\ d \in Nat /\ d <= Len(s)
  OBVIOUS
<1>3. s' = s
  OBVIOUS
<1> HIDE DEF s
<1>4. CASE (\A k \in 1..Len(cur) : cur[k] = Mac!Blank) /\ at' = "vid0" /\ UNCHANGED <<cur, row, acc>>
  <2>1. \A k \in 1..Len(s) : Mac!Begins(s, k) => k \in 1..d
    <3> SUFFICES ASSUME NEW k \in 1..Len(s), k \notin 1..d PROVE ~Mac!Begins(s, k)
      OBVIOUS
    <3>1. k - d \in 1..Len(cur) /\ d + (k - d) = k
      BY <1>1, <1>2
    <3>2. s[k] = Mac!Blank
      BY <1>1, <1>4, <3>1
    <3> QED BY <3>2 DEF Mac!Begins
  <2>2. 1..d \subseteq 1..Len(s)
    BY <1>2
  <2>3. {j \in 1..d : Mac!Begins(s, j)} = {j \in 1..Len(s) : Mac!Begins(s, j)}
    BY <2>1, <2>2
  <2>4. Taken(s, Len(s)) = Taken(s, d)
    BY <2>3 DEF Taken
  <2> QED BY <1>1, <1>4, <2>4 DEF s
<1>5. ASSUME NEW start \in 1..Len(cur), NEW end \in 1..Len(cur), at' = "token",
             start <= end, \A k \in 1..(start - 1) : cur[k] = Mac!Blank,
             \A k \in start..end : cur[k] # Mac!Blank,
             end < Len(cur) => cur[end + 1] = Mac!Blank,
             cur' \in Seq(STRING), Len(cur') = Len(cur) - end,
             \A k \in 1..Len(cur') : cur'[k] = cur[end + k],
             row' = [untag |-> row.untag \cup ({cur[start]} \cap Mac!Ports),
                     member |-> row.member \cup ({cur[start]} \cap Mac!Ports)]
      PROVE  TokenInv'
  <2>0. start \in Nat /\ end \in Nat /\ 1 <= start /\ end <= Len(cur) /\ Len(cur) \in Nat
    BY <1>1, <1>2
  <2> DEFINE e == d + end
  <2>1. e \in 0..Len(s) /\ Len(cur') = Len(s) - e /\ e = d + end
    BY <1>1, <1>2, <1>5, <2>0
  <2> HIDE DEF e
  <2>2. \A k \in 1..Len(cur') : cur'[k] = s[e + k]
    <3> TAKE k \in 1..Len(cur')
    <3>1. end + k \in 1..Len(cur) /\ d + (end + k) = e + k
      BY <1>2, <1>5, <2>0, <2>1
    <3> QED BY <1>1, <1>5, <3>1
  <2>3. e < Len(s) => s[e + 1] = Mac!Blank
    <3> HAVE e < Len(s)
    <3>1. end < Len(cur) /\ end + 1 \in 1..Len(cur) /\ d + (end + 1) = e + 1
      BY <1>1, <1>2, <2>0, <2>1
    <3> QED BY <1>1, <1>5, <3>1
  <2>4. \A k \in 1..e : Mac!Begins(s, k) <=> (k \in 1..d /\ Mac!Begins(s, k)) \/ k = d + start
    <3> TAKE k \in 1..e
    <3>0. k \in Nat /\ 1 <= k /\ k <= d + end
      BY <1>2, <2>0, <2>1
    <3>1. CASE k <= d
      BY <1>2, <2>0, <3>0, <3>1
    <3>2. CASE k > d /\ k - d < start
      <4>1. k - d \in 1..(start - 1) /\ k - d \in 1..Len(cur) /\ d + (k - d) = k
        BY <1>2, <2>0, <3>0, <3>2
      <4>2. s[k] = Mac!Blank
        BY <1>1, <1>5, <4>1
      <4> QED BY <1>2, <2>0, <3>0, <3>2, <4>2 DEF Mac!Begins
    <3>3. CASE k = d + start
      <4>1. start \in start..end
        BY <1>5, <2>0
      <4>2. s[k] # Mac!Blank
        BY <1>1, <1>5, <3>3, <4>1
      <4>3. CASE start = 1
        <5>1. d < Len(s) /\ d + 1 = k
          BY <1>1, <1>2, <2>0, <3>3, <4>3
        <5>2. d = 0
          BY <1>1, <1>2, <4>2, <5>1
        <5> QED BY <3>3, <4>2, <4>3, <5>1, <5>2 DEF Mac!Begins
      <4>4. CASE start # 1
        <5>1. start - 1 \in 1..(start - 1) /\ start - 1 \in 1..Len(cur) /\ d + (start - 1) = k - 1
          BY <1>2, <2>0, <3>3, <4>4
        <5>2. s[k - 1] = Mac!Blank
          BY <1>1, <1>5, <5>1
        <5> QED BY <3>3, <4>2, <5>2 DEF Mac!Begins
      <4> QED BY <4>3, <4>4
    <3>4. CASE k > d + start
      <4>1. /\ k - d - 1 \in start..end /\ k - d - 1 \in 1..Len(cur) /\ d + (k - d - 1) = k - 1
            /\ k # 1
        BY <1>2, <2>0, <3>0, <3>4
      <4>2. s[k - 1] # Mac!Blank
        <5>1. PICK j \in start..end : j \in 1..Len(cur) /\ d + j = k - 1
          BY <4>1
        <5>2. cur[j] = s[d + j] /\ cur[j] # Mac!Blank
          BY <1>1, <1>5, <5>1
        <5> QED BY <5>1, <5>2
      <4> QED BY <1>2, <2>0, <3>0, <3>4, <4>1, <4>2 DEF Mac!Begins
    <3> QED BY <1>2, <2>0, <3>0, <3>1, <3>2, <3>3, <3>4
  <2>5. Taken(s, e) = Taken(s, d) \cup ({cur[start]} \cap Mac!Ports)
    <3>1. d + start \in 1..e /\ 1..d \subseteq 1..e
      BY <1>2, <1>5, <2>0, <2>1
    <3>2. {j \in 1..e : Mac!Begins(s, j)} = {j \in 1..d : Mac!Begins(s, j)} \cup {d + start}
      BY <2>4, <3>1
    <3>3. cur[start] = s[d + start]
      BY <1>1
    <3> QED BY <3>2, <3>3 DEF Taken
  <2>6. row' = [untag |-> Taken(s, e), member |-> Taken(s, e)]
    BY <1>1, <1>5, <2>5
  <2>7. \A z, c : Taken(z, c)' = Taken(z, c)
    BY DEF Taken, Mac!Begins
  <2>8. \E c \in 0..Len(s) :
          /\ cur' \in Seq(STRING) /\ Len(cur') = Len(s) - c
          /\ \A k \in 1..Len(cur') : cur'[k] = s[c + k]
          /\ c # 0 /\ c < Len(s) => s[c + 1] = Mac!Blank
          /\ row' = [untag |-> Taken(s, c), member |-> Taken(s, c)]
    BY <1>5, <2>1, <2>2, <2>3, <2>6
  <2>9. s = nvram'[vid']
    BY DEF s
  <2> QED BY <2>7, <2>8, <2>9 DEF TokenInv
<1>6. CASE ~(\A k \in 1..Len(cur) : cur[k] = Mac!Blank) \/ at' = "token"
  <2>1. PICK start \in 1..Len(cur), end \in 1..Len(cur) :
          /\ at' = "token"
          /\ start <= end /\ \A k \in 1..(start - 1) : cur[k] = Mac!Blank
          /\ \A k \in start..end : cur[k] # Mac!Blank
          /\ end < Len(cur) => cur[end + 1] = Mac!Blank
          /\ cur' \in Seq(STRING) /\ Len(cur') = Len(cur) - end
          /\ \A k \in 1..Len(cur') : cur'[k] = cur[end + k]
          /\ IF cur[start] \notin Mac!Ports THEN UNCHANGED <<row, acc>>
             ELSE /\ row' = [untag |-> row.untag \cup {cur[start]}, member |-> row.member \cup {cur[start]}]
                  /\ Mac!Write(Mac!PTAG(cur[start]), <<Mac!Id(vid)>>) \/ (cur[start] = "5" /\ UNCHANGED acc)
    BY <1>1, <1>6, TokenStep
  <2>2. CASE cur[start] \notin Mac!Ports
    <3>1. row' = row /\ acc' = acc
      BY <2>1, <2>2
    <3>2. {cur[start]} \cap Mac!Ports = {}
      BY <2>2
    <3>3. row' = [untag |-> row.untag \cup ({cur[start]} \cap Mac!Ports), member |-> row.member \cup ({cur[start]} \cap Mac!Ports)]
      BY <1>1, <3>1, <3>2
    <3>4. TokenInv'
      BY <1>5, <2>1, <3>3
    <3> QED BY <2>1, <3>1, <3>4
  <2>3. CASE cur[start] \in Mac!Ports
    <3>1. row' = [untag |-> row.untag \cup {cur[start]}, member |-> row.member \cup {cur[start]}]
      BY <2>1, <2>3
    <3>2. {cur[start]} \cap Mac!Ports = {cur[start]}
      BY <2>3
    <3>3. TokenInv'
      BY <1>5, <2>1, <3>1, <3>2
    <3>4. row'.member = row.member \cup {cur[start]}
      BY <3>1
    <3>5. Mac!Write(Mac!PTAG(cur[start]), <<Mac!Id(vid)>>) \/ (cur[start] = "5" /\ acc' = acc)
      BY <2>1, <2>3
    <3> QED BY <2>1, <2>3, <3>3, <3>4, <3>5
  <2> QED BY <2>2, <2>3
<1> QED BY <1>1, <1>4, <1>6, TokenStep

LEMMA TokenSwitch ==
  ASSUME BusInv, SwitchInv, Mac!Token, pc' = pc, pc = "robosw"
  PROVE  SwitchInv'
<1>1. /\ acc = Mac!NoAcc /\ UNCHANGED Mac!switch
      /\ UNCHANGED <<nvram, val8, regs, vtable, arl, data, cmd>> /\ Lists' = Lists /\ Given' = Given
      /\ ~Writing /\ ~Sent
  BY ConfigIs DEF Mac!Config
<1>2. at = "token" /\ vid' = vid /\ at' \in {"token", "vid0"}
  BY DEF Mac!Token, Mac!Step
<1>3. WorkInv /\ PlaceInv /\ arl = Above /\ Start({}) /\ TokenInv /\ vid \in Given
  <2>1. WorkInv /\ PlaceInv
    BY <1>2 DEF SwitchInv, Ended
  <2> QED BY <1>2, <2>1 DEF WorkInv, StartInv, TableInv, ListInv, PlaceInv, InVlan
<1>4. vid \in 0..1 /\ nvram[vid] \in PortLists /\ nvram[vid] \in Seq(STRING) /\ vid \in Mac!Vids
  <2>1. vid \in 0..1 /\ nvram[vid] # NULL /\ vid \in Mac!Vids
    BY <1>3 DEF Given
  <2>2. nvram[vid] \in PortLists
    BY <1>3, <2>1 DEF PlaceInv
  <2> QED BY <2>1, <2>2, PartsAssumption DEF Mac!RoboAssumption
<1>5. \/ /\ at' = "vid0" /\ row' = row /\ acc' = acc
         /\ row = [untag |-> Taken(nvram[vid], Len(nvram[vid])), member |-> Taken(nvram[vid], Len(nvram[vid]))]
      \/ /\ at' = "token" /\ TokenInv' /\ row'.member = row.member /\ acc' = acc
      \/ \E p \in Mac!Ports :
           /\ at' = "token" /\ TokenInv' /\ row'.member = row.member \cup {p}
           /\ Mac!Write(Mac!PTAG(p), <<Mac!Id(vid)>>) \/ (p = "5" /\ acc' = acc)
  BY <1>1, <1>2, <1>3, <1>4, TokenList
<1>6. PlaceInv'
  BY <1>1, <1>2, <1>3 DEF PlaceInv, Early, InVlan, Late, Ended
<1>7. ListInv'
  <2>1. CASE at' = "token"
    <3>1. TokenInv'
      BY <1>5, <2>1
    <3> QED BY <2>1, <3>1 DEF ListInv
  <2>2. CASE at' = "vid0"
    <3>1. row' = row
          /\ row = [untag |-> Taken(nvram[vid], Len(nvram[vid])), member |-> Taken(nvram[vid], Len(nvram[vid]))]
      BY <1>5, <2>2
    <3>2. Lists[vid] = Taken(nvram[vid], Len(nvram[vid]))
      BY <1>3, GivenIs DEF Taken
    <3> QED BY <1>1, <1>2, <2>2, <3>1, <3>2 DEF ListInv
  <2> QED BY <1>2, <2>1, <2>2
<1>8. TableInv'
  <2>1. Above' = Above
    BY <1>1, <1>2 DEF Above, Entry
  <2> QED BY <1>1, <1>2, <1>3, <2>1 DEF TableInv, Early, Late
<1>9. CASE acc' = acc
  <2>1. ~Writing' /\ ~Sent' /\ Effs' = Effs /\ Rows' = Rows /\ SentInv'
    BY <1>1, <1>9 DEF Writing, Sent, Effs, Rows, SentInv
  <2>2. StartInv' /\ AddressInv'
    BY <1>1, <1>2, <1>3, <2>1 DEF WorkInv, StartInv, Start, AddressInv, Early
  <2>3. RowInv'
    BY <1>1, <1>2, <1>3, <2>1 DEF WorkInv, RowInv
  <2>4. \A p \in Mac!Ports \ {"5"} : p \in Seen' <=> p \in Seen
    <3>1. row'.member = row.member \/ row'.member = row.member \cup {"5"}
          \/ \E p \in Mac!Ports : Mac!Write(Mac!PTAG(p), <<Mac!Id(vid)>>)
      BY <1>5
    <3>2. ~ \E p \in Mac!Ports : Mac!Write(Mac!PTAG(p), <<Mac!Id(vid)>>)
      <4>1. \A p : Mac!Write(Mac!PTAG(p), <<Mac!Id(vid)>>) => acc'.step = "page"
        BY DEF Mac!Write
      <4> QED BY <1>1, <1>9, <4>1 DEF Mac!NoAcc
    <3> QED BY <1>2, <3>1, <3>2 DEF Seen, InVlan
  <2>5. TagInv'
    BY <1>1, <1>2, <1>3, <2>1, <2>4 DEF WorkInv, TagInv, LastOf
  <2> QED BY <1>6, <1>7, <1>8, <2>1, <2>2, <2>3, <2>5 DEF SwitchInv, WorkInv
<1>10. CASE acc' # acc
  <2>1. PICK q \in Mac!Ports :
          at' = "token" /\ row'.member = row.member \cup {q} /\ Mac!Write(Mac!PTAG(q), <<Mac!Id(vid)>>)
    BY <1>5, <1>10
  <2>2. Mac!PTAG(q) \in Mac!Registers \ {Mac!START} /\ Mac!PTAG(q) # Mac!VACCESS /\ Mac!PTAG(q) # Mac!START
    BY RegistersDiffer
  <2>3. /\ Writing' /\ ~Sent' /\ acc'.reg = Mac!PTAG(q)
        /\ Effs' = [r \in Mac!Registers \ {Mac!START} |-> IF r = Mac!PTAG(q) THEN <<Mac!Id(vid)>> ELSE Effs[r]]
        /\ Rows' = [v \in Mac!Vids |-> IF Mac!PTAG(q) = Mac!VACCESS /\ <<Mac!Id(vid)>>[1].vid = v THEN Effs[Mac!VWRITE] ELSE Rows[v]]
    BY <1>1, <2>1, <2>2, WritingBegins
  <2>4. SentInv' /\ Rows' = Rows
    BY <2>2, <2>3 DEF SentInv, Rows
  <2>5. /\ Effs'[Mac!ARL_E0] = Effs[Mac!ARL_E0] /\ Effs'[Mac!MINDX] = Effs[Mac!MINDX]
        /\ \A p \in Mac!Ports : Effs'[Mac!PTAG(p)] = IF p = q THEN <<Mac!Id(vid)>> ELSE Effs[Mac!PTAG(p)]
    BY <2>3, RegistersDiffer
  <2>6. StartInv' /\ AddressInv'
    BY <1>1, <1>2, <1>3, <2>1, <2>2, <2>3, <2>5 DEF WorkInv, StartInv, Start, AddressInv, Early
  <2>7. RowInv'
    BY <1>1, <1>2, <1>3, <2>4 DEF WorkInv, RowInv
  <2>8. Seen' = Seen \cup {q}
    BY <1>2, <2>1 DEF Seen, InVlan
  <2>9. TagInv'
    BY <1>1, <1>2, <1>3, <2>5, <2>8 DEF WorkInv, TagInv, LastOf
  <2> QED BY <1>6, <1>7, <1>8, <2>4, <2>6, <2>7, <2>9 DEF SwitchInv, WorkInv
<1> QED BY <1>9, <1>10

(* The four registers of a VLAN that are written one after the other.      *)
LEMMA VlanWrite ==
  ASSUME BusInv, SwitchInv, Mac!WriteReg, at \in InVlan, pc' = pc, pc = "robosw"
  PROVE  SwitchInv'
<1> DEFINE r == Mac!Writes[at].reg
           words == Mac!Writes[at].words
<1>1. /\ acc = Mac!NoAcc /\ UNCHANGED Mac!switch
      /\ UNCHANGED <<nvram, val8, regs, vtable, arl, data, cmd>> /\ Lists' = Lists /\ Given' = Given
      /\ ~Writing /\ ~Sent
  BY ConfigIs DEF Mac!Config
<1>2. /\ vid' = vid /\ row' = row /\ cur' = cur /\ at' = Mac!Writes[at].next /\ Mac!Write(r, words)
      /\ at \in DOMAIN Mac!Writes
  BY DEF Mac!WriteReg, Mac!Step, Mac!InTables
<1>3. at \in {"vid0", "vindx", "start", "row"}
  BY <1>2, WritesAre DEF InVlan
<1>4. /\ at = "vid0" => r = Mac!VID_E0 /\ words = <<Mac!Id(vid)>> /\ at' = "vindx"
      /\ at = "vindx" => r = Mac!VINDX /\ words = <<Mac!Id(vid)>> /\ at' = "start"
      /\ at = "start" => r = Mac!START /\ words = <<Mac!Bits({"start"})>> /\ at' = "poll"
      /\ at = "row" => r = Mac!VWRITE /\ words = <<row, Mac!Part("valid")>> /\ at' = "access"
  BY <1>2, WritesAre
<1>5. WorkInv /\ PlaceInv /\ Start({}) /\ vid \in 0..NumVlans /\ vid < NumVlans
      /\ row = [untag |-> Lists[vid], member |-> Lists[vid]]
  <2>1. WorkInv /\ PlaceInv
    BY <1>3 DEF SwitchInv, Ended
  <2> QED BY <1>3, <2>1 DEF WorkInv, StartInv, ListInv, PlaceInv, InVlan
<1>6. r \in Mac!Registers /\ r # Mac!VACCESS /\ (at # "start" => r # Mac!START)
  BY <1>3, <1>4, RegistersDiffer
<1> HIDE DEF r, words
<1>7. /\ Writing' /\ ~Sent' /\ acc'.reg = r /\ acc'.words = words
      /\ Effs' = [q \in Mac!Registers \ {Mac!START} |-> IF q = r THEN words ELSE Effs[q]]
      /\ Rows' = [v \in Mac!Vids |-> IF r = Mac!VACCESS /\ words[1].vid = v THEN Effs[Mac!VWRITE] ELSE Rows[v]]
  BY <1>1, <1>2, <1>6, WritingBegins
<1>8. SentInv' /\ Rows' = Rows
  BY <1>6, <1>7 DEF SentInv, Rows
<1>9. /\ Effs'[Mac!ARL_E0] = Effs[Mac!ARL_E0] /\ Effs'[Mac!MINDX] = Effs[Mac!MINDX]
      /\ \A p \in Mac!Ports : Effs'[Mac!PTAG(p)] = Effs[Mac!PTAG(p)]
      /\ at = "vid0" => Effs'[Mac!VID_E0] = words
      /\ at = "vindx" => Effs'[Mac!VID_E0] = Effs[Mac!VID_E0] /\ Effs'[Mac!VINDX] = words
      /\ at = "start" => Effs'[Mac!VID_E0] = Effs[Mac!VID_E0] /\ Effs'[Mac!VINDX] = Effs[Mac!VINDX]
      /\ at = "row" => Effs'[Mac!VWRITE] = words
  BY <1>3, <1>4, <1>7, RegistersDiffer
<1>10. PlaceInv'
  BY <1>1, <1>2, <1>3, <1>4, <1>5 DEF PlaceInv, Early, InVlan, Late, Ended
<1>11. AddressInv'
  BY <1>2, <1>3, <1>4, <1>5, <1>9 DEF WorkInv, AddressInv, Early
<1>12. Above' = Above /\ AndThis' = AndThis /\ Through' = Through
  BY <1>1, <1>2 DEF Above, AndThis, Through, Entry
<1>13. TableInv'
  BY <1>1, <1>3, <1>4, <1>5, <1>12 DEF WorkInv, TableInv, Early, Late
<1>14. StartInv'
  <2>1. CASE at = "start"
    <3>1. arl = Above
      BY <1>5, <2>1 DEF WorkInv, TableInv
    <3>2. ToStore'
      BY <1>1, <1>4, <1>5, <1>7, <1>12, <2>1, <3>1 DEF ToStore, Start
    <3> QED BY <1>4, <2>1, <3>2 DEF StartInv
  <2>2. CASE at # "start"
    BY <1>1, <1>3, <1>4, <1>5, <1>6, <1>7, <2>2 DEF StartInv, Start
  <2> QED BY <2>1, <2>2
<1>15. ListInv'
  <2>1. at' \in InVlan \ {"token"}
    BY <1>3, <1>4 DEF InVlan
  <2>2. at' = "access" => Effs'[Mac!VWRITE] = RowOf(Lists[vid])
    BY <1>3, <1>4, <1>5, <1>9 DEF RowOf
  <2> QED BY <1>1, <1>2, <1>5, <2>1, <2>2 DEF ListInv, RowOf
<1>16. Seen' = Seen
  BY <1>2, <1>3, <1>4 DEF Seen, InVlan
<1>17. RowInv' /\ TagInv'
  BY <1>1, <1>2, <1>5, <1>8, <1>9, <1>16, VlansStay DEF WorkInv
<1> QED BY <1>8, <1>10, <1>11, <1>13, <1>14, <1>15, <1>17 DEF SwitchInv, WorkInv

(* The poll for the switch to have stored the address.                     *)
LEMMA PollSwitch ==
  ASSUME BusInv, SwitchInv, Mac!ReadReg \/ Mac!Stored, at \in InVlan, pc' = pc, pc = "robosw"
  PROVE  SwitchInv'
<1>1. /\ acc = Mac!NoAcc /\ UNCHANGED Mac!switch
      /\ UNCHANGED <<nvram, val8, regs, vtable, arl, data, cmd>> /\ Lists' = Lists /\ Given' = Given
      /\ ~Writing /\ ~Sent
  BY ConfigIs DEF Mac!Config
<1>2. /\ vid' = vid /\ row' = row /\ cur' = cur
      /\ \/ at = "poll" /\ at' = "stored" /\ Mac!Read(Mac!START)
         \/ at = "stored" /\ at' = (IF "start" \in val8 THEN "poll" ELSE "row") /\ acc' = acc
  <2>1. CASE Mac!ReadReg
    <3>1. at = "poll" /\ at' = Mac!Reads[at].next /\ Mac!Read(Mac!Reads[at].reg)
      BY <2>1 DEF Mac!ReadReg, Mac!Reads, Mac!Step, InVlan
    <3>2. Mac!Reads["poll"].next = "stored" /\ Mac!Reads["poll"].reg = Mac!START
      BY DEF Mac!Reads
    <3> QED BY <2>1, <3>1, <3>2 DEF Mac!ReadReg, Mac!InTables
  <2>2. CASE Mac!Stored
    BY <2>2 DEF Mac!Stored, Mac!Step, Mac!InTables, Mac!Busy
  <2> QED BY <2>1, <2>2
<1>3. WorkInv /\ PlaceInv /\ vid \in Given
  BY <1>2 DEF SwitchInv, Ended, PlaceInv, InVlan
<1>4. (Stored \/ Storing) /\ (at = "stored" /\ "start" \notin val8 => Stored)
  BY <1>1, <1>2, <1>3 DEF WorkInv, StartInv, ToStore
<1>5. ~Writing' /\ ~Sent' /\ Effs' = Effs /\ Rows' = Rows /\ (at = "poll" => acc'.reg = Mac!START /\ acc' # Mac!NoAcc)
  <2>1. CASE Mac!Read(Mac!START) /\ at = "poll"
    BY <1>1, <2>1, ReadingBegins
  <2>2. CASE acc' = acc /\ at = "stored"
    BY <1>1, <2>2 DEF Writing, Sent, Effs, Rows
  <2> QED BY <1>2, <2>1, <2>2
<1>6. Above' = Above /\ AndThis' = AndThis /\ Through' = Through
  BY <1>1, <1>2 DEF Above, AndThis, Through, Entry
<1>7. (Stored' <=> Stored) /\ (Storing' <=> Storing)
  BY <1>1, <1>6 DEF Stored, Storing, Start
<1>8. StartInv'
  BY <1>1, <1>2, <1>4, <1>5, <1>7 DEF StartInv, Stored, Start
<1>9. AndThis = Through
  <2>1. ASSUME NEW d \in Given PROVE d <= vid <=> (d < vid \/ d = vid)
    <3>1. d \in Nat /\ vid \in Nat
      BY <1>3, GivenIs, VidsAre
    <3> QED BY <3>1
  <2>2. {d \in Given : d <= vid} = {d \in Given : d < vid} \cup {vid}
    BY <1>3, <2>1
  <2> QED BY <2>2 DEF AndThis, Above, Through
<1>10. TableInv'
  BY <1>1, <1>2, <1>4, <1>6, <1>9 DEF TableInv, Stored, Early, Late
<1>11. AddressInv' /\ ListInv'
  <2>1. at' \in {"poll", "stored", "row"}
    BY <1>2
  <2> QED BY <1>1, <1>2, <1>3, <1>5, <2>1 DEF WorkInv, AddressInv, ListInv, Early, InVlan
<1>12. Seen' = Seen
  BY <1>2 DEF Seen, InVlan
<1>13. RowInv' /\ TagInv'
  BY <1>1, <1>2, <1>3, <1>5, <1>12, VlansStay DEF WorkInv
<1>14. PlaceInv' /\ SentInv'
  BY <1>1, <1>2, <1>3, <1>5 DEF PlaceInv, SentInv, Early, InVlan, Late, Ended
<1> QED BY <1>8, <1>10, <1>11, <1>13, <1>14 DEF SwitchInv, WorkInv

(* The row of a VLAN goes to the table, and the loop goes on.              *)
LEMMA AccessSwitch ==
  ASSUME BusInv, SwitchInv, Mac!Access, pc' = pc, pc = "robosw"
  PROVE  SwitchInv'
<1> DEFINE word == [start |-> "write", vid |-> vid]
<1>1. /\ acc = Mac!NoAcc /\ UNCHANGED Mac!switch
      /\ UNCHANGED <<nvram, val8, regs, vtable, arl, data, cmd>> /\ Lists' = Lists /\ Given' = Given
      /\ ~Writing /\ ~Sent
  BY ConfigIs DEF Mac!Config
<1>2. at = "access" /\ at' = "vlan" /\ Mac!Write(Mac!VACCESS, <<word>>) /\ vid' = vid + 1
  BY DEF Mac!Access, Mac!Step
<1>3. /\ WorkInv /\ PlaceInv /\ arl = Through /\ Start({}) /\ Effs[Mac!VWRITE] = RowOf(Lists[vid])
      /\ row = [untag |-> Lists[vid], member |-> Lists[vid]]
  <2>1. WorkInv /\ PlaceInv
    BY <1>2 DEF SwitchInv, Ended
  <2> QED BY <1>2, <2>1 DEF WorkInv, StartInv, TableInv, ListInv, InVlan
<1>4. vid \in Nat /\ vid < NumVlans /\ vid \in Mac!Vids /\ vid + 1 \in 0..NumVlans
  <2>1. vid \in 0..NumVlans /\ vid < NumVlans
    BY <1>2, <1>3 DEF PlaceInv, InVlan
  <2> QED BY <2>1, VidsAre
<1>5. word.vid = vid /\ <<word>>[1] = word
  OBVIOUS
<1> HIDE DEF word
<1>6. /\ Writing' /\ ~Sent' /\ acc'.reg = Mac!VACCESS /\ acc'.words = <<word>>
      /\ Effs' = [q \in Mac!Registers \ {Mac!START} |-> IF q = Mac!VACCESS THEN <<word>> ELSE Effs[q]]
      /\ Rows' = [v \in Mac!Vids |-> IF Mac!VACCESS = Mac!VACCESS /\ <<word>>[1].vid = v THEN Effs[Mac!VWRITE] ELSE Rows[v]]
  BY <1>1, <1>2, RegistersDiffer, WritingBegins
<1>7. \A v \in Mac!Vids : Rows'[v] = IF v = vid THEN RowOf(Lists[vid]) ELSE Rows[v]
  BY <1>3, <1>5, <1>6
<1>8. SentInv'
  BY <1>4, <1>5, <1>6 DEF SentInv
<1>9. /\ Effs'[Mac!ARL_E0] = Effs[Mac!ARL_E0] /\ Effs'[Mac!MINDX] = Effs[Mac!MINDX]
      /\ \A p \in Mac!Ports : Effs'[Mac!PTAG(p)] = Effs[Mac!PTAG(p)]
  BY <1>6, RegistersDiffer
<1>10. PlaceInv'
  BY <1>1, <1>2, <1>3, <1>4 DEF PlaceInv, Early, InVlan, Late, Ended
<1>11. StartInv' /\ AddressInv' /\ ListInv'
  <2>1. StartInv'
    BY <1>1, <1>2, <1>3, <1>6, RegistersDiffer DEF StartInv, Start
  <2>2. AddressInv'
    BY <1>2, <1>3, <1>9 DEF WorkInv, AddressInv, Early
  <2>3. ListInv'
    BY <1>2 DEF ListInv, InVlan
  <2> QED BY <2>1, <2>2, <2>3
<1>12. TableInv'
  <2>1. ASSUME NEW d \in Given PROVE d <= vid <=> d < vid + 1
    <3>1. d \in Nat
      BY GivenIs, VidsAre
    <3> QED BY <1>4, <3>1
  <2>2. {d \in Given : d <= vid} = {d \in Given : d < vid + 1}
    BY <2>1
  <2>3. Above' = Through
    BY <1>1, <1>2, <2>2 DEF Above, Through, Entry
  <2> QED BY <1>1, <1>2, <1>3, <2>3 DEF TableInv, Early, Late
<1>13. RowInv'
  <2>1. \A v \in 0..((vid + 1) - 1) : v \in Mac!Vids /\ (v = vid \/ v \in 0..(vid - 1))
    BY <1>4, VidsAre
  <2>2. \A v \in 0..((vid + 1) - 1) : Rows'[v] = RowOf(Lists[v])
    BY <1>3, <1>7, <2>1 DEF WorkInv, RowInv
  <2>3. \A v \in 0..((vid + 1) - 1) : Rows'[v] = RowOf(Lists'[v])
    BY <1>1, <2>2
  <2> QED BY <1>2, <2>3 DEF RowInv, RowOf
<1>14. TagInv'
  <2>1. Seen' = {} /\ Seen = Lists[vid]
    BY <1>2, <1>3 DEF Seen, InVlan
  <2>2. ASSUME NEW p \in Mac!Ports \ {"5"}, NEW v \in 0..((vid + 1) - 1),
               p \in Lists[v], \A w \in (v + 1)..((vid + 1) - 1) : p \notin Lists[w]
        PROVE  Effs'[Mac!PTAG(p)] = <<Mac!Id(v)>>
    <3>1. CASE v = vid
      BY <1>3, <1>9, <2>1, <2>2, <3>1 DEF WorkInv, TagInv
    <3>2. CASE v # vid
      <4>1. v \in 0..(vid - 1) /\ vid \in (v + 1)..((vid + 1) - 1)
        BY <1>4, <3>2
      <4>2. p \notin Seen
        BY <2>1, <2>2, <4>1
      <4>3. \A w \in (v + 1)..(vid - 1) : w \in (v + 1)..((vid + 1) - 1)
        BY <1>4
      <4>4. LastOf(p, v)
        BY <2>2, <4>3 DEF LastOf
      <4> QED BY <1>3, <1>9, <4>1, <4>2, <4>4 DEF WorkInv, TagInv
    <3> QED BY <3>1, <3>2
  <2>3. \A p \in Mac!Ports \ {"5"} : \A v \in 0..((vid + 1) - 1) :
          (p \in Lists'[v] /\ \A w \in (v + 1)..((vid + 1) - 1) : p \notin Lists'[w])
            => Effs'[Mac!PTAG(p)] = <<Mac!Id(v)>>
    BY <1>1, <2>2
  <2> QED BY <1>2, <2>1, <2>3 DEF TagInv, LastOf
<1> QED BY <1>8, <1>10, <1>11, <1>12, <1>13, <1>14 DEF SwitchInv, WorkInv

(* One step of robosw_init.                                                *)
LEMMA ConfigSwitch ==
  ASSUME BusInv, SwitchInv, Mac!Config, pc' = pc, pc = "robosw"
  PROVE  SwitchInv'
<1>1. at \in Early \cup {"vlan"} \cup InVlan \cup Late \cup Ended
  BY DEF SwitchInv, PlaceInv
<1>2. CASE Mac!Probe
  BY <1>2, BeforeLoop DEF Mac!Probe, Mac!Step, Early
<1>3. CASE Mac!ReverseMii
  BY <1>3, BeforeLoop DEF Mac!ReverseMii, Mac!SetBit, Mac!Step, Early
<1>4. CASE Mac!Forward
  BY <1>4, AfterLoop DEF Mac!Forward, Mac!SetBit, Mac!Step, Late
<1>5. CASE Mac!ReadReg
  <2>1. at # "vlan"
    BY <1>5 DEF Mac!ReadReg, Mac!Reads
  <2> QED BY <1>1, <1>5, <2>1, BeforeLoop, PollSwitch, AfterLoop
<1>6. CASE Mac!WriteReg
  <2>1. at # "vlan"
    BY <1>6, WritesAre DEF Mac!WriteReg
  <2> QED BY <1>1, <1>6, <2>1, BeforeLoop, VlanWrite, AfterLoop
<1>7. CASE Mac!Stored
  BY <1>7, PollSwitch DEF Mac!Stored, Mac!Step, InVlan
<1> QED BY <1>2, <1>3, <1>4, <1>5, <1>6, <1>7, VlanSwitch, TokenSwitch, AccessSwitch DEF Mac!Config

LEMMA SwitchInit == ASSUME Mac!Init PROVE SwitchInv
<1>1. /\ pc = "attach" /\ at = "off" /\ vid = 0 /\ acc = Mac!NoAcc /\ arl = {}
      /\ nvram \in [0..1 -> PortLists \cup {NULL}] /\ vtable = [v \in Mac!Vids |-> <<>>]
  BY DEF Mac!Init, Mac!RoboInit
<1>2. ~Writing /\ ~Sent
  BY <1>1, Idle
<1>3. Start({})
  <2>1. PICK s : regs = [r \in Mac!Registers |-> [w \in 1..Mac!Width(r) |->
                   IF r \in {Mac!MODE, Mac!MIIPO} THEN Mac!Bits(s) ELSE IF r \in {Mac!CTRL0, Mac!CTRL1, Mac!START} THEN Mac!Bits({})
                   ELSE Mac!Part("old")]]
    BY DEF Mac!Init, Mac!RoboInit
  <2>2. Mac!START \in Mac!Registers /\ Mac!Width(Mac!START) = 1 /\ Mac!START \notin {Mac!MODE, Mac!MIIPO}
    BY WidthsAre, OthersDiffer DEF Others
  <2>3. regs[Mac!START] = [w \in 1..1 |-> Mac!Bits({})]
    BY <2>1, <2>2
  <2> QED BY <2>3 DEF Start
<1>4. PlaceInv
  BY <1>1, <1>2, VidsAre DEF PlaceInv, Early, InVlan, Late, Ended
<1>5. SentInv
  BY <1>2 DEF SentInv
<1>6. StartInv /\ AddressInv /\ TableInv /\ ListInv
  BY <1>1, <1>2, <1>3 DEF StartInv, AddressInv, TableInv, ListInv, Early, InVlan, Late
<1>7. RowInv /\ TagInv
  BY <1>1 DEF RowInv, TagInv, Seen, InVlan
<1> QED BY <1>4, <1>5, <1>6, <1>7 DEF SwitchInv, WorkInv

(* A step of the whole bring-up.                                           *)
LEMMA SwitchKept == ASSUME BusInv, SwitchInv, [Mac!Next]_(Mac!vars) PROVE SwitchInv'
<1>1. ASSUME UNCHANGED <<nvram, at, vid, cur, row, val8, acc, page, data, cmd, regs, vtable, arl>>,
             pc' \in {"attach", "probe", "autoneg"} => at = "off"
      PROVE  SwitchInv'
  <2>1. (Writing' <=> Writing) /\ (Sent' <=> Sent) /\ Effs' = Effs /\ Rows' = Rows /\ Given' = Given
    BY <1>1, ListsStay DEF Writing, Sent, Effs, Rows
  <2>2. PlaceInv' /\ SentInv'
    BY <1>1, <2>1 DEF SwitchInv, PlaceInv, SentInv
  <2>3. ASSUME WorkInv PROVE WorkInv'
    <3>1. AddressInv' /\ ListInv' /\ RowInv' /\ TagInv'
      BY <1>1, <2>1, <2>3, TablesStay DEF WorkInv
    <3>2. TableInv' /\ Above' = Above /\ AndThis' = AndThis
      BY <1>1, <2>3, ArlStays DEF WorkInv
    <3>3. StartInv'
      BY <1>1, <2>1, <2>3, <3>2 DEF WorkInv, StartInv, ToStore, Stored, Storing, Start
    <3> QED BY <3>1, <3>2, <3>3 DEF WorkInv
  <2> QED BY <1>1, <2>2, <2>3 DEF SwitchInv
<1>2. pc \in {"attach", "probe", "autoneg"} => at = "off"
  BY DEF SwitchInv, PlaceInv
<1>3. CASE UNCHANGED Mac!vars
  BY <1>1, <1>2, <1>3 DEF Mac!vars, Mac!robovars, Mac!config, Mac!switch, Mac!mii
<1>4. CASE (Mac!Cpu /\ ~Mac!IsSwitch) \/ Mac!CamWritten
  <2>1. UNCHANGED Mac!robovars /\ (pc' \in {"attach", "probe", "autoneg"} => pc \in {"attach", "probe", "autoneg"})
    BY <1>4 DEF Mac!Cpu, Mac!Attach, Mac!MiiProbe, Mac!IsSwitch, Mac!Go,
       Mac!RoboswDone, Mac!IsPhy, Mac!Converge, Mac!Remote, Mac!SetHwAddr, Mac!Start, Mac!CamWritten
  <2> QED BY <1>1, <1>2, <2>1 DEF Mac!robovars, Mac!config, Mac!switch, Mac!mii
<1>5. CASE Mac!IsSwitch
  <2>1. /\ pc = "autoneg" /\ at = "off" /\ at' \in {"off", "probe"} /\ pc' \in {"address", "robosw"}
        /\ UNCHANGED <<nvram, vid, cur, row, val8, acc, page, data, cmd, regs, vtable, arl>>
    BY <1>2, <1>5 DEF Mac!IsSwitch, Mac!Go, Mac!switch, Mac!mii
  <2>2. PlaceInv /\ WorkInv
    BY <2>1 DEF SwitchInv, Ended
  <2>3. acc = Mac!NoAcc /\ vid = 0 /\ arl = {} /\ Start({}) /\ ~Writing
    BY <2>1, <2>2, Idle DEF PlaceInv, WorkInv, TableInv, StartInv, Early
  <2>4. ~Writing' /\ ~Sent' /\ Given' = Given
    BY <2>1, <2>3, ListsStay DEF Writing, Sent
  <2>5. PlaceInv' /\ SentInv'
    BY <2>1, <2>2, <2>3, <2>4 DEF PlaceInv, SentInv, Early, InVlan, Late, Ended
  <2>6. at' \in Early /\ vid' = 0 /\ arl' = {} /\ Start({})' /\ at' \notin {"mindx", "ctrl4", "ctrl5"}
    BY <2>1, <2>3 DEF Early, Start
  <2> QED BY <2>4, <2>5, <2>6, EarlyInv
<1>6. CASE Mac!RoboswCpu
  BY <1>6, BusSwitch, ConfigSwitch DEF Mac!RoboswCpu, Mac!Robosw
<1>7. CASE Mac!RoboswCommit
  BY <1>7, CommitSwitch DEF Mac!RoboswCommit, Mac!Robosw
<1>8. CASE Mac!RoboswStore
  BY <1>8, StoreSwitch DEF Mac!RoboswStore, Mac!Robosw
<1> QED BY <1>3, <1>4, <1>5, <1>6, <1>7, <1>8 DEF Mac!Next

(* When the switch is about to forward, no write is under way.             *)
LEMMA DescribedIs == ASSUME SwitchInv PROVE Mac!SwitchDescribed
<1> SUFFICES ASSUME at = "forward" PROVE Mac!SwitchDescribed
  BY DEF Mac!SwitchDescribed
<1>1. PlaceInv /\ WorkInv /\ ~Writing /\ vid = NumVlans
  BY DEF SwitchInv, Ended, PlaceInv, Late
<1>2. /\ Effs = [r \in Mac!Registers \ {Mac!START} |-> regs[r]] /\ Rows = [v \in Mac!Vids |-> vtable[v]]
  BY <1>1 DEF Effs, Rows
<1>3. NumVlans \in Nat \ {0} /\ Mac!Vids = 0..(NumVlans - 1)
  BY VidsAre
<1>4. \A v \in Mac!Vids : vtable[v] = RowOf(Mac!Described(v))
  <2>1. \A v \in Mac!Vids : Rows[v] = RowOf(Lists[v])
    BY <1>1, <1>3 DEF WorkInv, RowInv
  <2> QED BY <1>2, <2>1 DEF Lists
<1>5. Mac!Configured = Given
  BY <1>3 DEF Mac!Configured, Given
<1>6. ASSUME NEW p \in Mac!Ports \ {"5"}, NEW v \in Given,
             p \in Mac!Described(v), v = 0 /\ 1 \in Given => p \notin Mac!Described(1)
      PROVE  regs[Mac!PTAG(p)] = <<Mac!Id(v)>>
  <2>1. v \in 0..(vid - 1) /\ v \in 0..1 /\ v \in Mac!Vids
    BY <1>1, <1>3 DEF Given
  <2>2. \A w \in (v + 1)..(vid - 1) : p \notin Lists[w]
    <3> TAKE w \in (v + 1)..(vid - 1)
    <3>1. w \in Mac!Vids /\ w # 0 /\ (w \in 0..1 => w = 1 /\ v = 0)
      BY <1>1, <1>3, <2>1
    <3>2. CASE w \in Given
      <4>1. w = 1 /\ v = 0
        BY <3>1, <3>2, GivenIs
      <4> QED BY <1>6, <3>1, <3>2, <4>1 DEF Lists
    <3>3. CASE w \notin Given
      BY <3>1, <3>3, GivenIs
    <3> QED BY <3>2, <3>3
  <2>3. LastOf(p, v)
    BY <1>6, <2>1, <2>2 DEF LastOf, Lists
  <2>4. p \notin Seen
    BY DEF Seen, InVlan
  <2>5. Effs[Mac!PTAG(p)] = <<Mac!Id(v)>>
    BY <1>1, <2>1, <2>3, <2>4 DEF WorkInv, TagInv
  <2> QED BY <1>2, <2>5, RegistersDiffer
<1>7. arl = {Entry(v) : v \in Given}
  <2>1. arl = Above
    BY <1>1 DEF WorkInv, TableInv, Late
  <2>2. {d \in Given : d < vid} = Given
    <3>1. \A d \in Given : d < vid
      BY <1>1, <1>3 DEF Given
    <3> QED BY <3>1
  <2> QED BY <2>1, <2>2 DEF Above
<1> QED BY <1>4, <1>5, <1>6, <1>7 DEF Mac!SwitchDescribed, RowOf, Entry

-----------------------------------------------------------------------------
(* Sequences of sequences: a recursive function exists on every initial     *)
(* part of the naturals, and so FlattenSeq is what its equation says.       *)
LEMMA Joined ==
  ASSUME NEW S, NEW s \in Seq(Seq(S)), NEW N \in Nat
  PROVE  \E f : f = [i \in 1..N |-> IF i = 1 THEN s[i] ELSE f[i - 1] \o s[i]]
<1> DEFINE Eq(f, m) == f = [i \in 1..m |-> IF i = 1 THEN s[i] ELSE f[i - 1] \o s[i]]
<1> DEFINE Bad == {m \in Nat : ~\E f : Eq(f, m)}
<1>0. Bad = {} 
  <2>0. SUFFICES ASSUME Bad # {} PROVE FALSE
    OBVIOUS
  <2>1. PICK m \in Bad : \A k \in Bad : m <= k
    BY <2>0, NatMin
  <2>2. CASE m = 0
    <3>1. Eq([i \in 1..0 |-> 0], 0)
      OBVIOUS
    <3> QED BY <2>2, <3>1
  <2>3. CASE m # 0
    <3>0. m \in Nat /\ m - 1 \in Nat
      BY <2>1, <2>3
    <3> HIDE DEF Eq
    <3>1. m - 1 \notin Bad
      <4>1. m - 1 \in Bad => m <= m - 1
        BY <2>1 DEF Eq
      <4> QED BY <4>1, <3>0
    <3> USE DEF Eq
    <3>2. PICK f : Eq(f, m - 1)
      BY <3>0, <3>1
    <3> DEFINE g == [i \in 1..m |-> IF i < m THEN f[i] ELSE IF i = 1 THEN s[i] ELSE f[i - 1] \o s[i]]
    <3>3. ASSUME NEW i \in 1..m PROVE g[i] = IF i = 1 THEN s[i] ELSE g[i - 1] \o s[i]
      <4>1. CASE i < m
        <5>1. i \in 1..(m - 1) /\ g[i] = f[i] /\ (i # 1 => i - 1 \in 1..m /\ i - 1 < m)
          BY <4>1, <3>0
        <5>2. f[i] = IF i = 1 THEN s[i] ELSE f[i - 1] \o s[i]
          BY <5>1, <3>2
        <5> QED BY <5>1, <5>2
      <4>2. CASE ~(i < m)
        <5>1. i = m /\ (i # 1 => i - 1 \in 1..m /\ i - 1 < m)
          BY <4>2, <3>0
        <5> QED BY <5>1
      <4> QED BY <4>1, <4>2
    <3>4. Eq(g, m)
      BY <3>3
    <3> HIDE DEF g, Eq
    <3> QED BY <3>4
  <2> QED BY <2>2, <2>3
<1> HIDE DEF Eq
<1>1. \E f : Eq(f, N)
  BY <1>0
<1> QED BY <1>1 DEF Eq

LEMMA FlattenIs ==
  ASSUME NEW S, NEW s \in Seq(Seq(S)), Len(s) > 0
  PROVE  \E f : /\ f = [i \in 1..Len(s) |-> IF i = 1 THEN s[i] ELSE f[i - 1] \o s[i]]
                /\ Addr!FlattenSeq(s) = f[Len(s)]
<1>1. \E f : f = [i \in 1..Len(s) |-> IF i = 1 THEN s[i] ELSE f[i - 1] \o s[i]]
  <2>1. Len(s) \in Nat
    BY LenProperties
  <2> QED BY <2>1, Joined
<1>2. Len(s) # 0
  BY LenProperties
<1> DEFINE fl == CHOOSE f : f = [i \in 1..Len(s) |-> IF i = 1 THEN s[i] ELSE f[i - 1] \o s[i]]
<1>3. Addr!FlattenSeq(s) = fl[Len(s)]
  BY <1>2 DEF Addr!FlattenSeq
<1>4. fl = [i \in 1..Len(s) |-> IF i = 1 THEN s[i] ELSE fl[i - 1] \o s[i]]
  BY <1>1
<1> HIDE DEF fl
<1> QED BY <1>3, <1>4

LEMMA ConcatAt ==
  ASSUME NEW S, NEW a \in Seq(S), NEW b \in Seq(S)
  PROVE  /\ \A i \in 1..Len(a) : (a \o b)[i] = a[i]
         /\ \A i \in 1..Len(b) : (a \o b)[Len(a) + i] = b[i]
<1>1. Len(a) \in Nat /\ Len(b) \in Nat
  BY LenProperties
<1> QED BY <1>1, ConcatProperties

(* Where the pieces lie in the whole: piece k behind o[k - 1] elements.    *)
Places(s, o) ==
  /\ o \in [0..Len(s) -> Nat] /\ o[0] = 0 /\ Len(Addr!FlattenSeq(s)) = o[Len(s)]
  /\ \A k \in 1..Len(s) : o[k] = o[k - 1] + Len(s[k]) /\ o[k] <= o[Len(s)]
  /\ \A k \in 1..Len(s) : \A i \in 1..Len(s[k]) : Addr!FlattenSeq(s)[o[k - 1] + i] = s[k][i]
LEMMA Within ==
  ASSUME NEW a \in Nat, NEW l \in Nat, NEW m \in Nat, a + l <= m, NEW i \in 1..l
  PROVE  a + i \in 1..m
OBVIOUS

LEMMA Pieces ==
  ASSUME NEW S, NEW s \in Seq(Seq(S)), Len(s) > 0
  PROVE  Addr!FlattenSeq(s) \in Seq(S) /\ \E o : Places(s, o)
<1> DEFINE N == Len(s)
<1>1. PICK f : /\ f = [i \in 1..N |-> IF i = 1 THEN s[i] ELSE f[i - 1] \o s[i]]
               /\ Addr!FlattenSeq(s) = f[N]
  BY FlattenIs
<1>2. N \in Nat /\ N > 0 /\ \A k \in 1..N : s[k] \in Seq(S) /\ Len(s[k]) \in Nat
  BY LenProperties
<1>3. f[1] = s[1] /\ \A k \in 1..N - 1 : f[k + 1] = f[k] \o s[k + 1]
  <2>1. ASSUME NEW k \in 1..N - 1 PROVE f[k + 1] = f[k] \o s[k + 1]
    <3>1. k + 1 \in 1..N /\ k + 1 # 1 /\ (k + 1) - 1 = k
      BY <1>2
    <3> QED BY <3>1, <1>1
  <2>2. 1 \in 1..N
    BY <1>2
  <2> QED BY <2>1, <2>2, <1>1
<1> DEFINE o == [k \in 0..N |-> IF k = 0 THEN 0 ELSE Len(f[k])]
<1> DEFINE Good(k) == \A j \in 1..k : o[j] <= o[k] /\ \A i \in 1..Len(s[j]) : f[k][o[j - 1] + i] = s[j][i]
<1> DEFINE T1 == {k \in 0..N : k = 0 \/ f[k] \in Seq(S)}
<1> HIDE DEF N
<1>4. \A k \in 0..N : k \in T1
  <2>1. 0 \in T1
    BY <1>2
  <2>2. ASSUME NEW k \in 0..N - 1, k \in T1 PROVE k + 1 \in T1
    <3>1. k + 1 \in 1..N /\ s[k + 1] \in Seq(S)
      BY <1>2
    <3>2. CASE k = 0
      BY <3>1, <3>2, <1>3
    <3>3. CASE k # 0
      <4>1. k \in 1..N - 1 /\ f[k] \in Seq(S)
        BY <2>2, <3>3
      <4>2. f[k + 1] \in Seq(S)
        BY <4>1, <3>1, <1>3, ConcatProperties
      <4> QED BY <4>2, <3>1
    <3> QED BY <3>2, <3>3
  <2> HIDE DEF T1
  <2> QED BY <2>1, <2>2, <1>2, Upward
<1>5. \A k \in 1..N : f[k] \in Seq(S) /\ Len(f[k]) \in Nat
  BY <1>4, LenProperties
<1>6. o \in [0..N -> Nat] /\ o[0] = 0 /\ o[N] = Len(f[N]) /\ \A k \in 1..N : o[k] = Len(f[k])
  BY <1>2, <1>5
<1>7. ASSUME NEW k \in 1..N PROVE o[k] = o[k - 1] + Len(s[k])
  <2>1. CASE k = 1
    BY <2>1, <1>2, <1>3, <1>6
  <2>2. CASE k # 1
    <3>1. k - 1 \in 1..N - 1 /\ (k - 1) + 1 = k /\ k - 1 \in 1..N
      BY <1>2, <2>2
    <3>2. f[k] = f[k - 1] \o s[k]
      BY <3>1, <1>3
    <3>3. Len(f[k]) = Len(f[k - 1]) + Len(s[k])
      BY <3>1, <3>2, <1>2, <1>5, ConcatProperties
    <3> QED BY <3>1, <3>3, <1>6
  <2> QED BY <2>1, <2>2
<1> HIDE DEF o
<1> DEFINE T2 == {k \in 0..N : Good(k)}
<1>8. \A k \in 0..N : k \in T2
  <2>1. 0 \in T2
    BY <1>2
  <2>2. ASSUME NEW k \in 0..N - 1, k \in T2 PROVE k + 1 \in T2
    <3>1. k + 1 \in 1..N /\ s[k + 1] \in Seq(S) /\ (k + 1) - 1 = k
      BY <1>2
    <3>2. ASSUME NEW j \in 1..k + 1, NEW i \in 1..Len(s[j]) PROVE f[k + 1][o[j - 1] + i] = s[j][i]
      <4>0. j \in 1..N /\ Len(s[j]) \in Nat /\ j - 1 \in 0..N /\ o[j - 1] \in Nat
        BY <1>2, <1>6
      <4>1. CASE k = 0
        <5>1. j = 1 /\ j - 1 = 0 /\ o[j - 1] + i = i
          BY <4>1, <4>0, <1>6
        <5> QED BY <5>1, <4>1, <1>3
      <4>2. CASE k # 0
        <5>1. k \in 1..N - 1 /\ k \in 1..N /\ f[k] \in Seq(S) /\ f[k + 1] = f[k] \o s[k + 1] /\ o[k] = Len(f[k])
              /\ Len(f[k]) \in Nat
          <6>1. k \in 1..N - 1 /\ k \in 1..N
            BY <4>2, <1>2
          <6> QED BY <6>1, <1>3, <1>5, <1>6
        <5>5. /\ \A x \in 1..Len(f[k]) : (f[k] \o s[k + 1])[x] = f[k][x]
              /\ \A x \in 1..Len(s[k + 1]) : (f[k] \o s[k + 1])[Len(f[k]) + x] = s[k + 1][x]
          <6>1. f[k] \in Seq(S)
            BY <5>1
          <6>2. s[k + 1] \in Seq(S)
            BY <3>1
          <6> DEFINE a == f[k]
          <6> DEFINE b == s[k + 1]
          <6> HIDE DEF a, b
          <6>3. a \in Seq(S) /\ b \in Seq(S)
            BY <6>1, <6>2 DEF a, b
          <6>4. /\ \A x \in 1..Len(a) : (a \o b)[x] = a[x]
                /\ \A x \in 1..Len(b) : (a \o b)[Len(a) + x] = b[x]
            BY ONLY <6>3, ConcatAt
          <6> QED BY <6>4, Zenon DEF a, b
        <5>2. CASE j = k + 1
          <6>1. o[j - 1] + i = Len(f[k]) + i /\ i \in 1..Len(s[k + 1])
            BY <5>1, <5>2, <3>1
          <6>2. (f[k] \o s[k + 1])[Len(f[k]) + i] = s[k + 1][i]
            BY <6>1, <5>5, Zenon
          <6> QED BY <6>1, <6>2, <5>1, <5>2
        <5>3. CASE j # k + 1
          <6>1. j \in 1..k
            BY <5>3
          <6>2. f[k][o[j - 1] + i] = s[j][i]
            BY <6>1, <2>2
          <6>3. o[j - 1] + i \in 1..Len(f[k])
            <7>1. o[j] = o[j - 1] + Len(s[j])
              BY <1>7, <4>0
            <7>2. o[j] <= o[k]
              BY <6>1, <2>2
            <7>3. o[k] = Len(f[k]) /\ Len(f[k]) \in Nat
              BY <5>1
            <7>4. i \in 1..Len(s[j]) /\ Len(s[j]) \in Nat /\ o[j - 1] \in Nat
              BY <4>0, <3>2
            <7>5. o[j - 1] + Len(s[j]) <= Len(f[k])
              BY ONLY <7>1, <7>2, <7>3
            <7> QED BY ONLY <7>3, <7>4, <7>5, Within
          <6>4. (f[k] \o s[k + 1])[o[j - 1] + i] = f[k][o[j - 1] + i]
            BY <6>3, <5>5, Zenon
          <6> QED BY <6>2, <6>4, <5>1
        <5> QED BY <5>2, <5>3
      <4> QED BY <4>1, <4>2
    <3>3. ASSUME NEW j \in 1..k + 1 PROVE o[j] <= o[k + 1]
      <4>1. o[k + 1] = o[k] + Len(s[k + 1]) /\ o[k] \in Nat /\ o[k + 1] \in Nat /\ Len(s[k + 1]) \in Nat
        BY <3>1, <1>2, <1>6, <1>7
      <4>2. CASE j = k + 1
        BY <4>1, <4>2
      <4>3. CASE j # k + 1
        <5>1. j \in 1..k /\ o[j] <= o[k] /\ o[j] \in Nat
          <6>1. j \in 1..k /\ j \in 0..N
            BY <4>3, <1>2
          <6> QED BY <6>1, <2>2, <1>6
        <5> QED BY <5>1, <4>1
      <4> QED BY <4>2, <4>3
    <3>4. Good(k + 1)
      BY <3>2, <3>3
    <3> HIDE DEF Good
    <3> QED BY <3>1, <3>4
  <2> HIDE DEF T2
  <2> QED BY <2>1, <2>2, <1>2, Upward
<1>9. Good(N)
  <2>1. N \in T2
    BY <1>2, <1>8
  <2> HIDE DEF Good
  <2> QED BY <2>1
<1>10. \A k \in 1..N : o[k] <= o[N] /\ \A i \in 1..Len(s[k]) : f[N][o[k - 1] + i] = s[k][i]
  BY <1>9
<1> HIDE DEF T1, T2, Good
<1>11. N \in 1..N /\ Addr!FlattenSeq(s) = f[N]
  BY <1>1, <1>2
<1>12. Places(s, o)
  BY <1>5, <1>6, <1>7, <1>10, <1>11 DEF N, Places
<1>13. Addr!FlattenSeq(s) \in Seq(S)
  BY <1>5, <1>11
<1> QED BY <1>12, <1>13

-----------------------------------------------------------------------------
(* The rest of a program, and where in a byte it is.                       *)
Rest(P, k) == SubSeq(P, k, Len(P))
Ops == [op : {"scl", "sda", "delay", "in", "out", "sclin", "sclout", "wait", "bit", "ack", "end"}, v : 0..1]

LEMMA RestIs ==
  ASSUME NEW S, NEW P \in Seq(S), NEW k \in 1..Len(P) + 1
  PROVE  /\ Rest(P, 1) = P
         /\ Rest(P, k) = <<>> <=> k = Len(P) + 1
         /\ k <= Len(P) => /\ Rest(P, k) # <<>> /\ Head(Rest(P, k)) = P[k]
                           /\ Tail(Rest(P, k)) = Rest(P, k + 1)
<1>1. Len(P) \in Nat
  BY LenProperties
<1>2. \A j \in 1..Len(P) + 1 : /\ Rest(P, j) \in Seq(S) /\ Len(Rest(P, j)) = Len(P) + 1 - j
                              /\ \A i \in 1..Len(P) + 1 - j : Rest(P, j)[i] = P[j + i - 1]
  <2>1. ASSUME NEW j \in 1..Len(P) + 1
        PROVE  /\ Rest(P, j) \in Seq(S) /\ Len(Rest(P, j)) = Len(P) + 1 - j
               /\ \A i \in 1..Len(P) + 1 - j : Rest(P, j)[i] = P[j + i - 1]
    BY <1>1, SubSeqProperties DEF Rest
  <2> QED BY <2>1
<1>3. Rest(P, 1) = P
  <2>1. 1 \in 1..Len(P) + 1 /\ Len(P) + 1 - 1 = Len(P) /\ \A i \in 1..Len(P) : 1 + i - 1 = i
    BY <1>1
  <2>2. Rest(P, 1) \in Seq(S) /\ Len(Rest(P, 1)) = Len(P) /\ \A i \in 1..Len(P) : Rest(P, 1)[i] = P[i]
    BY <2>1, <1>2
  <2> QED BY <2>2, SeqEqual
<1>4. Rest(P, k) = <<>> <=> k = Len(P) + 1
  <2>1. Rest(P, k) \in Seq(S) /\ Len(Rest(P, k)) = Len(P) + 1 - k
    BY <1>2
  <2>2. Rest(P, k) = <<>> <=> Len(Rest(P, k)) = 0
    BY <2>1, EmptySeq
  <2> QED BY <2>1, <2>2, <1>1
<1>5. ASSUME k <= Len(P)
      PROVE  /\ Rest(P, k) # <<>> /\ Head(Rest(P, k)) = P[k]
             /\ Tail(Rest(P, k)) = Rest(P, k + 1)
  <2>1. k + 1 \in 1..Len(P) + 1 /\ 1 \in 1..Len(P) + 1 - k /\ k + 1 - 1 = k
    BY <1>1, <1>5
  <2>2. Rest(P, k) \in Seq(S) /\ Rest(P, k) # <<>> /\ Len(Rest(P, k)) = Len(P) + 1 - k
    BY <1>2, <1>4, <1>5, <1>1
  <2>3. Head(Rest(P, k)) = P[k]
    <3>1. Rest(P, k)[1] = P[k]
      BY <1>2, <2>1
    <3> QED BY <3>1, <2>2, HeadTailProperties
  <2> DEFINE t == Tail(Rest(P, k))
  <2>4. t \in Seq(S) /\ Len(t) = Len(P) - k /\ \A i \in 1..Len(P) - k : t[i] = P[k + i]
    <3>1. t \in Seq(S) /\ Len(t) = Len(P) - k /\ \A i \in 1..Len(P) - k : t[i] = Rest(P, k)[i + 1]
      BY <2>2, <1>1, HeadTailProperties
    <3>2. \A i \in 1..Len(P) - k : Rest(P, k)[i + 1] = P[k + i]
      <4>1. ASSUME NEW i \in 1..Len(P) - k PROVE Rest(P, k)[i + 1] = P[k + i]
        <5>1. i + 1 \in 1..Len(P) + 1 - k /\ k + (i + 1) - 1 = k + i
          BY <1>1
        <5> QED BY <5>1, <1>2
      <4> QED BY <4>1
    <3> QED BY <3>1, <3>2
  <2>5. Rest(P, k + 1) \in Seq(S) /\ Len(Rest(P, k + 1)) = Len(P) - k
        /\ \A i \in 1..Len(P) - k : Rest(P, k + 1)[i] = P[k + i]
    <3> DEFINE m == k + 1
    <3>1. Len(P) + 1 - m = Len(P) - k /\ \A i \in 1..Len(P) - k : m + i - 1 = k + i
      BY <1>1
    <3>2. m \in 1..Len(P) + 1
      BY <2>1
    <3> HIDE DEF m
    <3>3. /\ Rest(P, m) \in Seq(S) /\ Len(Rest(P, m)) = Len(P) - k
          /\ \A i \in 1..Len(P) - k : Rest(P, m)[i] = P[m + i - 1]
      BY <3>1, <3>2, <1>2
    <3> QED BY <3>1, <3>3 DEF m
  <2> HIDE DEF t
  <2>6. t = Rest(P, k + 1)
    BY <2>4, <2>5, SeqEqual
  <2> QED BY <2>2, <2>3, <2>6 DEF t
<1> QED BY <1>3, <1>4, <1>5

(* The programs: the bits are five accesses each.                          *)
LEMMA PinsConstants == BITS \in Nat /\ BITS > 0 /\ 1 \in 1..BITS /\ BITS \in 1..BITS
BY PartsAssumption DEF Pins!I2cAssumption

LEMMA OpsAre ==
  /\ \A v \in 0..1 : Pins!Scl(v) \in Ops /\ Pins!Sda(v) \in Ops
  /\ \A o \in {"delay", "in", "out", "sclin", "sclout", "wait", "bit", "ack", "end"} : Pins!Op(o) \in Ops
  /\ Pins!Delay \in Ops
BY DEF Pins!Scl, Pins!Sda, Pins!Op, Pins!Delay, Ops

Glued(S, c, a, b, l, m) ==
  /\ c \in Seq(S) /\ Len(c) = l + m
  /\ \A i \in 1..l : c[i] = a[i]
  /\ \A i \in 1..m : c[l + i] = b[i]
LEMMA Glue ==
  ASSUME NEW S, NEW a, NEW b, NEW l, NEW m, a \in Seq(S), b \in Seq(S), Len(a) = l, Len(b) = m
  PROVE  Glued(S, a \o b, a, b, l, m)
<1>1. a \o b \in Seq(S) /\ Len(a \o b) = l + m
  BY ConcatProperties
<1>2. /\ \A i \in 1..l : (a \o b)[i] = a[i]
      /\ \A i \in 1..m : (a \o b)[l + i] = b[i]
  BY ConcatAt
<1> QED BY <1>1, <1>2 DEF Glued

LEMMA Singles ==
  ASSUME NEW x, NEW y, NEW z
  PROVE  <<x>> \o <<>> = <<x>> /\ <<x>> \o <<y>> = <<x, y>> /\ <<x, y>> \o <<z>> = <<x, y, z>>
<1> DEFINE S == {x, y, z}
<1>1. /\ <<x>> \in Seq(S) /\ <<y>> \in Seq(S) /\ <<z>> \in Seq(S) /\ <<x, y>> \in Seq(S) /\ <<x, y, z>> \in Seq(S)
      /\ Len(<<x>>) = 1 /\ Len(<<y>>) = 1 /\ Len(<<z>>) = 1 /\ Len(<<x, y>>) = 2 /\ Len(<<x, y, z>>) = 3
  OBVIOUS
<1> HIDE DEF S
<1>2. <<x>> \o <<>> = <<x>>
  BY <1>1, ConcatEmptySeq
<1>3. <<x>> \o <<y>> = <<x, y>>
  <2>1. Glued(S, <<x>> \o <<y>>, <<x>>, <<y>>, 1, 1)
    BY <1>1, Glue
  <2> DEFINE c == <<x>> \o <<y>>
  <2>2. c \in Seq(S) /\ Len(c) = 2 /\ c[1] = x /\ c[2] = y
    BY <2>1 DEF Glued
  <2> HIDE DEF c
  <2>3. \A i \in 1..2 : c[i] = <<x, y>>[i]
    BY <2>2
  <2>4. c = <<x, y>>
    BY <1>1, <2>2, <2>3, SeqEqual
  <2> QED BY <2>4 DEF c
<1>4. <<x, y>> \o <<z>> = <<x, y, z>>
  <2>1. Glued(S, <<x, y>> \o <<z>>, <<x, y>>, <<z>>, 2, 1)
    BY <1>1, Glue
  <2> DEFINE c == <<x, y>> \o <<z>>
  <2>2. c \in Seq(S) /\ Len(c) = 3 /\ c[1] = x /\ c[2] = y /\ c[3] = z
    BY <2>1 DEF Glued
  <2> HIDE DEF c
  <2>3. \A i \in 1..3 : c[i] = <<x, y, z>>[i]
    BY <2>2
  <2>4. c = <<x, y, z>>
    BY <1>1, <2>2, <2>3, SeqEqual
  <2> QED BY <2>4 DEF c
<1> QED BY <1>2, <1>3, <1>4

Fives(S, N, s) == s = [i \in 1..N |-> s[i]] /\ \A i \in 1..N : s[i] \in Seq(S) /\ Len(s[i]) = 5
InFives(S, N, s, F) ==
  /\ F \in Seq(S) /\ Len(F) = 5 * N
  /\ \A i \in 1..N : \A j \in 1..5 : F[5 * (i - 1) + j] = s[i][j]
LEMMA FiveEach ==
  ASSUME NEW S, NEW N \in Nat, NEW s, Fives(S, N, s)
  PROVE  InFives(S, N, s, Pins!FlattenSeq(s))
<1>00. s = [i \in 1..N |-> s[i]] /\ \A i \in 1..N : s[i] \in Seq(S) /\ Len(s[i]) = 5
  BY DEF Fives
<1>0. s \in Seq(Seq(S)) /\ Len(s) = N
  <2>1. s \in [1..N -> Seq(S)]
    BY <1>00
  <2>2. s \in Seq(Seq(S))
    BY <2>1, IsASeq
  <2> QED BY <2>1, <2>2, LenProperties
<1>1. Pins!FlattenSeq(s) = Addr!FlattenSeq(s)
  BY DEF Pins!FlattenSeq, Addr!FlattenSeq
<1>2. CASE N = 0
  <2>1. Addr!FlattenSeq(s) = s
    BY <1>0, <1>2 DEF Addr!FlattenSeq
  <2>2. s = <<>>
    BY <1>0, <1>2, EmptySeq
  <2>3. <<>> \in Seq(S) /\ Len(<<>>) = 0
    BY EmptySeq
  <2>4. 5 * N = 0 /\ \A i \in 1..N : FALSE
    BY <1>2
  <2>5. Pins!FlattenSeq(s) = <<>>
    BY <2>1, <2>2, <1>1
  <2> QED BY <2>3, <2>4, <2>5 DEF InFives
<1>3. CASE N # 0
  <2> DEFINE F == Addr!FlattenSeq(s)
  <2>0. F \in Seq(S) /\ \E o : Places(s, o)
    <3>1. Len(s) > 0
      BY <1>0, <1>3
    <3> QED BY <3>1, <1>0, Pieces
  <2>1. PICK o : Places(s, o)
    BY <2>0
  <2>2. /\ o \in [0..N -> Nat] /\ o[0] = 0 /\ Len(F) = o[N]
        /\ \A k \in 1..N : o[k] = o[k - 1] + 5
        /\ \A k \in 1..N : \A i \in 1..5 : F[o[k - 1] + i] = s[k][i]
    BY <2>1, <1>0, <1>00 DEF Places
  <2> HIDE DEF F
  <2> DEFINE T == {k \in 0..N : o[k] = 5 * k}
  <2>3. \A k \in 0..N : k \in T
    <3>1. 0 \in T
      BY <2>2
    <3>2. ASSUME NEW k \in 0..N - 1, k \in T PROVE k + 1 \in T
      <4>1. k + 1 \in 1..N /\ (k + 1) - 1 = k /\ o[k] = 5 * k
        BY <3>2
      <4>2. o[k + 1] = 5 * k + 5
        BY <4>1, <2>2
      <4> QED BY <4>1, <4>2
    <3> HIDE DEF T
    <3> QED BY <3>1, <3>2, Upward
  <2>4. \A k \in 0..N : o[k] = 5 * k
    BY <2>3
  <2>5. ASSUME NEW i \in 1..N, NEW j \in 1..5 PROVE F[5 * (i - 1) + j] = s[i][j]
    <3>1. i - 1 \in 0..N
      OBVIOUS
    <3>2. o[i - 1] = 5 * (i - 1)
      BY <3>1, <2>4
    <3> QED BY <3>2, <2>2
  <2>6. Len(F) = 5 * N
    BY <2>2, <2>4
  <2>7. InFives(S, N, s, F)
    BY <2>0, <2>5, <2>6 DEF InFives
  <2> QED BY <2>7, <1>1 DEF F
<1> QED BY <1>2, <1>3

Header(st) == IF st THEN <<Pins!Op("out"), Pins!Sda(0), Pins!Delay>> ELSE <<Pins!Op("out"), Pins!Delay>>
HeadLen(st) == IF st THEN 3 ELSE 2
Trailer == <<Pins!Op("in"), Pins!Scl(0), Pins!Delay, Pins!Scl(1), Pins!Op("ack"), Pins!Delay, Pins!Scl(0), Pins!Delay,
             Pins!Op("end")>>
(* P is the header, five accesses for each bit and the trailer.            *)
IsWrite(P, b, st) ==
  /\ P \in Seq(Ops) /\ Len(P) = HeadLen(st) + 5 * BITS + 9
  /\ \A k \in 1..HeadLen(st) : P[k] = Header(st)[k]
  /\ \A i \in 1..BITS : \A j \in 1..5 : P[HeadLen(st) + 5 * (i - 1) + j] = Pins!WriteBit(b[i])[j]
  /\ \A j \in 1..9 : P[HeadLen(st) + 5 * BITS + j] = Trailer[j]
LEMMA WriteProgIs ==
  ASSUME NEW b \in Pins!Bytes, NEW st \in BOOLEAN
  PROVE  IsWrite(Pins!WriteProg(b, st), b, st)
<1> DEFINE s == [i \in 1..BITS |-> Pins!WriteBit(b[i])]
<1> DEFINE F == Pins!FlattenSeq(s)
<1> DEFINE H == <<Pins!Op("out")>> \o (IF st THEN <<Pins!Sda(0)>> ELSE <<>>) \o <<Pins!Delay>>
<1>1. \A i \in 1..BITS : b[i] \in 0..1
  BY DEF Pins!Bytes
<1>2. s = [i \in 1..BITS |-> s[i]] /\ \A i \in 1..BITS : s[i] \in Seq(Ops) /\ Len(s[i]) = 5 /\ s[i] = Pins!WriteBit(b[i])
  BY <1>1, OpsAre DEF Pins!WriteBit
<1>3. /\ F \in Seq(Ops) /\ Len(F) = 5 * BITS
      /\ \A i \in 1..BITS : \A j \in 1..5 : F[5 * (i - 1) + j] = Pins!WriteBit(b[i])[j]
  <2>1. Fives(Ops, BITS, s)
    BY <1>2 DEF Fives
  <2> HIDE DEF s
  <2>2. InFives(Ops, BITS, s, Pins!FlattenSeq(s))
    BY <2>1, PinsConstants, FiveEach
  <2> QED BY <1>2, <2>2 DEF InFives
<1>4. H = Header(st) /\ H \in Seq(Ops) /\ Len(H) = HeadLen(st)
  <2> DEFINE u == Pins!Op("out")
  <2> DEFINE v == Pins!Sda(0)
  <2> DEFINE w == Pins!Delay
  <2>0. <<u>> \o <<>> = <<u>> /\ <<u>> \o <<v>> = <<u, v>> /\ <<u>> \o <<w>> = <<u, w>> /\ <<u, v>> \o <<w>> = <<u, v, w>>
    <3> HIDE DEF u, v, w
    <3>1. <<u>> \o <<>> = <<u>> /\ <<u>> \o <<v>> = <<u, v>> /\ <<u, v>> \o <<w>> = <<u, v, w>>
      BY Singles
    <3>2. <<u>> \o <<w>> = <<u, w>>
      BY Singles
    <3> QED BY <3>1, <3>2
  <2>1. ASSUME st PROVE H = Header(st)
    <3>1. H = (<<u>> \o <<v>>) \o <<w>>
      BY <2>1
    <3>2. Header(st) = <<u, v, w>>
      BY <2>1 DEF Header
    <3> HIDE DEF u, v, w, H
    <3> QED BY <3>1, <3>2, <2>0
  <2>2. ASSUME ~st PROVE H = Header(st)
    <3>1. H = (<<u>> \o <<>>) \o <<w>>
      BY <2>2
    <3>2. Header(st) = <<u, w>>
      BY <2>2 DEF Header
    <3> HIDE DEF u, v, w, H
    <3> QED BY <3>1, <3>2, <2>0
  <2>3. H = Header(st)
    BY <2>1, <2>2
  <2>4. Header(st) \in Seq(Ops) /\ Len(Header(st)) = HeadLen(st)
    BY OpsAre DEF Header, HeadLen
  <2> HIDE DEF H
  <2> QED BY <2>3, <2>4
<1>5. Trailer \in Seq(Ops) /\ Len(Trailer) = 9
  BY OpsAre DEF Trailer
<1>6. Pins!WriteProg(b, st) = (H \o F) \o Trailer
  BY DEF Pins!WriteProg, Trailer
<1> HIDE DEF H, F, s
<1>7. /\ H \o F \in Seq(Ops) /\ Len(H \o F) = HeadLen(st) + 5 * BITS
      /\ \A k \in 1..HeadLen(st) : (H \o F)[k] = H[k]
      /\ \A k \in 1..5 * BITS : (H \o F)[HeadLen(st) + k] = F[k]
  <2>1. Glued(Ops, H \o F, H, F, HeadLen(st), 5 * BITS)
    BY <1>3, <1>4, Glue
  <2> QED BY <2>1 DEF Glued
<1> DEFINE G == H \o F
<1> DEFINE P == G \o Trailer
<1>8. HeadLen(st) \in Nat /\ BITS \in Nat /\ 5 * BITS \in Nat
  BY PinsConstants DEF HeadLen
<1> HIDE DEF G, P
<1>9. /\ P \in Seq(Ops) /\ Len(P) = HeadLen(st) + 5 * BITS + 9
      /\ \A k \in 1..(HeadLen(st) + 5 * BITS) : P[k] = G[k]
      /\ \A k \in 1..9 : P[HeadLen(st) + 5 * BITS + k] = Trailer[k]
  <2>1. G \in Seq(Ops) /\ Len(G) = HeadLen(st) + 5 * BITS
    BY <1>7 DEF G
  <2>2. Glued(Ops, P, G, Trailer, HeadLen(st) + 5 * BITS, 9)
    BY <2>1, <1>5, Glue DEF P
  <2> QED BY <2>2 DEF Glued
<1>10. \A k \in 1..HeadLen(st) : P[k] = Header(st)[k]
  <2>1. \A k \in 1..HeadLen(st) : k \in 1..(HeadLen(st) + 5 * BITS)
    BY <1>8
  <2> QED BY <2>1, <1>7, <1>9, <1>4 DEF G
<1>11. ASSUME NEW i \in 1..BITS, NEW j \in 1..5 PROVE P[HeadLen(st) + 5 * (i - 1) + j] = Pins!WriteBit(b[i])[j]
  <2> DEFINE k == 5 * (i - 1) + j
  <2>1. k \in 1..5 * BITS /\ HeadLen(st) + 5 * (i - 1) + j = HeadLen(st) + k /\ HeadLen(st) + k \in 1..(HeadLen(st) + 5 * BITS)
    BY <1>8
  <2>2. F[k] = Pins!WriteBit(b[i])[j]
    BY <1>3
  <2> HIDE DEF k
  <2> QED BY <2>1, <2>2, <1>7, <1>9 DEF G
<1> QED BY <1>6, <1>9, <1>10, <1>11 DEF IsWrite, P, G

Ask == <<Pins!Op("in"), Pins!Op("sclin"), Pins!Op("wait"), Pins!Op("bit"), Pins!Op("sclout")>>
ReadBit == <<Pins!Scl(0), Pins!Delay, Pins!Scl(1), Pins!Op("bit"), Pins!Delay>>
Reply(stop) == IF stop THEN 1 ELSE 0
Last(stop) == <<Pins!Scl(0), Pins!Op("out"), Pins!Sda(Reply(stop)), Pins!Delay, Pins!Scl(1), Pins!Delay, Pins!Scl(0),
                Pins!Delay>>
Halt(stop) == IF stop THEN <<Pins!Scl(1), Pins!Delay, Pins!Sda(1), Pins!Delay>> ELSE <<>>
HaltLen(stop) == IF stop THEN 4 ELSE 0
IsRead(P, stop) ==
  /\ P \in Seq(Ops) /\ Len(P) = 5 * BITS + 8 + HaltLen(stop)
  /\ \A k \in 1..5 : P[k] = Ask[k]
  /\ \A i \in 1..BITS - 1 : \A j \in 1..5 : P[5 * i + j] = ReadBit[j]
  /\ \A j \in 1..8 : P[5 * BITS + j] = Last(stop)[j]
  /\ \A j \in 1..HaltLen(stop) : P[5 * BITS + 8 + j] = Halt(stop)[j]
LEMMA ReadProgIs ==
  ASSUME NEW stop \in BOOLEAN
  PROVE  IsRead(Pins!ReadProg(stop), stop)
<1> DEFINE s == [i \in 1..BITS - 1 |-> ReadBit]
<1> DEFINE F == Pins!FlattenSeq(s)
<1> DEFINE L == 5 * BITS
<1>1. BITS \in Nat /\ BITS - 1 \in Nat /\ L \in Nat /\ 5 * (BITS - 1) = L - 5 /\ L - 5 \in Nat /\ HaltLen(stop) \in Nat
  BY PinsConstants DEF HaltLen
<1>2. /\ Ask \in Seq(Ops) /\ Len(Ask) = 5 /\ ReadBit \in Seq(Ops) /\ Len(ReadBit) = 5
      /\ Last(stop) \in Seq(Ops) /\ Len(Last(stop)) = 8
      /\ Halt(stop) \in Seq(Ops) /\ Len(Halt(stop)) = HaltLen(stop)
  <2>1. Ask \in Seq(Ops) /\ Len(Ask) = 5
    BY OpsAre DEF Ask
  <2>2. ReadBit \in Seq(Ops) /\ Len(ReadBit) = 5
    BY OpsAre DEF ReadBit
  <2>3. Last(stop) \in Seq(Ops) /\ Len(Last(stop)) = 8
    BY OpsAre DEF Last, Reply
  <2>4. Halt(stop) \in Seq(Ops) /\ Len(Halt(stop)) = HaltLen(stop)
    BY OpsAre DEF Halt, HaltLen
  <2> QED BY <2>1, <2>2, <2>3, <2>4
<1>3. /\ F \in Seq(Ops) /\ Len(F) = L - 5
      /\ \A i \in 1..BITS - 1 : \A j \in 1..5 : F[5 * (i - 1) + j] = ReadBit[j]
  <2>1. Fives(Ops, BITS - 1, s)
    BY <1>2 DEF Fives
  <2>2. \A i \in 1..BITS - 1 : s[i] = ReadBit
    OBVIOUS
  <2> HIDE DEF s
  <2>3. InFives(Ops, BITS - 1, s, Pins!FlattenSeq(s))
    BY <2>1, <1>1, FiveEach
  <2> QED BY <1>1, <2>2, <2>3 DEF InFives
<1> DEFINE A == Ask \o F
<1> DEFINE B == A \o Last(stop)
<1> DEFINE P == B \o Halt(stop)
<1>4. Pins!ReadProg(stop) = P
  BY DEF Pins!ReadProg, Ask, ReadBit, Last, Halt, Reply
<1> HIDE DEF F, s, L
<1>5. /\ A \in Seq(Ops) /\ Len(A) = L
      /\ \A k \in 1..5 : A[k] = Ask[k]
      /\ \A k \in 1..L - 5 : A[5 + k] = F[k]
  <2>1. Glued(Ops, Ask \o F, Ask, F, 5, L - 5)
    BY <1>2, <1>3, Glue
  <2>2. 5 + (L - 5) = L
    BY <1>1
  <2> HIDE DEF A
  <2>3. Glued(Ops, A, Ask, F, 5, L - 5)
    BY <2>1 DEF A
  <2> QED BY <2>2, <2>3 DEF Glued
<1> HIDE DEF A
<1>6. /\ B \in Seq(Ops) /\ Len(B) = L + 8
      /\ \A k \in 1..L : B[k] = A[k]
      /\ \A k \in 1..8 : B[L + k] = Last(stop)[k]
  <2>1. Glued(Ops, A \o Last(stop), A, Last(stop), L, 8)
    BY <1>2, <1>5, Glue
  <2> QED BY <2>1, <1>1 DEF Glued
<1> HIDE DEF B
<1>7. /\ P \in Seq(Ops) /\ Len(P) = L + 8 + HaltLen(stop)
      /\ \A k \in 1..L + 8 : P[k] = B[k]
      /\ \A k \in 1..HaltLen(stop) : P[L + 8 + k] = Halt(stop)[k]
  <2>1. Glued(Ops, B \o Halt(stop), B, Halt(stop), L + 8, HaltLen(stop))
    BY <1>2, <1>6, Glue
  <2> QED BY <2>1, <1>1 DEF Glued
<1> HIDE DEF P
<1>8. \A k \in 1..L : P[k] = A[k]
  <2>1. \A k \in 1..L : k \in 1..L + 8
    BY <1>1
  <2> QED BY <2>1, <1>6, <1>7
<1>9. \A k \in 1..5 : P[k] = Ask[k]
  <2>1. \A k \in 1..5 : k \in 1..L
    BY <1>1
  <2> QED BY <2>1, <1>5, <1>8
<1>10. ASSUME NEW i \in 1..BITS - 1, NEW j \in 1..5 PROVE P[5 * i + j] = ReadBit[j]
  <2> DEFINE k == 5 * (i - 1) + j
  <2>1. k \in 1..L - 5 /\ 5 * i + j = 5 + k /\ 5 + k \in 1..L
    BY <1>1 DEF L
  <2>2. F[k] = ReadBit[j]
    BY <1>3
  <2> HIDE DEF k
  <2>3. P[5 + k] = A[5 + k]
    BY <2>1, <1>8
  <2>4. A[5 + k] = F[k]
    BY <2>1, <1>5
  <2> QED BY <2>1, <2>2, <2>3, <2>4
<1>11. ASSUME NEW j \in 1..8 PROVE P[L + j] = Last(stop)[j]
  <2>1. L + j \in 1..L + 8
    BY <1>1
  <2> QED BY <2>1, <1>6, <1>7
<1> QED BY <1>4, <1>7, <1>9, <1>10, <1>11 DEF IsRead, L

-----------------------------------------------------------------------------
(* What a program does next, by its place.                                 *)
StepAt(P, k, o) == Rest(P, k) # <<>> /\ Head(Rest(P, k)) = o /\ Tail(Rest(P, k)) = Rest(P, k + 1)
LEMMA StepIs ==
  ASSUME NEW P \in Seq(Ops), NEW k \in Nat, NEW o, 1 <= k, k <= Len(P), P[k] = o
  PROVE  StepAt(P, k, o)
<1>1. k \in 1..Len(P) + 1 /\ Len(P) \in Nat
  BY LenProperties
<1> QED BY <1>1, RestIs DEF StepAt

BitAt(st, i, j) == HeadLen(st) + 5 * (i - 1) + j
TellAt(st, j) == HeadLen(st) + 5 * BITS + j
LEMMA WriteSteps ==
  ASSUME NEW b \in Pins!Bytes, NEW st \in BOOLEAN, NEW P, P = Pins!WriteProg(b, st)
  PROVE  /\ Rest(P, 1) = P /\ Rest(P, TellAt(st, 10)) = <<>>
         /\ StepAt(P, 1, Pins!Op("out"))
         /\ st => StepAt(P, 2, Pins!Sda(0)) /\ StepAt(P, 3, Pins!Delay)
         /\ ~st => StepAt(P, 2, Pins!Delay)
         /\ \A i \in 1..BITS : /\ StepAt(P, BitAt(st, i, 1), Pins!Scl(0)) /\ StepAt(P, BitAt(st, i, 2), Pins!Sda(b[i]))
                               /\ StepAt(P, BitAt(st, i, 3), Pins!Delay) /\ StepAt(P, BitAt(st, i, 4), Pins!Scl(1))
                               /\ StepAt(P, BitAt(st, i, 5), Pins!Delay)
         /\ \A j \in 1..9 : StepAt(P, TellAt(st, j), Trailer[j])
<1>1. IsWrite(P, b, st)
  BY WriteProgIs
<1>2. BITS \in Nat /\ BITS > 0 /\ HeadLen(st) \in 2..3 /\ P \in Seq(Ops) /\ Len(P) = HeadLen(st) + 5 * BITS + 9
  BY <1>1, PinsConstants DEF IsWrite, HeadLen
<1>3. Rest(P, 1) = P /\ Rest(P, TellAt(st, 10)) = <<>>
  <2> DEFINE k == TellAt(st, 10)
  <2>1. k \in 1..Len(P) + 1 /\ 1 \in 1..Len(P) + 1 /\ k = Len(P) + 1
    BY <1>2 DEF TellAt
  <2> HIDE DEF k
  <2>2. Rest(P, k) = <<>> /\ Rest(P, 1) = P
    BY <2>1, <1>2, RestIs
  <2> QED BY <2>2 DEF k
<1>4. \A k \in 1..HeadLen(st) : StepAt(P, k, Header(st)[k])
  <2>1. ASSUME NEW k \in 1..HeadLen(st) PROVE StepAt(P, k, Header(st)[k])
    <3>1. k \in Nat /\ 1 <= k /\ k <= Len(P)
      BY <1>2
    <3>2. P[k] = Header(st)[k]
      BY <1>1 DEF IsWrite
    <3> QED BY <3>1, <3>2, <1>2, StepIs
  <2> QED BY <2>1
<1>5. ASSUME NEW i \in 1..BITS, NEW j \in 1..5 PROVE StepAt(P, BitAt(st, i, j), Pins!WriteBit(b[i])[j])
  <2> DEFINE k == BitAt(st, i, j)
  <2>1. k \in Nat /\ 1 <= k /\ k <= Len(P)
    BY <1>2 DEF BitAt
  <2>2. P[k] = Pins!WriteBit(b[i])[j]
    BY <1>1 DEF IsWrite, BitAt
  <2> HIDE DEF k
  <2>3. StepAt(P, k, Pins!WriteBit(b[i])[j])
    BY <2>1, <2>2, <1>2, StepIs
  <2> QED BY <2>3 DEF k
<1>6. ASSUME NEW j \in 1..9 PROVE StepAt(P, TellAt(st, j), Trailer[j])
  <2> DEFINE k == TellAt(st, j)
  <2>1. k \in Nat /\ 1 <= k /\ k <= Len(P)
    BY <1>2 DEF TellAt
  <2>2. P[k] = Trailer[j]
    BY <1>1 DEF IsWrite, TellAt
  <2> HIDE DEF k
  <2>3. StepAt(P, k, Trailer[j])
    BY <2>1, <2>2, <1>2, StepIs
  <2> QED BY <2>3 DEF k
<1>7. /\ StepAt(P, 1, Pins!Op("out"))
      /\ st => StepAt(P, 2, Pins!Sda(0)) /\ StepAt(P, 3, Pins!Delay)
      /\ ~st => StepAt(P, 2, Pins!Delay)
  <2>1. /\ Header(st)[1] = Pins!Op("out")
        /\ st => HeadLen(st) = 3 /\ Header(st)[2] = Pins!Sda(0) /\ Header(st)[3] = Pins!Delay
        /\ ~st => HeadLen(st) = 2 /\ Header(st)[2] = Pins!Delay
    BY DEF Header, HeadLen
  <2>2. 1 \in 1..HeadLen(st) /\ 2 \in 1..HeadLen(st) /\ (st => 3 \in 1..HeadLen(st))
    BY <2>1
  <2> QED BY <2>1, <2>2, <1>4
<1>8. ASSUME NEW i \in 1..BITS
      PROVE  /\ StepAt(P, BitAt(st, i, 1), Pins!Scl(0)) /\ StepAt(P, BitAt(st, i, 2), Pins!Sda(b[i]))
             /\ StepAt(P, BitAt(st, i, 3), Pins!Delay) /\ StepAt(P, BitAt(st, i, 4), Pins!Scl(1))
             /\ StepAt(P, BitAt(st, i, 5), Pins!Delay)
  <2> DEFINE w == Pins!WriteBit(b[i])
  <2>1. w[1] = Pins!Scl(0) /\ w[2] = Pins!Sda(b[i]) /\ w[3] = Pins!Delay /\ w[4] = Pins!Scl(1) /\ w[5] = Pins!Delay
    BY DEF Pins!WriteBit
  <2>2. \A j \in 1..5 : StepAt(P, BitAt(st, i, j), w[j])
    BY <1>5
  <2> HIDE DEF w
  <2> QED BY <2>1, <2>2
<1> QED BY <1>3, <1>6, <1>7, <1>8

LEMMA StopSteps ==
  ASSUME NEW P, P = Pins!StopProg
  PROVE  /\ Rest(P, 1) = P /\ Rest(P, 6) = <<>>
         /\ StepAt(P, 1, Pins!Op("out")) /\ StepAt(P, 2, Pins!Sda(0)) /\ StepAt(P, 3, Pins!Scl(1))
         /\ StepAt(P, 4, Pins!Delay) /\ StepAt(P, 5, Pins!Sda(1))
<1>1. /\ P \in Seq(Ops) /\ Len(P) = 5
      /\ P[1] = Pins!Op("out") /\ P[2] = Pins!Sda(0) /\ P[3] = Pins!Scl(1) /\ P[4] = Pins!Delay /\ P[5] = Pins!Sda(1)
  BY OpsAre DEF Pins!StopProg
<1>2. Rest(P, 1) = P /\ Rest(P, 6) = <<>>
  <2>1. \A k \in 1..Len(P) + 1 : Rest(P, 1) = P /\ (Rest(P, k) = <<>> <=> k = Len(P) + 1)
    BY <1>1, RestIs
  <2>2. 6 \in 1..Len(P) + 1 /\ 6 = Len(P) + 1
    BY <1>1
  <2> QED BY <2>1, <2>2
<1>3. \A k \in 1..5 : StepAt(P, k, P[k])
  <2>1. ASSUME NEW k \in 1..5 PROVE StepAt(P, k, P[k])
    <3>1. k \in Nat /\ 1 <= k /\ k <= Len(P)
      BY <1>1
    <3> QED BY <3>1, <1>1, StepIs
  <2> QED BY <2>1
<1>4. StepAt(P, 1, P[1]) /\ StepAt(P, 2, P[2]) /\ StepAt(P, 3, P[3]) /\ StepAt(P, 4, P[4]) /\ StepAt(P, 5, P[5])
  BY <1>3
<1> QED BY <1>1, <1>2, <1>4

LEMMA ReadSteps ==
  ASSUME NEW stop \in BOOLEAN, NEW P, P = Pins!ReadProg(stop)
  PROVE  /\ Rest(P, 1) = P /\ Rest(P, 5 * BITS + 9 + HaltLen(stop)) = <<>>
         /\ \A k \in 1..5 : StepAt(P, k, Ask[k])
         /\ \A i \in 1..BITS - 1 : \A j \in 1..5 : StepAt(P, 5 * i + j, ReadBit[j])
         /\ \A j \in 1..8 : StepAt(P, 5 * BITS + j, Last(stop)[j])
         /\ stop => /\ StepAt(P, 5 * BITS + 9, Pins!Scl(1)) /\ StepAt(P, 5 * BITS + 10, Pins!Delay)
                    /\ StepAt(P, 5 * BITS + 11, Pins!Sda(1)) /\ StepAt(P, 5 * BITS + 12, Pins!Delay)
<1>1. IsRead(P, stop)
  BY ReadProgIs
<1>2. BITS \in Nat /\ BITS > 0 /\ HaltLen(stop) \in 0..4 /\ P \in Seq(Ops) /\ Len(P) = 5 * BITS + 8 + HaltLen(stop)
  BY <1>1, PinsConstants DEF IsRead, HaltLen
<1>3. Rest(P, 1) = P /\ Rest(P, 5 * BITS + 9 + HaltLen(stop)) = <<>>
  <2> DEFINE k == 5 * BITS + 9 + HaltLen(stop)
  <2>1. k \in 1..Len(P) + 1 /\ 1 \in 1..Len(P) + 1 /\ k = Len(P) + 1
    BY <1>2
  <2> HIDE DEF k
  <2>2. Rest(P, k) = <<>> /\ Rest(P, 1) = P
    BY <2>1, <1>2, RestIs
  <2> QED BY <2>2 DEF k
<1>4. ASSUME NEW k \in 1..5 PROVE StepAt(P, k, Ask[k])
  <2>1. k \in Nat /\ 1 <= k /\ k <= Len(P)
    BY <1>2
  <2>2. P[k] = Ask[k]
    BY <1>1 DEF IsRead
  <2> QED BY <2>1, <2>2, <1>2, StepIs
<1>5. ASSUME NEW i \in 1..BITS - 1, NEW j \in 1..5 PROVE StepAt(P, 5 * i + j, ReadBit[j])
  <2> DEFINE k == 5 * i + j
  <2>1. k \in Nat /\ 1 <= k /\ k <= Len(P)
    BY <1>2
  <2>2. P[k] = ReadBit[j]
    BY <1>1 DEF IsRead
  <2> HIDE DEF k
  <2>3. StepAt(P, k, ReadBit[j])
    BY <2>1, <2>2, <1>2, StepIs
  <2> QED BY <2>3 DEF k
<1>6. ASSUME NEW j \in 1..8 PROVE StepAt(P, 5 * BITS + j, Last(stop)[j])
  <2> DEFINE k == 5 * BITS + j
  <2>1. k \in Nat /\ 1 <= k /\ k <= Len(P)
    BY <1>2
  <2>2. P[k] = Last(stop)[j]
    BY <1>1 DEF IsRead
  <2> HIDE DEF k
  <2>3. StepAt(P, k, Last(stop)[j])
    BY <2>1, <2>2, <1>2, StepIs
  <2> QED BY <2>3 DEF k
<1>7. ASSUME stop, NEW j \in 1..4 PROVE StepAt(P, 5 * BITS + 8 + j, Halt(stop)[j])
  <2> DEFINE k == 5 * BITS + 8 + j
  <2>0. HaltLen(stop) = 4
    BY <1>7 DEF HaltLen
  <2>1. k \in Nat /\ 1 <= k /\ k <= Len(P)
    BY <1>2, <2>0
  <2>2. P[k] = Halt(stop)[j]
    BY <1>1, <2>0 DEF IsRead
  <2> HIDE DEF k
  <2>3. StepAt(P, k, Halt(stop)[j])
    BY <2>1, <2>2, <1>2, StepIs
  <2> QED BY <2>3 DEF k
<1>8. ASSUME stop
      PROVE  /\ StepAt(P, 5 * BITS + 9, Pins!Scl(1)) /\ StepAt(P, 5 * BITS + 10, Pins!Delay)
             /\ StepAt(P, 5 * BITS + 11, Pins!Sda(1)) /\ StepAt(P, 5 * BITS + 12, Pins!Delay)
  <2>1. /\ Halt(stop)[1] = Pins!Scl(1) /\ Halt(stop)[2] = Pins!Delay /\ Halt(stop)[3] = Pins!Sda(1)
        /\ Halt(stop)[4] = Pins!Delay
    BY <1>8 DEF Halt
  <2>2. /\ 5 * BITS + 9 = 5 * BITS + 8 + 1 /\ 5 * BITS + 10 = 5 * BITS + 8 + 2
        /\ 5 * BITS + 11 = 5 * BITS + 8 + 3 /\ 5 * BITS + 12 = 5 * BITS + 8 + 4
    BY <1>2
  <2>3. /\ StepAt(P, 5 * BITS + 8 + 1, Halt(stop)[1]) /\ StepAt(P, 5 * BITS + 8 + 2, Halt(stop)[2])
        /\ StepAt(P, 5 * BITS + 8 + 3, Halt(stop)[3]) /\ StepAt(P, 5 * BITS + 8 + 4, Halt(stop)[4])
    <3>1. \A j \in 1..4 : StepAt(P, 5 * BITS + 8 + j, Halt(stop)[j])
      BY <1>7, <1>8
    <3> QED BY <3>1
  <2> QED BY <2>1, <2>2, <2>3
<1> QED BY <1>3, <1>4, <1>5, <1>6, <1>8

-----------------------------------------------------------------------------
(* One access to the pins: the levels, and what the slave makes of it.     *)
Both == {"scl", "sda"}
Levels == scl \in 0..1 /\ sda \in 0..1 /\ ack \in 0..1 /\ gpioout \in [Both -> 0..1]
Unmoved == UNCHANGED <<slave, n, bits, read, pull, heard>>
Rise == Pins!Becomes(Pins!Rises)
Fall == \E e \in Pins!Falls : Pins!Becomes(e)
Edge(v) == IF v = scl THEN Unmoved ELSE IF v = 1 THEN Rise ELSE Fall
Steps == prog' = Tail(prog) /\ call' = call
Silent == ch' = ch /\ ack' = ack

LEMMA Turn ==
  ASSUME NEW out, NEW en, NEW c, NEW d, NEW oscl, NEW osda, Pins!Pins(out, en, oscl, osda),
         c = Pins!Level("scl", out, en, hold, oscl), d = Pins!Level("sda", out, en, pull, osda)
  PROVE  /\ scl' = c
         /\ c # scl => IF c = 1 THEN Rise ELSE Fall
         /\ c = scl /\ c = 1 /\ d # sda => Pins!Becomes(Pins!Condition(sda, d))
         /\ c = scl /\ (c # 1 \/ d = sda) => Unmoved
         /\ sda' = IF "sda" \in en THEN out["sda"] ELSE IF pull' THEN 0 ELSE d
<1>1. /\ scl' = c
      /\ \E e \in IF c # scl THEN IF c = 1 THEN {Pins!Rises} ELSE Pins!Falls
                   ELSE IF c = 1 /\ d # sda THEN {Pins!Condition(sda, d)} ELSE {Pins!D} :
            Pins!Becomes(e) /\ sda' = Pins!Level("sda", out, en, e.pull, d)
  BY DEF Pins!Pins
<1>2. PICK e \in IF c # scl THEN IF c = 1 THEN {Pins!Rises} ELSE Pins!Falls
                   ELSE IF c = 1 /\ d # sda THEN {Pins!Condition(sda, d)} ELSE {Pins!D} :
            Pins!Becomes(e) /\ sda' = Pins!Level("sda", out, en, e.pull, d)
  BY <1>1
<1>3. pull' = e.pull
  BY <1>2 DEF Pins!Becomes
<1>4. sda' = IF "sda" \in en THEN out["sda"] ELSE IF pull' THEN 0 ELSE d
  BY <1>2, <1>3 DEF Pins!Level
<1>5. c # scl => IF c = 1 THEN Rise ELSE Fall
  BY <1>2 DEF Rise, Fall
<1>6. c = scl /\ c = 1 /\ d # sda => Pins!Becomes(Pins!Condition(sda, d))
  BY <1>2
<1>7. c = scl /\ (c # 1 \/ d = sda) => Unmoved
  <2>1. ASSUME c = scl /\ (c # 1 \/ d = sda) PROVE Pins!Becomes(Pins!D)
    BY <1>2, <2>1
  <2>2. Pins!Becomes(Pins!D) => Unmoved
    BY DEF Pins!Becomes, Pins!D, Unmoved
  <2> QED BY <2>1, <2>2
<1> QED BY <1>1, <1>4, <1>5, <1>6, <1>7

(* The slave at an edge of SCL, and at a start or stop condition.          *)
LEMMA RiseIs ==
  ASSUME Rise
  PROVE  /\ slave = "rx" => /\ slave' = "rx" /\ n' = n + 1 /\ bits' = Append(bits, sda)
                            /\ read' = read /\ pull' = pull /\ heard' = heard
         /\ slave = "tx" => /\ slave' = "tx" /\ n' = n + 1 /\ bits' = bits
                            /\ read' = read /\ pull' = pull /\ heard' = heard
         /\ slave = "wait" => /\ slave' = IF sda = 0 THEN "more" ELSE "off"
                              /\ n' = n /\ bits' = bits /\ read' = read /\ pull' = pull /\ heard' = heard
         /\ slave \in {"off", "ack", "nack"} => Unmoved
<1>1. slave = "rx" => Pins!Rises = [Pins!D EXCEPT !.n = n + 1, !.bits = Append(bits, sda)]
  BY DEF Pins!Rises
<1>2. slave = "tx" => Pins!Rises = [Pins!D EXCEPT !.n = n + 1]
  BY DEF Pins!Rises
<1>3. slave = "wait" => Pins!Rises = [Pins!D EXCEPT !.slave = IF sda = 0 THEN "more" ELSE "off"]
  BY DEF Pins!Rises
<1>4. slave \in {"off", "ack", "nack"} => Pins!Rises = Pins!D
  BY DEF Pins!Rises
<1>5. Pins!Becomes(Pins!Rises)
  BY DEF Rise
<1>6. slave = "rx" => /\ slave' = "rx" /\ n' = n + 1 /\ bits' = Append(bits, sda)
                      /\ read' = read /\ pull' = pull /\ heard' = heard
  BY <1>1, <1>5 DEF Pins!Becomes, Pins!D
<1>7. slave = "tx" => /\ slave' = "tx" /\ n' = n + 1 /\ bits' = bits
                      /\ read' = read /\ pull' = pull /\ heard' = heard
  BY <1>2, <1>5 DEF Pins!Becomes, Pins!D
<1>8. slave = "wait" => /\ slave' = IF sda = 0 THEN "more" ELSE "off"
                        /\ n' = n /\ bits' = bits /\ read' = read /\ pull' = pull /\ heard' = heard
  BY <1>3, <1>5 DEF Pins!Becomes, Pins!D
<1>9. slave \in {"off", "ack", "nack"} => Unmoved
  BY <1>4, <1>5 DEF Pins!Becomes, Pins!D, Unmoved
<1> QED BY <1>6, <1>7, <1>8, <1>9

SendsByte == slave' = "tx" /\ n' = 0 /\ bits' \in Pins!Bytes /\ (pull' <=> bits'[1] = 0) /\ heard' = heard
LEMMA SendsIs ==
  ASSUME NEW h, NEW e \in Pins!Sends(h), Pins!Becomes(e)
  PROVE  SendsByte
<1>1. PICK b \in Pins!Bytes : e = [Pins!D EXCEPT !.slave = "tx", !.n = 0, !.bits = b, !.pull = (b[1] = 0), !.hold = h]
  BY DEF Pins!Sends
<1>2. slave' = "tx" /\ n' = 0 /\ bits' = b /\ pull' = (b[1] = 0) /\ heard' = heard
  BY <1>1 DEF Pins!Becomes, Pins!D
<1>3. pull' <=> b[1] = 0
  BY <1>2
<1> QED BY <1>2, <1>3 DEF SendsByte

LEMMA FallIs ==
  ASSUME Fall
  PROVE  /\ slave = "rx" /\ n # BITS => Unmoved
         /\ slave = "rx" /\ n = BITS /\ ~pull =>
              /\ slave' \in {"ack", "nack"} /\ (pull' <=> slave' = "ack")
              /\ heard'.byte = bits /\ heard'.ack \in BOOLEAN /\ (heard'.ack <=> slave' = "ack")
              /\ read' = read /\ bits' = bits
         /\ slave = "nack" => slave' = "off" /\ pull' = pull /\ heard' = heard
         /\ slave = "ack" /\ read /\ bits[BITS] = 1 => SendsByte
         /\ slave = "ack" /\ ~(read /\ bits[BITS] = 1) =>
              /\ slave' = "rx" /\ n' = 0 /\ bits' = <<>> /\ ~read' /\ ~pull' /\ heard' = heard
         /\ slave = "tx" /\ n \in Nat /\ n < BITS =>
              slave' = "tx" /\ n' = n /\ bits' = bits /\ (pull' <=> bits[n + 1] = 0)
         /\ slave = "tx" /\ n >= BITS => slave' = "wait" /\ ~pull' /\ heard' = [byte |-> bits, ack |-> TRUE]
         /\ slave = "more" => SendsByte
         /\ slave = "off" => Unmoved
<1>1. PICK e \in Pins!Falls : Pins!Becomes(e)
  BY DEF Fall
<1>2. Pins!Becomes(Pins!D) => Unmoved
  BY DEF Pins!Becomes, Pins!D, Unmoved
<1>3. slave = "rx" /\ n # BITS => Unmoved
  <2>1. slave = "rx" /\ n # BITS => Pins!Falls = {Pins!D}
    BY DEF Pins!Falls
  <2> QED BY <2>1, <1>1, <1>2
<1>4. ASSUME slave = "rx" /\ n = BITS /\ ~pull
      PROVE  /\ slave' \in {"ack", "nack"} /\ (pull' <=> slave' = "ack")
             /\ heard'.byte = bits /\ heard'.ack \in BOOLEAN /\ (heard'.ack <=> slave' = "ack")
             /\ read' = read /\ bits' = bits
  <2>1. Pins!Falls = {[Pins!D EXCEPT !.slave = "ack", !.pull = TRUE, !.heard = [byte |-> bits, ack |-> TRUE]],
                      [Pins!D EXCEPT !.slave = "nack", !.heard = [byte |-> bits, ack |-> FALSE]]}
    BY <1>4 DEF Pins!Falls
  <2>2. CASE e = [Pins!D EXCEPT !.slave = "ack", !.pull = TRUE, !.heard = [byte |-> bits, ack |-> TRUE]]
    <3>1. /\ slave' = "ack" /\ pull' = TRUE /\ heard' = [byte |-> bits, ack |-> TRUE]
          /\ read' = read /\ bits' = bits
      BY <2>2, <1>1 DEF Pins!Becomes, Pins!D
    <3> QED BY <3>1
  <2>3. CASE e = [Pins!D EXCEPT !.slave = "nack", !.heard = [byte |-> bits, ack |-> FALSE]]
    <3>1. /\ slave' = "nack" /\ pull' = pull /\ heard' = [byte |-> bits, ack |-> FALSE]
          /\ read' = read /\ bits' = bits
      BY <2>3, <1>1 DEF Pins!Becomes, Pins!D
    <3> QED BY <3>1, <1>4
  <2> QED BY <2>1, <2>2, <2>3, <1>1
<1>5. slave = "nack" => slave' = "off" /\ pull' = pull /\ heard' = heard
  <2>1. slave = "nack" => Pins!Falls = {[Pins!D EXCEPT !.slave = "off"]}
    BY DEF Pins!Falls
  <2>2. slave = "nack" => Pins!Becomes([Pins!D EXCEPT !.slave = "off"])
    BY <2>1, <1>1
  <2> QED BY <2>2 DEF Pins!Becomes, Pins!D
<1>6. slave = "ack" /\ read /\ bits[BITS] = 1 => SendsByte
  <2>1. slave = "ack" /\ read /\ bits[BITS] = 1 => Pins!Falls = UNION {Pins!Sends(h) : h \in BOOLEAN}
    BY DEF Pins!Falls
  <2> QED BY <2>1, <1>1, SendsIs
<1>7. ASSUME slave = "ack" /\ ~(read /\ bits[BITS] = 1)
      PROVE  slave' = "rx" /\ n' = 0 /\ bits' = <<>> /\ ~read' /\ ~pull' /\ heard' = heard
  <2> DEFINE g == [Pins!D EXCEPT !.slave = "rx", !.n = 0, !.bits = <<>>, !.read = FALSE, !.pull = FALSE]
  <2>1. Pins!Falls = {g}
    BY <1>7 DEF Pins!Falls
  <2>2. Pins!Becomes(g)
    BY <2>1, <1>1
  <2>3. slave' = "rx" /\ n' = 0 /\ bits' = <<>> /\ read' = FALSE /\ pull' = FALSE /\ heard' = heard
    BY <2>2 DEF Pins!Becomes, Pins!D
  <2> QED BY <2>3
<1>8. ASSUME slave = "tx", n \in Nat, n < BITS
      PROVE  slave' = "tx" /\ n' = n /\ bits' = bits /\ (pull' <=> bits[n + 1] = 0)
  <2> DEFINE g == [Pins!D EXCEPT !.pull = (bits[n + 1] = 0)]
  <2>1. Pins!Falls = {g}
    BY <1>8, PinsConstants DEF Pins!Falls
  <2>2. Pins!Becomes(g)
    BY <2>1, <1>1
  <2>3. slave' = slave /\ n' = n /\ bits' = bits /\ pull' = (bits[n + 1] = 0)
    BY <2>2 DEF Pins!Becomes, Pins!D
  <2> QED BY <2>3, <1>8
<1>9. ASSUME slave = "tx", n >= BITS
      PROVE  slave' = "wait" /\ ~pull' /\ heard' = [byte |-> bits, ack |-> TRUE]
  <2> DEFINE g == [Pins!D EXCEPT !.slave = "wait", !.pull = FALSE, !.heard = [byte |-> bits, ack |-> TRUE]]
  <2>1. Pins!Falls = {g}
    BY <1>9 DEF Pins!Falls
  <2>2. Pins!Becomes(g)
    BY <2>1, <1>1
  <2>3. slave' = "wait" /\ pull' = FALSE /\ heard' = [byte |-> bits, ack |-> TRUE]
    BY <2>2 DEF Pins!Becomes, Pins!D
  <2> QED BY <2>3
<1>10. slave = "more" => SendsByte
  <2>1. slave = "more" => Pins!Falls = UNION {Pins!Sends(h) : h \in BOOLEAN}
    BY DEF Pins!Falls
  <2> QED BY <2>1, <1>1, SendsIs
<1>11. slave = "off" => Unmoved
  <2>1. slave = "off" => Pins!Falls = {Pins!D}
    BY DEF Pins!Falls
  <2> QED BY <2>1, <1>1, <1>2
<1> QED BY <1>3, <1>4, <1>5, <1>6, <1>7, <1>8, <1>9, <1>10, <1>11

LEMMA ConditionIs ==
  ASSUME NEW c, NEW d, Pins!Becomes(Pins!Condition(c, d))
  PROVE  /\ d = 0 => /\ slave' = "rx" /\ n' = 0 /\ bits' = <<>> /\ read' /\ ~pull' /\ heard' = heard
         /\ d # 0 => slave' = "off" /\ ~pull' /\ heard' = heard
<1>1. d = 0 => /\ slave' = "rx" /\ n' = 0 /\ bits' = <<>> /\ read' = TRUE /\ pull' = FALSE /\ heard' = heard
  BY DEF Pins!Becomes, Pins!Condition, Pins!D
<1>2. d # 0 => slave' = "off" /\ pull' = FALSE /\ heard' = heard
  BY DEF Pins!Becomes, Pins!Condition, Pins!D
<1> QED BY <1>1, <1>2

Acts(o) == prog # <<>> /\ Head(prog) = o /\ call.fn # "none" /\ Pins!Next /\ ~Pins!LetGo
LEMMA OpNames ==
  /\ \A v : Pins!Scl(v).op = "scl" /\ Pins!Scl(v).v = v /\ Pins!Sda(v).op = "sda" /\ Pins!Sda(v).v = v
  /\ \A o : Pins!Op(o).op = o
  /\ Pins!Delay.op = "delay"
BY DEF Pins!Scl, Pins!Sda, Pins!Op, Pins!Delay

LEMMA ActsAre ==
  ASSUME NEW o, Acts(o)
  PROVE  /\ o.op \in {"scl", "sda"} => Pins!SetPin
         /\ o.op \in {"in", "out", "sclin", "sclout"} => Pins!SetDir
         /\ o.op \in {"delay", "wait"} => Pins!Wait
         /\ o.op \in {"bit", "ack"} => Pins!ReadPin
         /\ o.op = "end" => Pins!StopOrNot
<1>1. prog # <<>> /\ Head(prog).op = o.op /\ call.fn # "none"
  BY DEF Acts
<1>2. ~Pins!Write /\ ~Pins!Read /\ ~Pins!Return
  BY <1>1 DEF Pins!Write, Pins!Read, Pins!Return
<1>3. Pins!SetPin => o.op \in {"scl", "sda"}
  BY <1>1 DEF Pins!SetPin, Pins!Is
<1>4. Pins!SetDir => o.op \in {"in", "out", "sclin", "sclout"}
  BY <1>1 DEF Pins!SetDir, Pins!Is
<1>5. Pins!Wait => o.op \in {"delay", "wait"}
  BY <1>1 DEF Pins!Wait, Pins!Is
<1>6. Pins!ReadPin => o.op \in {"bit", "ack"}
  BY <1>1 DEF Pins!ReadPin, Pins!Is
<1>7. Pins!StopOrNot => o.op = "end"
  BY <1>1 DEF Pins!StopOrNot, Pins!Is
<1>8. Pins!SetPin \/ Pins!SetDir \/ Pins!Wait \/ Pins!ReadPin \/ Pins!StopOrNot
  BY <1>2 DEF Acts, Pins!Next
<1> QED BY <1>3, <1>4, <1>5, <1>6, <1>7, <1>8

Held == scl' = scl /\ gpioout' = gpioout
LEMMA SetScl ==
  ASSUME Levels, NEW v \in 0..1, Acts(Pins!Scl(v)), "scl" \in outen
  PROVE  /\ Levels' /\ Steps /\ Silent /\ outen' = outen /\ scl' = v
         /\ v = 0 \/ scl = 0 \/ "sda" \in outen => Edge(v)
         /\ gpioout' = [scl |-> v, sda |-> sda]
         /\ sda' = IF "sda" \in outen THEN sda ELSE IF pull' THEN 0 ELSE IF pull THEN 0 ELSE sda
<1> DEFINE o == [scl |-> v, sda |-> sda]
<1>1. Pins!SetPin /\ Head(prog).op = "scl" /\ Head(prog).v = v
  BY ActsAre, OpNames DEF Acts
<1>2. /\ gpioout' = o /\ Pins!Pins(o, outen, scl, sda)
      /\ prog' = Tail(prog) /\ call' = call /\ outen' = outen /\ ch' = ch /\ ack' = ack
  <2>1. [[scl |-> scl, sda |-> sda] EXCEPT !["scl"] = v] = o
    OBVIOUS
  <2> QED BY <1>1, <2>1 DEF Pins!SetPin, Pins!Keep
<1> DEFINE d == IF "sda" \in outen THEN sda ELSE IF pull THEN 0 ELSE sda
<1>3. v = Pins!Level("scl", o, outen, hold, scl) /\ d = Pins!Level("sda", o, outen, pull, sda)
  BY DEF Pins!Level
<1>4. o \in [Both -> 0..1] /\ o["sda"] = sda /\ d \in 0..1 /\ ("sda" \in outen => d = sda)
  BY DEF Both, Levels
<1>5. /\ scl' = v
      /\ v # scl => IF v = 1 THEN Rise ELSE Fall
      /\ v = scl /\ (v # 1 \/ d = sda) => Unmoved
      /\ sda' = IF "sda" \in outen THEN sda ELSE IF pull' THEN 0 ELSE d
  <2> HIDE DEF o, d
  <2> QED BY <1>2, <1>3, <1>4, Turn
<1>6. v = 0 \/ scl = 0 \/ "sda" \in outen => Edge(v)
  <2> HIDE DEF o, d
  <2> QED BY <1>4, <1>5 DEF Edge
<1>7. Levels'
  <2> HIDE DEF o, d
  <2>1. sda' \in 0..1
    BY <1>4, <1>5 DEF Levels
  <2> QED BY <2>1, <1>2, <1>4, <1>5 DEF Levels
<1> QED BY <1>2, <1>5, <1>6, <1>7 DEF Steps, Silent

LEMMA SetSda ==
  ASSUME Levels, NEW v \in 0..1, Acts(Pins!Sda(v)), outen = Both
  PROVE  /\ Levels' /\ Steps /\ Silent /\ outen' = outen /\ scl' = scl /\ sda' = v
         /\ gpioout' = [scl |-> scl, sda |-> v]
         /\ IF scl = 1 /\ v # sda THEN Pins!Becomes(Pins!Condition(sda, v)) ELSE Unmoved
<1> DEFINE o == [scl |-> scl, sda |-> v]
<1>1. Pins!SetPin /\ Head(prog).op = "sda" /\ Head(prog).v = v
  BY ActsAre, OpNames DEF Acts
<1>2. /\ gpioout' = o /\ Pins!Pins(o, outen, scl, sda)
      /\ prog' = Tail(prog) /\ call' = call /\ outen' = outen /\ ch' = ch /\ ack' = ack
  <2>1. [[scl |-> scl, sda |-> sda] EXCEPT !["sda"] = v] = o
    OBVIOUS
  <2> QED BY <1>1, <2>1 DEF Pins!SetPin, Pins!Keep
<1>3. scl = Pins!Level("scl", o, outen, hold, scl) /\ v = Pins!Level("sda", o, outen, pull, sda)
  BY DEF Pins!Level, Both
<1>4. o \in [Both -> 0..1] /\ o["sda"] = v /\ "sda" \in outen
  BY DEF Both, Levels
<1>5. /\ scl' = scl
      /\ scl = 1 /\ v # sda => Pins!Becomes(Pins!Condition(sda, v))
      /\ scl # 1 \/ v = sda => Unmoved
      /\ sda' = v
  <2> HIDE DEF o
  <2> QED BY <1>2, <1>3, <1>4, Turn
<1>6. Levels'
  <2> HIDE DEF o
  <2> QED BY <1>2, <1>4, <1>5 DEF Levels
<1> QED BY <1>2, <1>5, <1>6 DEF Steps, Silent

LEMMA DelayStep ==
  ASSUME Levels, Acts(Pins!Delay), "scl" \in outen, gpioout["scl"] = scl
  PROVE  /\ Levels' /\ Steps /\ Silent /\ outen' = outen /\ Held
         /\ "sda" \in outen /\ gpioout["sda"] = sda => Unmoved /\ sda' = sda
         /\ "sda" \notin outen /\ (scl = 0 \/ sda = IF pull THEN 0 ELSE 1) =>
              Unmoved /\ pull' = pull /\ sda' = IF pull THEN 0 ELSE 1
<1>1. Pins!Wait /\ Head(prog).op = "delay"
  BY ActsAre, OpNames DEF Acts
<1>2. /\ Pins!Pins(gpioout, outen, 1, 1) /\ gpioout' = gpioout
      /\ prog' = Tail(prog) /\ call' = call /\ outen' = outen /\ ch' = ch /\ ack' = ack
  BY <1>1 DEF Pins!Wait, Pins!Keep, Pins!Is, Pins!master
<1> DEFINE d == IF "sda" \in outen THEN gpioout["sda"] ELSE IF pull THEN 0 ELSE 1
<1>3. scl = Pins!Level("scl", gpioout, outen, hold, 1) /\ d = Pins!Level("sda", gpioout, outen, pull, 1)
  BY DEF Pins!Level
<1>4. d \in 0..1 /\ gpioout["sda"] \in 0..1
  BY DEF Levels, Both
<1>5. /\ scl' = scl
      /\ scl # 1 \/ d = sda => Unmoved
      /\ sda' = IF "sda" \in outen THEN gpioout["sda"] ELSE IF pull' THEN 0 ELSE d
  <2> HIDE DEF d
  <2> QED BY <1>2, <1>3, Turn
<1>6. Levels'
  <2>1. sda' \in 0..1
    <3> HIDE DEF d
    <3> QED BY <1>4, <1>5
  <2> QED BY <2>1, <1>2, <1>5 DEF Levels
<1>7. "sda" \in outen /\ gpioout["sda"] = sda => Unmoved /\ sda' = sda
  BY <1>5
<1>8. ASSUME "sda" \notin outen, scl = 0 \/ sda = IF pull THEN 0 ELSE 1
      PROVE  Unmoved /\ pull' = pull /\ sda' = IF pull THEN 0 ELSE 1
  <2>1. d = IF pull THEN 0 ELSE 1
    BY <1>8
  <2> HIDE DEF d
  <2>2. Unmoved
    BY <1>5, <1>8, <2>1
  <2>3. pull' = pull
    BY <2>2 DEF Unmoved
  <2> QED BY <1>5, <1>8, <2>1, <2>2, <2>3
<1> QED BY <1>2, <1>5, <1>6, <1>7, <1>8 DEF Steps, Silent, Held

Aims(en) == Pins!Pins(gpioout, en, scl, sda) /\ outen' = en /\ gpioout' = gpioout
LEMMA DirIs ==
  ASSUME NEW o, Acts(o)
  PROVE  /\ o = Pins!Op("in") => Steps /\ Silent /\ Aims(outen \ {"sda"})
         /\ o = Pins!Op("out") => Steps /\ Silent /\ Aims(outen \cup {"sda"})
         /\ o = Pins!Op("sclin") => Steps /\ Silent /\ Aims(outen \ {"scl"})
         /\ o = Pins!Op("sclout") => Steps /\ Silent /\ Aims(outen \cup {"scl"})
<1>1. Head(prog).op = o.op
  BY DEF Acts
<1>2. ASSUME o.op \in {"in", "out", "sclin", "sclout"} PROVE Pins!SetDir
  BY <1>2, ActsAre
<1>3. ASSUME o.op \in {"in", "out", "sclin", "sclout"} PROVE Steps /\ Silent /\ Pins!Pins(gpioout, outen', scl, sda) /\ gpioout' = gpioout
  BY <1>2, <1>3 DEF Pins!SetDir, Pins!Keep, Steps, Silent
<1>4. /\ o.op = "in" => outen' = outen \ {"sda"}
      /\ o.op = "out" => outen' = outen \cup {"sda"}
      /\ o.op = "sclin" => outen' = outen \ {"scl"}
      /\ o.op = "sclout" => outen' = outen \cup {"scl"}
  BY <1>1, <1>2 DEF Pins!SetDir, Pins!Is
<1> QED BY <1>3, <1>4, OpNames DEF Aims

LEMMA InStep ==
  ASSUME Levels, Acts(Pins!Op("in")), outen \in {Both, {"scl"}}, gpioout["scl"] = scl, scl = 0 \/ ~pull
  PROVE  /\ Levels' /\ Steps /\ Silent /\ outen' = {"scl"} /\ Held /\ Unmoved
<1>1. Steps /\ Silent /\ Aims(outen \ {"sda"})
  BY DirIs
<1>2. outen \ {"sda"} = {"scl"}
  BY DEF Both
<1>3. /\ outen' = {"scl"} /\ gpioout' = gpioout /\ Pins!Pins(gpioout, {"scl"}, scl, sda)
  BY <1>1, <1>2 DEF Aims
<1> DEFINE d == IF pull THEN 0 ELSE sda
<1>4. scl = Pins!Level("scl", gpioout, {"scl"}, hold, scl) /\ d = Pins!Level("sda", gpioout, {"scl"}, pull, sda)
  BY DEF Pins!Level
<1>5. d \in 0..1 /\ (~pull => d = sda)
  BY DEF Levels
<1>6. /\ scl' = scl /\ (scl # 1 \/ d = sda => Unmoved)
      /\ sda' = IF pull' THEN 0 ELSE d
  <2> HIDE DEF d
  <2>1. "sda" \notin {"scl"}
    OBVIOUS
  <2> QED BY <1>3, <1>4, <2>1, Turn
<1> HIDE DEF d
<1>7. Levels'
  BY <1>1, <1>3, <1>5, <1>6 DEF Levels, Silent
<1> QED BY <1>1, <1>3, <1>5, <1>6, <1>7 DEF Held

LEMMA OutStep ==
  ASSUME Levels, Acts(Pins!Op("out")), outen \in {Both, {"scl"}}, gpioout["scl"] = scl, scl = 0 \/ gpioout["sda"] = sda
  PROVE  /\ Levels' /\ Steps /\ Silent /\ outen' = Both /\ Held /\ Unmoved /\ sda' = gpioout["sda"]
<1>1. Steps /\ Silent /\ Aims(outen \cup {"sda"})
  BY DirIs
<1>2. outen \cup {"sda"} = Both
  BY DEF Both
<1>3. /\ outen' = Both /\ gpioout' = gpioout /\ Pins!Pins(gpioout, Both, scl, sda)
  BY <1>1, <1>2 DEF Aims
<1> DEFINE d == gpioout["sda"]
<1>4. scl = Pins!Level("scl", gpioout, Both, hold, scl) /\ d = Pins!Level("sda", gpioout, Both, pull, sda)
  BY DEF Pins!Level, Both
<1>5. d \in 0..1 /\ "sda" \in Both
  BY DEF Levels, Both
<1>6. /\ scl' = scl /\ (scl # 1 \/ d = sda => Unmoved)
      /\ sda' = d
  <2> HIDE DEF d
  <2>1. /\ scl' = scl /\ (scl # 1 \/ d = sda => Unmoved)
    BY <1>3, <1>4, Turn
  <2>2. sda' = gpioout["sda"]
    BY <1>3, <1>4, <1>5, Turn
  <2> QED BY <2>1, <2>2 DEF d
<1>7. Levels'
  <2> HIDE DEF d
  <2> QED BY <1>1, <1>3, <1>5, <1>6 DEF Levels, Silent
<1> QED BY <1>1, <1>3, <1>5, <1>6, <1>7 DEF Held

LEMMA SclInStep ==
  ASSUME Levels, Acts(Pins!Op("sclin")), outen = {"scl"}, scl = 0
  PROVE  /\ Levels' /\ Steps /\ Silent /\ outen' = {} /\ Held /\ Unmoved
<1>1. Steps /\ Silent /\ Aims(outen \ {"scl"})
  BY DirIs
<1>2. /\ outen' = {} /\ gpioout' = gpioout /\ Pins!Pins(gpioout, {}, scl, sda)
  <2>1. outen \ {"scl"} = {}
    OBVIOUS
  <2> QED BY <2>1, <1>1 DEF Aims
<1> DEFINE d == IF pull THEN 0 ELSE sda
<1>3. scl = Pins!Level("scl", gpioout, {}, hold, scl) /\ d = Pins!Level("sda", gpioout, {}, pull, sda)
  BY DEF Pins!Level
<1>4. d \in 0..1
  BY DEF Levels
<1>5. scl' = scl /\ Unmoved /\ sda' = IF pull' THEN 0 ELSE d
  <2> HIDE DEF d
  <2>1. "sda" \notin {}
    OBVIOUS
  <2> QED BY <1>2, <1>3, <2>1, Turn
<1> HIDE DEF d
<1>6. Levels'
  BY <1>1, <1>2, <1>4, <1>5 DEF Levels, Silent
<1> QED BY <1>1, <1>2, <1>5, <1>6 DEF Held

LEMMA SclOutStep ==
  ASSUME Levels, Acts(Pins!Op("sclout")), outen = {}, scl = 1, gpioout["scl"] = 0
  PROVE  /\ Levels' /\ Steps /\ Silent /\ outen' = {"scl"} /\ scl' = 0 /\ gpioout' = gpioout /\ Fall
<1>1. Steps /\ Silent /\ Aims(outen \cup {"scl"})
  BY DirIs
<1>2. /\ outen' = {"scl"} /\ gpioout' = gpioout /\ Pins!Pins(gpioout, {"scl"}, scl, sda)
  <2>1. outen \cup {"scl"} = {"scl"}
    OBVIOUS
  <2> QED BY <2>1, <1>1 DEF Aims
<1> DEFINE d == IF pull THEN 0 ELSE sda
<1> DEFINE c == 0
<1>3. c = Pins!Level("scl", gpioout, {"scl"}, hold, scl) /\ d = Pins!Level("sda", gpioout, {"scl"}, pull, sda)
  BY DEF Pins!Level
<1>4. d \in 0..1
  BY DEF Levels
<1>5. scl' = c /\ (c # scl => IF c = 1 THEN Rise ELSE Fall) /\ sda' = IF pull' THEN 0 ELSE d
  <2> HIDE DEF d, c
  <2>1. "sda" \notin {"scl"}
    OBVIOUS
  <2> QED BY <1>2, <1>3, <2>1, Turn
<1> HIDE DEF d
<1>6. Levels'
  BY <1>1, <1>2, <1>4, <1>5 DEF Levels, Silent
<1> QED BY <1>1, <1>2, <1>5, <1>6

LEMMA WaitStep ==
  ASSUME Levels, Acts(Pins!Op("wait")), outen = {}
  PROVE  /\ Levels' /\ call' = call /\ Silent /\ outen' = outen /\ gpioout' = gpioout
         /\ scl = 1 => prog' = Tail(prog) /\ scl' = scl /\ sda' = sda /\ Unmoved
         /\ scl = 0 => /\ prog' = prog
                       /\ (scl' = 1 /\ Rise) \/ (scl' = 0 /\ Unmoved)
                       /\ sda' = IF pull' THEN 0 ELSE IF pull THEN 0 ELSE 1
<1>1. Pins!Wait /\ Head(prog).op = "wait"
  BY ActsAre, OpNames DEF Acts
<1>2. /\ prog' = IF scl = 1 THEN Tail(prog) ELSE prog
      /\ IF scl = 1 THEN UNCHANGED <<scl, sda, Pins!device>> ELSE Pins!Pins(gpioout, outen, 1, 1)
      /\ gpioout' = gpioout /\ call' = call /\ outen' = outen /\ ch' = ch /\ ack' = ack
  BY <1>1 DEF Pins!Wait, Pins!Keep, Pins!Is, Pins!master
<1>3. scl = 1 => scl' = scl /\ sda' = sda /\ Unmoved
  BY <1>2 DEF Pins!device, Unmoved
<1> DEFINE c == IF hold THEN 0 ELSE 1
<1> DEFINE d == IF pull THEN 0 ELSE 1
<1>4. c = Pins!Level("scl", gpioout, outen, hold, 1) /\ d = Pins!Level("sda", gpioout, outen, pull, 1)
  BY DEF Pins!Level
<1>5. ASSUME scl = 0
      PROVE  /\ (scl' = 1 /\ Rise) \/ (scl' = 0 /\ Unmoved)
             /\ sda' = IF pull' THEN 0 ELSE d
  <2>1. c \in 0..1 /\ Pins!Pins(gpioout, outen, 1, 1) /\ "sda" \notin outen
    BY <1>2, <1>5
  <2> HIDE DEF c, d
  <2>2. /\ scl' = c /\ (c # scl => IF c = 1 THEN Rise ELSE Fall) /\ (c = scl /\ (c # 1 \/ d = sda) => Unmoved)
        /\ sda' = IF pull' THEN 0 ELSE d
    BY <2>1, <1>4, Turn
  <2>3. c = 1 => scl' = 1 /\ Rise
    BY <2>2, <1>5
  <2>4. c = 0 => scl' = 0 /\ Unmoved
    BY <2>2, <1>5
  <2>5. c = 0 \/ c = 1
    BY <2>1
  <2> QED BY <2>2, <2>3, <2>4, <2>5
<1>6. Levels'
  <2>1. scl \in 0..1 /\ d \in 0..1
    BY DEF Levels
  <2> HIDE DEF d
  <2> QED BY <2>1, <1>2, <1>3, <1>5 DEF Levels
<1> QED BY <1>2, <1>3, <1>5, <1>6 DEF Silent

LEMMA LookStep ==
  ASSUME Levels, NEW o \in {"bit", "ack"}, Acts(Pins!Op(o))
  PROVE  /\ Levels' /\ Steps /\ outen' = outen /\ Held /\ sda' = sda /\ Unmoved
         /\ IF o = "bit" THEN ch' = Append(ch, sda) /\ ack' = ack ELSE ack' = 1 - sda /\ ch' = ch
<1>1. Pins!ReadPin /\ Head(prog).op = o
  BY ActsAre, OpNames DEF Acts
<1>2. /\ prog' = Tail(prog) /\ call' = call /\ outen' = outen /\ gpioout' = gpioout /\ scl' = scl /\ sda' = sda
      /\ Unmoved
      /\ IF o = "bit" THEN ch' = Append(ch, sda) /\ ack' = ack ELSE ack' = 1 - sda /\ ch' = ch
  BY <1>1 DEF Pins!ReadPin, Pins!Keep, Pins!Is, Pins!device, Unmoved
<1>3. Levels'
  BY <1>2 DEF Levels
<1> QED BY <1>2, <1>3 DEF Steps, Held

-----------------------------------------------------------------------------
(* The pins and the slave at every access of a call.  The levels are those *)
(* of the program: it drives both pins, or SCL alone, or none.             *)
Drives(c, d) == outen = Both /\ scl = c /\ sda = d /\ gpioout = [scl |-> c, sda |-> d]
Listens(c) == outen = {"scl"} /\ scl = c /\ gpioout.scl = c
Floats(c) == outen = {} /\ scl = c /\ gpioout.scl = 0
Shows == sda = IF pull THEN 0 ELSE 1
(* The slave has taken m bits of b; sends bit k after m; is left alone.    *)
Receives(b, m) == slave = "rx" /\ ~pull /\ n = m /\ bits \in Seq(0..1) /\ Len(bits) = m /\ \A k \in 1..m : bits[k] = b[k]
Transmits(m, k) == slave = "tx" /\ n = m /\ bits \in Pins!Bytes /\ (pull <=> bits[k] = 0)
Leaves == slave = "off" /\ ~pull
Quiet == slave \in {"off", "rx"} /\ ~pull
Took(m) == ch \in Seq(0..1) /\ Len(ch) = m /\ \A k \in 1..m : ch[k] = bits[k]
Waits == slave = "wait" /\ ~pull /\ heard = [byte |-> ch, ack |-> TRUE]
Reads == call.start /\ call.byte[BITS] = 1

Freed == Drives(1, 1) /\ Leaves
ToWrite == Listens(0) /\ Receives(<<>>, 0) /\ ~read
ToRead == scl = 0 /\ gpioout.scl = 0 /\ outen \in {Both, {"scl"}} /\ Transmits(0, 1)

Between ==
  /\ prog = <<>> /\ call = [fn |-> "none"]
  /\ \/ rw = "start" /\ Freed
     \/ rw = "write" /\ ToWrite
     \/ rw = "read" /\ ToRead

(* i2c_write: the call, and where its program is.                          *)
Writes ==
  /\ call.fn = "write" /\ call.byte \in Pins!Bytes /\ call.start \in BOOLEAN /\ call.stop \in BOOLEAN
  /\ Reads => ~call.stop
WriteRest(k) == Rest(Pins!WriteProg(call.byte, call.start), k)
Same == heard.byte = call.byte /\ heard.ack \in BOOLEAN /\ (heard.ack <=> ack = 1)
Answers ==
  /\ slave \in {"ack", "nack"} /\ (pull <=> slave = "ack") /\ (read <=> call.start)
  /\ heard.byte = call.byte /\ heard.ack \in BOOLEAN /\ (heard.ack <=> slave = "ack")
  /\ bits[BITS] = call.byte[BITS]
Answered ==
  /\ Same
  /\ ack = 0 => Leaves
  /\ ack = 1 => IF Reads THEN Transmits(0, 1) ELSE Receives(<<>>, 0) /\ ~read
AtHead ==
  \/ call.start /\ \E k \in 1..2 : prog = WriteRest(k) /\ Freed
  \/ call.start /\ prog = WriteRest(3) /\ Drives(1, 0) /\ Receives(call.byte, 0) /\ read
  \/ ~call.start /\ prog = WriteRest(1) /\ ToWrite
  \/ ~call.start /\ prog = WriteRest(2) /\ Drives(0, sda) /\ Receives(call.byte, 0) /\ ~read
AtBit(i) ==
  /\ (read <=> call.start)
  /\ \/ prog = WriteRest(BitAt(call.start, i, 1)) /\ Drives(scl, sda) /\ Receives(call.byte, i - 1)
     \/ prog = WriteRest(BitAt(call.start, i, 2)) /\ Drives(0, sda) /\ Receives(call.byte, i - 1)
     \/ \E j \in 3..4 : prog = WriteRest(BitAt(call.start, i, j)) /\ Drives(0, call.byte[i]) /\ Receives(call.byte, i - 1)
     \/ prog = WriteRest(BitAt(call.start, i, 5)) /\ Drives(1, call.byte[i]) /\ Receives(call.byte, i)
AtTell ==
  \/ prog = WriteRest(TellAt(call.start, 1)) /\ (read <=> call.start) /\ Drives(1, sda) /\ Receives(call.byte, BITS)
  \/ prog = WriteRest(TellAt(call.start, 2)) /\ (read <=> call.start) /\ Listens(1) /\ Receives(call.byte, BITS)
  \/ prog = WriteRest(TellAt(call.start, 3)) /\ Listens(0) /\ Answers
  \/ prog = WriteRest(TellAt(call.start, 4)) /\ Listens(0) /\ Answers /\ Shows
  \/ prog = WriteRest(TellAt(call.start, 5)) /\ Listens(1) /\ Answers /\ Shows
  \/ \E j \in 6..7 : prog = WriteRest(TellAt(call.start, j)) /\ Listens(1) /\ Answers /\ Shows /\ (ack = 1 <=> pull)
  \/ \E j \in 8..9 : prog = WriteRest(TellAt(call.start, j)) /\ Listens(0) /\ Answered
StopRest(k) == Rest(Pins!StopProg, k)
AtStop ==
  /\ call.stop \/ ack = 0
  /\ Same
  /\ \/ prog = StopRest(1) /\ Listens(0) /\ Quiet
     \/ prog = StopRest(2) /\ Drives(0, sda) /\ Quiet
     \/ prog = StopRest(3) /\ Drives(0, 0) /\ Quiet
     \/ \E k \in 4..5 : prog = StopRest(k) /\ Drives(1, 0) /\ Quiet
     \/ prog = <<>> /\ Freed
WriteDone == prog = <<>> /\ ~call.stop /\ ack = 1 /\ Listens(0) /\ Answered
InWrite == Writes /\ (AtHead \/ (\E i \in 1..BITS : AtBit(i)) \/ AtTell \/ AtStop \/ WriteDone)

(* i2c_read.                                                               *)
ReadRest(k) == Rest(Pins!ReadProg(call.stop), k)
AtAsk ==
  \/ prog = ReadRest(1) /\ ToRead /\ Took(0)
  \/ prog = ReadRest(2) /\ Listens(0) /\ Transmits(0, 1) /\ Took(0)
  \/ prog = ReadRest(3) /\ Took(0) /\ ((Floats(0) /\ Transmits(0, 1)) \/ (Floats(1) /\ Transmits(1, 1) /\ Shows))
  \/ prog = ReadRest(4) /\ Took(0) /\ Floats(1) /\ Transmits(1, 1) /\ Shows
  \/ prog = ReadRest(5) /\ Took(1) /\ Floats(1) /\ Transmits(1, 1)
AtMore(i) ==
  \/ prog = ReadRest(5 * i + 1) /\ Took(i) /\ ((Listens(1) /\ Transmits(i, i)) \/ (Listens(0) /\ Transmits(i, i + 1)))
  \/ prog = ReadRest(5 * i + 2) /\ Took(i) /\ Listens(0) /\ Transmits(i, i + 1)
  \/ prog = ReadRest(5 * i + 3) /\ Took(i) /\ Listens(0) /\ Transmits(i, i + 1) /\ Shows
  \/ prog = ReadRest(5 * i + 4) /\ Took(i) /\ Listens(1) /\ Transmits(i + 1, i + 1) /\ Shows
  \/ prog = ReadRest(5 * i + 5) /\ Took(i + 1) /\ Listens(1) /\ Transmits(i + 1, i + 1) /\ Shows
Heard == heard.byte = ch /\ heard.ack
AtLast ==
  \/ prog = ReadRest(5 * BITS + 1) /\ ((Listens(1) /\ Transmits(BITS, BITS) /\ Took(BITS)) \/ (Listens(0) /\ Waits))
  \/ prog = ReadRest(5 * BITS + 2) /\ Listens(0) /\ Waits
  \/ prog = ReadRest(5 * BITS + 3) /\ Drives(0, sda) /\ Waits
  \/ \E j \in 4..5 : prog = ReadRest(5 * BITS + j) /\ Drives(0, Reply(call.stop)) /\ Waits
  \/ \E j \in 6..7 : prog = ReadRest(5 * BITS + j) /\ Drives(1, Reply(call.stop)) /\ Heard /\ ~pull
                     /\ slave = IF call.stop THEN "off" ELSE "more"
  \/ /\ prog \in {ReadRest(5 * BITS + 8), <<>>}
     /\ ~call.stop /\ Drives(0, 0) /\ Transmits(0, 1) /\ Heard
  \/ \E j \in 8..9 : prog = ReadRest(5 * BITS + j) /\ call.stop /\ Drives(0, 1) /\ Leaves /\ Heard
  \/ (\E j \in 10..12 : prog = ReadRest(5 * BITS + j)) /\ call.stop /\ Freed /\ Heard
  \/ prog = <<>> /\ call.stop /\ Freed /\ Heard
InRead ==
  /\ call.fn = "read" /\ call.stop \in BOOLEAN
  /\ AtAsk \/ (\E i \in 1..BITS - 1 : AtMore(i)) \/ AtLast

PinsInv ==
  /\ Levels
  /\ Between \/ InWrite \/ InRead

LEMMA At ==
  ASSUME NEW P, NEW k, NEW o, StepAt(P, k, o), prog = Rest(P, k), call.fn # "none", Pins!Next, ~Pins!LetGo
  PROVE  Acts(o) /\ Tail(prog) = Rest(P, k + 1)
BY DEF StepAt, Acts

LEMMA Appended ==
  ASSUME NEW S, NEW s \in Seq(S), NEW x \in S
  PROVE  /\ Append(s, x) \in Seq(S) /\ Len(Append(s, x)) = Len(s) + 1
         /\ \A k \in 1..Len(s) : Append(s, x)[k] = s[k]
         /\ Append(s, x)[Len(s) + 1] = x
BY AppendProperties

(* The bits that i2c_write puts out, and the slave takes in.               *)
LEMMA BitStep ==
  ASSUME Levels, Writes, NEW i \in 1..BITS, AtBit(i), Pins!Next, ~Pins!LetGo
  PROVE  Levels' /\ call' = call /\ (AtBit(i)' \/ (i + 1 \in 1..BITS /\ AtBit(i + 1)') \/ AtTell')
<1> DEFINE P == Pins!WriteProg(call.byte, call.start)
<1> DEFINE b == call.byte
<1> DEFINE st == call.start
<1>0. /\ call.fn # "none" /\ b \in Pins!Bytes /\ st \in BOOLEAN /\ b[i] \in 0..1
      /\ BITS \in Nat /\ i \in Nat /\ i - 1 \in Nat /\ HeadLen(st) \in Nat /\ i - 1 < BITS
  BY PinsConstants DEF Writes, Pins!Bytes, HeadLen
<1>1. /\ StepAt(P, BitAt(st, i, 1), Pins!Scl(0)) /\ StepAt(P, BitAt(st, i, 2), Pins!Sda(b[i]))
      /\ StepAt(P, BitAt(st, i, 3), Pins!Delay) /\ StepAt(P, BitAt(st, i, 4), Pins!Scl(1))
      /\ StepAt(P, BitAt(st, i, 5), Pins!Delay)
  BY <1>0, WriteSteps
<1>2. /\ BitAt(st, i, 1) + 1 = BitAt(st, i, 2) /\ BitAt(st, i, 2) + 1 = BitAt(st, i, 3)
      /\ BitAt(st, i, 3) + 1 = BitAt(st, i, 4) /\ BitAt(st, i, 4) + 1 = BitAt(st, i, 5)
      /\ BitAt(st, i, 5) + 1 = BitAt(st, i + 1, 1) /\ (i = BITS => BitAt(st, i, 5) + 1 = TellAt(st, 1))
  BY <1>0 DEF BitAt, TellAt
<1>3. (read <=> st)
  BY DEF AtBit
<1> HIDE DEF P, b, st
<1>4. CASE prog = Rest(P, BitAt(st, i, 1)) /\ Drives(scl, sda) /\ Receives(b, i - 1)
  <2>1. Acts(Pins!Scl(0)) /\ Tail(prog) = Rest(P, BitAt(st, i, 2))
    BY <1>0, <1>1, <1>2, <1>4, At
  <2>2. outen = Both /\ "scl" \in outen /\ "sda" \in outen
    BY <1>4 DEF Drives, Both
  <2>3. /\ Levels' /\ Steps /\ Silent /\ outen' = outen /\ scl' = 0 /\ Edge(0)
        /\ gpioout' = [scl |-> 0, sda |-> sda] /\ sda' = sda
    <3>1. 0 \in 0..1
      OBVIOUS
    <3> QED BY <3>1, <2>1, <2>2, SetScl
  <2>4. Unmoved
    <3>1. scl = 1 => Fall
      BY <2>3 DEF Edge
    <3>2. slave = "rx" /\ n # BITS
      BY <1>0, <1>4 DEF Receives
    <3>3. scl # 1 => Unmoved
      BY <2>3 DEF Edge, Levels
    <3> QED BY <3>1, <3>2, <3>3, FallIs
  <2>5. Drives(0, sda)' /\ Receives(b, i - 1)' /\ (read' <=> st) /\ prog' = Rest(P, BitAt(st, i, 2)) /\ call' = call
    BY <2>1, <2>2, <2>3, <2>4, <1>3, <1>4 DEF Drives, Receives, Unmoved, Steps, b
  <2>6. AtBit(i)'
    BY <2>5 DEF AtBit, WriteRest, P, b, st
  <2> QED BY <2>3, <2>5, <2>6
<1>5. CASE prog = Rest(P, BitAt(st, i, 2)) /\ Drives(0, sda) /\ Receives(b, i - 1)
  <2>1. Acts(Pins!Sda(b[i])) /\ Tail(prog) = Rest(P, BitAt(st, i, 3))
    BY <1>0, <1>1, <1>2, <1>5, At
  <2>2. outen = Both /\ scl = 0
    BY <1>5 DEF Drives
  <2>3. /\ Levels' /\ Steps /\ Silent /\ outen' = outen /\ scl' = 0 /\ Unmoved
        /\ gpioout' = [scl |-> 0, sda |-> b[i]] /\ sda' = b[i]
    BY <1>0, <2>1, <2>2, SetSda
  <2>4. Drives(0, b[i])' /\ Receives(b, i - 1)' /\ (read' <=> st) /\ prog' = Rest(P, BitAt(st, i, 3)) /\ call' = call
    BY <2>1, <2>2, <2>3, <1>3, <1>5 DEF Drives, Receives, Unmoved, Steps, b
  <2>5. AtBit(i)'
    BY <2>4 DEF AtBit, WriteRest, P, b, st
  <2> QED BY <2>3, <2>4, <2>5
<1>6. CASE prog = Rest(P, BitAt(st, i, 3)) /\ Drives(0, b[i]) /\ Receives(b, i - 1)
  <2>1. Acts(Pins!Delay) /\ Tail(prog) = Rest(P, BitAt(st, i, 4))
    BY <1>0, <1>1, <1>2, <1>6, At
  <2>2. outen = Both /\ "scl" \in outen /\ "sda" \in outen /\ gpioout["scl"] = scl /\ gpioout["sda"] = sda
    BY <1>6 DEF Drives, Both
  <2>3. Levels' /\ Steps /\ Silent /\ outen' = outen /\ Held /\ Unmoved /\ sda' = sda
    BY <2>1, <2>2, DelayStep
  <2>4. Drives(0, b[i])' /\ Receives(b, i - 1)' /\ (read' <=> st) /\ prog' = Rest(P, BitAt(st, i, 4)) /\ call' = call
    BY <2>1, <2>2, <2>3, <1>3, <1>6 DEF Drives, Receives, Unmoved, Steps, Held, b
  <2>5. AtBit(i)'
    BY <2>4 DEF AtBit, WriteRest, P, b, st
  <2> QED BY <2>3, <2>4, <2>5
<1>7. CASE prog = Rest(P, BitAt(st, i, 4)) /\ Drives(0, b[i]) /\ Receives(b, i - 1)
  <2>1. Acts(Pins!Scl(1)) /\ Tail(prog) = Rest(P, BitAt(st, i, 5))
    BY <1>0, <1>1, <1>2, <1>7, At
  <2>2. outen = Both /\ "scl" \in outen /\ "sda" \in outen /\ scl = 0 /\ sda = b[i]
    BY <1>7 DEF Drives, Both
  <2>3. /\ Levels' /\ Steps /\ Silent /\ outen' = outen /\ scl' = 1 /\ Edge(1)
        /\ gpioout' = [scl |-> 1, sda |-> sda] /\ sda' = sda
    <3>1. 1 \in 0..1
      OBVIOUS
    <3> QED BY <3>1, <2>1, <2>2, SetScl
  <2>4. /\ slave' = "rx" /\ n' = n + 1 /\ bits' = Append(bits, sda)
        /\ read' = read /\ pull' = pull /\ heard' = heard
    <3>1. Rise
      BY <2>2, <2>3 DEF Edge
    <3> QED BY <3>1, <1>7, RiseIs DEF Receives
  <2>5. Receives(b, i)'
    <3>1. /\ bits' \in Seq(0..1) /\ Len(bits') = Len(bits) + 1 /\ bits'[Len(bits) + 1] = sda
          /\ \A k \in 1..Len(bits) : bits'[k] = bits[k]
      BY <2>2, <2>4, <1>0, <1>7, Appended DEF Receives
    <3>2. Len(bits) = i - 1 /\ Len(bits) + 1 = i /\ \A k \in 1..i - 1 : bits[k] = b[k]
      BY <1>0, <1>7 DEF Receives
    <3>3. \A k \in 1..i : k \in 1..i - 1 \/ k = i
      BY <1>0
    <3>4. \A k \in 1..i : bits'[k] = b[k]
      BY <3>1, <3>2, <3>3, <2>2
    <3>5. slave' = "rx" /\ ~pull' /\ n' = i /\ Len(bits') = i
      BY <2>4, <3>1, <3>2, <1>0, <1>7 DEF Receives
    <3>6. b' = b
      BY <2>3 DEF b, Steps
    <3> QED BY <3>1, <3>4, <3>5, <3>6 DEF Receives
  <2>6. Drives(1, b[i])' /\ (read' <=> st) /\ prog' = Rest(P, BitAt(st, i, 5)) /\ call' = call
    BY <2>1, <2>2, <2>3, <2>4, <1>3 DEF Drives, Steps, b
  <2>7. AtBit(i)'
    BY <2>5, <2>6 DEF AtBit, WriteRest, P, b, st
  <2> QED BY <2>3, <2>6, <2>7
<1>8. CASE prog = Rest(P, BitAt(st, i, 5)) /\ Drives(1, b[i]) /\ Receives(b, i)
  <2>1. Acts(Pins!Delay) /\ Tail(prog) = Rest(P, BitAt(st, i, 5) + 1)
    BY <1>0, <1>1, <1>8, At
  <2>2. outen = Both /\ "scl" \in outen /\ "sda" \in outen /\ gpioout["scl"] = scl /\ gpioout["sda"] = sda
    BY <1>8 DEF Drives, Both
  <2>3. Levels' /\ Steps /\ Silent /\ outen' = outen /\ Held /\ Unmoved /\ sda' = sda
    BY <2>1, <2>2, DelayStep
  <2>4. Drives(1, sda)' /\ Receives(b, i)' /\ (read' <=> st) /\ prog' = Rest(P, BitAt(st, i, 5) + 1) /\ call' = call
    BY <2>1, <2>2, <2>3, <1>3, <1>8 DEF Drives, Receives, Unmoved, Steps, Held, b
  <2>5. CASE i = BITS
    <3>1. prog' = Rest(P, TellAt(st, 1)) /\ Receives(b, BITS)'
      BY <2>4, <2>5, <1>2
    <3>2. AtTell'
      BY <2>4, <3>1 DEF AtTell, WriteRest, P, b, st
    <3> QED BY <2>3, <2>4, <3>2
  <2>6. CASE i # BITS
    <3>1. i + 1 \in 1..BITS /\ (i + 1) - 1 = i
      BY <2>6, <1>0
    <3>2. prog' = Rest(P, BitAt(st, i + 1, 1)) /\ Receives(b, (i + 1) - 1)' /\ Drives(scl, sda)'
      BY <2>4, <3>1, <1>2 DEF Drives
    <3>3. AtBit(i + 1)'
      BY <2>4, <3>2 DEF AtBit, WriteRest, P, b, st
    <3> QED BY <2>3, <2>4, <3>1, <3>3
  <2> QED BY <2>5, <2>6
<1> QED BY <1>4, <1>5, <1>6, <1>7, <1>8 DEF AtBit, WriteRest, P, b, st

LEMMA BothLevels ==
  ASSUME Levels
  PROVE  gpioout = [scl |-> gpioout["scl"], sda |-> gpioout["sda"]]
BY DEF Levels, Both

LEMMA NoBits == <<>> \in Seq(0..1) /\ Len(<<>>) = 0
BY EmptySeq

(* The start condition, if there is one, and the turn of the pins.         *)
LEMMA HeadStep ==
  ASSUME Levels, Writes, AtHead, Pins!Next, ~Pins!LetGo
  PROVE  Levels' /\ call' = call /\ (AtHead' \/ AtBit(1)')
<1> DEFINE P == Pins!WriteProg(call.byte, call.start)
<1> DEFINE b == call.byte
<1> DEFINE st == call.start
<1>0. call.fn # "none" /\ b \in Pins!Bytes /\ st \in BOOLEAN
  BY DEF Writes
<1>1. /\ StepAt(P, 1, Pins!Op("out"))
      /\ st => StepAt(P, 2, Pins!Sda(0)) /\ StepAt(P, 3, Pins!Delay)
      /\ ~st => StepAt(P, 2, Pins!Delay)
  BY <1>0, WriteSteps
<1>2. /\ 1 + 1 = 2 /\ 2 + 1 = 3 /\ (st => 3 + 1 = BitAt(st, 1, 1)) /\ (~st => 2 + 1 = BitAt(st, 1, 1)) /\ 1 - 1 = 0
  BY DEF BitAt, HeadLen
<1> HIDE DEF P, b, st
<1>3. CASE st /\ prog = Rest(P, 1) /\ Freed
  <2>1. Acts(Pins!Op("out")) /\ Tail(prog) = Rest(P, 2)
    BY <1>0, <1>1, <1>2, <1>3, At
  <2>2. outen = Both /\ gpioout["scl"] = scl /\ gpioout["sda"] = sda
    BY <1>3 DEF Freed, Drives
  <2>3. Levels' /\ Steps /\ Silent /\ outen' = Both /\ Held /\ Unmoved /\ sda' = gpioout["sda"]
    BY <2>1, <2>2, OutStep
  <2>4. Freed' /\ prog' = Rest(P, 2) /\ call' = call
    BY <2>1, <2>2, <2>3, <1>3 DEF Freed, Drives, Leaves, Unmoved, Steps, Held
  <2>5. AtHead'
    BY <2>4, <1>3 DEF AtHead, WriteRest, P, b, st
  <2> QED BY <2>3, <2>4, <2>5
<1>4. CASE st /\ prog = Rest(P, 2) /\ Freed
  <2>1. Acts(Pins!Sda(0)) /\ Tail(prog) = Rest(P, 3)
    BY <1>0, <1>1, <1>2, <1>4, At
  <2>2. outen = Both /\ scl = 1 /\ sda = 1 /\ 0 \in 0..1
    BY <1>4 DEF Freed, Drives
  <2>3. /\ Levels' /\ Steps /\ Silent /\ outen' = outen /\ scl' = scl /\ sda' = 0
        /\ gpioout' = [scl |-> scl, sda |-> 0] /\ Pins!Becomes(Pins!Condition(sda, 0))
    BY <2>1, <2>2, SetSda
  <2>4. slave' = "rx" /\ n' = 0 /\ bits' = <<>> /\ read' /\ ~pull'
    BY <2>3, ConditionIs
  <2>5. Drives(1, 0)' /\ prog' = Rest(P, 3) /\ call' = call
    BY <2>1, <2>2, <2>3 DEF Drives, Steps
  <2>6. Receives(b, 0)'
    BY <2>4, NoBits DEF Receives
  <2>7. AtHead'
    BY <2>4, <2>5, <2>6, <1>4 DEF AtHead, WriteRest, P, b, st
  <2> QED BY <2>3, <2>5, <2>7
<1>5. CASE st /\ prog = Rest(P, 3) /\ Drives(1, 0) /\ Receives(b, 0) /\ read
  <2>1. Acts(Pins!Delay) /\ Tail(prog) = Rest(P, BitAt(st, 1, 1))
    BY <1>0, <1>1, <1>2, <1>5, At
  <2>2. outen = Both /\ "scl" \in outen /\ "sda" \in outen /\ gpioout["scl"] = scl /\ gpioout["sda"] = sda
    BY <1>5 DEF Drives, Both
  <2>3. Levels' /\ Steps /\ Silent /\ outen' = outen /\ Held /\ Unmoved /\ sda' = sda
    BY <2>1, <2>2, DelayStep
  <2>4. Drives(scl, sda)' /\ Receives(b, 1 - 1)' /\ (read' <=> st) /\ prog' = Rest(P, BitAt(st, 1, 1)) /\ call' = call
    BY <2>1, <2>2, <2>3, <1>2, <1>5 DEF Drives, Receives, Unmoved, Steps, Held, b
  <2>5. AtBit(1)'
    BY <2>4 DEF AtBit, WriteRest, P, b, st
  <2> QED BY <2>3, <2>4, <2>5
<1>6. CASE ~st /\ prog = Rest(P, 1) /\ ToWrite
  <2>1. Acts(Pins!Op("out")) /\ Tail(prog) = Rest(P, 2)
    BY <1>0, <1>1, <1>2, <1>6, At
  <2>2. outen = {"scl"} /\ gpioout["scl"] = 0 /\ scl = 0
    BY <1>6 DEF ToWrite, Listens
  <2>3. Levels' /\ Steps /\ Silent /\ outen' = Both /\ Held /\ Unmoved /\ sda' = gpioout["sda"]
    BY <2>1, <2>2, OutStep
  <2>4. Drives(0, sda)'
    BY <2>2, <2>3, BothLevels DEF Drives, Held
  <2>5. Receives(b, 0)' /\ ~read' /\ prog' = Rest(P, 2) /\ call' = call
    BY <2>1, <2>3, <1>6 DEF ToWrite, Receives, Unmoved, Steps
  <2>6. AtHead'
    BY <2>4, <2>5, <1>6 DEF AtHead, WriteRest, P, b, st
  <2> QED BY <2>3, <2>5, <2>6
<1>7. CASE ~st /\ prog = Rest(P, 2) /\ Drives(0, sda) /\ Receives(b, 0) /\ ~read
  <2>1. Acts(Pins!Delay) /\ Tail(prog) = Rest(P, BitAt(st, 1, 1))
    BY <1>0, <1>1, <1>2, <1>7, At
  <2>2. outen = Both /\ "scl" \in outen /\ "sda" \in outen /\ gpioout["scl"] = scl /\ gpioout["sda"] = sda
    BY <1>7 DEF Drives, Both
  <2>3. Levels' /\ Steps /\ Silent /\ outen' = outen /\ Held /\ Unmoved /\ sda' = sda
    BY <2>1, <2>2, DelayStep
  <2>4. Drives(scl, sda)' /\ Receives(b, 1 - 1)' /\ (read' <=> st) /\ prog' = Rest(P, BitAt(st, 1, 1)) /\ call' = call
    BY <2>1, <2>2, <2>3, <1>2, <1>7 DEF Drives, Receives, Unmoved, Steps, Held, b
  <2>5. AtBit(1)'
    BY <2>4 DEF AtBit, WriteRest, P, b, st
  <2> QED BY <2>3, <2>4, <2>5
<1> QED BY <1>3, <1>4, <1>5, <1>6, <1>7 DEF AtHead, WriteRest, P, b, st

(* The bits that the slave has taken are the byte.                         *)
LEMMA TakenAll ==
  ASSUME NEW b \in Pins!Bytes, Receives(b, BITS)
  PROVE  bits = b
<1>1. b \in Seq(0..1) /\ Len(b) = BITS
  <2>1. b \in [1..BITS -> 0..1] /\ BITS \in Nat
    BY PinsConstants DEF Pins!Bytes
  <2>2. b \in Seq(0..1)
    BY <2>1, IsASeq
  <2> QED BY <2>1, <2>2, LenProperties
<1>2. bits \in Seq(0..1) /\ Len(bits) = BITS /\ \A k \in 1..BITS : bits[k] = b[k]
  BY DEF Receives
<1> QED BY <1>1, <1>2, SeqEqual

(* The acknowledgement, and the first bit of what the slave sends.         *)
LEMMA TellStep ==
  ASSUME Levels, Writes, AtTell, Pins!Next, ~Pins!LetGo
  PROVE  Levels' /\ call' = call /\ (AtTell' \/ AtStop' \/ WriteDone')
<1> DEFINE P == Pins!WriteProg(call.byte, call.start)
<1> DEFINE b == call.byte
<1> DEFINE st == call.start
<1>0. call.fn # "none" /\ b \in Pins!Bytes /\ st \in BOOLEAN /\ BITS \in Nat /\ HeadLen(st) \in Nat /\ call.stop \in BOOLEAN
  BY PinsConstants DEF Writes, HeadLen
<1>1. /\ StepAt(P, TellAt(st, 1), Pins!Op("in")) /\ StepAt(P, TellAt(st, 2), Pins!Scl(0))
      /\ StepAt(P, TellAt(st, 3), Pins!Delay) /\ StepAt(P, TellAt(st, 4), Pins!Scl(1))
      /\ StepAt(P, TellAt(st, 5), Pins!Op("ack")) /\ StepAt(P, TellAt(st, 6), Pins!Delay)
      /\ StepAt(P, TellAt(st, 7), Pins!Scl(0)) /\ StepAt(P, TellAt(st, 8), Pins!Delay)
      /\ StepAt(P, TellAt(st, 9), Pins!Op("end"))
  <2>1. \A j \in 1..9 : StepAt(P, TellAt(st, j), Trailer[j])
    BY <1>0, WriteSteps
  <2>2. /\ Trailer[1] = Pins!Op("in") /\ Trailer[2] = Pins!Scl(0) /\ Trailer[3] = Pins!Delay /\ Trailer[4] = Pins!Scl(1)
        /\ Trailer[5] = Pins!Op("ack") /\ Trailer[6] = Pins!Delay /\ Trailer[7] = Pins!Scl(0)
        /\ Trailer[8] = Pins!Delay /\ Trailer[9] = Pins!Op("end")
    BY DEF Trailer
  <2> HIDE DEF P, st
  <2> QED BY <2>1, <2>2
<1>2. /\ TellAt(st, 1) + 1 = TellAt(st, 2) /\ TellAt(st, 2) + 1 = TellAt(st, 3) /\ TellAt(st, 3) + 1 = TellAt(st, 4)
      /\ TellAt(st, 4) + 1 = TellAt(st, 5) /\ TellAt(st, 5) + 1 = TellAt(st, 6) /\ TellAt(st, 6) + 1 = TellAt(st, 7)
      /\ TellAt(st, 7) + 1 = TellAt(st, 8) /\ TellAt(st, 8) + 1 = TellAt(st, 9)
  BY <1>0 DEF TellAt
<1>3. ack \in 0..1 /\ 0 \in 0..1 /\ 1 \in 0..1
  BY DEF Levels
<1> HIDE DEF P, b, st
<1>4. CASE prog = Rest(P, TellAt(st, 1)) /\ (read <=> st) /\ Drives(1, sda) /\ Receives(b, BITS)
  <2>1. Acts(Pins!Op("in")) /\ Tail(prog) = Rest(P, TellAt(st, 2))
    BY <1>0, <1>1, <1>2, <1>4, At
  <2>2. outen \in {Both, {"scl"}} /\ gpioout["scl"] = scl /\ scl = 1 /\ ~pull
    BY <1>4 DEF Drives, Receives
  <2>3. Levels' /\ Steps /\ Silent /\ outen' = {"scl"} /\ Held /\ Unmoved
    BY <2>1, <2>2, InStep
  <2>4. Listens(1)' /\ Receives(b, BITS)' /\ (read' <=> st) /\ prog' = Rest(P, TellAt(st, 2)) /\ call' = call
    BY <2>1, <2>2, <2>3, <1>4 DEF Listens, Receives, Unmoved, Steps, Held, b
  <2>5. AtTell'
    BY <2>4 DEF AtTell, WriteRest, P, b, st
  <2> QED BY <2>3, <2>4, <2>5
<1>5. CASE prog = Rest(P, TellAt(st, 2)) /\ (read <=> st) /\ Listens(1) /\ Receives(b, BITS)
  <2>1. Acts(Pins!Scl(0)) /\ Tail(prog) = Rest(P, TellAt(st, 3))
    BY <1>0, <1>1, <1>2, <1>5, At
  <2>2. outen = {"scl"} /\ "scl" \in outen /\ scl = 1
    BY <1>5 DEF Listens
  <2>3. Levels' /\ Steps /\ Silent /\ outen' = outen /\ scl' = 0 /\ Edge(0) /\ gpioout' = [scl |-> 0, sda |-> sda]
    BY <2>1, <2>2, <1>3, SetScl
  <2>4. Fall
    BY <2>2, <2>3 DEF Edge
  <2>5. /\ slave' \in {"ack", "nack"} /\ (pull' <=> slave' = "ack")
        /\ heard'.byte = bits /\ heard'.ack \in BOOLEAN /\ (heard'.ack <=> slave' = "ack")
        /\ read' = read /\ bits' = bits
    BY <2>4, <1>5, FallIs DEF Receives
  <2>6. bits = b
    BY <1>0, <1>5, TakenAll
  <2>7. call' = call /\ prog' = Rest(P, TellAt(st, 3))
    BY <2>1, <2>3 DEF Steps
  <2>8. Listens(0)' /\ Answers'
    BY <2>2, <2>3, <2>5, <2>6, <2>7, <1>5 DEF Listens, Answers, b, st
  <2>9. AtTell'
    BY <2>7, <2>8 DEF AtTell, WriteRest, P, b, st
  <2> QED BY <2>3, <2>7, <2>9
<1>6. CASE prog = Rest(P, TellAt(st, 3)) /\ Listens(0) /\ Answers
  <2>1. Acts(Pins!Delay) /\ Tail(prog) = Rest(P, TellAt(st, 4))
    BY <1>0, <1>1, <1>2, <1>6, At
  <2>2. outen = {"scl"} /\ "scl" \in outen /\ "sda" \notin outen /\ gpioout["scl"] = scl /\ scl = 0
    BY <1>6 DEF Listens
  <2>3. Levels' /\ Steps /\ Silent /\ outen' = outen /\ Held /\ Unmoved /\ pull' = pull /\ sda' = IF pull THEN 0 ELSE 1
    BY <2>1, <2>2, DelayStep
  <2>4. Listens(0)' /\ Answers' /\ Shows' /\ prog' = Rest(P, TellAt(st, 4)) /\ call' = call
    BY <2>1, <2>2, <2>3, <1>6 DEF Listens, Answers, Shows, Unmoved, Steps, Held
  <2>5. AtTell'
    BY <2>4 DEF AtTell, WriteRest, P, b, st
  <2> QED BY <2>3, <2>4, <2>5
<1>7. CASE prog = Rest(P, TellAt(st, 4)) /\ Listens(0) /\ Answers /\ Shows
  <2>1. Acts(Pins!Scl(1)) /\ Tail(prog) = Rest(P, TellAt(st, 5))
    BY <1>0, <1>1, <1>2, <1>7, At
  <2>2. outen = {"scl"} /\ "scl" \in outen /\ "sda" \notin outen /\ scl = 0
    BY <1>7 DEF Listens
  <2>3. /\ Levels' /\ Steps /\ Silent /\ outen' = outen /\ scl' = 1 /\ Edge(1) /\ gpioout' = [scl |-> 1, sda |-> sda]
        /\ sda' = IF pull' THEN 0 ELSE IF pull THEN 0 ELSE sda
    BY <2>1, <2>2, <1>3, SetScl
  <2>4. Unmoved
    <3>1. Rise
      BY <2>2, <2>3 DEF Edge
    <3> QED BY <3>1, <1>7, RiseIs DEF Answers
  <2>5. Shows'
    BY <2>3, <2>4, <1>7 DEF Shows, Unmoved
  <2>6. Listens(1)' /\ Answers' /\ prog' = Rest(P, TellAt(st, 5)) /\ call' = call
    BY <2>1, <2>2, <2>3, <2>4, <1>7 DEF Listens, Answers, Unmoved, Steps
  <2>7. AtTell'
    BY <2>5, <2>6 DEF AtTell, WriteRest, P, b, st
  <2> QED BY <2>3, <2>6, <2>7
<1>8. CASE prog = Rest(P, TellAt(st, 5)) /\ Listens(1) /\ Answers /\ Shows
  <2>1. Acts(Pins!Op("ack")) /\ Tail(prog) = Rest(P, TellAt(st, 6))
    BY <1>0, <1>1, <1>2, <1>8, At
  <2>2. Levels' /\ Steps /\ outen' = outen /\ Held /\ sda' = sda /\ Unmoved /\ ack' = 1 - sda
    BY <2>1, LookStep
  <2>3. ack' = 1 <=> pull
    BY <2>2, <1>8 DEF Shows
  <2>4. /\ Listens(1)' /\ Answers' /\ Shows' /\ (ack' = 1 <=> pull')
        /\ prog' = Rest(P, TellAt(st, 6)) /\ call' = call
    BY <2>1, <2>2, <2>3, <1>8 DEF Listens, Answers, Shows, Unmoved, Steps, Held
  <2>5. AtTell'
    <3>1. \E j \in 6..7 : prog' = Rest(P, TellAt(st, j))
      BY <2>4
    <3> QED BY <3>1, <2>4 DEF AtTell, WriteRest, P, b, st
  <2> QED BY <2>2, <2>4, <2>5
<1>9. CASE prog = Rest(P, TellAt(st, 6)) /\ Listens(1) /\ Answers /\ Shows /\ (ack = 1 <=> pull)
  <2>1. Acts(Pins!Delay) /\ Tail(prog) = Rest(P, TellAt(st, 7))
    BY <1>0, <1>1, <1>2, <1>9, At
  <2>2. /\ outen = {"scl"} /\ "scl" \in outen /\ "sda" \notin outen /\ gpioout["scl"] = scl
        /\ sda = IF pull THEN 0 ELSE 1
    BY <1>9 DEF Listens, Shows
  <2>3. Levels' /\ Steps /\ Silent /\ outen' = outen /\ Held /\ Unmoved /\ pull' = pull /\ sda' = IF pull THEN 0 ELSE 1
    BY <2>1, <2>2, DelayStep
  <2>4. /\ Listens(1)' /\ Answers' /\ Shows' /\ (ack' = 1 <=> pull')
        /\ prog' = Rest(P, TellAt(st, 7)) /\ call' = call
    BY <2>1, <2>2, <2>3, <1>9 DEF Listens, Answers, Shows, Unmoved, Steps, Held, Silent
  <2>5. AtTell'
    <3>1. \E j \in 6..7 : prog' = Rest(P, TellAt(st, j))
      BY <2>4
    <3> QED BY <3>1, <2>4 DEF AtTell, WriteRest, P, b, st
  <2> QED BY <2>3, <2>4, <2>5
<1>10. CASE prog = Rest(P, TellAt(st, 7)) /\ Listens(1) /\ Answers /\ Shows /\ (ack = 1 <=> pull)
  <2>1. Acts(Pins!Scl(0)) /\ Tail(prog) = Rest(P, TellAt(st, 8))
    BY <1>0, <1>1, <1>2, <1>10, At
  <2>2. outen = {"scl"} /\ "scl" \in outen /\ scl = 1
    BY <1>10 DEF Listens
  <2>3. Levels' /\ Steps /\ Silent /\ outen' = outen /\ scl' = 0 /\ Edge(0) /\ gpioout' = [scl |-> 0, sda |-> sda]
    BY <2>1, <2>2, <1>3, SetScl
  <2>4. Fall
    BY <2>2, <2>3 DEF Edge
  <2>5. call' = call /\ ack' = ack /\ prog' = Rest(P, TellAt(st, 8)) /\ Listens(0)'
    BY <2>1, <2>2, <2>3 DEF Steps, Silent, Listens
  <2>6. /\ slave = "ack" <=> ack = 1
        /\ read /\ bits[BITS] = 1 <=> Reads
        /\ heard.byte = call.byte /\ heard.ack \in BOOLEAN /\ (heard.ack <=> ack = 1)
        /\ slave \in {"ack", "nack"} /\ (pull <=> slave = "ack")
    BY <1>10 DEF Answers, Reads
  <2>7. Reads' <=> Reads
    BY <2>5 DEF Reads
  <2>8. Answered'
    <3>1. ASSUME ack # 1 PROVE Same' /\ Leaves'
      <4>1. slave = "nack" /\ ~pull
        BY <2>6, <3>1
      <4>2. slave' = "off" /\ pull' = pull /\ heard' = heard
        BY <4>1, <2>4, FallIs
      <4> QED BY <4>1, <4>2, <2>5, <2>6 DEF Same, Leaves
    <3>2. ASSUME ack = 1, Reads PROVE Same' /\ Transmits(0, 1)'
      <4>1. SendsByte
        BY <2>4, <2>6, <3>2, FallIs
      <4> QED BY <4>1, <2>5, <2>6 DEF SendsByte, Same, Transmits
    <3>3. ASSUME ack = 1, ~Reads PROVE Same' /\ Receives(<<>>, 0)' /\ ~read'
      <4>1. slave' = "rx" /\ n' = 0 /\ bits' = <<>> /\ ~read' /\ ~pull' /\ heard' = heard
        BY <2>4, <2>6, <3>3, FallIs
      <4> QED BY <4>1, <2>5, <2>6, NoBits DEF Same, Receives
    <3> QED BY <3>1, <3>2, <3>3, <2>5, <2>7, <1>3 DEF Answered
  <2>9. AtTell'
    <3>1. \E j \in 8..9 : prog' = Rest(P, TellAt(st, j))
      BY <2>5
    <3> QED BY <3>1, <2>5, <2>8 DEF AtTell, WriteRest, P, b, st
  <2> QED BY <2>3, <2>5, <2>9
<1>11. CASE prog = Rest(P, TellAt(st, 8)) /\ Listens(0) /\ Answered
  <2>1. Acts(Pins!Delay) /\ Tail(prog) = Rest(P, TellAt(st, 9))
    BY <1>0, <1>1, <1>2, <1>11, At
  <2>2. outen = {"scl"} /\ "scl" \in outen /\ "sda" \notin outen /\ gpioout["scl"] = scl /\ scl = 0
    BY <1>11 DEF Listens
  <2>3. Levels' /\ Steps /\ Silent /\ outen' = outen /\ Held /\ Unmoved
    BY <2>1, <2>2, DelayStep
  <2>4. Listens(0)' /\ prog' = Rest(P, TellAt(st, 9)) /\ call' = call
    BY <2>1, <2>2, <2>3 DEF Listens, Steps, Held
  <2>5. Answered'
    BY <2>3, <1>11 DEF Answered, Same, Leaves, Reads, Transmits, Receives, Unmoved, Steps, Silent
  <2>6. AtTell'
    <3>1. \E j \in 8..9 : prog' = Rest(P, TellAt(st, j))
      BY <2>4
    <3> QED BY <3>1, <2>4, <2>5 DEF AtTell, WriteRest, P, b, st
  <2> QED BY <2>3, <2>4, <2>6
<1>12. CASE prog = Rest(P, TellAt(st, 9)) /\ Listens(0) /\ Answered
  <2>1. Acts(Pins!Op("end"))
    BY <1>0, <1>1, <1>12, At
  <2>2. Pins!StopOrNot
    BY <2>1, ActsAre, OpNames
  <2>3. /\ prog' = IF call.stop \/ ack = 0 THEN Pins!StopProg ELSE <<>>
        /\ call' = call /\ scl' = scl /\ sda' = sda /\ gpioout' = gpioout /\ outen' = outen /\ Silent /\ Unmoved
    BY <2>2 DEF Pins!StopOrNot, Pins!master, Pins!device, Silent, Unmoved
  <2>4. Levels' /\ Listens(0)'
    BY <2>3, <1>12 DEF Levels, Listens, Silent
  <2>5. Answered'
    BY <2>3, <1>12 DEF Answered, Same, Leaves, Reads, Transmits, Receives, Unmoved, Silent
  <2>6. CASE call.stop \/ ack = 0
    <3>1. prog' = StopRest(1)
      BY <2>3, <2>6, StopSteps DEF StopRest
    <3>2. Quiet
      <4>1. call.stop => ~Reads
        BY DEF Writes
      <4>2. ack = 0 => Quiet
        BY <1>12 DEF Answered, Leaves, Quiet
      <4>3. ack = 1 /\ ~Reads => Quiet
        BY <1>12 DEF Answered, Receives, Quiet
      <4> QED BY <4>1, <4>2, <4>3, <2>6, <1>3
    <3>3. Quiet' /\ Same'
      BY <3>2, <2>3, <2>5 DEF Quiet, Unmoved, Answered
    <3>4. AtStop'
      BY <3>1, <3>3, <2>3, <2>4, <2>6 DEF AtStop, StopRest, Silent
    <3> QED BY <3>4, <2>3, <2>4
  <2>7. CASE ~(call.stop \/ ack = 0)
    <3>1. WriteDone'
      BY <2>3, <2>4, <2>5, <2>7, <1>3 DEF WriteDone, Silent
    <3> QED BY <3>1, <2>3, <2>4
  <2> QED BY <2>6, <2>7
<1>13. /\ \A j \in 6..7 : prog = Rest(P, TellAt(st, j)) => prog = Rest(P, TellAt(st, 6)) \/ prog = Rest(P, TellAt(st, 7))
       /\ \A j \in 8..9 : prog = Rest(P, TellAt(st, j)) => prog = Rest(P, TellAt(st, 8)) \/ prog = Rest(P, TellAt(st, 9))
  <2>1. \A j \in 6..7 : j = 6 \/ j = 7
    OBVIOUS
  <2>2. \A j \in 8..9 : j = 8 \/ j = 9
    OBVIOUS
  <2> QED BY <2>1, <2>2
<1> QED BY <1>4, <1>5, <1>6, <1>7, <1>8, <1>9, <1>10, <1>11, <1>12, <1>13 DEF AtTell, WriteRest, P, b, st

(* The stop of i2c_write.                                                  *)
LEMMA StopStep ==
  ASSUME Levels, Writes, AtStop, prog # <<>>, Pins!Next, ~Pins!LetGo
  PROVE  Levels' /\ call' = call /\ AtStop'
<1> DEFINE P == Pins!StopProg
<1>0. call.fn # "none" /\ 0 \in 0..1 /\ 1 \in 0..1
  BY DEF Writes
<1>1. /\ StepAt(P, 1, Pins!Op("out")) /\ StepAt(P, 2, Pins!Sda(0)) /\ StepAt(P, 3, Pins!Scl(1))
      /\ StepAt(P, 4, Pins!Delay) /\ StepAt(P, 5, Pins!Sda(1)) /\ Rest(P, 6) = <<>>
  BY StopSteps
<1>2. 1 + 1 = 2 /\ 2 + 1 = 3 /\ 3 + 1 = 4 /\ 4 + 1 = 5 /\ 5 + 1 = 6
  OBVIOUS
<1>3. (call.stop \/ ack = 0) /\ Same
  BY DEF AtStop
<1> HIDE DEF P
<1>4. ASSUME call' = call, Silent, heard' = heard PROVE (call.stop \/ ack = 0)' /\ Same'
  BY <1>3, <1>4 DEF Same, Silent
<1>5. CASE prog = Rest(P, 1) /\ Listens(0) /\ Quiet
  <2>1. Acts(Pins!Op("out")) /\ Tail(prog) = Rest(P, 2)
    BY <1>0, <1>1, <1>2, <1>5, At
  <2>2. outen = {"scl"} /\ gpioout["scl"] = scl /\ scl = 0
    BY <1>5 DEF Listens
  <2>3. Levels' /\ Steps /\ Silent /\ outen' = Both /\ Held /\ Unmoved /\ sda' = gpioout["sda"]
    BY <2>1, <2>2, OutStep
  <2>4. Drives(0, sda)'
    BY <2>2, <2>3, BothLevels DEF Drives, Held
  <2>5. Quiet' /\ heard' = heard /\ prog' = Rest(P, 2) /\ call' = call
    BY <2>1, <2>3, <1>5 DEF Quiet, Unmoved, Steps
  <2>6. AtStop'
    BY <2>3, <2>4, <2>5, <1>4 DEF AtStop, StopRest, P
  <2> QED BY <2>3, <2>5, <2>6
<1>6. CASE prog = Rest(P, 2) /\ Drives(0, sda) /\ Quiet
  <2>1. Acts(Pins!Sda(0)) /\ Tail(prog) = Rest(P, 3)
    BY <1>0, <1>1, <1>2, <1>6, At
  <2>2. outen = Both /\ scl = 0
    BY <1>6 DEF Drives
  <2>3. /\ Levels' /\ Steps /\ Silent /\ outen' = outen /\ scl' = scl /\ sda' = 0 /\ Unmoved
        /\ gpioout' = [scl |-> scl, sda |-> 0]
    BY <1>0, <2>1, <2>2, SetSda
  <2>4. Drives(0, 0)' /\ Quiet' /\ heard' = heard /\ prog' = Rest(P, 3) /\ call' = call
    BY <2>1, <2>2, <2>3, <1>6 DEF Drives, Quiet, Unmoved, Steps
  <2>5. AtStop'
    BY <2>3, <2>4, <1>4 DEF AtStop, StopRest, P
  <2> QED BY <2>3, <2>4, <2>5
<1>7. CASE prog = Rest(P, 3) /\ Drives(0, 0) /\ Quiet
  <2>1. Acts(Pins!Scl(1)) /\ Tail(prog) = Rest(P, 4)
    BY <1>0, <1>1, <1>2, <1>7, At
  <2>2. outen = Both /\ "scl" \in outen /\ "sda" \in outen /\ scl = 0 /\ sda = 0
    BY <1>7 DEF Drives, Both
  <2>3. /\ Levels' /\ Steps /\ Silent /\ outen' = outen /\ scl' = 1 /\ Edge(1)
        /\ gpioout' = [scl |-> 1, sda |-> sda] /\ sda' = sda
    BY <1>0, <2>1, <2>2, SetScl
  <2>4. Quiet' /\ heard' = heard
    <3>1. Rise
      BY <2>2, <2>3 DEF Edge
    <3>2. slave = "rx" => slave' = "rx" /\ pull' = pull /\ heard' = heard
      BY <3>1, RiseIs
    <3>3. slave = "off" => slave' = "off" /\ pull' = pull /\ heard' = heard
      BY <3>1, RiseIs DEF Unmoved
    <3> QED BY <3>2, <3>3, <1>7 DEF Quiet
  <2>5. Drives(1, 0)' /\ prog' = Rest(P, 4) /\ call' = call
    BY <2>1, <2>2, <2>3 DEF Drives, Steps
  <2>6. \E k \in 4..5 : prog' = Rest(P, k)
    BY <2>5
  <2>7. AtStop'
    BY <2>3, <2>4, <2>5, <2>6, <1>4 DEF AtStop, StopRest, P
  <2> QED BY <2>3, <2>5, <2>7
<1>8. CASE prog = Rest(P, 4) /\ Drives(1, 0) /\ Quiet
  <2>1. Acts(Pins!Delay) /\ Tail(prog) = Rest(P, 5)
    BY <1>0, <1>1, <1>2, <1>8, At
  <2>2. outen = Both /\ "scl" \in outen /\ "sda" \in outen /\ gpioout["scl"] = scl /\ gpioout["sda"] = sda
    BY <1>8 DEF Drives, Both
  <2>3. Levels' /\ Steps /\ Silent /\ outen' = outen /\ Held /\ Unmoved /\ sda' = sda
    BY <2>1, <2>2, DelayStep
  <2>4. Drives(1, 0)' /\ Quiet' /\ heard' = heard /\ prog' = Rest(P, 5) /\ call' = call
    BY <2>1, <2>2, <2>3, <1>8 DEF Drives, Quiet, Unmoved, Steps, Held
  <2>5. \E k \in 4..5 : prog' = Rest(P, k)
    BY <2>4
  <2>6. AtStop'
    BY <2>3, <2>4, <2>5, <1>4 DEF AtStop, StopRest, P
  <2> QED BY <2>3, <2>4, <2>6
<1>9. CASE prog = Rest(P, 5) /\ Drives(1, 0) /\ Quiet
  <2>1. Acts(Pins!Sda(1)) /\ Tail(prog) = <<>>
    BY <1>0, <1>1, <1>2, <1>9, At
  <2>2. outen = Both /\ scl = 1 /\ sda = 0
    BY <1>9 DEF Drives
  <2>3. /\ Levels' /\ Steps /\ Silent /\ outen' = outen /\ scl' = scl /\ sda' = 1
        /\ gpioout' = [scl |-> scl, sda |-> 1] /\ Pins!Becomes(Pins!Condition(sda, 1))
    BY <1>0, <2>1, <2>2, SetSda
  <2>4. slave' = "off" /\ ~pull' /\ heard' = heard
    BY <2>3, ConditionIs
  <2>5. Freed' /\ prog' = <<>> /\ call' = call
    BY <2>1, <2>2, <2>3, <2>4 DEF Freed, Drives, Leaves, Steps
  <2>6. AtStop'
    BY <2>3, <2>4, <2>5, <1>4 DEF AtStop
  <2> QED BY <2>3, <2>5, <2>6
<1>10. \A k \in 4..5 : prog = Rest(P, k) => prog = Rest(P, 4) \/ prog = Rest(P, 5)
  <2>1. \A k \in 4..5 : k = 4 \/ k = 5
    OBVIOUS
  <2> QED BY <2>1
<1> QED BY <1>5, <1>6, <1>7, <1>8, <1>9, <1>10 DEF AtStop, StopRest, P

-----------------------------------------------------------------------------
(* i2c_read: what an edge does while the slave sends, and what is read.    *)
LEMMA RiseSends ==
  ASSUME NEW m \in Nat, NEW k, Transmits(m, k), Rise
  PROVE  Transmits(m + 1, k)' /\ pull' = pull /\ bits' = bits
BY RiseIs DEF Transmits

LEMMA FallSends ==
  ASSUME NEW m \in Nat, NEW k, m < BITS, Transmits(m, k), Fall
  PROVE  Transmits(m, m + 1)' /\ bits' = bits
BY FallIs DEF Transmits

LEMMA TookAll == ASSUME Took(BITS), bits \in Pins!Bytes PROVE ch = bits
<1>1. bits \in Seq(0..1) /\ Len(bits) = BITS
  <2>1. bits \in [1..BITS -> 0..1] /\ BITS \in Nat
    BY PinsConstants DEF Pins!Bytes
  <2>2. bits \in Seq(0..1)
    BY <2>1, IsASeq
  <2> QED BY <2>1, <2>2, LenProperties
<1>2. ch \in Seq(0..1) /\ Len(ch) = BITS /\ \A k \in 1..BITS : ch[k] = bits[k]
  BY DEF Took
<1> QED BY <1>1, <1>2, SeqEqual

LEMMA FallEnds ==
  ASSUME NEW k, Transmits(BITS, k), Took(BITS), Fall, ch' = ch
  PROVE  Waits'
<1>1. slave = "tx" /\ n = BITS /\ n >= BITS /\ bits \in Pins!Bytes
  BY PinsConstants DEF Transmits
<1>2. slave' = "wait" /\ ~pull' /\ heard' = [byte |-> bits, ack |-> TRUE]
  BY <1>1, FallIs
<1>3. ch = bits
  BY <1>1, TookAll
<1> QED BY <1>2, <1>3 DEF Waits

LEMMA TookMore ==
  ASSUME NEW i \in Nat, i < BITS, Took(i), Transmits(i + 1, i + 1), Shows, ch' = Append(ch, sda), bits' = bits
  PROVE  Took(i + 1)'
<1>1. i + 1 \in 1..BITS /\ i + 1 \in Nat
  BY PinsConstants
<1>2. bits[i + 1] \in 0..1 /\ (pull <=> bits[i + 1] = 0)
  BY <1>1 DEF Transmits, Pins!Bytes
<1>3. sda = bits[i + 1] /\ sda \in 0..1
  BY <1>2 DEF Shows
<1>4. ch \in Seq(0..1) /\ Len(ch) = i /\ \A k \in 1..i : ch[k] = bits[k]
  BY DEF Took
<1>5. /\ ch' \in Seq(0..1) /\ Len(ch') = i + 1
      /\ \A k \in 1..i : ch'[k] = ch[k]
      /\ ch'[i + 1] = sda
  BY <1>3, <1>4, Appended
<1>6. \A k \in 1..i + 1 : ch'[k] = bits'[k]
  <2>1. \A k \in 1..i + 1 : k \in 1..i \/ k = i + 1
    OBVIOUS
  <2> QED BY <2>1, <1>3, <1>4, <1>5
<1> QED BY <1>5, <1>6 DEF Took

LEMMA TookStays == ASSUME NEW m, Took(m), ch' = ch, bits' = bits PROVE Took(m)'
BY DEF Took

LEMMA AskStep ==
  ASSUME Levels, call.fn = "read", call.stop \in BOOLEAN, AtAsk, Pins!Next, ~Pins!LetGo
  PROVE  Levels' /\ call' = call /\ (AtAsk' \/ (1 \in 1..BITS - 1 /\ AtMore(1)') \/ AtLast')
<1> DEFINE P == Pins!ReadProg(call.stop)
<1>0. call.fn # "none" /\ BITS \in Nat /\ BITS > 0
  BY PinsConstants
<1>1. /\ StepAt(P, 1, Pins!Op("in")) /\ StepAt(P, 2, Pins!Op("sclin")) /\ StepAt(P, 3, Pins!Op("wait"))
      /\ StepAt(P, 4, Pins!Op("bit")) /\ StepAt(P, 5, Pins!Op("sclout"))
  <2>1. \A k \in 1..5 : StepAt(P, k, Ask[k])
    BY ReadSteps
  <2>2. /\ Ask[1] = Pins!Op("in") /\ Ask[2] = Pins!Op("sclin") /\ Ask[3] = Pins!Op("wait")
        /\ Ask[4] = Pins!Op("bit") /\ Ask[5] = Pins!Op("sclout")
    BY DEF Ask
  <2> HIDE DEF P
  <2> QED BY <2>1, <2>2
<1>2. 1 + 1 = 2 /\ 2 + 1 = 3 /\ 3 + 1 = 4 /\ 4 + 1 = 5 /\ 5 + 1 = 6 /\ 0 + 1 = 1
  OBVIOUS
<1> HIDE DEF P
<1>3. CASE prog = Rest(P, 1) /\ ToRead /\ Took(0)
  <2>1. Acts(Pins!Op("in")) /\ Tail(prog) = Rest(P, 2)
    BY <1>0, <1>1, <1>2, <1>3, At
  <2>2. outen \in {Both, {"scl"}} /\ gpioout["scl"] = scl /\ scl = 0
    BY <1>3 DEF ToRead
  <2>3. Levels' /\ Steps /\ Silent /\ outen' = {"scl"} /\ Held /\ Unmoved
    BY <2>1, <2>2, InStep
  <2>4. Listens(0)' /\ Transmits(0, 1)' /\ prog' = Rest(P, 2) /\ call' = call
    BY <2>1, <2>2, <2>3, <1>3 DEF Listens, ToRead, Transmits, Unmoved, Steps, Held
  <2>5. Took(0)'
    BY <2>3, <1>3, TookStays DEF Silent, Unmoved
  <2>6. AtAsk'
    BY <2>4, <2>5 DEF AtAsk, ReadRest, P
  <2> QED BY <2>3, <2>4, <2>6
<1>4. CASE prog = Rest(P, 2) /\ Listens(0) /\ Transmits(0, 1) /\ Took(0)
  <2>1. Acts(Pins!Op("sclin")) /\ Tail(prog) = Rest(P, 3)
    BY <1>0, <1>1, <1>2, <1>4, At
  <2>2. outen = {"scl"} /\ gpioout["scl"] = 0 /\ scl = 0
    BY <1>4 DEF Listens
  <2>3. Levels' /\ Steps /\ Silent /\ outen' = {} /\ Held /\ Unmoved
    BY <2>1, <2>2, SclInStep
  <2>4. Floats(0)' /\ Transmits(0, 1)' /\ prog' = Rest(P, 3) /\ call' = call
    BY <2>1, <2>2, <2>3, <1>4 DEF Floats, Transmits, Unmoved, Steps, Held
  <2>5. Took(0)'
    BY <2>3, <1>4, TookStays DEF Silent, Unmoved
  <2>6. AtAsk'
    BY <2>4, <2>5 DEF AtAsk, ReadRest, P
  <2> QED BY <2>3, <2>4, <2>6
<1>5. CASE prog = Rest(P, 3) /\ Took(0) /\ Floats(0) /\ Transmits(0, 1)
  <2>1. Acts(Pins!Op("wait"))
    BY <1>0, <1>1, <1>5, At
  <2>2. outen = {} /\ scl = 0 /\ gpioout["scl"] = 0
    BY <1>5 DEF Floats
  <2>3. /\ Levels' /\ call' = call /\ Silent /\ outen' = outen /\ gpioout' = gpioout /\ prog' = prog
        /\ (scl' = 1 /\ Rise) \/ (scl' = 0 /\ Unmoved)
        /\ sda' = IF pull' THEN 0 ELSE IF pull THEN 0 ELSE 1
    BY <2>1, <2>2, WaitStep
  <2>4. CASE scl' = 1 /\ Rise
    <3>1. Transmits(0 + 1, 1)' /\ pull' = pull /\ bits' = bits
      BY <2>4, <1>5, RiseSends
    <3>2. Took(0)'
      BY <2>3, <3>1, <1>5, TookStays DEF Silent
    <3>3. Shows'
      BY <2>3, <3>1 DEF Shows
    <3>4. Floats(1)' /\ Transmits(1, 1)' /\ prog' = Rest(P, 3)
      BY <2>2, <2>3, <2>4, <3>1, <1>2, <1>5 DEF Floats
    <3>5. AtAsk'
      BY <2>3, <3>2, <3>3, <3>4 DEF AtAsk, ReadRest, P
    <3> QED BY <2>3, <3>5
  <2>5. CASE scl' = 0 /\ Unmoved
    <3>1. Took(0)'
      BY <2>3, <2>5, <1>5, TookStays DEF Silent, Unmoved
    <3>2. Floats(0)' /\ Transmits(0, 1)' /\ prog' = Rest(P, 3)
      BY <2>2, <2>3, <2>5, <1>5 DEF Floats, Transmits, Unmoved
    <3>3. AtAsk'
      BY <2>3, <3>1, <3>2 DEF AtAsk, ReadRest, P
    <3> QED BY <2>3, <3>3
  <2> QED BY <2>3, <2>4, <2>5
<1>6. CASE prog = Rest(P, 3) /\ Took(0) /\ Floats(1) /\ Transmits(1, 1) /\ Shows
  <2>1. Acts(Pins!Op("wait")) /\ Tail(prog) = Rest(P, 4)
    BY <1>0, <1>1, <1>2, <1>6, At
  <2>2. outen = {} /\ scl = 1 /\ gpioout["scl"] = 0
    BY <1>6 DEF Floats
  <2>3. /\ Levels' /\ call' = call /\ Silent /\ outen' = outen /\ gpioout' = gpioout
        /\ prog' = Tail(prog) /\ scl' = scl /\ sda' = sda /\ Unmoved
    BY <2>1, <2>2, WaitStep
  <2>4. Floats(1)' /\ Transmits(1, 1)' /\ Shows' /\ prog' = Rest(P, 4)
    BY <2>1, <2>2, <2>3, <1>6 DEF Floats, Transmits, Shows, Unmoved
  <2>5. Took(0)'
    BY <2>3, <1>6, TookStays DEF Silent, Unmoved
  <2>6. AtAsk'
    BY <2>3, <2>4, <2>5 DEF AtAsk, ReadRest, P
  <2> QED BY <2>3, <2>6
<1>7. CASE prog = Rest(P, 4) /\ Took(0) /\ Floats(1) /\ Transmits(1, 1) /\ Shows
  <2>1. Acts(Pins!Op("bit")) /\ Tail(prog) = Rest(P, 5)
    BY <1>0, <1>1, <1>2, <1>7, At
  <2>2. /\ Levels' /\ Steps /\ outen' = outen /\ Held /\ sda' = sda /\ Unmoved
        /\ ch' = Append(ch, sda) /\ ack' = ack
    BY <2>1, LookStep
  <2>3. Floats(1)' /\ Transmits(1, 1)' /\ prog' = Rest(P, 5) /\ call' = call
    BY <2>1, <2>2, <1>7 DEF Floats, Transmits, Unmoved, Steps, Held
  <2>4. Took(1)'
    <3>1. Took(0 + 1)'
      <4>1. bits' = bits /\ 0 \in Nat /\ 0 < BITS /\ Transmits(0 + 1, 0 + 1)
        BY <2>2, <1>0, <1>2, <1>7 DEF Unmoved
      <4> QED BY <4>1, <2>2, <1>7, TookMore
    <3> QED BY <3>1, <1>2
  <2>5. AtAsk'
    BY <2>3, <2>4 DEF AtAsk, ReadRest, P
  <2> QED BY <2>2, <2>3, <2>5
<1>8. CASE prog = Rest(P, 5) /\ Took(1) /\ Floats(1) /\ Transmits(1, 1)
  <2>1. Acts(Pins!Op("sclout")) /\ Tail(prog) = Rest(P, 6)
    BY <1>0, <1>1, <1>2, <1>8, At
  <2>2. outen = {} /\ scl = 1 /\ gpioout["scl"] = 0
    BY <1>8 DEF Floats
  <2>3. Levels' /\ Steps /\ Silent /\ outen' = {"scl"} /\ scl' = 0 /\ gpioout' = gpioout /\ Fall
    BY <2>1, <2>2, SclOutStep
  <2>4. Listens(0)' /\ prog' = Rest(P, 6) /\ call' = call /\ ch' = ch
    BY <2>1, <2>2, <2>3 DEF Listens, Steps, Silent
  <2>5. CASE BITS = 1
    <3>1. Transmits(BITS, 1) /\ Took(BITS) /\ 5 * BITS + 1 = 6
      BY <2>5, <1>8
    <3>2. Waits'
      BY <2>3, <2>4, <3>1, FallEnds
    <3>3. AtLast'
      BY <2>4, <3>1, <3>2 DEF AtLast, ReadRest, P
    <3> QED BY <2>3, <2>4, <3>3
  <2>6. CASE BITS # 1
    <3>1. 1 \in Nat /\ 1 < BITS /\ 1 \in 1..BITS - 1 /\ 5 * 1 + 1 = 6
      BY <2>6, <1>0
    <3>2. Transmits(1, 1 + 1)' /\ bits' = bits
      BY <2>3, <3>1, <1>8, FallSends
    <3>3. Took(1)'
      BY <2>4, <3>2, <1>8, TookStays
    <3>4. AtMore(1)'
      BY <2>4, <3>1, <3>2, <3>3 DEF AtMore, ReadRest, P
    <3> QED BY <2>3, <2>4, <3>1, <3>4
  <2> QED BY <2>5, <2>6
<1> QED BY <1>3, <1>4, <1>5, <1>6, <1>7, <1>8 DEF AtAsk, ReadRest, P

LEMMA MoreStep ==
  ASSUME Levels, call.fn = "read", call.stop \in BOOLEAN, NEW i \in 1..BITS - 1, AtMore(i), Pins!Next, ~Pins!LetGo
  PROVE  Levels' /\ call' = call /\ (AtMore(i)' \/ (i + 1 \in 1..BITS - 1 /\ AtMore(i + 1)') \/ AtLast')
<1> DEFINE P == Pins!ReadProg(call.stop)
<1>0. call.fn # "none" /\ BITS \in Nat /\ i \in Nat /\ i < BITS /\ i + 1 \in Nat /\ 0 \in 0..1 /\ 1 \in 0..1
  BY PinsConstants
<1>1. /\ StepAt(P, 5 * i + 1, Pins!Scl(0)) /\ StepAt(P, 5 * i + 2, Pins!Delay) /\ StepAt(P, 5 * i + 3, Pins!Scl(1))
      /\ StepAt(P, 5 * i + 4, Pins!Op("bit")) /\ StepAt(P, 5 * i + 5, Pins!Delay)
  <2>1. \A j \in 1..5 : StepAt(P, 5 * i + j, ReadBit[j])
    BY ReadSteps
  <2>2. /\ ReadBit[1] = Pins!Scl(0) /\ ReadBit[2] = Pins!Delay /\ ReadBit[3] = Pins!Scl(1)
        /\ ReadBit[4] = Pins!Op("bit") /\ ReadBit[5] = Pins!Delay
    BY DEF ReadBit
  <2> HIDE DEF P
  <2> QED BY <2>1, <2>2
<1>2. /\ (5 * i + 1) + 1 = 5 * i + 2 /\ (5 * i + 2) + 1 = 5 * i + 3 /\ (5 * i + 3) + 1 = 5 * i + 4
      /\ (5 * i + 4) + 1 = 5 * i + 5 /\ (5 * i + 5) + 1 = 5 * (i + 1) + 1
  BY <1>0
<1> HIDE DEF P
<1>3. CASE prog = Rest(P, 5 * i + 1) /\ Took(i) /\ ((Listens(1) /\ Transmits(i, i)) \/ (Listens(0) /\ Transmits(i, i + 1)))
  <2>1. Acts(Pins!Scl(0)) /\ Tail(prog) = Rest(P, 5 * i + 2)
    BY <1>0, <1>1, <1>2, <1>3, At
  <2>2. outen = {"scl"} /\ "scl" \in outen
    BY <1>3 DEF Listens
  <2>3. Levels' /\ Steps /\ Silent /\ outen' = outen /\ scl' = 0 /\ Edge(0) /\ gpioout' = [scl |-> 0, sda |-> sda]
    BY <2>1, <2>2, <1>0, SetScl
  <2>4. Transmits(i, i + 1)' /\ bits' = bits
    <3>1. CASE Listens(1) /\ Transmits(i, i)
      <4>1. Fall
        BY <2>3, <3>1 DEF Edge, Listens
      <4> QED BY <4>1, <3>1, <1>0, FallSends
    <3>2. CASE Listens(0) /\ Transmits(i, i + 1)
      <4>1. Unmoved
        BY <2>3, <3>2 DEF Edge, Listens
      <4> QED BY <4>1, <3>2 DEF Transmits, Unmoved
    <3> QED BY <3>1, <3>2, <1>3
  <2>5. Listens(0)' /\ prog' = Rest(P, 5 * i + 2) /\ call' = call
    BY <2>1, <2>2, <2>3 DEF Listens, Steps
  <2>6. Took(i)'
    BY <2>3, <2>4, <1>3, TookStays DEF Silent
  <2>7. AtMore(i)'
    BY <2>4, <2>5, <2>6 DEF AtMore, ReadRest, P
  <2> QED BY <2>3, <2>5, <2>7
<1>4. CASE prog = Rest(P, 5 * i + 2) /\ Took(i) /\ Listens(0) /\ Transmits(i, i + 1)
  <2>1. Acts(Pins!Delay) /\ Tail(prog) = Rest(P, 5 * i + 3)
    BY <1>0, <1>1, <1>2, <1>4, At
  <2>2. outen = {"scl"} /\ "scl" \in outen /\ "sda" \notin outen /\ gpioout["scl"] = scl /\ scl = 0
    BY <1>4 DEF Listens
  <2>3. Levels' /\ Steps /\ Silent /\ outen' = outen /\ Held /\ Unmoved /\ pull' = pull /\ sda' = IF pull THEN 0 ELSE 1
    BY <2>1, <2>2, DelayStep
  <2>4. Listens(0)' /\ Transmits(i, i + 1)' /\ Shows' /\ prog' = Rest(P, 5 * i + 3) /\ call' = call
    BY <2>1, <2>2, <2>3, <1>4 DEF Listens, Transmits, Shows, Unmoved, Steps, Held
  <2>5. Took(i)'
    BY <2>3, <1>4, TookStays DEF Silent, Unmoved
  <2>6. AtMore(i)'
    BY <2>4, <2>5 DEF AtMore, ReadRest, P
  <2> QED BY <2>3, <2>4, <2>6
<1>5. CASE prog = Rest(P, 5 * i + 3) /\ Took(i) /\ Listens(0) /\ Transmits(i, i + 1) /\ Shows
  <2>1. Acts(Pins!Scl(1)) /\ Tail(prog) = Rest(P, 5 * i + 4)
    BY <1>0, <1>1, <1>2, <1>5, At
  <2>2. outen = {"scl"} /\ "scl" \in outen /\ "sda" \notin outen /\ scl = 0
    BY <1>5 DEF Listens
  <2>3. /\ Levels' /\ Steps /\ Silent /\ outen' = outen /\ scl' = 1 /\ Edge(1) /\ gpioout' = [scl |-> 1, sda |-> sda]
        /\ sda' = IF pull' THEN 0 ELSE IF pull THEN 0 ELSE sda
    BY <2>1, <2>2, <1>0, SetScl
  <2>4. Rise
    BY <2>2, <2>3 DEF Edge
  <2>5. Transmits(i + 1, i + 1)' /\ pull' = pull /\ bits' = bits
    BY <2>4, <1>0, <1>5, RiseSends
  <2>6. Shows'
    BY <2>3, <2>5, <1>5 DEF Shows
  <2>7. Listens(1)' /\ prog' = Rest(P, 5 * i + 4) /\ call' = call
    BY <2>1, <2>2, <2>3 DEF Listens, Steps
  <2>8. Took(i)'
    BY <2>3, <2>5, <1>5, TookStays DEF Silent
  <2>9. AtMore(i)'
    BY <2>5, <2>6, <2>7, <2>8 DEF AtMore, ReadRest, P
  <2> QED BY <2>3, <2>7, <2>9
<1>6. CASE prog = Rest(P, 5 * i + 4) /\ Took(i) /\ Listens(1) /\ Transmits(i + 1, i + 1) /\ Shows
  <2>1. Acts(Pins!Op("bit")) /\ Tail(prog) = Rest(P, 5 * i + 5)
    BY <1>0, <1>1, <1>2, <1>6, At
  <2>2. /\ Levels' /\ Steps /\ outen' = outen /\ Held /\ sda' = sda /\ Unmoved
        /\ ch' = Append(ch, sda) /\ ack' = ack
    BY <2>1, LookStep
  <2>3. Listens(1)' /\ Transmits(i + 1, i + 1)' /\ Shows' /\ prog' = Rest(P, 5 * i + 5) /\ call' = call
    BY <2>1, <2>2, <1>6 DEF Listens, Transmits, Shows, Unmoved, Steps, Held
  <2>4. Took(i + 1)'
    <3>1. bits' = bits
      BY <2>2 DEF Unmoved
    <3> QED BY <3>1, <2>2, <1>0, <1>6, TookMore
  <2>5. AtMore(i)'
    BY <2>3, <2>4 DEF AtMore, ReadRest, P
  <2> QED BY <2>2, <2>3, <2>5
<1>7. CASE prog = Rest(P, 5 * i + 5) /\ Took(i + 1) /\ Listens(1) /\ Transmits(i + 1, i + 1) /\ Shows
  <2>1. Acts(Pins!Delay) /\ Tail(prog) = Rest(P, 5 * (i + 1) + 1)
    BY <1>0, <1>1, <1>2, <1>7, At
  <2>2. /\ outen = {"scl"} /\ "scl" \in outen /\ "sda" \notin outen /\ gpioout["scl"] = scl
        /\ sda = IF pull THEN 0 ELSE 1
    BY <1>7 DEF Listens, Shows
  <2>3. Levels' /\ Steps /\ Silent /\ outen' = outen /\ Held /\ Unmoved
    BY <2>1, <2>2, DelayStep
  <2>4. Listens(1)' /\ Transmits(i + 1, i + 1)' /\ prog' = Rest(P, 5 * (i + 1) + 1) /\ call' = call
    BY <2>1, <2>2, <2>3, <1>7 DEF Listens, Transmits, Unmoved, Steps, Held
  <2>5. Took(i + 1)'
    BY <2>3, <1>7, TookStays DEF Silent, Unmoved
  <2>6. CASE i + 1 = BITS
    <3>1. Took(BITS)' /\ Transmits(BITS, BITS)' /\ prog' = Rest(P, 5 * BITS + 1)
      BY <2>4, <2>5, <2>6
    <3>2. AtLast'
      BY <2>4, <3>1 DEF AtLast, ReadRest, P
    <3> QED BY <2>3, <2>4, <3>2
  <2>7. CASE i + 1 # BITS
    <3>1. i + 1 \in 1..BITS - 1
      BY <2>7, <1>0
    <3>2. AtMore(i + 1)'
      BY <2>4, <2>5 DEF AtMore, ReadRest, P
    <3> QED BY <2>3, <2>4, <3>1, <3>2
  <2> QED BY <2>6, <2>7
<1> QED BY <1>3, <1>4, <1>5, <1>6, <1>7 DEF AtMore, ReadRest, P

(* The last bit, and the acknowledgement of the master.                    *)
LEMMA LastStep ==
  ASSUME Levels, call.fn = "read", call.stop \in BOOLEAN, AtLast, prog # <<>>, Pins!Next, ~Pins!LetGo
  PROVE  Levels' /\ call' = call /\ AtLast'
<1> DEFINE P == Pins!ReadProg(call.stop)
<1> DEFINE e == 5 * BITS
<1> DEFINE r == Reply(call.stop)
<1>0. call.fn # "none" /\ BITS \in Nat /\ e \in Nat /\ 0 \in 0..1 /\ 1 \in 0..1 /\ r \in 0..1
      /\ (call.stop => r = 1) /\ (~call.stop => r = 0)
  BY PinsConstants DEF Reply
<1>1. /\ StepAt(P, e + 1, Pins!Scl(0)) /\ StepAt(P, e + 2, Pins!Op("out")) /\ StepAt(P, e + 3, Pins!Sda(r))
      /\ StepAt(P, e + 4, Pins!Delay) /\ StepAt(P, e + 5, Pins!Scl(1)) /\ StepAt(P, e + 6, Pins!Delay)
      /\ StepAt(P, e + 7, Pins!Scl(0)) /\ StepAt(P, e + 8, Pins!Delay)
  <2>1. \A j \in 1..8 : StepAt(P, e + j, Last(call.stop)[j])
    BY ReadSteps
  <2>2. /\ Last(call.stop)[1] = Pins!Scl(0) /\ Last(call.stop)[2] = Pins!Op("out") /\ Last(call.stop)[3] = Pins!Sda(r)
        /\ Last(call.stop)[4] = Pins!Delay /\ Last(call.stop)[5] = Pins!Scl(1) /\ Last(call.stop)[6] = Pins!Delay
        /\ Last(call.stop)[7] = Pins!Scl(0) /\ Last(call.stop)[8] = Pins!Delay
    BY DEF Last
  <2> HIDE DEF P, e, r
  <2> QED BY <2>1, <2>2
<1>2. /\ (e + 1) + 1 = e + 2 /\ (e + 2) + 1 = e + 3 /\ (e + 3) + 1 = e + 4 /\ (e + 4) + 1 = e + 5
      /\ (e + 5) + 1 = e + 6 /\ (e + 6) + 1 = e + 7 /\ (e + 7) + 1 = e + 8 /\ (e + 8) + 1 = e + 9
      /\ (e + 9) + 1 = e + 10 /\ (e + 10) + 1 = e + 11 /\ (e + 11) + 1 = e + 12 /\ (e + 12) + 1 = e + 13
  BY <1>0
<1>3. /\ ~call.stop => Rest(P, e + 9) = <<>>
      /\ call.stop => /\ StepAt(P, e + 9, Pins!Scl(1)) /\ StepAt(P, e + 10, Pins!Delay)
                      /\ StepAt(P, e + 11, Pins!Sda(1)) /\ StepAt(P, e + 12, Pins!Delay)
                      /\ Rest(P, e + 13) = <<>>
  <2>1. /\ Rest(P, e + 9 + HaltLen(call.stop)) = <<>>
        /\ call.stop => /\ StepAt(P, e + 9, Pins!Scl(1)) /\ StepAt(P, e + 10, Pins!Delay)
                        /\ StepAt(P, e + 11, Pins!Sda(1)) /\ StepAt(P, e + 12, Pins!Delay)
    BY ReadSteps
  <2>2. (call.stop => e + 9 + HaltLen(call.stop) = e + 13) /\ (~call.stop => e + 9 + HaltLen(call.stop) = e + 9)
    BY <1>0 DEF HaltLen
  <2> HIDE DEF P, e
  <2> QED BY <2>1, <2>2
<1> HIDE DEF P, e, r
<1>4. CASE prog = Rest(P, e + 1) /\ ((Listens(1) /\ Transmits(BITS, BITS) /\ Took(BITS)) \/ (Listens(0) /\ Waits))
  <2>1. Acts(Pins!Scl(0)) /\ Tail(prog) = Rest(P, e + 2)
    BY <1>0, <1>1, <1>2, <1>4, At
  <2>2. outen = {"scl"} /\ "scl" \in outen
    BY <1>4 DEF Listens
  <2>3. Levels' /\ Steps /\ Silent /\ outen' = outen /\ scl' = 0 /\ Edge(0) /\ gpioout' = [scl |-> 0, sda |-> sda]
    BY <2>1, <2>2, <1>0, SetScl
  <2>4. Waits'
    <3>0. ch' = ch
      BY <2>3 DEF Silent
    <3>1. CASE Listens(1) /\ Transmits(BITS, BITS) /\ Took(BITS)
      <4>1. Fall
        BY <2>3, <3>1 DEF Edge, Listens
      <4> QED BY <4>1, <3>0, <3>1, FallEnds
    <3>2. CASE Listens(0) /\ Waits
      <4>1. Unmoved
        BY <2>3, <3>2 DEF Edge, Listens
      <4> QED BY <4>1, <3>0, <3>2 DEF Waits, Unmoved
    <3> QED BY <3>1, <3>2, <1>4
  <2>5. Listens(0)' /\ prog' = Rest(P, e + 2) /\ call' = call
    BY <2>1, <2>2, <2>3 DEF Listens, Steps
  <2>6. AtLast'
    BY <2>4, <2>5 DEF AtLast, ReadRest, P, e
  <2> QED BY <2>3, <2>5, <2>6
<1>5. CASE prog = Rest(P, e + 2) /\ Listens(0) /\ Waits
  <2>1. Acts(Pins!Op("out")) /\ Tail(prog) = Rest(P, e + 3)
    BY <1>0, <1>1, <1>2, <1>5, At
  <2>2. outen = {"scl"} /\ gpioout["scl"] = scl /\ scl = 0
    BY <1>5 DEF Listens
  <2>3. Levels' /\ Steps /\ Silent /\ outen' = Both /\ Held /\ Unmoved /\ sda' = gpioout["sda"]
    BY <2>1, <2>2, OutStep
  <2>4. Drives(0, sda)'
    BY <2>2, <2>3, BothLevels DEF Drives, Held
  <2>5. Waits' /\ prog' = Rest(P, e + 3) /\ call' = call
    BY <2>1, <2>3, <1>5 DEF Waits, Unmoved, Steps, Silent
  <2>6. AtLast'
    BY <2>4, <2>5 DEF AtLast, ReadRest, P, e
  <2> QED BY <2>3, <2>5, <2>6
<1>6. CASE prog = Rest(P, e + 3) /\ Drives(0, sda) /\ Waits
  <2>1. Acts(Pins!Sda(r)) /\ Tail(prog) = Rest(P, e + 4)
    BY <1>0, <1>1, <1>2, <1>6, At
  <2>2. outen = Both /\ scl = 0
    BY <1>6 DEF Drives
  <2>3. /\ Levels' /\ Steps /\ Silent /\ outen' = outen /\ scl' = scl /\ sda' = r /\ Unmoved
        /\ gpioout' = [scl |-> scl, sda |-> r]
    BY <1>0, <2>1, <2>2, SetSda
  <2>4. Drives(0, r)' /\ Waits' /\ prog' = Rest(P, e + 4) /\ call' = call
    BY <2>1, <2>2, <2>3, <1>6 DEF Drives, Waits, Unmoved, Steps, Silent, r
  <2>5. AtLast'
    <3>1. \E j \in 4..5 : prog' = Rest(P, e + j)
      BY <2>4
    <3> QED BY <3>1, <2>4 DEF AtLast, ReadRest, P, e, r
  <2> QED BY <2>3, <2>4, <2>5
<1>7. CASE prog = Rest(P, e + 4) /\ Drives(0, r) /\ Waits
  <2>1. Acts(Pins!Delay) /\ Tail(prog) = Rest(P, e + 5)
    BY <1>0, <1>1, <1>2, <1>7, At
  <2>2. outen = Both /\ "scl" \in outen /\ "sda" \in outen /\ gpioout["scl"] = scl /\ gpioout["sda"] = sda
    BY <1>7 DEF Drives, Both
  <2>3. Levels' /\ Steps /\ Silent /\ outen' = outen /\ Held /\ Unmoved /\ sda' = sda
    BY <2>1, <2>2, DelayStep
  <2>4. Drives(0, r)' /\ Waits' /\ prog' = Rest(P, e + 5) /\ call' = call
    BY <2>1, <2>2, <2>3, <1>7 DEF Drives, Waits, Unmoved, Steps, Held, Silent, r
  <2>5. AtLast'
    <3>1. \E j \in 4..5 : prog' = Rest(P, e + j)
      BY <2>4
    <3> QED BY <3>1, <2>4 DEF AtLast, ReadRest, P, e, r
  <2> QED BY <2>3, <2>4, <2>5
<1> DEFINE after == IF call.stop THEN "off" ELSE "more"
<1>8. CASE prog = Rest(P, e + 5) /\ Drives(0, r) /\ Waits
  <2>1. Acts(Pins!Scl(1)) /\ Tail(prog) = Rest(P, e + 6)
    BY <1>0, <1>1, <1>2, <1>8, At
  <2>2. outen = Both /\ "scl" \in outen /\ "sda" \in outen /\ scl = 0 /\ sda = r
    BY <1>8 DEF Drives, Both
  <2>3. /\ Levels' /\ Steps /\ Silent /\ outen' = outen /\ scl' = 1 /\ Edge(1)
        /\ gpioout' = [scl |-> 1, sda |-> sda] /\ sda' = sda
    BY <1>0, <2>1, <2>2, SetScl
  <2>4. Rise
    BY <2>2, <2>3 DEF Edge
  <2>5. slave' = (IF sda = 0 THEN "more" ELSE "off") /\ pull' = pull /\ heard' = heard
    BY <2>4, <1>8, RiseIs DEF Waits
  <2>6. slave' = after /\ ~pull' /\ Heard'
    BY <2>2, <2>3, <2>5, <1>0, <1>8 DEF Waits, Heard, Silent
  <2>7. Drives(1, r)' /\ prog' = Rest(P, e + 6) /\ call' = call
    BY <2>1, <2>2, <2>3 DEF Drives, Steps, r
  <2>8. AtLast'
    <3>1. \E j \in 6..7 : prog' = Rest(P, e + j)
      BY <2>7
    <3> QED BY <3>1, <2>6, <2>7 DEF AtLast, ReadRest, P, e, r
  <2> QED BY <2>3, <2>7, <2>8
<1>9. CASE prog = Rest(P, e + 6) /\ Drives(1, r) /\ Heard /\ ~pull /\ slave = after
  <2>1. Acts(Pins!Delay) /\ Tail(prog) = Rest(P, e + 7)
    BY <1>0, <1>1, <1>2, <1>9, At
  <2>2. outen = Both /\ "scl" \in outen /\ "sda" \in outen /\ gpioout["scl"] = scl /\ gpioout["sda"] = sda
    BY <1>9 DEF Drives, Both
  <2>3. Levels' /\ Steps /\ Silent /\ outen' = outen /\ Held /\ Unmoved /\ sda' = sda
    BY <2>1, <2>2, DelayStep
  <2>4. Drives(1, r)' /\ Heard' /\ ~pull' /\ slave' = after /\ prog' = Rest(P, e + 7) /\ call' = call
    BY <2>1, <2>2, <2>3, <1>9 DEF Drives, Heard, Unmoved, Steps, Held, Silent, r
  <2>5. AtLast'
    <3>1. \E j \in 6..7 : prog' = Rest(P, e + j)
      BY <2>4
    <3> QED BY <3>1, <2>4 DEF AtLast, ReadRest, P, e, r
  <2> QED BY <2>3, <2>4, <2>5
<1>10. CASE prog = Rest(P, e + 7) /\ Drives(1, r) /\ Heard /\ ~pull /\ slave = after
  <2>1. Acts(Pins!Scl(0)) /\ Tail(prog) = Rest(P, e + 8)
    BY <1>0, <1>1, <1>2, <1>10, At
  <2>2. outen = Both /\ "scl" \in outen /\ "sda" \in outen /\ scl = 1 /\ sda = r
    BY <1>10 DEF Drives, Both
  <2>3. /\ Levels' /\ Steps /\ Silent /\ outen' = outen /\ scl' = 0 /\ Edge(0)
        /\ gpioout' = [scl |-> 0, sda |-> sda] /\ sda' = sda
    BY <1>0, <2>1, <2>2, SetScl
  <2>4. Fall
    BY <2>2, <2>3 DEF Edge
  <2>5. Drives(0, r)' /\ prog' = Rest(P, e + 8) /\ call' = call /\ ch' = ch
    BY <2>1, <2>2, <2>3 DEF Drives, Steps, Silent, r
  <2>6. CASE call.stop
    <3>1. Unmoved
      BY <2>4, <2>6, <1>10, FallIs
    <3>2. Leaves' /\ Heard' /\ Drives(0, 1)'
      BY <3>1, <2>5, <2>6, <1>0, <1>10 DEF Leaves, Heard, Unmoved, r
    <3>3. \E j \in 8..9 : prog' = Rest(P, e + j)
      BY <2>5
    <3>4. AtLast'
      BY <3>2, <3>3, <2>5, <2>6 DEF AtLast, ReadRest, P, e
    <3> QED BY <2>3, <2>5, <3>4
  <2>7. CASE ~call.stop
    <3>1. SendsByte
      BY <2>4, <2>7, <1>10, FallIs
    <3>2. Transmits(0, 1)' /\ Heard' /\ Drives(0, 0)'
      BY <3>1, <2>5, <2>7, <1>0, <1>10 DEF SendsByte, Transmits, Heard, r
    <3>3. AtLast'
      BY <3>2, <2>5, <2>7 DEF AtLast, ReadRest, P, e
    <3> QED BY <2>3, <2>5, <3>3
  <2> QED BY <2>6, <2>7
<1>11. CASE prog = Rest(P, e + 8) /\ ~call.stop /\ Drives(0, 0) /\ Transmits(0, 1) /\ Heard
  <2>1. Acts(Pins!Delay) /\ Tail(prog) = <<>>
    BY <1>0, <1>1, <1>2, <1>3, <1>11, At
  <2>2. outen = Both /\ "scl" \in outen /\ "sda" \in outen /\ gpioout["scl"] = scl /\ gpioout["sda"] = sda
    BY <1>11 DEF Drives, Both
  <2>3. Levels' /\ Steps /\ Silent /\ outen' = outen /\ Held /\ Unmoved /\ sda' = sda
    BY <2>1, <2>2, DelayStep
  <2>4. Drives(0, 0)' /\ Transmits(0, 1)' /\ Heard' /\ prog' = <<>> /\ call' = call
    BY <2>1, <2>2, <2>3, <1>11 DEF Drives, Transmits, Heard, Unmoved, Steps, Held, Silent
  <2>5. AtLast'
    BY <2>4, <1>11 DEF AtLast
  <2> QED BY <2>3, <2>4, <2>5
<1>12. CASE prog = Rest(P, e + 8) /\ call.stop /\ Drives(0, 1) /\ Leaves /\ Heard
  <2>1. Acts(Pins!Delay) /\ Tail(prog) = Rest(P, e + 9)
    BY <1>0, <1>1, <1>2, <1>12, At
  <2>2. outen = Both /\ "scl" \in outen /\ "sda" \in outen /\ gpioout["scl"] = scl /\ gpioout["sda"] = sda
    BY <1>12 DEF Drives, Both
  <2>3. Levels' /\ Steps /\ Silent /\ outen' = outen /\ Held /\ Unmoved /\ sda' = sda
    BY <2>1, <2>2, DelayStep
  <2>4. Drives(0, 1)' /\ Leaves' /\ Heard' /\ prog' = Rest(P, e + 9) /\ call' = call
    BY <2>1, <2>2, <2>3, <1>12 DEF Drives, Leaves, Heard, Unmoved, Steps, Held, Silent
  <2>5. \E j \in 8..9 : prog' = Rest(P, e + j)
    BY <2>4
  <2>6. AtLast'
    BY <2>4, <2>5, <1>12 DEF AtLast, ReadRest, P, e
  <2> QED BY <2>3, <2>4, <2>6
<1>13. CASE prog = Rest(P, e + 9) /\ call.stop /\ Drives(0, 1) /\ Leaves /\ Heard
  <2>1. Acts(Pins!Scl(1)) /\ Tail(prog) = Rest(P, e + 10)
    BY <1>0, <1>2, <1>3, <1>13, At
  <2>2. outen = Both /\ "scl" \in outen /\ "sda" \in outen /\ scl = 0 /\ sda = 1
    BY <1>13 DEF Drives, Both
  <2>3. /\ Levels' /\ Steps /\ Silent /\ outen' = outen /\ scl' = 1 /\ Edge(1)
        /\ gpioout' = [scl |-> 1, sda |-> sda] /\ sda' = sda
    BY <1>0, <2>1, <2>2, SetScl
  <2>4. Unmoved
    <3>1. Rise
      BY <2>2, <2>3 DEF Edge
    <3> QED BY <3>1, <1>13, RiseIs DEF Leaves
  <2>5. Freed' /\ Heard' /\ prog' = Rest(P, e + 10) /\ call' = call
    BY <2>1, <2>2, <2>3, <2>4, <1>13 DEF Freed, Drives, Leaves, Heard, Unmoved, Steps, Silent
  <2>6. \E j \in 10..12 : prog' = Rest(P, e + j)
    BY <2>5
  <2>7. AtLast'
    BY <2>5, <2>6, <1>13 DEF AtLast, ReadRest, P, e
  <2> QED BY <2>3, <2>5, <2>7
<1>14. CASE prog \in {Rest(P, e + 10), Rest(P, e + 12)} /\ call.stop /\ Freed /\ Heard
  <2>1. Acts(Pins!Delay) /\ Tail(prog) \in {Rest(P, e + 11), <<>>}
    <3>1. CASE prog = Rest(P, e + 10)
      BY <1>0, <1>2, <1>3, <1>14, <3>1, At
    <3>2. CASE prog = Rest(P, e + 12)
      BY <1>0, <1>2, <1>3, <1>14, <3>2, At
    <3> QED BY <3>1, <3>2, <1>14
  <2>2. outen = Both /\ "scl" \in outen /\ "sda" \in outen /\ gpioout["scl"] = scl /\ gpioout["sda"] = sda
    BY <1>14 DEF Freed, Drives, Both
  <2>3. Levels' /\ Steps /\ Silent /\ outen' = outen /\ Held /\ Unmoved /\ sda' = sda
    BY <2>1, <2>2, DelayStep
  <2>4. Freed' /\ Heard' /\ prog' \in {Rest(P, e + 11), <<>>} /\ call' = call
    BY <2>1, <2>2, <2>3, <1>14 DEF Freed, Drives, Leaves, Heard, Unmoved, Steps, Held, Silent
  <2>5. (\E j \in 10..12 : prog' = Rest(P, e + j)) \/ prog' = <<>>
    BY <2>4
  <2>6. AtLast'
    BY <2>4, <2>5, <1>14 DEF AtLast, ReadRest, P, e
  <2> QED BY <2>3, <2>4, <2>6
<1>15. CASE prog = Rest(P, e + 11) /\ call.stop /\ Freed /\ Heard
  <2>1. Acts(Pins!Sda(1)) /\ Tail(prog) = Rest(P, e + 12)
    BY <1>0, <1>2, <1>3, <1>15, At
  <2>2. outen = Both /\ scl = 1 /\ sda = 1
    BY <1>15 DEF Freed, Drives
  <2>3. /\ Levels' /\ Steps /\ Silent /\ outen' = outen /\ scl' = scl /\ sda' = 1 /\ Unmoved
        /\ gpioout' = [scl |-> scl, sda |-> 1]
    BY <1>0, <2>1, <2>2, SetSda
  <2>4. Freed' /\ Heard' /\ prog' = Rest(P, e + 12) /\ call' = call
    BY <2>1, <2>2, <2>3, <1>15 DEF Freed, Drives, Leaves, Heard, Unmoved, Steps, Silent
  <2>5. \E j \in 10..12 : prog' = Rest(P, e + j)
    BY <2>4
  <2>6. AtLast'
    BY <2>4, <2>5, <1>15 DEF AtLast, ReadRest, P, e
  <2> QED BY <2>3, <2>4, <2>6
<1>16. /\ \A j \in 4..5 : prog = Rest(P, e + j) => prog = Rest(P, e + 4) \/ prog = Rest(P, e + 5)
       /\ \A j \in 6..7 : prog = Rest(P, e + j) => prog = Rest(P, e + 6) \/ prog = Rest(P, e + 7)
       /\ \A j \in 8..9 : prog = Rest(P, e + j) => prog = Rest(P, e + 8) \/ prog = Rest(P, e + 9)
       /\ \A j \in 10..12 : prog = Rest(P, e + j) =>
            prog \in {Rest(P, e + 10), Rest(P, e + 12)} \/ prog = Rest(P, e + 11)
  <2>1. (\A j \in 4..5 : j = 4 \/ j = 5) /\ (\A j \in 6..7 : j = 6 \/ j = 7) /\ (\A j \in 8..9 : j = 8 \/ j = 9)
    OBVIOUS
  <2>2. \A j \in 10..12 : j = 10 \/ j = 11 \/ j = 12
    OBVIOUS
  <2> QED BY <2>1, <2>2
<1> QED BY <1>4, <1>5, <1>6, <1>7, <1>8, <1>9, <1>10, <1>11, <1>12, <1>13, <1>14, <1>15, <1>16
        DEF AtLast, ReadRest, P, e, r

(* A program that is at one of its accesses is not at its end.             *)
LEMMA WriteEnds ==
  ASSUME InWrite, prog = <<>>
  PROVE  Same /\ (((call.stop \/ ack = 0) /\ Freed) \/ (~call.stop /\ ack = 1 /\ Listens(0) /\ Answered))
<1>1. Writes
  BY DEF InWrite
<1>2. /\ \A k \in 1..2 : WriteRest(k) # <<>>
      /\ call.start => WriteRest(3) # <<>>
      /\ \A i \in 1..BITS : \A j \in 1..5 : WriteRest(BitAt(call.start, i, j)) # <<>>
      /\ \A j \in 1..9 : WriteRest(TellAt(call.start, j)) # <<>>
  <2> DEFINE P == Pins!WriteProg(call.byte, call.start)
  <2>1. /\ StepAt(P, 1, Pins!Op("out"))
        /\ call.start => StepAt(P, 2, Pins!Sda(0)) /\ StepAt(P, 3, Pins!Delay)
        /\ ~call.start => StepAt(P, 2, Pins!Delay)
        /\ \A i \in 1..BITS : /\ StepAt(P, BitAt(call.start, i, 1), Pins!Scl(0))
                              /\ StepAt(P, BitAt(call.start, i, 2), Pins!Sda(call.byte[i]))
                              /\ StepAt(P, BitAt(call.start, i, 3), Pins!Delay)
                              /\ StepAt(P, BitAt(call.start, i, 4), Pins!Scl(1))
                              /\ StepAt(P, BitAt(call.start, i, 5), Pins!Delay)
        /\ \A j \in 1..9 : StepAt(P, TellAt(call.start, j), Trailer[j])
    BY <1>1, WriteSteps DEF Writes
  <2>2. \A k, o : StepAt(P, k, o) => WriteRest(k) # <<>>
    BY DEF StepAt, WriteRest
  <2> HIDE DEF P
  <2>3. WriteRest(1) # <<>> /\ WriteRest(2) # <<>> /\ (call.start => WriteRest(3) # <<>>)
    BY <2>1, <2>2
  <2>4. ASSUME NEW i \in 1..BITS, NEW j \in 1..5 PROVE WriteRest(BitAt(call.start, i, j)) # <<>>
    <3>1. j = 1 \/ j = 2 \/ j = 3 \/ j = 4 \/ j = 5
      OBVIOUS
    <3> QED BY <3>1, <2>1, <2>2
  <2>5. \A j \in 1..9 : WriteRest(TellAt(call.start, j)) # <<>>
    BY <2>1, <2>2
  <2> QED BY <2>3, <2>4, <2>5
<1>3. ~AtHead
  BY <1>2 DEF AtHead
<1>4. \A i \in 1..BITS : ~AtBit(i)
  BY <1>2 DEF AtBit
<1>5. ~AtTell
  BY <1>2 DEF AtTell
<1>6. AtStop => Same /\ (call.stop \/ ack = 0) /\ Freed
  <2>1. /\ StopRest(1) # <<>> /\ StopRest(2) # <<>> /\ StopRest(3) # <<>> /\ StopRest(4) # <<>> /\ StopRest(5) # <<>>
    BY StopSteps DEF StepAt, StopRest
  <2>2. \A k \in 4..5 : StopRest(k) # <<>>
    <3>1. \A k \in 4..5 : k = 4 \/ k = 5
      OBVIOUS
    <3> QED BY <2>1, <3>1
  <2> QED BY <2>1, <2>2 DEF AtStop
<1>7. WriteDone => Same /\ ~call.stop /\ ack = 1 /\ Listens(0) /\ Answered
  BY DEF WriteDone, Answered
<1> QED BY <1>3, <1>4, <1>5, <1>6, <1>7 DEF InWrite

LEMMA ReadEnds ==
  ASSUME InRead, prog = <<>>
  PROVE  Heard /\ ((call.stop /\ Freed) \/ (~call.stop /\ Drives(0, 0) /\ Transmits(0, 1)))
<1>1. call.stop \in BOOLEAN
  BY DEF InRead
<1>2. /\ \A k \in 1..5 : ReadRest(k) # <<>>
      /\ \A i \in 1..BITS - 1 : \A j \in 1..5 : ReadRest(5 * i + j) # <<>>
      /\ \A j \in 1..8 : ReadRest(5 * BITS + j) # <<>>
      /\ call.stop => \A j \in 9..12 : ReadRest(5 * BITS + j) # <<>>
  <2> DEFINE P == Pins!ReadProg(call.stop)
  <2>1. /\ \A k \in 1..5 : StepAt(P, k, Ask[k])
        /\ \A i \in 1..BITS - 1 : \A j \in 1..5 : StepAt(P, 5 * i + j, ReadBit[j])
        /\ \A j \in 1..8 : StepAt(P, 5 * BITS + j, Last(call.stop)[j])
        /\ call.stop => /\ StepAt(P, 5 * BITS + 9, Pins!Scl(1)) /\ StepAt(P, 5 * BITS + 10, Pins!Delay)
                        /\ StepAt(P, 5 * BITS + 11, Pins!Sda(1)) /\ StepAt(P, 5 * BITS + 12, Pins!Delay)
    BY <1>1, ReadSteps
  <2>2. \A k, o : StepAt(P, k, o) => ReadRest(k) # <<>>
    BY DEF StepAt, ReadRest
  <2> HIDE DEF P
  <2>3. ASSUME call.stop, NEW j \in 9..12 PROVE ReadRest(5 * BITS + j) # <<>>
    <3>1. j = 9 \/ j = 10 \/ j = 11 \/ j = 12
      OBVIOUS
    <3> QED BY <3>1, <2>1, <2>2, <2>3
  <2>4. \A k \in 1..5 : ReadRest(k) # <<>>
    BY <2>1, <2>2
  <2>5. \A i \in 1..BITS - 1 : \A j \in 1..5 : ReadRest(5 * i + j) # <<>>
    BY <2>1, <2>2
  <2>6. \A j \in 1..8 : ReadRest(5 * BITS + j) # <<>>
    BY <2>1, <2>2
  <2> QED BY <2>3, <2>4, <2>5, <2>6
<1>3. ~AtAsk
  BY <1>2 DEF AtAsk
<1>4. \A i \in 1..BITS - 1 : ~AtMore(i)
  BY <1>2 DEF AtMore
<1>5. AtLast => Heard /\ ((call.stop /\ Freed) \/ (~call.stop /\ Drives(0, 0) /\ Transmits(0, 1)))
  BY <1>2 DEF AtLast
<1> QED BY <1>3, <1>4, <1>5 DEF InRead

LEMMA PinsInit == ASSUME Pins!Init PROVE PinsInv
<1>1. Levels
  BY DEF Pins!Init, Levels, Both
<1>2. Between
  BY DEF Pins!Init, Between, Freed, Drives, Leaves, Both
<1> QED BY <1>1, <1>2 DEF PinsInv

LEMMA WriteCall == ASSUME PinsInv, Pins!Write PROVE PinsInv'
<1>1. PICK b \in Pins!Bytes, stop \in BOOLEAN :
        /\ rw = "start" /\ b[BITS] = 1 => ~stop
        /\ call' = [fn |-> "write", byte |-> b, stop |-> stop, start |-> rw = "start"]
        /\ prog' = Pins!WriteProg(b, rw = "start")
  BY DEF Pins!Write
<1> DEFINE st == (rw = "start")
<1>2. /\ call.fn = "none" /\ rw \in {"start", "write"} /\ ack' = 0 /\ Unmoved
      /\ gpioout' = gpioout /\ outen' = outen /\ scl' = scl /\ sda' = sda
  BY DEF Pins!Write, Pins!device, Unmoved
<1>3. Between /\ Levels
  BY <1>2 DEF PinsInv, InWrite, InRead, Writes
<1>4. Levels'
  BY <1>2, <1>3 DEF Levels
<1>5. call'.fn = "write" /\ call'.byte = b /\ call'.stop = stop /\ call'.start = st
  BY <1>1
<1>6. Writes'
  BY <1>1, <1>5 DEF Writes, Reads
<1>7. prog' = WriteRest(1)'
  <2>1. Rest(Pins!WriteProg(b, st), 1) = Pins!WriteProg(b, st)
    BY WriteSteps
  <2> QED BY <2>1, <1>1, <1>5 DEF WriteRest
<1>8. AtHead'
  <2>1. CASE st
    <3>1. Freed'
      BY <1>2, <1>3, <2>1 DEF Between, Freed, Drives, Leaves, Unmoved
    <3>2. \E k \in 1..2 : prog' = WriteRest(k)'
      BY <1>7
    <3> QED BY <3>1, <3>2, <1>5, <2>1 DEF AtHead
  <2>2. CASE ~st
    <3>1. ToWrite'
      BY <1>2, <1>3, <2>2 DEF Between, ToWrite, Listens, Receives, Unmoved
    <3> QED BY <3>1, <1>5, <1>7, <2>2 DEF AtHead
  <2> QED BY <2>1, <2>2
<1> QED BY <1>4, <1>6, <1>8 DEF PinsInv, InWrite

LEMMA ReadCall == ASSUME PinsInv, Pins!Read PROVE PinsInv'
<1>1. PICK stop \in BOOLEAN : call' = [fn |-> "read", stop |-> stop] /\ prog' = Pins!ReadProg(stop)
  BY DEF Pins!Read
<1>2. /\ call.fn = "none" /\ rw = "read" /\ ch' = <<>> /\ ack' = ack /\ Unmoved
      /\ gpioout' = gpioout /\ outen' = outen /\ scl' = scl /\ sda' = sda
  BY DEF Pins!Read, Pins!device, Unmoved
<1>3. Between /\ Levels
  BY <1>2 DEF PinsInv, InWrite, InRead, Writes
<1>4. Levels'
  BY <1>2, <1>3 DEF Levels
<1>5. call'.fn = "read" /\ call'.stop = stop
  BY <1>1
<1>6. prog' = ReadRest(1)'
  <2>1. Rest(Pins!ReadProg(stop), 1) = Pins!ReadProg(stop)
    BY ReadSteps
  <2> QED BY <2>1, <1>1, <1>5 DEF ReadRest
<1>7. ToRead' /\ Took(0)'
  <2>1. ToRead'
    BY <1>2, <1>3 DEF Between, ToRead, Transmits, Unmoved
  <2>2. Took(0)'
    BY <1>2, NoBits DEF Took
  <2> QED BY <2>1, <2>2
<1>8. AtAsk'
  BY <1>6, <1>7 DEF AtAsk
<1> QED BY <1>4, <1>5, <1>8 DEF PinsInv, InRead

LEMMA ReturnCall == ASSUME PinsInv, Pins!Return PROVE PinsInv'
<1>1. /\ prog = <<>> /\ call.fn # "none" /\ call' = [fn |-> "none"] /\ prog' = prog /\ Unmoved /\ Silent
      /\ gpioout' = gpioout /\ outen' = outen /\ scl' = scl /\ sda' = sda
      /\ rw' = IF call.stop \/ (call.fn = "write" /\ ack = 0) THEN "start"
               ELSE IF call.fn = "read" \/ (call.start /\ call.byte[BITS] = 1) THEN "read" ELSE "write"
  BY DEF Pins!Return, Pins!device, Pins!master, Unmoved, Silent
<1>2. Levels'
  BY <1>1 DEF PinsInv, Levels, Silent
<1>3. Freed => Freed'
  BY <1>1 DEF Freed, Drives, Leaves, Unmoved
<1>4. ToWrite => ToWrite'
  BY <1>1 DEF ToWrite, Listens, Receives, Unmoved
<1>5. ToRead => ToRead'
  BY <1>1 DEF ToRead, Transmits, Unmoved
<1>6. CASE InWrite
  <2>1. Same /\ (((call.stop \/ ack = 0) /\ Freed) \/ (~call.stop /\ ack = 1 /\ Listens(0) /\ Answered))
    BY <1>1, <1>6, WriteEnds
  <2>2. call.fn = "write"
    BY <1>6 DEF InWrite, Writes
  <2>3. CASE (call.stop \/ ack = 0) /\ Freed
    <3>1. Between'
      BY <2>2, <2>3, <1>1, <1>3 DEF Between
    <3> QED BY <3>1, <1>2 DEF PinsInv
  <2>4. CASE ~call.stop /\ ack = 1 /\ Listens(0) /\ Answered
    <3>1. CASE Reads
      <4>1. ToRead
        BY <2>4, <3>1 DEF Answered, ToRead, Listens
      <4>2. rw' = "read"
        BY <1>1, <2>2, <2>4, <3>1 DEF Reads
      <4>3. Between'
        BY <4>1, <4>2, <1>1, <1>5 DEF Between
      <4> QED BY <4>3, <1>2 DEF PinsInv
    <3>2. CASE ~Reads
      <4>1. ToWrite
        BY <2>4, <3>2 DEF Answered, ToWrite
      <4>2. rw' = "write"
        BY <1>1, <2>2, <2>4, <3>2 DEF Reads
      <4>3. Between'
        BY <4>1, <4>2, <1>1, <1>4 DEF Between
      <4> QED BY <4>3, <1>2 DEF PinsInv
    <3> QED BY <3>1, <3>2
  <2> QED BY <2>1, <2>3, <2>4
<1>7. CASE InRead
  <2>1. Heard /\ ((call.stop /\ Freed) \/ (~call.stop /\ Drives(0, 0) /\ Transmits(0, 1)))
    BY <1>1, <1>7, ReadEnds
  <2>2. call.fn = "read"
    BY <1>7 DEF InRead
  <2>3. CASE call.stop /\ Freed
    <3>1. Between'
      BY <2>3, <1>1, <1>3 DEF Between
    <3> QED BY <3>1, <1>2 DEF PinsInv
  <2>4. CASE ~call.stop /\ Drives(0, 0) /\ Transmits(0, 1)
    <3>1. ToRead
      BY <2>4 DEF ToRead, Drives
    <3>2. rw' = "read"
      BY <1>1, <2>2, <2>4
    <3>3. Between'
      BY <3>1, <3>2, <1>1, <1>5 DEF Between
    <3> QED BY <3>3, <1>2 DEF PinsInv
  <2> QED BY <2>1, <2>3, <2>4
<1> QED BY <1>1, <1>6, <1>7 DEF PinsInv, Between

LEMMA PinsStill ==
  ASSUME PinsInv, Levels', Unmoved, Silent,
         prog' = prog, call' = call, rw' = rw, gpioout' = gpioout, outen' = outen, scl' = scl, sda' = sda
  PROVE  PinsInv'
<1>1. /\ Freed' <=> Freed
      /\ ToWrite' <=> ToWrite
      /\ ToRead' <=> ToRead
  BY DEF Freed, ToWrite, ToRead, Drives, Listens, Leaves, Receives, Transmits, Unmoved
<1>2. Between' <=> Between
  BY <1>1 DEF Between
<1>3. (Writes' <=> Writes) /\ (Same' <=> Same) /\ (Answers' <=> Answers) /\ (Answered' <=> Answered) /\ (Quiet' <=> Quiet)
  BY DEF Writes, Reads, Same, Answers, Answered, Quiet, Leaves, Receives, Transmits, Unmoved, Silent
<1>4. /\ \A k : WriteRest(k)' = WriteRest(k) /\ StopRest(k)' = StopRest(k) /\ ReadRest(k)' = ReadRest(k)
      /\ Reply(call.stop)' = Reply(call.stop)
  BY DEF WriteRest, StopRest, ReadRest
<1>5. /\ \A c, d : Drives(c, d)' <=> Drives(c, d)
      /\ \A c : (Listens(c)' <=> Listens(c)) /\ (Floats(c)' <=> Floats(c))
      /\ \A m : Receives(call.byte, m)' <=> Receives(call.byte, m)
      /\ \A m, k : Transmits(m, k)' <=> Transmits(m, k)
      /\ \A m : Took(m)' <=> Took(m)
      /\ (Shows' <=> Shows) /\ (Leaves' <=> Leaves) /\ (Waits' <=> Waits) /\ (Heard' <=> Heard)
  BY DEF Drives, Listens, Floats, Receives, Transmits, Took, Shows, Leaves, Waits, Heard, Unmoved, Silent
<1>6. AtHead => AtHead'
  BY <1>1, <1>4, <1>5 DEF AtHead, Unmoved, Drives, Receives
<1>7. ASSUME NEW i \in 1..BITS, AtBit(i) PROVE AtBit(i)'
  BY <1>4, <1>7 DEF AtBit, Unmoved, Drives, Receives
<1>8. AtTell => AtTell'
  BY <1>3, <1>4 DEF AtTell, Unmoved, Drives, Receives, Listens, Shows, Silent
<1>9. AtStop => AtStop'
  BY <1>1, <1>3, <1>4 DEF AtStop, Drives, Listens, Silent
<1>10. WriteDone => WriteDone'
  BY <1>3 DEF WriteDone, Listens, Silent
<1>11. InWrite => InWrite'
  BY <1>3, <1>6, <1>7, <1>8, <1>9, <1>10 DEF InWrite
<1>12. AtAsk => AtAsk'
  BY <1>1, <1>4 DEF AtAsk, Listens, Floats, Transmits, Took, Shows, Unmoved, Silent
<1>13. ASSUME NEW i \in 1..BITS - 1, AtMore(i) PROVE AtMore(i)'
  BY <1>4, <1>13 DEF AtMore, Listens, Transmits, Took, Shows, Unmoved, Silent
<1>14. AtLast => AtLast'
  BY <1>1, <1>4, <1>5 DEF AtLast, Listens, Transmits, Drives, Took, Waits, Heard, Leaves, Unmoved, Silent
<1>15. InRead => InRead'
  BY <1>12, <1>13, <1>14 DEF InRead
<1> QED BY <1>2, <1>11, <1>15 DEF PinsInv

LEMMA PinsStep == ASSUME PinsInv, [Pins!Next]_(Pins!vars) PROVE PinsInv'
<1>0. Levels
  BY DEF PinsInv
<1>1. CASE UNCHANGED Pins!vars
  <2>1. /\ Unmoved /\ Silent /\ prog' = prog /\ call' = call /\ rw' = rw
        /\ gpioout' = gpioout /\ outen' = outen /\ scl' = scl /\ sda' = sda
    BY <1>1 DEF Pins!vars, Pins!master, Pins!device, Unmoved, Silent
  <2>2. Levels'
    BY <2>1, <1>0 DEF Levels, Silent
  <2> QED BY <2>1, <2>2, PinsStill
<1>2. CASE Pins!LetGo
  <2>1. /\ Unmoved /\ Silent /\ prog' = prog /\ call' = call /\ rw' = rw
        /\ gpioout' = gpioout /\ outen' = outen /\ scl' = scl /\ sda' = sda
    BY <1>2 DEF Pins!LetGo, Pins!master, Unmoved, Silent
  <2>2. Levels'
    BY <2>1, <1>0 DEF Levels, Silent
  <2> QED BY <2>1, <2>2, PinsStill
<1>3. CASE Pins!Next /\ ~Pins!LetGo /\ prog = <<>>
  <2>1. Pins!Write \/ Pins!Read \/ Pins!Return
    BY <1>3 DEF Pins!Next, Pins!SetPin, Pins!SetDir, Pins!Wait, Pins!ReadPin, Pins!StopOrNot, Pins!Is
  <2> QED BY <2>1, WriteCall, ReadCall, ReturnCall
<1>4. CASE Pins!Next /\ ~Pins!LetGo /\ prog # <<>>
  <2>1. CASE InWrite
    <3>1. Writes
      BY <2>1 DEF InWrite
    <3>2. /\ AtHead => Levels' /\ call' = call /\ (AtHead' \/ AtBit(1)')
          /\ \A i \in 1..BITS : AtBit(i) =>
               Levels' /\ call' = call /\ (AtBit(i)' \/ (i + 1 \in 1..BITS /\ AtBit(i + 1)') \/ AtTell')
          /\ AtTell => Levels' /\ call' = call /\ (AtTell' \/ AtStop' \/ WriteDone')
          /\ AtStop => Levels' /\ call' = call /\ AtStop'
      BY <1>0, <1>4, <3>1, HeadStep, BitStep, TellStep, StopStep
    <3>3. ~WriteDone
      BY <1>4 DEF WriteDone
    <3>4. call' = call => Writes'
      BY <3>1 DEF Writes, Reads
    <3>5. Levels' /\ InWrite'
      <4>1. CASE AtHead
        BY <3>2, <3>4, <4>1, PinsConstants DEF InWrite
      <4>2. ASSUME NEW i \in 1..BITS, AtBit(i) PROVE Levels' /\ InWrite'
        BY <3>2, <3>4, <4>2 DEF InWrite
      <4>3. CASE AtTell
        BY <3>2, <3>4, <4>3 DEF InWrite
      <4>4. CASE AtStop
        BY <3>2, <3>4, <4>4 DEF InWrite
      <4> QED BY <2>1, <3>3, <4>1, <4>2, <4>3, <4>4 DEF InWrite
    <3> QED BY <3>5 DEF PinsInv
  <2>2. CASE InRead
    <3>1. call.fn = "read" /\ call.stop \in BOOLEAN
      BY <2>2 DEF InRead
    <3>2. /\ AtAsk => Levels' /\ call' = call /\ (AtAsk' \/ (1 \in 1..BITS - 1 /\ AtMore(1)') \/ AtLast')
          /\ \A i \in 1..BITS - 1 : AtMore(i) =>
               Levels' /\ call' = call /\ (AtMore(i)' \/ (i + 1 \in 1..BITS - 1 /\ AtMore(i + 1)') \/ AtLast')
          /\ AtLast => Levels' /\ call' = call /\ AtLast'
      BY <1>0, <1>4, <3>1, AskStep, MoreStep, LastStep
    <3>3. Levels' /\ InRead'
      <4>1. CASE AtAsk
        BY <3>1, <3>2, <4>1 DEF InRead
      <4>2. ASSUME NEW i \in 1..BITS - 1, AtMore(i) PROVE Levels' /\ InRead'
        BY <3>1, <3>2, <4>2 DEF InRead
      <4>3. CASE AtLast
        BY <3>1, <3>2, <4>3 DEF InRead
      <4> QED BY <2>2, <4>1, <4>2, <4>3 DEF InRead
    <3> QED BY <3>3 DEF PinsInv
  <2> QED BY <1>4, <2>1, <2>2 DEF PinsInv, Between
<1> QED BY <1>1, <1>2, <1>3, <1>4

LEMMA HeardIs == ASSUME PinsInv PROVE Pins!BytesHeard
<1>1. CASE prog = <<>> /\ call.fn # "none"
  <2>1. CASE InWrite
    <3>1. Same /\ (((call.stop \/ ack = 0) /\ Freed) \/ (~call.stop /\ ack = 1 /\ Listens(0) /\ Answered))
      BY <1>1, <2>1, WriteEnds
    <3>2. call.fn = "write" /\ call.stop \in BOOLEAN
      BY <2>1 DEF InWrite, Writes
    <3>3. heard.byte = call.byte /\ heard.ack \in BOOLEAN /\ (heard.ack <=> ack = 1)
      BY <3>1 DEF Same
    <3>4. (ack = 1) = heard.ack
      BY <3>3
    <3>5. ack \in 0..1
      BY DEF PinsInv, Levels
    <3>6. (call.stop \/ ack = 0) /\ Freed => slave = "off" /\ scl = 1 /\ sda = 1
      BY DEF Freed, Drives, Leaves
    <3>7. ~call.stop /\ ack = 1 /\ Answered => slave # "off"
      BY DEF Answered, Transmits, Receives
    <3> QED BY <1>1, <3>1, <3>2, <3>3, <3>4, <3>5, <3>6, <3>7 DEF Pins!BytesHeard
  <2>2. CASE InRead
    <3>1. Heard /\ ((call.stop /\ Freed) \/ (~call.stop /\ Drives(0, 0) /\ Transmits(0, 1)))
      BY <1>1, <2>2, ReadEnds
    <3>2. call.fn = "read"
      BY <2>2 DEF InRead
    <3> QED BY <1>1, <3>1, <3>2 DEF Pins!BytesHeard, Heard, Freed, Drives, Leaves, Transmits
  <2> QED BY <1>1, <2>1, <2>2 DEF PinsInv, Between
<1> QED BY <1>1 DEF Pins!BytesHeard
=============================================================================
