------------------------------- MODULE SbMac -------------------------------
(***************************************************************************)
(* The Ethernet MAC driver of cfe/dev_sb_mac.c as this firmware uses it:   *)
(* the packet free list, the receive and transmit descriptor rings, the    *)
(* interrupt routine bcm4401_isr and the transmit entry cfe_output.        *)
(*                                                                         *)
(* One CPU runs two contexts: "fg" is main() and the script it interprets, *)
(* "irq" is the interrupt dispatcher.  Interrupts do not nest, so a        *)
(* foreground step is taken only while "irq" is idle.  The DMA engine is   *)
(* external and interleaves with both.                                     *)
(*                                                                         *)
(* A descriptor pointer is an index; a buffer is named by its position in  *)
(* the pool, 0 (NoPkt) is the null pointer.  A frame is its arrival number,*)
(* the n-th frame handed to cfe_output is n.                               *)
(***************************************************************************)
EXTENDS Integers, Sequences, FiniteSets

CONSTANTS
  PoolSize,  \* ETH_PKTPOOL_SIZE
  RxSize,    \* MAXRXDSCR
  TxSize,    \* MAXTXDSCR
  MinRx,     \* MINRXRING
  FgSends,   \* does the script itself transmit (a client), or only lwIP's timer?
  MaxFrames, \* bound: frames that arrive
  MaxSends   \* bound: calls of cfe_output

ASSUME SizesAssumption ==
  /\ PoolSize \in Nat /\ RxSize \in Nat /\ TxSize \in Nat /\ MinRx \in Nat
  /\ RxSize >= 2 /\ TxSize >= 2
  /\ MinRx >= 1 /\ MinRx < RxSize /\ MinRx <= PoolSize
  /\ FgSends \in BOOLEAN
  /\ MaxFrames \in Nat /\ MaxSends \in Nat

VARIABLES
  free,                        \* sc->freelist
  rxbuf, rxrem, rxadd, onring, \* rxd_bufptr, rxdscr_remove, rxdscr_add, rxdscr_onring
  txbuf, txrem, txadd,         \* the same for the transmit ring
  rxcd, rxptr, txcd, txptr,    \* current descriptor and R_RCV_PTR / R_XMT_PTR
  intstatus,                   \* R_INT_STATUS, restricted to sc->intmask
  content,                     \* what each buffer holds
  pc, pkt, slot, cur, stat, home,  \* program counter and locals of each context
  pend,                        \* interrupt levels the dispatcher has yet to serve
  arrived, bad, delivered,     \* frames received, those with errors, those passed up
  early,                       \* the last frame whose RI the start-up wiped out, unseen
  sends, accepted, wire        \* cfe_output calls, frames queued, frames transmitted

rings == <<rxbuf, rxrem, rxadd, onring, txbuf, txrem, txadd>>
lists == <<free, rings>>
mac   == <<rxcd, rxptr, txcd, txptr, intstatus>>
hw    == <<mac, content>>
locals == <<pkt, slot, cur, stat, home, pend>>
ctxs  == <<pc, locals>>
hist  == <<arrived, bad, delivered, early, sends, accepted, wire>>
vars  == <<lists, hw, ctxs, hist>>

Ctx    == {"fg", "irq"}
Pkts   == 1..PoolSize
NoPkt  == 0
MaybePkt == 0..PoolSize
RxSlots == 0..(RxSize - 1)
TxSlots == 0..(TxSize - 1)

\* Definitions whose names end in _Mut are faulty variants of the definition that
\* follows them; no other definition uses them.  They show that the properties bite.
RxNext_Mut(i) == IF i = RxSize THEN 0 ELSE i + 1
\* rxd++ and txd++ with the wrap to the start of the ring.
RxNext(i) == IF i + 1 = RxSize THEN 0 ELSE i + 1
TxNext(i) == IF i + 1 = TxSize THEN 0 ELSE i + 1

\* Program points that lie between CS_ENTER and CS_EXIT; each is named for the
\* point before it, which EnterCS leaves.
Locked == [deliver |-> "deliverCS", rxfree |-> "rxfreeCS", rxalloc |-> "rxallocCS",
           rxdec |-> "rxdecCS", txfree |-> "txfreeCS", oalloc |-> "oallocCS",
           ofree |-> "ofreeCS"]
CSPoints == {Locked[p] : p \in DOMAIN Locked}
Startup == {"fill", "hwinit", "start", "startclr"}
Unlocked == Startup \cup {"idle", "dispatch", "stack", "status", "clear", "rxsnap",
             "rxtake", "rxadv", "rxput", "txsnap", "txtake", "txadv", "oslot", "oput", "okick"}
Points == DOMAIN Locked \cup CSPoints \cup Unlocked

\* The MAC and its DMA run from bcm4401_hwinit on, the interrupt handler only from
\* the end of bcm4401_start.
MacOn == pc["fg"] \notin {"fill", "hwinit"}
Up    == pc["fg"] \notin Startup

-----------------------------------------------------------------------------
(* The state bcm4401_init leaves before it fills the receive ring.         *)

Init ==
  /\ free = [i \in 1..PoolSize |-> i]
  /\ rxbuf = [i \in RxSlots |-> NoPkt] /\ rxrem = 0 /\ rxadd = 0 /\ onring = 0
  /\ txbuf = [i \in TxSlots |-> NoPkt] /\ txrem = 0 /\ txadd = 0
  /\ rxcd = 0 /\ rxptr = 0 /\ txcd = 0 /\ txptr = 0 /\ intstatus = {}
  /\ content = [p \in MaybePkt |-> 0]
  /\ pc = [c \in Ctx |-> IF c = "fg" THEN "fill" ELSE "idle"]
  /\ pkt = [c \in Ctx |-> NoPkt] /\ slot = [c \in Ctx |-> 0] /\ cur = [c \in Ctx |-> 0]
  /\ stat = [c \in Ctx |-> {}] /\ home = [c \in Ctx |-> "idle"] /\ pend = {}
  /\ arrived = 0 /\ bad = {} /\ delivered = <<>> /\ early = 0
  /\ sends = 0 /\ accepted = 0 /\ wire = <<>>

Goto(c, p) == pc' = [pc EXCEPT ![c] = p]
At(c, p)   == pc[c] = p /\ (c = "fg" => pc["irq"] = "idle")

\* bcm4401_add_rcvbuf: the ring is full when the next slot is the remove slot.
RxFull == RxNext(rxadd) = rxrem
AddRcvbuf(p) ==
  /\ rxbuf' = [rxbuf EXCEPT ![rxadd] = p]
  /\ rxadd' = RxNext(rxadd)
  /\ rxptr' = RxNext(rxadd)

(* One turn of the loop of bcm4401_fillrxring.  The interrupt handler is   *)
(* not yet requested, so the turn is a single step.                        *)
FillRxRing ==
  /\ At("fg", "fill")
  /\ \/ /\ onring >= MinRx \/ free = <<>> \/ RxFull
        /\ Goto("fg", "hwinit")
        /\ UNCHANGED <<lists, rxptr>>
     \/ /\ onring < MinRx /\ free # <<>> /\ ~RxFull
        /\ free' = Tail(free)
        /\ AddRcvbuf(Head(free))
        /\ onring' = onring + 1
        /\ UNCHANGED <<pc, rxrem, txbuf, txrem, txadd>>
  /\ UNCHANGED <<rxcd, txcd, txptr, intstatus, content, locals, hist>>

(* bcm4401_hwinit hands the rings to the hardware and enables the MAC:     *)
(* frames may arrive from here on.                                         *)
Hwinit ==
  /\ At("fg", "hwinit")
  /\ rxptr' = rxadd /\ txptr' = 0
  /\ Goto("fg", "start")
  /\ UNCHANGED <<lists, rxcd, txcd, intstatus, content, locals, hist>>

(* bcm4401_start reads the pending status ...                              *)
StartRead ==
  /\ At("fg", "start")
  /\ stat' = [stat EXCEPT !["fg"] = intstatus]
  /\ Goto("fg", "startclr")
  /\ UNCHANGED <<lists, hw, pkt, slot, cur, home, pend, hist>>

(* ... and writes it back to clear it, looking at no ring: a frame that    *)
(* had set RI loses it.  Then the handler is requested and the interrupt   *)
(* mask opened.                                                            *)
StartClear ==
  /\ At("fg", "startclr")
  /\ intstatus' = intstatus \ stat["fg"]
  /\ early' = IF "RI" \in stat["fg"] THEN arrived ELSE 0
  /\ Goto("fg", "idle")
  /\ UNCHANGED <<lists, rxcd, rxptr, txcd, txptr, content, locals, arrived, bad, delivered,
                 sends, accepted, wire>>

-----------------------------------------------------------------------------
(* Contexts: the dispatcher (bcmcore_irq_demux) and the two callers.       *)

EnterCS(c) ==
  /\ pc[c] \in DOMAIN Locked /\ At(c, pc[c])
  /\ Goto(c, Locked[pc[c]])
  /\ UNCHANGED <<lists, hw, locals, hist>>

\* CS_ENTER masks the level of this device only: the timer keeps its own level.
EthLine == intstatus # {} /\ pc["fg"] \notin CSPoints

(* An interrupt is taken between two foreground instructions.  The         *)
(* dispatcher works from one snapshot of the pending levels.               *)
IrqEntry ==
  /\ Up /\ pc["irq"] = "idle"
  /\ \E tick \in BOOLEAN :
       /\ tick \/ EthLine
       /\ pend' = (IF tick THEN {"tmr"} ELSE {}) \cup (IF EthLine THEN {"eth"} ELSE {})
  /\ Goto("irq", "dispatch")
  /\ UNCHANGED <<lists, hw, pkt, slot, cur, stat, home, hist>>

(* Levels are served from the highest down: the timer, then the MAC.       *)
ServeTimer ==
  /\ pc["irq"] = "dispatch" /\ "tmr" \in pend
  /\ pend' = pend \ {"tmr"}
  /\ Goto("irq", "stack")
  /\ UNCHANGED <<lists, hw, pkt, slot, cur, stat, home, hist>>

ServeEth ==
  /\ pc["irq"] = "dispatch" /\ pend = {"eth"}
  /\ pend' = {}
  /\ Goto("irq", "status") /\ home' = [home EXCEPT !["irq"] = "eth"]
  /\ UNCHANGED <<lists, hw, pkt, slot, cur, stat, hist>>

IrqExit ==
  /\ pc["irq"] = "dispatch" /\ pend = {}
  /\ Goto("irq", "idle")
  /\ UNCHANGED <<lists, hw, locals, hist>>

\* net_poll has nothing (more) to send.
TimerDone ==
  /\ pc["irq"] = "stack"
  /\ Goto("irq", "dispatch")
  /\ UNCHANGED <<lists, hw, locals, hist>>

(* lwIP calls cfe_output, which polls the interrupt routine first (XPOLL). *)
Send(c) ==
  /\ \/ c = "irq" /\ pc[c] = "stack"
     \/ c = "fg" /\ FgSends /\ At(c, "idle")
  /\ sends < MaxSends /\ sends' = sends + 1
  /\ Goto(c, "status") /\ home' = [home EXCEPT ![c] = "out1"]
  /\ UNCHANGED <<lists, hw, pkt, slot, cur, stat, pend, arrived, bad, delivered, early,
                 accepted, wire>>

Caller(c) == IF c = "fg" THEN "idle" ELSE "stack"

-----------------------------------------------------------------------------
(* bcm4401_isr.                                                            *)

(* Read the status; with nothing pending return to the caller.             *)
Status(c) ==
  /\ At(c, "status")
  /\ stat' = [stat EXCEPT ![c] = intstatus]
  /\ Goto(c, IF intstatus # {} THEN "clear"
             ELSE CASE home[c] = "out1" -> "oalloc"
                    [] home[c] = "eth"  -> "dispatch"
                    [] OTHER            -> Caller(c))
  /\ UNCHANGED <<lists, hw, pkt, slot, cur, home, pend, hist>>

ClearedAll_Mut(c)  == {}         \* clears bits the routine has not seen
ClearedNone_Mut(c) == intstatus  \* forgets the write-to-clear
Cleared(c) == intstatus \ stat[c]

(* Write the bits read back to clear them, before the rings are looked at. *)
Clear(c) ==
  /\ At(c, "clear")
  /\ intstatus' = Cleared(c)
  /\ Goto(c, IF "RI" \in stat[c] THEN "rxsnap" ELSE "txsnap")
  /\ UNCHANGED <<lists, rxcd, rxptr, txcd, txptr, content, locals, hist>>

(* bcm4401_procrxring reads the hardware's current descriptor once.        *)
RxSnap(c) ==
  /\ At(c, "rxsnap")
  /\ cur' = [cur EXCEPT ![c] = rxcd]
  /\ Goto(c, "rxtake")
  /\ UNCHANGED <<lists, hw, pkt, slot, stat, home, pend, hist>>

\* An error frame gives its own buffer back to the ring, any other goes up.
AfterTake_Mut(f) == "deliver"
AfterTake(f) == IF f \in bad THEN "rxadv" ELSE "deliver"

(* The head of its loop: done, an error frame to recycle, or one to pass up. *)
RxTake(c) ==
  /\ At(c, "rxtake")
  /\ slot' = [slot EXCEPT ![c] = rxrem]
  /\ \/ /\ rxrem = cur[c]
        /\ Goto(c, IF "XI" \in stat[c] THEN "txsnap" ELSE "status")
        /\ UNCHANGED pkt
     \/ /\ rxrem # cur[c]
        /\ pkt' = [pkt EXCEPT ![c] = rxbuf[rxrem]]
        /\ Goto(c, AfterTake(content[rxbuf[rxrem]]))
  /\ UNCHANGED <<lists, hw, cur, stat, home, pend, hist>>

(* bcm4401_rx_callback: net_rcv copies the frame, then the buffer is freed. *)
Deliver(c) ==
  /\ At(c, "deliverCS")
  /\ delivered' = Append(delivered, content[pkt[c]])
  /\ Goto(c, "rxfree")
  /\ UNCHANGED <<lists, hw, locals, arrived, bad, early, sends, accepted, wire>>

Freed_Mut(p) == free  \* loses the buffer
Freed(p) == Append(free, p)

\* eth_free_pkt.
FreePkt(c, from, to) ==
  /\ At(c, from)
  /\ free' = Freed(pkt[c])
  /\ Goto(c, to)
  /\ UNCHANGED <<rings, hw, locals, hist>>

RxFree(c) == FreePkt(c, "rxfreeCS", "rxalloc")

Unlinked_Mut == free  \* takes the head without unlinking it
Unlinked == IF free = <<>> THEN free ELSE Tail(free)

\* eth_alloc_pkt: NULL when the list is empty.
AllocPkt(c) ==
  /\ pkt' = [pkt EXCEPT ![c] = IF free = <<>> THEN NoPkt ELSE Head(free)]
  /\ free' = Unlinked
  /\ UNCHANGED <<rings, hw, slot, cur, stat, home, pend, hist>>

RxAllocPut_Mut(c) ==  \* puts the buffer back before the remove pointer moves
  /\ At(c, "rxallocCS")
  /\ AllocPkt(c)
  /\ Goto(c, "rxput")

RxAlloc(c) ==
  /\ At(c, "rxallocCS")
  /\ AllocPkt(c)
  /\ Goto(c, "rxadv")

(* The remove pointer moves past the slot read at the head of the loop.    *)
RxAdvance(c) ==
  /\ At(c, "rxadv")
  /\ rxrem' = RxNext(slot[c])
  /\ Goto(c, IF pkt[c] # NoPkt THEN "rxput" ELSE "rxdec")
  /\ UNCHANGED <<free, rxbuf, rxadd, onring, txbuf, txrem, txadd, mac, content, locals, hist>>

(* The result of bcm4401_add_rcvbuf is ignored.                            *)
RxPut(c) ==
  /\ At(c, "rxput")
  /\ IF RxFull THEN UNCHANGED <<rxbuf, rxadd, rxptr>> ELSE AddRcvbuf(pkt[c])
  /\ Goto(c, "rxtake")
  /\ UNCHANGED <<free, rxrem, onring, txbuf, txrem, txadd, rxcd, txcd, txptr, intstatus,
                 content, locals, hist>>

RxDec(c) ==
  /\ At(c, "rxdecCS")
  /\ onring' = onring - 1
  /\ Goto(c, "rxtake")
  /\ UNCHANGED <<free, rxbuf, rxrem, rxadd, txbuf, txrem, txadd, mac, content, locals, hist>>

TxSnap_Mut(c) ==  \* the last descriptor queued instead of the current one
  /\ At(c, "txsnap")
  /\ cur' = [cur EXCEPT ![c] = txptr]
  /\ Goto(c, "txtake")
  /\ UNCHANGED <<lists, hw, pkt, slot, stat, home, pend, hist>>

(* bcm4401_proctxring: free every buffer up to the current descriptor.     *)
TxSnap(c) ==
  /\ At(c, "txsnap")
  /\ cur' = [cur EXCEPT ![c] = txcd]
  /\ Goto(c, "txtake")
  /\ UNCHANGED <<lists, hw, pkt, slot, stat, home, pend, hist>>

TxTake(c) ==
  /\ At(c, "txtake")
  /\ slot' = [slot EXCEPT ![c] = txrem]
  /\ \/ txrem = cur[c] /\ Goto(c, "status") /\ UNCHANGED pkt
     \/ txrem # cur[c] /\ Goto(c, "txfree") /\ pkt' = [pkt EXCEPT ![c] = txbuf[txrem]]
  /\ UNCHANGED <<lists, hw, cur, stat, home, pend, hist>>

TxFree(c) == FreePkt(c, "txfreeCS", "txadv")

TxAdvance_Mut(c) ==  \* frees one buffer for each interrupt
  /\ At(c, "txadv")
  /\ txrem' = TxNext(slot[c])
  /\ Goto(c, "status")
  /\ UNCHANGED <<free, rxbuf, rxrem, rxadd, onring, txbuf, txadd, mac, content, locals, hist>>

TxAdvance(c) ==
  /\ At(c, "txadv")
  /\ txrem' = TxNext(slot[c])
  /\ Goto(c, "txtake")
  /\ UNCHANGED <<free, rxbuf, rxrem, rxadd, onring, txbuf, txadd, mac, content, locals, hist>>

-----------------------------------------------------------------------------
(* The rest of cfe_output.                                                 *)

OutAlloc(c) ==
  /\ At(c, "oallocCS")
  /\ AllocPkt(c)
  /\ Goto(c, IF free = <<>> THEN Caller(c) ELSE "oslot")

(* bcm4401_add_txbuf reads txdscr_add and tests for a full ring.           *)
OutSlot(c) ==
  /\ At(c, "oslot")
  /\ slot' = [slot EXCEPT ![c] = txadd]
  /\ Goto(c, IF TxNext(txadd) = txrem THEN "ofree" ELSE "oput")
  /\ UNCHANGED <<lists, hw, pkt, cur, stat, home, pend, hist>>

(* It fills the descriptor and publishes the new txdscr_add.               *)
OutPut(c) ==
  /\ At(c, "oput")
  /\ accepted' = accepted + 1
  /\ content' = [content EXCEPT ![pkt[c]] = accepted + 1]
  /\ txbuf' = [txbuf EXCEPT ![slot[c]] = pkt[c]]
  /\ txadd' = TxNext(slot[c])
  /\ Goto(c, "okick")
  /\ UNCHANGED <<free, rxbuf, rxrem, rxadd, onring, txrem, mac, locals, arrived, bad,
                 delivered, early, sends, wire>>

(* bcm4401_transmit starts the hardware; cfe_output then polls again.      *)
OutKick(c) ==
  /\ At(c, "okick")
  /\ txptr' = txadd
  /\ Goto(c, "status") /\ home' = [home EXCEPT ![c] = "out2"]
  /\ UNCHANGED <<lists, rxcd, rxptr, txcd, intstatus, content, pkt, slot, cur, stat, pend, hist>>

OutFree(c) == FreePkt(c, "ofreeCS", Caller(c))

-----------------------------------------------------------------------------
(* The DMA engine (external).  It owns the descriptors from the current one *)
(* up to the pointer last written to it.                                   *)

DmaRx ==
  /\ MacOn /\ rxcd # rxptr /\ arrived < MaxFrames
  /\ arrived' = arrived + 1
  /\ \E err \in BOOLEAN : bad' = IF err THEN bad \cup {arrived + 1} ELSE bad
  /\ content' = [content EXCEPT ![rxbuf[rxcd]] = arrived + 1]
  /\ rxcd' = RxNext(rxcd)
  /\ intstatus' = intstatus \cup {"RI"}
  /\ UNCHANGED <<lists, rxptr, txcd, txptr, ctxs, delivered, early, sends, accepted, wire>>

DmaTx ==
  /\ MacOn /\ txcd # txptr
  /\ wire' = Append(wire, content[txbuf[txcd]])
  /\ txcd' = TxNext(txcd)
  /\ intstatus' = intstatus \cup {"XI"}
  /\ UNCHANGED <<lists, rxcd, rxptr, txptr, content, ctxs, arrived, bad, delivered,
                 early, sends, accepted>>

-----------------------------------------------------------------------------
Isr(c) ==
  \/ Status(c) \/ Clear(c) \/ RxSnap(c) \/ RxTake(c) \/ Deliver(c) \/ RxFree(c)
  \/ RxAlloc(c) \/ RxAdvance(c) \/ RxPut(c) \/ RxDec(c)
  \/ TxSnap(c) \/ TxTake(c) \/ TxFree(c) \/ TxAdvance(c)
Out(c) == OutAlloc(c) \/ OutSlot(c) \/ OutPut(c) \/ OutKick(c) \/ OutFree(c)
Driver(c) == EnterCS(c) \/ Isr(c) \/ Out(c)
Dispatcher == IrqEntry \/ ServeTimer \/ ServeEth \/ IrqExit \/ TimerDone
Start == Hwinit \/ StartRead \/ StartClear
Attach == FillRxRing \/ Start

Next ==
  \/ Attach \/ Dispatcher \/ DmaRx \/ DmaTx
  \/ \E c \in Ctx : Send(c) \/ Driver(c)

Spec == Init /\ [][Next]_vars

(* The CPU keeps executing, a level-triggered interrupt is taken, and the  *)
(* hardware finishes the transmissions it was given.  The foreground runs  *)
(* between two ticks of a 100 Hz timer, so it is not starved by them.      *)
(* Neither the arrival of frames nor a call of cfe_output is promised.     *)
Fairness ==
  /\ WF_vars(Attach) /\ WF_vars(Dispatcher) /\ WF_vars(DmaTx)
  /\ WF_vars(Driver("irq")) /\ SF_vars(Driver("fg"))
LiveSpec == Spec /\ Fairness

-----------------------------------------------------------------------------
(* What is in use.  The slot under the remove pointer gives up its buffer   *)
(* before the pointer moves.                                               *)

Between(lo, hi, i) == IF lo <= hi THEN lo <= i /\ i < hi ELSE lo <= i \/ i < hi
RxTaken == \E c \in Ctx : pc[c] \in {"rxalloc", "rxallocCS", "rxadv"}
TxTaken == \E c \in Ctx : pc[c] = "txadv"
RxOwned(i) == i \in RxSlots /\ Between(rxrem, rxadd, i) /\ ~(i = rxrem /\ RxTaken)
TxOwned(i) == i \in TxSlots /\ Between(txrem, txadd, i) /\ ~(i = txrem /\ TxTaken)
Holds(c) == pkt[c] # NoPkt
            /\ pc[c] \in {"rxadv", "rxput", "oslot", "oput", "ofree", "ofreeCS"}

ListsOK ==
  /\ free \in Seq(MaybePkt)
  /\ rxbuf \in [RxSlots -> MaybePkt] /\ rxrem \in RxSlots /\ rxadd \in RxSlots /\ onring \in Int
  /\ txbuf \in [TxSlots -> MaybePkt] /\ txrem \in TxSlots /\ txadd \in TxSlots
MacOK ==
  /\ rxcd \in RxSlots /\ rxptr \in RxSlots /\ txcd \in TxSlots /\ txptr \in TxSlots
  /\ intstatus \in SUBSET {"RI", "XI"}
  /\ content \in [MaybePkt -> Nat]
CtxOK ==
  /\ pc \in [Ctx -> Points] /\ pkt \in [Ctx -> MaybePkt] /\ slot \in [Ctx -> Nat]
  /\ cur \in [Ctx -> Nat] /\ stat \in [Ctx -> SUBSET {"RI", "XI"}]
  /\ home \in [Ctx -> {"idle", "out1", "out2", "eth"}] /\ pend \in SUBSET {"tmr", "eth"}
HistOK ==
  /\ arrived \in Nat /\ bad \in SUBSET Nat /\ delivered \in Seq(Nat) /\ early \in Nat
  /\ sends \in Nat /\ accepted \in Nat /\ wire \in Seq(Nat)

(* Program counters, ring indices and buffer names stay in range whatever  *)
(* the two contexts do to each other.                                      *)
TypeOK == ListsOK /\ MacOK /\ CtxOK /\ HistOK

(* No packet buffer is in two places: twice on the free list, in two       *)
(* descriptors, or on the list and in a descriptor or in a caller's hands   *)
(* (eth_alloc_pkt, eth_free_pkt, add_rcvbuf, add_txbuf, proctxring).        *)
Exclusive ==
  /\ \A i, j \in DOMAIN free : free[i] = free[j] => i = j
  /\ \A i, j \in RxSlots : RxOwned(i) /\ RxOwned(j) /\ rxbuf[i] = rxbuf[j] => i = j
  /\ \A i, j \in TxSlots : TxOwned(i) /\ TxOwned(j) /\ txbuf[i] = txbuf[j] => i = j
  /\ \A i \in DOMAIN free, j \in RxSlots : RxOwned(j) => free[i] # rxbuf[j]
  /\ \A i \in DOMAIN free, j \in TxSlots : TxOwned(j) => free[i] # txbuf[j]
  /\ \A i \in RxSlots, j \in TxSlots : RxOwned(i) /\ TxOwned(j) => rxbuf[i] # txbuf[j]
  /\ \A c \in Ctx : Holds(c) =>
       /\ \A i \in DOMAIN free : free[i] # pkt[c]
       /\ \A i \in RxSlots : RxOwned(i) => rxbuf[i] # pkt[c]
       /\ \A i \in TxSlots : TxOwned(i) => txbuf[i] # pkt[c]

(* No packet buffer is ever lost to the pool, on any path of the interrupt  *)
(* routine or of cfe_output, its failures included.                        *)
NoLeak ==
  \A p \in Pkts :
    \/ \E i \in DOMAIN free : free[i] = p
    \/ \E i \in RxSlots : RxOwned(i) /\ rxbuf[i] = p
    \/ \E i \in TxSlots : TxOwned(i) /\ txbuf[i] = p
    \/ \E c \in Ctx : Holds(c) /\ pkt[c] = p

(* Every packet buffer is in exactly one place: on the free list, in a     *)
(* descriptor the driver accounts for, or in the hands of a context that    *)
(* is between taking it and putting it down, failures included.             *)
Accounted == Exclusive /\ NoLeak

(* "The ring must have space now" (dev_sb_mac.c:564): when procrxring puts  *)
(* a buffer back, bcm4401_add_rcvbuf, whose result it ignores, succeeds.    *)
RxSpace == \A c \in Ctx : pc[c] = "rxput" => ~RxFull

(* Nothing refills the receive ring after attach, so a failed allocation   *)
(* in procrxring would shrink it for good.  It never does: whenever the    *)
(* driver is at rest the ring holds MINRXRING buffers, and rxdscr_onring   *)
(* says so, however few buffers transmission leaves on the free list.      *)
RingStaysCharged ==
  Up /\ pc["irq"] = "idle" /\ pc["fg"] = "idle" =>
    onring = MinRx /\ Cardinality({i \in RxSlots : Between(rxrem, rxadd, i)}) = onring

(* No lost wakeup: when the driver is at rest, a frame or a completed      *)
(* transmission it has not looked at still has its status bit set, whatever *)
(* the hardware did between the read of R_INT_STATUS and the write to it.   *)
(* The one exception is bcm4401_start, which clears the bits it finds       *)
(* unseen: a frame stored since bcm4401_hwinit may wait without its bit, as *)
(* long as no other frame has arrived.                                     *)
NoLostWork ==
  Up /\ pc["irq"] = "idle" /\ pc["fg"] = "idle" =>
    /\ rxcd # rxrem => "RI" \in intstatus \/ arrived = early
    /\ txcd # txrem => "XI" \in intstatus

(* Frames go up once each, in the order of arrival, never one with an      *)
(* error, and each is in the ring until then.  Frames accepted by           *)
(* cfe_output reach the wire once each, in order, with the buffer untouched *)
(* while the hardware owns it.                                             *)
InOrder ==
  /\ \A i, j \in DOMAIN delivered : i < j => delivered[i] < delivered[j]
  /\ \A i \in DOMAIN delivered : delivered[i] \in 1..arrived \ bad
  /\ \A f \in 1..arrived \ bad :
       \/ \E i \in DOMAIN delivered : delivered[i] = f
       \/ \E i \in RxSlots : Between(rxrem, rxcd, i) /\ content[rxbuf[i]] = f
  /\ wire = [i \in 1..Len(wire) |-> i] /\ Len(wire) <= accepted
  /\ txptr = txadd => \A i \in TxSlots : Between(txcd, txptr, i) =>
       content[txbuf[i]] = Len(wire) + 1 + (IF i >= txcd THEN i - txcd ELSE i - txcd + TxSize)

(* Once the driver is up and a frame has arrived whose status bit           *)
(* bcm4401_start did not wipe out, that frame and all before it are         *)
(* eventually passed up unless in error; frames of the start-up alone are   *)
(* promised nothing.  Every buffer given to the hardware for transmission   *)
(* comes back to the free list.                                            *)
RingsServed ==
  /\ \A f \in 1..MaxFrames :
       Up /\ arrived >= f /\ arrived > early
         ~> (f \in bad \/ \E i \in DOMAIN delivered : delivered[i] = f)
  /\ []<>(txrem = txadd)

(* The interrupt routine ends, and cfe_output returns to the script, even  *)
(* after the two contexts have disturbed each other's ring indices.        *)
CallsReturn == []<>(pc["irq"] = "idle") /\ []<>(pc["fg"] = "idle")
=============================================================================
