---------------------------- MODULE SbMacProofs ----------------------------
(***************************************************************************)
(* Theorems about the Ethernet MAC driver, for every pool, ring and bound. *)
(***************************************************************************)
EXTENDS SbMac, FiniteSetTheorems, TLAPS

(* The slot a context remembers is a slot of the ring it is working on.    *)
SlotOK ==
  \A c \in Ctx :
    /\ pc[c] \in {"deliver", "deliverCS", "rxfree", "rxfreeCS", "rxalloc", "rxallocCS", "rxadv"}
         => slot[c] \in RxSlots
    /\ pc[c] \in {"txfree", "txfreeCS", "txadv", "oput"} => slot[c] \in TxSlots

TInv == TypeOK /\ SlotOK

LEMMA NextInRing ==
  /\ \A i \in RxSlots : RxNext(i) \in RxSlots
  /\ \A i \in TxSlots : TxNext(i) \in TxSlots
BY SizesAssumption DEF RxSlots, TxSlots, RxNext, TxNext

LEMMA SlotsAreNat == RxSlots \subseteq Nat /\ TxSlots \subseteq Nat
                     /\ 0 \in RxSlots /\ 0 \in TxSlots
BY SizesAssumption DEF RxSlots, TxSlots

LEMMA PointsAre ==
  /\ Points = {"deliver", "rxfree", "rxalloc", "rxdec", "txfree", "oalloc", "ofree",
               "deliverCS", "rxfreeCS", "rxallocCS", "rxdecCS", "txfreeCS", "oallocCS", "ofreeCS",
               "fill", "hwinit", "start", "startclr", "idle", "dispatch", "stack", "status",
               "clear", "rxsnap", "rxtake", "rxadv", "rxput", "txsnap", "txtake", "txadv", "oslot", "oput", "okick"}
  /\ DOMAIN Locked = {"deliver", "rxfree", "rxalloc", "rxdec", "txfree", "oalloc", "ofree"}
  /\ \A p \in DOMAIN Locked : Locked[p] \in Points
<1>1. DOMAIN Locked = {"deliver", "rxfree", "rxalloc", "rxdec", "txfree", "oalloc", "ofree"}
  BY DEF Locked
<1>2. CSPoints = {"deliverCS", "rxfreeCS", "rxallocCS", "rxdecCS", "txfreeCS", "oallocCS", "ofreeCS"}
  BY <1>1 DEF CSPoints, Locked
<1>3. QED
  BY <1>1, <1>2 DEF Points, Unlocked, Startup, CSPoints

LEMMA AppendOK ==
  ASSUME NEW S, NEW s \in Seq(S), NEW e \in S
  PROVE  Append(s, e) \in Seq(S)
OBVIOUS

LEMMA HeadTailOK ==
  ASSUME NEW S, NEW s \in Seq(S), s # <<>>
  PROVE  Head(s) \in S /\ Tail(s) \in Seq(S)
OBVIOUS

LEMMA AllocatedOK ==
  ASSUME free \in Seq(MaybePkt)
  PROVE  (IF free = <<>> THEN NoPkt ELSE Head(free)) \in MaybePkt
<1>1. CASE free = <<>>
  BY <1>1, SizesAssumption DEF NoPkt, MaybePkt
<1>2. CASE free # <<>>
  BY <1>2, HeadTailOK
<1>3. QED
  BY <1>1, <1>2

LEMMA TInit == Init => TInv
<1> SUFFICES ASSUME Init PROVE TInv
  OBVIOUS
<1> USE SizesAssumption, SlotsAreNat DEF Init, NoPkt, MaybePkt
<1>1. ListsOK
  BY DEF ListsOK
<1>2. MacOK
  BY DEF MacOK
<1>3. CtxOK
  BY PointsAre DEF CtxOK, Ctx
<1>4. HistOK /\ SlotOK
  BY DEF HistOK, SlotOK, Ctx
<1>5. QED
  BY <1>1, <1>2, <1>3, <1>4 DEF TInv, TypeOK

LEMMA TNext == TInv /\ [Next]_vars => TInv'
<1> SUFFICES ASSUME TInv, [Next]_vars PROVE TInv'
  OBVIOUS
<1> USE NextInRing, SlotsAreNat DEF TInv, TypeOK, lists, rings, hw, locals, mac, ctxs, hist
<1>1. CASE FillRxRing
  <2> USE <1>1 DEF FillRxRing, AddRcvbuf, Goto, At
  <2>1. ListsOK' /\ MacOK'
    <3>1. free' \in Seq(MaybePkt)
      BY SMTT(40), HeadTailOK DEF ListsOK
    <3>2. rxbuf' \in [RxSlots -> MaybePkt]
      BY HeadTailOK DEF ListsOK
    <3>3. rxadd' \in RxSlots /\ rxptr' \in RxSlots
      BY DEF ListsOK, MacOK
    <3>4. onring' \in Int
      <4>1. onring \in Int /\ (onring' = onring \/ onring' = onring + 1)
        BY DEF ListsOK
      <4>2. QED
        BY <4>1
    <3>5. QED
      BY <3>1, <3>2, <3>3, <3>4 DEF ListsOK, MacOK
  <2>2. CtxOK'
    BY PointsAre DEF CtxOK, Ctx
  <2>3. HistOK'
    BY DEF HistOK, CtxOK, MacOK
  <2>4. SlotOK'
    BY PointsAre DEF SlotOK, CtxOK, ListsOK, Ctx, Locked
  <2>5. QED
    BY <2>1, <2>2, <2>3, <2>4
<1>2. CASE Start
  <2> USE <1>2 DEF Start, Hwinit, StartRead, StartClear, Goto, At
  <2>1. ListsOK' /\ MacOK'
    BY DEF ListsOK, MacOK, CtxOK, SlotOK
  <2>2. CtxOK'
    BY PointsAre DEF CtxOK, MacOK, Ctx
  <2>3. HistOK'
    BY DEF HistOK, CtxOK, MacOK
  <2>4. SlotOK'
    BY PointsAre DEF SlotOK, CtxOK, ListsOK, Ctx, Locked
  <2>5. QED
    BY <2>1, <2>2, <2>3, <2>4
<1>3. CASE IrqEntry
  <2> USE <1>3 DEF IrqEntry, Goto, At
  <2>1. ListsOK' /\ MacOK'
    BY DEF ListsOK, MacOK, CtxOK, SlotOK
  <2>2. CtxOK'
    BY PointsAre DEF CtxOK, Ctx
  <2>3. HistOK'
    BY DEF HistOK, CtxOK, MacOK
  <2>4. SlotOK'
    BY PointsAre DEF SlotOK, CtxOK, ListsOK, Ctx, Locked
  <2>5. QED
    BY <2>1, <2>2, <2>3, <2>4
<1>4. CASE ServeTimer
  <2> USE <1>4 DEF ServeTimer, Goto, At
  <2>1. ListsOK' /\ MacOK'
    BY DEF ListsOK, MacOK, CtxOK, SlotOK
  <2>2. CtxOK'
    BY PointsAre DEF CtxOK, Ctx
  <2>3. HistOK'
    BY DEF HistOK, CtxOK, MacOK
  <2>4. SlotOK'
    BY PointsAre DEF SlotOK, CtxOK, ListsOK, Ctx, Locked
  <2>5. QED
    BY <2>1, <2>2, <2>3, <2>4
<1>5. CASE ServeEth
  <2> USE <1>5 DEF ServeEth, Goto, At
  <2>1. ListsOK' /\ MacOK'
    BY DEF ListsOK, MacOK, CtxOK, SlotOK
  <2>2. CtxOK'
    BY PointsAre DEF CtxOK, Ctx
  <2>3. HistOK'
    BY DEF HistOK, CtxOK, MacOK
  <2>4. SlotOK'
    BY PointsAre DEF SlotOK, CtxOK, ListsOK, Ctx, Locked
  <2>5. QED
    BY <2>1, <2>2, <2>3, <2>4
<1>6. CASE IrqExit
  <2> USE <1>6 DEF IrqExit, Goto, At
  <2>1. ListsOK' /\ MacOK'
    BY DEF ListsOK, MacOK, CtxOK, SlotOK
  <2>2. CtxOK'
    BY PointsAre DEF CtxOK, Ctx
  <2>3. HistOK'
    BY DEF HistOK, CtxOK, MacOK
  <2>4. SlotOK'
    BY PointsAre DEF SlotOK, CtxOK, ListsOK, Ctx, Locked
  <2>5. QED
    BY <2>1, <2>2, <2>3, <2>4
<1>7. CASE TimerDone
  <2> USE <1>7 DEF TimerDone, Goto, At
  <2>1. ListsOK' /\ MacOK'
    BY DEF ListsOK, MacOK, CtxOK, SlotOK
  <2>2. CtxOK'
    BY PointsAre DEF CtxOK, Ctx
  <2>3. HistOK'
    BY DEF HistOK, CtxOK, MacOK
  <2>4. SlotOK'
    BY PointsAre DEF SlotOK, CtxOK, ListsOK, Ctx, Locked
  <2>5. QED
    BY <2>1, <2>2, <2>3, <2>4
<1>8. CASE DmaRx
  <2> USE <1>8 DEF DmaRx, Goto, At
  <2>1. ListsOK' /\ MacOK'
    <3>1. arrived + 1 \in Nat
      BY DEF HistOK
    <3>2. content' \in [MaybePkt -> Nat]
      BY <3>1 DEF MacOK
    <3>3. intstatus' \in SUBSET {"RI", "XI"}
      BY DEF MacOK
    <3>4. QED
      BY <3>2, <3>3 DEF ListsOK, MacOK
  <2>2. CtxOK'
    BY PointsAre DEF CtxOK, Ctx
  <2>3. HistOK'
    <3>1. bad' \in SUBSET Nat
      BY DEF HistOK
    <3>2. QED
      BY <3>1 DEF HistOK
  <2>4. SlotOK'
    BY PointsAre DEF SlotOK, CtxOK, ListsOK, Ctx, Locked
  <2>5. QED
    BY <2>1, <2>2, <2>3, <2>4
<1>9. CASE DmaTx
  <2> USE <1>9 DEF DmaTx, Goto, At
  <2>1. ListsOK' /\ MacOK'
    BY DEF ListsOK, MacOK, CtxOK, SlotOK
  <2>2. CtxOK'
    BY PointsAre DEF CtxOK, Ctx
  <2>3. HistOK'
    <3>1. content[txbuf[txcd]] \in Nat
      BY DEF ListsOK, MacOK
    <3>2. wire' \in Seq(Nat)
      BY <3>1, AppendOK DEF HistOK
    <3>3. QED
      BY <3>2 DEF HistOK
  <2>4. SlotOK'
    BY PointsAre DEF SlotOK, CtxOK, ListsOK, Ctx, Locked
  <2>5. QED
    BY <2>1, <2>2, <2>3, <2>4
<1>10. ASSUME NEW c \in Ctx, Send(c) PROVE TInv'
  <2> USE <1>10 DEF Send, Goto, At
  <2>1. ListsOK' /\ MacOK'
    BY DEF ListsOK, MacOK, CtxOK, SlotOK
  <2>2. CtxOK'
    BY PointsAre DEF CtxOK, Ctx
  <2>3. HistOK'
    BY DEF HistOK, CtxOK, MacOK
  <2>4. SlotOK'
    BY PointsAre DEF SlotOK, CtxOK, ListsOK, Ctx, Locked
  <2>5. QED
    BY <2>1, <2>2, <2>3, <2>4
<1>11. ASSUME NEW c \in Ctx, EnterCS(c) PROVE TInv'
  <2> USE <1>11 DEF EnterCS, Goto, At
  <2>1. ListsOK' /\ MacOK'
    BY DEF ListsOK, MacOK, CtxOK, SlotOK
  <2>2. CtxOK'
    BY PointsAre DEF CtxOK, Ctx
  <2>3. HistOK'
    BY DEF HistOK, CtxOK, MacOK
  <2>4. SlotOK'
    BY PointsAre DEF SlotOK, CtxOK, ListsOK, Ctx, Locked
  <2>5. QED
    BY <2>1, <2>2, <2>3, <2>4
<1>12. ASSUME NEW c \in Ctx, Status(c) PROVE TInv'
  <2> USE <1>12 DEF Status, Caller, Goto, At
  <2>1. ListsOK' /\ MacOK'
    BY DEF ListsOK, MacOK, CtxOK, SlotOK
  <2>2. CtxOK'
    BY PointsAre DEF CtxOK, ListsOK, MacOK, Ctx
  <2>3. HistOK'
    BY DEF HistOK, CtxOK, MacOK
  <2>4. SlotOK'
    BY PointsAre DEF SlotOK, CtxOK, ListsOK, Ctx, Locked
  <2>5. QED
    BY <2>1, <2>2, <2>3, <2>4
<1>13. ASSUME NEW c \in Ctx, Clear(c) PROVE TInv'
  <2> USE <1>13 DEF Clear, Cleared, Goto, At
  <2>1. ListsOK' /\ MacOK'
    BY DEF ListsOK, MacOK, CtxOK, SlotOK
  <2>2. CtxOK'
    BY PointsAre DEF CtxOK, Ctx
  <2>3. HistOK'
    BY DEF HistOK, CtxOK, MacOK
  <2>4. SlotOK'
    BY PointsAre DEF SlotOK, CtxOK, ListsOK, Ctx, Locked
  <2>5. QED
    BY <2>1, <2>2, <2>3, <2>4
<1>14. ASSUME NEW c \in Ctx, RxSnap(c) PROVE TInv'
  <2> USE <1>14 DEF RxSnap, Goto, At
  <2>1. ListsOK' /\ MacOK'
    BY DEF ListsOK, MacOK, CtxOK, SlotOK
  <2>2. CtxOK'
    BY PointsAre DEF CtxOK, ListsOK, MacOK, Ctx
  <2>3. HistOK'
    BY DEF HistOK, CtxOK, MacOK
  <2>4. SlotOK'
    BY PointsAre DEF SlotOK, CtxOK, ListsOK, Ctx, Locked
  <2>5. QED
    BY <2>1, <2>2, <2>3, <2>4
<1>15. ASSUME NEW c \in Ctx, RxTake(c) PROVE TInv'
  <2> USE <1>15 DEF RxTake, AfterTake, Goto, At
  <2>1. ListsOK' /\ MacOK'
    BY DEF ListsOK, MacOK, CtxOK, SlotOK
  <2>2. CtxOK'
    <3>1. rxbuf[rxrem] \in MaybePkt
      BY DEF ListsOK
    <3>2. QED
      BY <3>1, PointsAre DEF CtxOK, ListsOK, Ctx
  <2>3. HistOK'
    BY DEF HistOK, CtxOK, MacOK
  <2>4. SlotOK'
    BY PointsAre DEF SlotOK, CtxOK, ListsOK, Ctx, Locked
  <2>5. QED
    BY <2>1, <2>2, <2>3, <2>4
<1>16. ASSUME NEW c \in Ctx, Deliver(c) PROVE TInv'
  <2> USE <1>16 DEF Deliver, Goto, At
  <2>1. ListsOK' /\ MacOK'
    BY DEF ListsOK, MacOK, CtxOK, SlotOK
  <2>2. CtxOK'
    BY PointsAre DEF CtxOK, Ctx
  <2>3. HistOK'
    BY DEF HistOK, CtxOK, MacOK
  <2>4. SlotOK'
    BY PointsAre DEF SlotOK, CtxOK, ListsOK, Ctx, Locked
  <2>5. QED
    BY <2>1, <2>2, <2>3, <2>4
<1>17. ASSUME NEW c \in Ctx, RxFree(c) PROVE TInv'
  <2> USE <1>17 DEF RxFree, FreePkt, Freed, Goto, At
  <2>1. ListsOK' /\ MacOK'
    <3>1. pkt[c] \in MaybePkt
      BY DEF CtxOK
    <3>2. free' \in Seq(MaybePkt)
      BY <3>1, AppendOK DEF ListsOK
    <3>3. QED
      BY <3>2 DEF ListsOK, MacOK
  <2>2. CtxOK'
    BY PointsAre DEF CtxOK, Ctx
  <2>3. HistOK'
    BY DEF HistOK, CtxOK, MacOK
  <2>4. SlotOK'
    BY PointsAre DEF SlotOK, CtxOK, ListsOK, Ctx, Locked
  <2>5. QED
    BY <2>1, <2>2, <2>3, <2>4
<1>18. ASSUME NEW c \in Ctx, RxAlloc(c) PROVE TInv'
  <2> USE <1>18 DEF RxAlloc, AllocPkt, Unlinked, Goto, At
  <2>1. ListsOK' /\ MacOK'
    <3>1. free' \in Seq(MaybePkt)
      BY HeadTailOK DEF ListsOK
    <3>2. QED
      BY <3>1 DEF ListsOK, MacOK
  <2>2. CtxOK'
    <3> DEFINE p == IF free = <<>> THEN NoPkt ELSE Head(free)
    <3>0. p \in MaybePkt
      <4>1. free \in Seq(MaybePkt)
        BY DEF ListsOK
      <4>2. QED
        BY ONLY <4>1, AllocatedOK
    <3>1. pkt' \in [Ctx -> MaybePkt]
      BY <3>0 DEF CtxOK
    <3>2. QED
      BY <3>1, PointsAre DEF CtxOK, Ctx
  <2>3. HistOK'
    BY DEF HistOK, CtxOK, MacOK
  <2>4. SlotOK'
    BY PointsAre DEF SlotOK, CtxOK, ListsOK, Ctx, Locked
  <2>5. QED
    BY <2>1, <2>2, <2>3, <2>4
<1>19. ASSUME NEW c \in Ctx, RxAdvance(c) PROVE TInv'
  <2> USE <1>19 DEF RxAdvance, Goto, At
  <2>1. ListsOK' /\ MacOK'
    BY DEF ListsOK, MacOK, CtxOK, SlotOK
  <2>2. CtxOK'
    BY PointsAre DEF CtxOK, Ctx
  <2>3. HistOK'
    BY DEF HistOK, CtxOK, MacOK
  <2>4. SlotOK'
    BY PointsAre DEF SlotOK, CtxOK, ListsOK, Ctx, Locked
  <2>5. QED
    BY <2>1, <2>2, <2>3, <2>4
<1>20. ASSUME NEW c \in Ctx, RxPut(c) PROVE TInv'
  <2> USE <1>20 DEF RxPut, AddRcvbuf, Goto, At
  <2>1. ListsOK' /\ MacOK'
    <3>1. pkt[c] \in MaybePkt
      BY DEF CtxOK
    <3>2. rxbuf' \in [RxSlots -> MaybePkt] /\ rxadd' \in RxSlots /\ rxptr' \in RxSlots
      BY <3>1 DEF ListsOK, MacOK
    <3>3. QED
      BY <3>2 DEF ListsOK, MacOK
  <2>2. CtxOK'
    BY PointsAre DEF CtxOK, Ctx
  <2>3. HistOK'
    BY DEF HistOK, CtxOK, MacOK
  <2>4. SlotOK'
    BY PointsAre DEF SlotOK, CtxOK, ListsOK, Ctx, Locked
  <2>5. QED
    BY <2>1, <2>2, <2>3, <2>4
<1>21. ASSUME NEW c \in Ctx, RxDec(c) PROVE TInv'
  <2> USE <1>21 DEF RxDec, Goto, At
  <2>1. ListsOK' /\ MacOK'
    <3>1. onring' \in Int
      BY DEF ListsOK
    <3>2. QED
      BY <3>1 DEF ListsOK, MacOK
  <2>2. CtxOK'
    BY PointsAre DEF CtxOK, Ctx
  <2>3. HistOK'
    BY DEF HistOK, CtxOK, MacOK
  <2>4. SlotOK'
    BY PointsAre DEF SlotOK, CtxOK, ListsOK, Ctx, Locked
  <2>5. QED
    BY <2>1, <2>2, <2>3, <2>4
<1>22. ASSUME NEW c \in Ctx, TxSnap(c) PROVE TInv'
  <2> USE <1>22 DEF TxSnap, Goto, At
  <2>1. ListsOK' /\ MacOK'
    BY DEF ListsOK, MacOK, CtxOK, SlotOK
  <2>2. CtxOK'
    BY PointsAre DEF CtxOK, ListsOK, MacOK, Ctx
  <2>3. HistOK'
    BY DEF HistOK, CtxOK, MacOK
  <2>4. SlotOK'
    BY PointsAre DEF SlotOK, CtxOK, ListsOK, Ctx, Locked
  <2>5. QED
    BY <2>1, <2>2, <2>3, <2>4
<1>23. ASSUME NEW c \in Ctx, TxTake(c) PROVE TInv'
  <2> USE <1>23 DEF TxTake, Goto, At
  <2>1. ListsOK' /\ MacOK'
    BY DEF ListsOK, MacOK, CtxOK, SlotOK
  <2>2. CtxOK'
    <3>1. txbuf[txrem] \in MaybePkt
      BY DEF ListsOK
    <3>2. QED
      BY <3>1, PointsAre DEF CtxOK, ListsOK, Ctx
  <2>3. HistOK'
    BY DEF HistOK, CtxOK, MacOK
  <2>4. SlotOK'
    BY PointsAre DEF SlotOK, CtxOK, ListsOK, Ctx, Locked
  <2>5. QED
    BY <2>1, <2>2, <2>3, <2>4
<1>24. ASSUME NEW c \in Ctx, TxFree(c) PROVE TInv'
  <2> USE <1>24 DEF TxFree, FreePkt, Freed, Goto, At
  <2>1. ListsOK' /\ MacOK'
    <3>1. pkt[c] \in MaybePkt
      BY DEF CtxOK
    <3>2. free' \in Seq(MaybePkt)
      BY <3>1, AppendOK DEF ListsOK
    <3>3. QED
      BY <3>2 DEF ListsOK, MacOK
  <2>2. CtxOK'
    BY PointsAre DEF CtxOK, Ctx
  <2>3. HistOK'
    BY DEF HistOK, CtxOK, MacOK
  <2>4. SlotOK'
    BY PointsAre DEF SlotOK, CtxOK, ListsOK, Ctx, Locked
  <2>5. QED
    BY <2>1, <2>2, <2>3, <2>4
<1>25. ASSUME NEW c \in Ctx, TxAdvance(c) PROVE TInv'
  <2> USE <1>25 DEF TxAdvance, Goto, At
  <2>1. ListsOK' /\ MacOK'
    BY DEF ListsOK, MacOK, CtxOK, SlotOK
  <2>2. CtxOK'
    BY PointsAre DEF CtxOK, Ctx
  <2>3. HistOK'
    BY DEF HistOK, CtxOK, MacOK
  <2>4. SlotOK'
    BY PointsAre DEF SlotOK, CtxOK, ListsOK, Ctx, Locked
  <2>5. QED
    BY <2>1, <2>2, <2>3, <2>4
<1>26. ASSUME NEW c \in Ctx, OutAlloc(c) PROVE TInv'
  <2> USE <1>26 DEF OutAlloc, AllocPkt, Unlinked, Caller, Goto, At
  <2>1. ListsOK' /\ MacOK'
    <3>1. free' \in Seq(MaybePkt)
      BY HeadTailOK DEF ListsOK
    <3>2. QED
      BY <3>1 DEF ListsOK, MacOK
  <2>2. CtxOK'
    <3> DEFINE p == IF free = <<>> THEN NoPkt ELSE Head(free)
    <3>0. p \in MaybePkt
      <4>1. free \in Seq(MaybePkt)
        BY DEF ListsOK
      <4>2. QED
        BY ONLY <4>1, AllocatedOK
    <3>1. pkt' \in [Ctx -> MaybePkt]
      BY <3>0 DEF CtxOK
    <3>2. QED
      BY <3>1, PointsAre DEF CtxOK, Ctx
  <2>3. HistOK'
    BY DEF HistOK, CtxOK, MacOK
  <2>4. SlotOK'
    BY PointsAre DEF SlotOK, CtxOK, ListsOK, Ctx, Locked
  <2>5. QED
    BY <2>1, <2>2, <2>3, <2>4
<1>27. ASSUME NEW c \in Ctx, OutSlot(c) PROVE TInv'
  <2> USE <1>27 DEF OutSlot, Goto, At
  <2>1. ListsOK' /\ MacOK'
    BY DEF ListsOK, MacOK, CtxOK, SlotOK
  <2>2. CtxOK'
    BY PointsAre DEF CtxOK, ListsOK, MacOK, Ctx
  <2>3. HistOK'
    BY DEF HistOK, CtxOK, MacOK
  <2>4. SlotOK'
    BY PointsAre DEF SlotOK, CtxOK, ListsOK, Ctx, Locked
  <2>5. QED
    BY <2>1, <2>2, <2>3, <2>4
<1>28. ASSUME NEW c \in Ctx, OutPut(c) PROVE TInv'
  <2> USE <1>28 DEF OutPut, Goto, At
  <2>1. ListsOK' /\ MacOK'
    <3>1. pkt[c] \in MaybePkt /\ slot[c] \in TxSlots /\ accepted + 1 \in Nat
      BY DEF CtxOK, SlotOK, HistOK
    <3>2. content' \in [MaybePkt -> Nat]
      BY <3>1 DEF MacOK
    <3>3. txbuf' \in [TxSlots -> MaybePkt] /\ txadd' \in TxSlots
      BY <3>1 DEF ListsOK
    <3>4. QED
      BY <3>2, <3>3 DEF ListsOK, MacOK
  <2>2. CtxOK'
    BY PointsAre DEF CtxOK, Ctx
  <2>3. HistOK'
    BY DEF HistOK, CtxOK, MacOK
  <2>4. SlotOK'
    BY PointsAre DEF SlotOK, CtxOK, ListsOK, Ctx, Locked
  <2>5. QED
    BY <2>1, <2>2, <2>3, <2>4
<1>29. ASSUME NEW c \in Ctx, OutKick(c) PROVE TInv'
  <2> USE <1>29 DEF OutKick, Goto, At
  <2>1. ListsOK' /\ MacOK'
    BY DEF ListsOK, MacOK, CtxOK, SlotOK
  <2>2. CtxOK'
    BY PointsAre DEF CtxOK, Ctx
  <2>3. HistOK'
    BY DEF HistOK, CtxOK, MacOK
  <2>4. SlotOK'
    BY PointsAre DEF SlotOK, CtxOK, ListsOK, Ctx, Locked
  <2>5. QED
    BY <2>1, <2>2, <2>3, <2>4
<1>30. ASSUME NEW c \in Ctx, OutFree(c) PROVE TInv'
  <2> USE <1>30 DEF OutFree, FreePkt, Freed, Caller, Goto, At
  <2>1. ListsOK' /\ MacOK'
    <3>1. pkt[c] \in MaybePkt
      BY DEF CtxOK
    <3>2. free' \in Seq(MaybePkt)
      BY <3>1, AppendOK DEF ListsOK
    <3>3. QED
      BY <3>2 DEF ListsOK, MacOK
  <2>2. CtxOK'
    BY PointsAre DEF CtxOK, Ctx
  <2>3. HistOK'
    BY DEF HistOK, CtxOK, MacOK
  <2>4. SlotOK'
    BY PointsAre DEF SlotOK, CtxOK, ListsOK, Ctx, Locked
  <2>5. QED
    BY <2>1, <2>2, <2>3, <2>4
<1>31. CASE UNCHANGED vars
  BY <1>31 DEF vars, ListsOK, MacOK, CtxOK, HistOK, SlotOK
<1>32. QED
  BY <1>1, <1>2, <1>3, <1>4, <1>5, <1>6, <1>7, <1>8, <1>9, <1>10, <1>11, <1>12, <1>13, <1>14, <1>15, <1>16, <1>17, <1>18, <1>19, <1>20, <1>21, <1>22, <1>23, <1>24, <1>25, <1>26, <1>27, <1>28, <1>29, <1>30, <1>31 DEF Next, Attach, Dispatcher, Driver, Isr, Out

(* Every index, register, buffer name and program counter stays in its    *)
(* range in every behaviour, the foreground's preemptions included.       *)
THEOREM TypeCorrect == Spec => []TypeOK
<1>1. TInv => TypeOK
  BY DEF TInv
<1>2. QED
  BY TInit, TNext, <1>1, PTL DEF Spec

-----------------------------------------------------------------------------
(* A server: only lwIP's timer transmits, the script never calls           *)
(* cfe_output.  Then the foreground is done with the driver after attach.  *)

RxLoop == {"rxtake", "deliver", "deliverCS", "rxfree", "rxfreeCS", "rxalloc", "rxallocCS",
           "rxadv", "rxput", "rxdec", "rxdecCS"}
TxLoop == {"txtake", "txfree", "txfreeCS", "txadv"}

\* The transmit ring is still to be looked at in this turn of bcm4401_isr.
TxToCome == \/ pc["irq"] = "txsnap"
            \/ pc["irq"] \in {"clear", "rxsnap"} \cup RxLoop /\ "XI" \in stat["irq"]
RxToCome == \/ pc["irq"] = "rxsnap"
            \/ pc["irq"] = "clear" /\ "RI" \in stat["irq"]

(* Work the hardware has finished is known: its status bit is set, or the  *)
(* routine has yet to read the current descriptor, or it read it and no    *)
(* descriptor was finished since.  Or the frames are those whose bit       *)
(* bcm4401_start wiped out.                                                *)
WInv ==
  /\ pc["fg"] \in {"fill", "hwinit", "start", "startclr", "idle"}
  /\ pc \in [Ctx -> Points]
  /\ ~MacOn => rxcd = rxrem
  /\ ~Up => pc["irq"] = "idle" /\ txcd = 0 /\ txrem = 0 /\ txptr = 0 /\ early = 0
  /\ pc["irq"] \in RxLoop => cur["irq"] = rxcd \/ "RI" \in intstatus
  /\ pc["irq"] \in TxLoop => cur["irq"] = txcd \/ "XI" \in intstatus
  /\ pc["irq"] \notin RxLoop /\ rxcd # rxrem => "RI" \in intstatus \/ RxToCome \/ arrived = early
  /\ pc["irq"] \notin TxLoop /\ txcd # txrem => "XI" \in intstatus \/ TxToCome
  /\ pc["irq"] = "clear" => stat["irq"] # {} /\ stat["irq"] \subseteq {"RI", "XI"}
  /\ intstatus \subseteq {"RI", "XI"}

LEMMA WNext == ASSUME FgSends = FALSE, TInv, WInv, [Next]_vars
               PROVE  WInv'
<1> USE DEF WInv, Up, MacOn, Startup, Ctx, lists, rings, hw, locals, mac, ctxs, hist, RxToCome, TxToCome, RxLoop, TxLoop
<1>t. /\ stat \in [Ctx -> SUBSET {"RI", "XI"}] /\ cur \in [Ctx -> Nat]
      /\ intstatus \in SUBSET {"RI", "XI"}
  BY DEF TInv, TypeOK, CtxOK, MacOK
<1>p. pc' \in [Ctx -> Points]
  BY TNext DEF TInv, TypeOK, CtxOK
<1> USE <1>t, <1>p
<1>1. CASE FillRxRing
  BY <1>1 DEF FillRxRing, AddRcvbuf, Goto, At
<1>2. CASE Start
  <2>1. CASE Hwinit
    BY <2>1 DEF Hwinit, Goto, At
  <2>2. CASE StartRead
    BY <2>2 DEF StartRead, Goto, At
  <2>3. CASE StartClear
    <3>1. pc'["irq"] = "idle" /\ pc'["fg"] = "idle"
      BY <2>3 DEF StartClear, Goto, At
    <3>2. rxcd' # rxrem' => "RI" \in intstatus' \/ arrived' = early'
      <4>1. CASE "RI" \in stat["fg"]
        BY <2>3, <4>1 DEF StartClear
      <4>2. CASE "RI" \notin stat["fg"]
        BY <2>3, <4>2 DEF StartClear, Goto, At
      <4>3. QED
        BY <4>1, <4>2
    <3>3. txcd' = txrem' /\ intstatus' \subseteq {"RI", "XI"}
      BY <2>3 DEF StartClear, Goto, At
    <3>4. QED
      BY <3>1, <3>2, <3>3
  <2>4. QED
    BY <1>2, <2>1, <2>2, <2>3 DEF Start
<1>3. CASE IrqEntry
  BY <1>3 DEF IrqEntry, Goto, At
<1>4. CASE ServeTimer
  BY <1>4 DEF ServeTimer, Goto, At
<1>5. CASE ServeEth
  BY <1>5 DEF ServeEth, Goto, At
<1>6. CASE IrqExit
  BY <1>6 DEF IrqExit, Goto, At
<1>7. CASE TimerDone
  BY <1>7 DEF TimerDone, Goto, At
<1>8. CASE DmaRx
  BY <1>8 DEF DmaRx, Goto, At
<1>9. CASE DmaTx
  BY <1>9 DEF DmaTx, Goto, At
<1>10. ASSUME NEW c \in Ctx, Send(c) PROVE WInv'
  BY <1>10 DEF Send, Goto, At
<1>11. ASSUME NEW c \in Ctx, EnterCS(c) PROVE WInv'
  BY <1>11, PointsAre DEF EnterCS, Goto, At, Locked
<1>12. ASSUME NEW c \in Ctx, Status(c) PROVE WInv'
  BY <1>12 DEF Status, Caller, Goto, At
<1>13. ASSUME NEW c \in Ctx, Clear(c) PROVE WInv'
  BY <1>13 DEF Clear, Cleared, Goto, At
<1>14. ASSUME NEW c \in Ctx, RxSnap(c) PROVE WInv'
  BY <1>14 DEF RxSnap, Goto, At
<1>15. ASSUME NEW c \in Ctx, RxTake(c) PROVE WInv'
  BY <1>15 DEF RxTake, AfterTake, Goto, At
<1>16. ASSUME NEW c \in Ctx, Deliver(c) PROVE WInv'
  BY <1>16 DEF Deliver, Goto, At
<1>17. ASSUME NEW c \in Ctx, RxFree(c) PROVE WInv'
  BY <1>17 DEF RxFree, FreePkt, Freed, Goto, At
<1>18. ASSUME NEW c \in Ctx, RxAlloc(c) PROVE WInv'
  BY <1>18 DEF RxAlloc, AllocPkt, Unlinked, Goto, At
<1>19. ASSUME NEW c \in Ctx, RxAdvance(c) PROVE WInv'
  BY <1>19 DEF RxAdvance, Goto, At
<1>20. ASSUME NEW c \in Ctx, RxPut(c) PROVE WInv'
  BY <1>20 DEF RxPut, AddRcvbuf, Goto, At
<1>21. ASSUME NEW c \in Ctx, RxDec(c) PROVE WInv'
  BY <1>21 DEF RxDec, Goto, At
<1>22. ASSUME NEW c \in Ctx, TxSnap(c) PROVE WInv'
  BY <1>22 DEF TxSnap, Goto, At
<1>23. ASSUME NEW c \in Ctx, TxTake(c) PROVE WInv'
  BY <1>23 DEF TxTake, Goto, At
<1>24. ASSUME NEW c \in Ctx, TxFree(c) PROVE WInv'
  BY <1>24 DEF TxFree, FreePkt, Freed, Goto, At
<1>25. ASSUME NEW c \in Ctx, TxAdvance(c) PROVE WInv'
  BY <1>25 DEF TxAdvance, Goto, At
<1>26. ASSUME NEW c \in Ctx, OutAlloc(c) PROVE WInv'
  BY <1>26 DEF OutAlloc, AllocPkt, Unlinked, Caller, Goto, At
<1>27. ASSUME NEW c \in Ctx, OutSlot(c) PROVE WInv'
  BY <1>27 DEF OutSlot, Goto, At
<1>28. ASSUME NEW c \in Ctx, OutPut(c) PROVE WInv'
  BY <1>28 DEF OutPut, Goto, At
<1>29. ASSUME NEW c \in Ctx, OutKick(c) PROVE WInv'
  BY <1>29 DEF OutKick, Goto, At
<1>30. ASSUME NEW c \in Ctx, OutFree(c) PROVE WInv'
  BY <1>30 DEF OutFree, FreePkt, Freed, Caller, Goto, At
<1>31. CASE UNCHANGED vars
  BY <1>31 DEF vars
<1>32. QED
  BY <1>1, <1>2, <1>3, <1>4, <1>5, <1>6, <1>7, <1>8, <1>9, <1>10, <1>11, <1>12, <1>13, <1>14, <1>15, <1>16, <1>17, <1>18, <1>19, <1>20, <1>21, <1>22, <1>23, <1>24, <1>25, <1>26, <1>27, <1>28, <1>29, <1>30, <1>31 DEF Next, Attach, Dispatcher, Driver, Isr, Out

(* In a server no finished frame or transmission is ever forgotten by the  *)
(* interrupt routine, whenever the hardware finishes it: between the read  *)
(* of R_INT_STATUS, the write that clears it and the read of the current   *)
(* descriptor.                                                             *)
THEOREM ServerNoLostWork ==
  ASSUME FgSends = FALSE
  PROVE  Spec => []NoLostWork
<1>1. Init => WInv
  BY PointsAre DEF Init, WInv, Up, MacOn, Startup, Ctx, RxToCome, TxToCome, RxLoop, TxLoop
<1>2. TInv /\ WInv /\ [Next]_vars => WInv'
  BY WNext
<1>3. WInv => NoLostWork
  BY DEF WInv, NoLostWork, RxToCome, TxToCome, RxLoop, TxLoop
<1>4. QED
  BY TInit, TNext, <1>1, <1>2, <1>3, PTL DEF Spec

-----------------------------------------------------------------------------
(* The rings and the pool in a server (FgSends = FALSE): no buffer is lost *)
(* or in two places, the receive ring always takes the buffer put back and *)
(* stays charged, frames keep their order.                                 *)

Where == pc["irq"]

(* The way from a slot to another, around a ring of n slots.               *)
Off(lo, hi, n) == IF lo <= hi THEN hi - lo ELSE hi - lo + n
RxOff(i) == Off(rxrem, i, RxSize)
TxOff(i) == Off(txrem, i, TxSize)

(* From the remove pointer on lie, in this order, the descriptor that the  *)
(* routine has read as current, the hardware's current one, and the slot   *)
(* that is filled next.                                                    *)
RxOrder ==
  /\ rxptr = rxadd /\ RxOff(rxcd) <= RxOff(rxadd)
  /\ Where \in RxLoop => cur["irq"] \in RxSlots /\ RxOff(cur["irq"]) <= RxOff(rxcd)
  /\ Where \in RxLoop \ {"rxtake", "rxput", "rxdec", "rxdecCS"} => slot["irq"] = rxrem /\ cur["irq"] # rxrem
TxOrder ==
  /\ TxOff(txcd) <= TxOff(txptr)
  /\ txadd = (IF Where = "okick" THEN TxNext(txptr) ELSE txptr) /\ TxOff(txptr) <= TxOff(txadd)
  /\ Where \in TxLoop => cur["irq"] \in TxSlots /\ TxOff(cur["irq"]) <= TxOff(txcd)
  /\ Where \in TxLoop \ {"txtake"} => slot["irq"] = txrem /\ cur["irq"] # txrem
  /\ Where = "oput" => slot["irq"] = txadd /\ TxNext(txadd) # txrem
  /\ ~Up => txadd = 0

(* What the routine has in its hands.                                      *)
Hands ==
  /\ Where \in {"rxalloc", "rxallocCS"} => free # <<>>
  /\ Where \in {"deliver", "deliverCS", "rxfree", "rxfreeCS"} => pkt["irq"] = rxbuf[rxrem]
  /\ Where \in {"txfree", "txfreeCS"} => pkt["irq"] = txbuf[txrem]
  /\ Where \in {"rxadv", "rxput", "oslot", "oput", "ofree", "ofreeCS"} => pkt["irq"] # NoPkt

(* The receive ring counts its buffers; the loop that takes one out has    *)
(* one in its hands for it, so bcm4401_isr never finds the ring short.     *)
Charge ==
  /\ onring = RxOff(rxadd) + (IF Where = "rxput" THEN 1 ELSE 0)
  /\ Where \notin {"rxdec", "rxdecCS"}
  /\ IF pc["fg"] = "fill" THEN onring <= MinRx /\ Len(free) = PoolSize - onring
                          ELSE onring = MinRx

-----------------------------------------------------------------------------
(* The buffers on a list and in the slots S of a ring, without repetition. *)
On(list) == {list[k] : k \in 1..Len(list)}
Once(list) == \A j, k \in 1..Len(list) : list[j] = list[k] => j = k
In(buf, S) == {buf[i] : i \in S}
OnceIn(buf, S) == \A i, j \in S : buf[i] = buf[j] => i = j

RxSet == {i \in RxSlots : RxOwned(i)}
TxSet == {i \in TxSlots : TxOwned(i)}
Held  == IF Holds("irq") THEN {pkt["irq"]} ELSE {}

(* The pool is the disjoint union of a list, of the slots in use of two    *)
(* rings and of what a context holds.                                      *)
Parted(list, rb, R, tb, T, h) ==
  /\ Once(list) /\ OnceIn(rb, R) /\ OnceIn(tb, T)
  /\ On(list) \cap In(rb, R) = {} /\ On(list) \cap In(tb, T) = {} /\ In(rb, R) \cap In(tb, T) = {}
  /\ h \cap (On(list) \cup In(rb, R) \cup In(tb, T)) = {}
  /\ On(list) \cup In(rb, R) \cup In(tb, T) \cup h = Pkts
Split == Parted(free, rxbuf, RxSet, txbuf, TxSet, Held)

-----------------------------------------------------------------------------
(* Frames 1 to Done have left the receive ring, frames 1 to Gone were in   *)
(* slots that the transmit ring has left; the slots hold the next ones.    *)
Done == arrived - RxOff(rxcd)
Gone == Len(wire) - TxOff(txcd)
PassedUp == {"rxfree", "rxfreeCS", "rxalloc", "rxallocCS", "rxadv"}
DeliveredSet == On(delivered)
FramesUp ==
  /\ Done >= 0 /\ bad \subseteq 1..arrived
  /\ \A i \in RxSet : RxOff(i) < RxOff(rxcd) => content[rxbuf[i]] = Done + 1 + RxOff(i)
  /\ \A j, k \in 1..Len(delivered) : j < k => delivered[j] < delivered[k]
  /\ \A f \in DeliveredSet : f \notin bad /\ 1 <= f /\ f <= Done + (IF Where \in PassedUp THEN 1 ELSE 0)
  /\ \A f \in 1..Done : f \in bad \cup DeliveredSet
  /\ Where \in {"deliver", "deliverCS"} => Done + 1 \notin bad
  /\ Where \in PassedUp => Done + 1 \in bad \cup DeliveredSet
FramesOut ==
  /\ accepted = Gone + TxOff(txadd)
  /\ \A k \in 1..Len(wire) : wire[k] = k
  /\ \A i \in TxSlots : TxOff(txcd) <= TxOff(i) /\ TxOff(i) < TxOff(txadd) =>
       content[txbuf[i]] = Gone + 1 + TxOff(i)

ServerInv == TInv /\ WInv /\ RxOrder /\ TxOrder /\ Hands /\ Charge /\ Split /\ FramesUp /\ FramesOut


-----------------------------------------------------------------------------
(* What can happen in a server: the foreground attaches the driver and is  *)
(* done with it, everything else is the dispatcher's or the hardware's.    *)
LEMMA ServerNext ==
  ASSUME FgSends = FALSE, TInv, WInv, Next
  PROVE  FillRxRing \/ Start \/ Dispatcher \/ DmaRx \/ DmaTx \/ Send("irq") \/ Driver("irq")
<1>1. ~Send("fg")
  BY DEF Send
<1>2. ~Driver("fg")
  BY PointsAre DEF WInv, Driver, EnterCS, Isr, Out, At, Status, Clear, RxSnap, RxTake, Deliver, RxFree,
     RxAlloc, RxAdvance, RxPut, RxDec, TxSnap, TxTake, TxFree, TxAdvance, OutAlloc, OutSlot, OutPut,
     OutKick, OutFree, FreePkt
<1>3. QED
  BY <1>1, <1>2 DEF Next, Attach, Ctx

(* The indices are numbers within their rings.                             *)
LEMMA Ranges ==
  ASSUME TInv
  PROVE  /\ RxSize \in Nat /\ RxSize >= 2 /\ TxSize \in Nat /\ TxSize >= 2
         /\ rxrem \in Nat /\ rxrem < RxSize /\ rxadd \in Nat /\ rxadd < RxSize
         /\ rxcd \in Nat /\ rxcd < RxSize /\ rxptr \in Nat /\ rxptr < RxSize
         /\ txrem \in Nat /\ txrem < TxSize /\ txadd \in Nat /\ txadd < TxSize
         /\ txcd \in Nat /\ txcd < TxSize /\ txptr \in Nat /\ txptr < TxSize
         /\ pc \in [Ctx -> Points] /\ pkt \in [Ctx -> MaybePkt] /\ slot \in [Ctx -> Nat]
         /\ cur \in [Ctx -> Nat] /\ stat \in [Ctx -> SUBSET {"RI", "XI"}] /\ home \in [Ctx -> {"idle", "out1", "out2", "eth"}]
BY SizesAssumption DEF TInv, TypeOK, ListsOK, MacOK, CtxOK, RxSlots, TxSlots

(* The descriptors read and current never overtake the slot filled next.   *)
LEMMA RxOrderNext ==
  ASSUME FgSends = FALSE, TInv, WInv, RxOrder, Next
  PROVE  RxOrder'
<1> USE Ranges DEF RxOrder, Where, Up, MacOn, Startup, WInv, RxOff, Off, RxNext, RxSlots, RxLoop, Ctx,
          lists, rings, hw, locals, mac, ctxs, hist
<1>1. CASE FillRxRing
  <2>1. Where = "idle" /\ Where' = "idle" /\ rxcd = rxrem /\ rxcd' = rxrem /\ rxrem' = rxrem
    BY <1>1 DEF FillRxRing, AddRcvbuf, Goto, At
  <2>2. rxadd' \in RxSlots /\ rxptr' = rxadd'
    BY <1>1, NextInRing DEF FillRxRing, AddRcvbuf, Goto, At, TInv, TypeOK, ListsOK
  <2>3. QED
    BY <2>1, <2>2
<1>2. CASE Start
  BY <1>2 DEF Start, Hwinit, StartRead, StartClear, Goto, At
<1>3. CASE IrqEntry
  BY <1>3 DEF IrqEntry, Goto, At
<1>4. CASE ServeTimer
  BY <1>4 DEF ServeTimer, Goto, At
<1>5. CASE ServeEth
  BY <1>5 DEF ServeEth, Goto, At
<1>6. CASE IrqExit
  BY <1>6 DEF IrqExit, Goto, At
<1>7. CASE TimerDone
  BY <1>7 DEF TimerDone, Goto, At
<1>8. CASE DmaRx
  BY <1>8 DEF DmaRx, Goto, At
<1>9. CASE DmaTx
  BY <1>9 DEF DmaTx, Goto, At
<1>10. CASE Send("irq")
  BY <1>10 DEF Send, Goto, At
<1>11. CASE EnterCS("irq")
  BY <1>11, PointsAre DEF EnterCS, Locked, Goto, At
<1>12. CASE Status("irq")
  BY <1>12 DEF Status, Caller, Goto, At
<1>13. CASE Clear("irq")
  BY <1>13 DEF Clear, Cleared, Goto, At
<1>14. CASE RxSnap("irq")
  BY <1>14 DEF RxSnap, Goto, At
<1>15. CASE RxTake("irq")
  BY <1>15 DEF RxTake, AfterTake, Goto, At
<1>16. CASE Deliver("irq")
  BY <1>16 DEF Deliver, Goto, At
<1>17. CASE RxFree("irq")
  BY <1>17 DEF RxFree, FreePkt, Freed, Goto, At
<1>18. CASE RxAlloc("irq")
  BY <1>18 DEF RxAlloc, AllocPkt, Unlinked, Goto, At
<1>19. CASE RxAdvance("irq")
  <2>1. Where = "rxadv" /\ Where' \in {"rxput", "rxdec"} /\ rxrem' = RxNext(rxrem)
    BY <1>19 DEF RxAdvance, Goto, At
  <2>2. UNCHANGED <<rxadd, rxptr, rxcd, cur, slot>>
    BY <1>19 DEF RxAdvance
  <2>3. cur["irq"] \in RxSlots /\ cur["irq"] # rxrem /\ RxOff(cur["irq"]) <= RxOff(rxcd)
    BY <2>1
  <2>4. rxcd # rxrem /\ rxadd # rxrem
    BY <2>3
  <2>5. (RxOff(rxcd))' = RxOff(rxcd) - 1 /\ (RxOff(rxadd))' = RxOff(rxadd) - 1
        /\ (RxOff(cur["irq"]))' = RxOff(cur["irq"]) - 1
    BY <2>1, <2>2, <2>3, <2>4
  <2>6. (RxOff(rxcd))' <= (RxOff(rxadd))' /\ (RxOff(cur["irq"]))' <= (RxOff(rxcd))'
    <3>1. RxOff(cur["irq"]) \in Int /\ RxOff(rxcd) \in Int /\ RxOff(rxadd) \in Int
      BY <2>3
    <3> HIDE DEF RxOff
    <3>2. QED
      BY <2>5, <2>3, <3>1
  <2> HIDE DEF RxOff
  <2>7. QED
    BY <2>1, <2>2, <2>3, <2>6
<1>20. CASE RxPut("irq")
  BY <1>20 DEF RxPut, AddRcvbuf, Goto, At, RxFull
<1>21. CASE RxDec("irq")
  BY <1>21 DEF RxDec, Goto, At
<1>22. CASE TxSnap("irq")
  BY <1>22 DEF TxSnap, Goto, At
<1>23. CASE TxTake("irq")
  BY <1>23 DEF TxTake, Goto, At
<1>24. CASE TxFree("irq")
  BY <1>24 DEF TxFree, FreePkt, Freed, Goto, At
<1>25. CASE TxAdvance("irq")
  BY <1>25 DEF TxAdvance, Goto, At
<1>26. CASE OutAlloc("irq")
  BY <1>26 DEF OutAlloc, AllocPkt, Unlinked, Caller, Goto, At
<1>27. CASE OutSlot("irq")
  BY <1>27 DEF OutSlot, Goto, At
<1>28. CASE OutPut("irq")
  BY <1>28 DEF OutPut, Goto, At
<1>29. CASE OutKick("irq")
  BY <1>29 DEF OutKick, Goto, At
<1>30. CASE OutFree("irq")
  BY <1>30 DEF OutFree, FreePkt, Freed, Caller, Goto, At
<1>31. QED
  BY ServerNext, <1>1, <1>2, <1>3, <1>4, <1>5, <1>6, <1>7, <1>8, <1>9, <1>10, <1>11, <1>12, <1>13, <1>14, <1>15, <1>16, <1>17, <1>18, <1>19, <1>20, <1>21, <1>22, <1>23, <1>24, <1>25, <1>26, <1>27, <1>28, <1>29, <1>30 DEF Dispatcher, Driver, Isr, Out

(* The same for the transmit ring.                                         *)
LEMMA TxOrderNext ==
  ASSUME FgSends = FALSE, TInv, WInv, TxOrder, Next
  PROVE  TxOrder'
<1> USE Ranges DEF TxOrder, Where, Up, MacOn, Startup, WInv, TxOff, Off, TxNext, TxSlots, TxLoop, Ctx,
          lists, rings, hw, locals, mac, ctxs, hist
<1>1. CASE FillRxRing
  BY <1>1 DEF FillRxRing, AddRcvbuf, Goto, At
<1>2. CASE Start
  BY <1>2 DEF Start, Hwinit, StartRead, StartClear, Goto, At
<1>3. CASE IrqEntry
  BY <1>3 DEF IrqEntry, Goto, At
<1>4. CASE ServeTimer
  BY <1>4 DEF ServeTimer, Goto, At
<1>5. CASE ServeEth
  BY <1>5 DEF ServeEth, Goto, At
<1>6. CASE IrqExit
  BY <1>6 DEF IrqExit, Goto, At
<1>7. CASE TimerDone
  BY <1>7 DEF TimerDone, Goto, At
<1>8. CASE DmaRx
  BY <1>8 DEF DmaRx, Goto, At
<1>9. CASE DmaTx
  <2>1. txcd # txptr /\ txcd' = TxNext(txcd)
    BY <1>9 DEF DmaTx
  <2>2. UNCHANGED <<pc, cur, slot, txrem, txadd, txptr>>
    BY <1>9 DEF DmaTx
  <2>3. (TxOff(txcd))' = TxOff(txcd) + 1 /\ (TxOff(txcd))' <= TxOff(txptr)
    BY <2>1, <2>2
  <2>4. QED
    BY <2>2, <2>3
<1>10. CASE Send("irq")
  BY <1>10 DEF Send, Goto, At
<1>11. CASE EnterCS("irq")
  BY <1>11, PointsAre DEF EnterCS, Locked, Goto, At
<1>12. CASE Status("irq")
  BY <1>12 DEF Status, Caller, Goto, At
<1>13. CASE Clear("irq")
  BY <1>13 DEF Clear, Cleared, Goto, At
<1>14. CASE RxSnap("irq")
  BY <1>14 DEF RxSnap, Goto, At
<1>15. CASE RxTake("irq")
  BY <1>15 DEF RxTake, AfterTake, Goto, At
<1>16. CASE Deliver("irq")
  BY <1>16 DEF Deliver, Goto, At
<1>17. CASE RxFree("irq")
  BY <1>17 DEF RxFree, FreePkt, Freed, Goto, At
<1>18. CASE RxAlloc("irq")
  BY <1>18 DEF RxAlloc, AllocPkt, Unlinked, Goto, At
<1>19. CASE RxAdvance("irq")
  BY <1>19 DEF RxAdvance, Goto, At
<1>20. CASE RxPut("irq")
  BY <1>20 DEF RxPut, AddRcvbuf, Goto, At
<1>21. CASE RxDec("irq")
  BY <1>21 DEF RxDec, Goto, At
<1>22. CASE TxSnap("irq")
  BY <1>22 DEF TxSnap, Goto, At
<1>23. CASE TxTake("irq")
  BY <1>23 DEF TxTake, Goto, At
<1>24. CASE TxFree("irq")
  BY <1>24 DEF TxFree, FreePkt, Freed, Goto, At
<1>25. CASE TxAdvance("irq")
  BY <1>25 DEF TxAdvance, Goto, At
<1>26. CASE OutAlloc("irq")
  BY <1>26 DEF OutAlloc, AllocPkt, Unlinked, Caller, Goto, At
<1>27. CASE OutSlot("irq")
  BY <1>27 DEF OutSlot, Goto, At
<1>28. CASE OutPut("irq")
  BY <1>28 DEF OutPut, Goto, At
<1>29. CASE OutKick("irq")
  BY <1>29 DEF OutKick, Goto, At
<1>30. CASE OutFree("irq")
  BY <1>30 DEF OutFree, FreePkt, Freed, Caller, Goto, At
<1>31. QED
  BY ServerNext, <1>1, <1>2, <1>3, <1>4, <1>5, <1>6, <1>7, <1>8, <1>9, <1>10, <1>11, <1>12, <1>13, <1>14, <1>15, <1>16, <1>17, <1>18, <1>19, <1>20, <1>21, <1>22, <1>23, <1>24, <1>25, <1>26, <1>27, <1>28, <1>29, <1>30 DEF Dispatcher, Driver, Isr, Out


-----------------------------------------------------------------------------
(* Only pool buffers are on the list and in the slots in use.              *)
LEMMA InPool ==
  ASSUME TInv, Split
  PROVE  /\ free \in Seq(MaybePkt) /\ \A k \in 1..Len(free) : free[k] \in Pkts
         /\ free # <<>> => Head(free) = free[1] /\ Head(free) \in Pkts
         /\ \A i \in RxSet : rxbuf[i] \in Pkts
         /\ \A i \in TxSet : txbuf[i] \in Pkts
         /\ NoPkt \notin Pkts
<1>1. free \in Seq(MaybePkt)
  BY DEF TInv, TypeOK, ListsOK
<1>2. \A k \in 1..Len(free) : free[k] \in Pkts
  BY DEF Split, Parted, On
<1>3. free # <<>> => Len(free) >= 1 /\ Head(free) = free[1]
  BY <1>1
<1>4. free # <<>> => Head(free) = free[1] /\ Head(free) \in Pkts
  BY <1>1, <1>2, <1>3
<1>5. (\A i \in RxSet : rxbuf[i] \in Pkts) /\ (\A i \in TxSet : txbuf[i] \in Pkts)
  BY DEF Split, Parted, In
<1>6. QED
  BY <1>1, <1>2, <1>4, <1>5 DEF NoPkt, Pkts

(* While a loop has descriptors to look at, its first one is in the ring.  *)
LEMMA FirstInRing ==
  ASSUME TInv, WInv, RxOrder, TxOrder
  PROVE  /\ Where \in RxLoop /\ cur["irq"] # rxrem => rxrem # rxadd
         /\ Where \in TxLoop /\ cur["irq"] # txrem => txrem # txadd
<1>1. Where \in RxLoop /\ cur["irq"] # rxrem => rxrem # rxadd
  BY Ranges DEF RxOrder, RxOff, Off, RxSlots
<1>2. Where \in TxLoop /\ cur["irq"] # txrem => txrem # txadd
  BY Ranges DEF TxOrder, TxOff, Off, TxSlots, TxLoop
<1>3. QED
  BY <1>1, <1>2

(* The slot under a remove pointer is in use until its buffer is given up. *)
LEMMA FirstOwned ==
  ASSUME TInv, WInv
  PROVE  /\ rxrem # rxadd /\ Where \notin {"rxalloc", "rxallocCS", "rxadv"} => rxrem \in RxSet
         /\ txrem # txadd /\ Where # "txadv" => txrem \in TxSet
BY Ranges DEF RxSet, TxSet, RxOwned, TxOwned, RxTaken, TxTaken, Between, RxSlots, TxSlots, WInv, Where, Ctx

(* The receive ring always has room for the buffer that is put back.       *)
LEMMA RoomToPut ==
  ASSUME TInv, WInv, Charge, Where = "rxput"
  PROVE  ~RxFull
BY SMTT(40), Ranges, SizesAssumption DEF Charge, WInv, Up, MacOn, Startup, Where, RxFull, RxNext, RxOff, Off

(* A list that lost its head, and one that gained a last element.          *)
LEMMA LenTailAppend ==
  ASSUME NEW S, NEW s \in Seq(S), NEW e \in S
  PROVE  /\ Len(Append(s, e)) = Len(s) + 1 /\ Append(s, e) # <<>>
         /\ s # <<>> => Len(Tail(s)) = Len(s) - 1 /\ Len(s) \in Nat
OBVIOUS

LEMMA HandsNext ==
  ASSUME FgSends = FALSE, ServerInv, Next
  PROVE  Hands'
<1> USE Ranges, InPool, FirstInRing, FirstOwned DEF ServerInv, Hands, Where, RxLoop, TxLoop,
          lists, rings, hw, locals, mac, ctxs, hist
<1>1. CASE FillRxRing
  BY <1>1 DEF FillRxRing, AddRcvbuf, Goto, At, WInv, Up, MacOn, Startup, Ctx
<1>2. CASE Start
  BY <1>2 DEF Start, Hwinit, StartRead, StartClear, Goto, At, WInv, Up, MacOn, Startup, Ctx
<1>3. CASE IrqEntry
  BY <1>3 DEF IrqEntry, Goto, At
<1>4. CASE ServeTimer
  BY <1>4 DEF ServeTimer, Goto, At
<1>5. CASE ServeEth
  BY <1>5 DEF ServeEth, Goto, At
<1>6. CASE IrqExit
  BY <1>6 DEF IrqExit, Goto, At
<1>7. CASE TimerDone
  BY <1>7 DEF TimerDone, Goto, At
<1>8. CASE DmaRx
  BY <1>8 DEF DmaRx, Goto, At
<1>9. CASE DmaTx
  BY <1>9 DEF DmaTx, Goto, At
<1>10. CASE Send("irq")
  BY <1>10 DEF Send, Goto, At
<1>11. CASE EnterCS("irq")
  BY SMTT(40), <1>11, PointsAre DEF EnterCS, Locked, Goto, At
<1>12. CASE Status("irq")
  BY <1>12 DEF Status, Caller, Goto, At, WInv, Up, MacOn, Startup, Ctx
<1>13. CASE Clear("irq")
  BY <1>13 DEF Clear, Cleared, Goto, At
<1>14. CASE RxSnap("irq")
  BY <1>14 DEF RxSnap, Goto, At
<1>15. CASE RxTake("irq")
  <2>1. CASE rxrem = cur["irq"]
    <3>1. Where' \in {"txsnap", "status"}
      BY <1>15, <2>1 DEF RxTake, Goto, At, Ctx
    <3>2. QED
      BY <3>1
  <2>2. CASE rxrem # cur["irq"]
    <3>1. Where = "rxtake" /\ Where' \in {"rxadv", "deliver"} /\ pkt'["irq"] = rxbuf[rxrem]
      BY <1>15, <2>2 DEF RxTake, AfterTake, Goto, At, Ctx
    <3>2. rxbuf[rxrem] # NoPkt
      BY <2>2, <3>1
    <3>3. rxbuf' = rxbuf /\ rxrem' = rxrem
      BY <1>15 DEF RxTake
    <3>4. QED
      BY <3>1, <3>2, <3>3
  <2>3. QED
    BY <2>1, <2>2
<1>16. CASE Deliver("irq")
  BY <1>16 DEF Deliver, Goto, At
<1>17. CASE RxFree("irq")
  BY SMTT(40), <1>17 DEF RxFree, FreePkt, Freed, Goto, At
<1>18. CASE RxAlloc("irq")
  <2>1. Where = "rxallocCS" /\ Where' = "rxadv" /\ free # <<>>
    BY <1>18 DEF RxAlloc, Goto, At, Ctx
  <2>2. pkt'["irq"] = Head(free)
    BY <1>18, <2>1 DEF RxAlloc, AllocPkt, Ctx
  <2>3. QED
    BY <2>1, <2>2
<1>19. CASE RxAdvance("irq")
  BY <1>19 DEF RxAdvance, Goto, At
<1>20. CASE RxPut("irq")
  BY <1>20 DEF RxPut, AddRcvbuf, Goto, At
<1>21. CASE RxDec("irq")
  BY <1>21 DEF RxDec, Goto, At
<1>22. CASE TxSnap("irq")
  BY <1>22 DEF TxSnap, Goto, At
<1>23. CASE TxTake("irq")
  <2>1. CASE txrem = cur["irq"]
    <3>1. Where' = "status"
      BY <1>23, <2>1 DEF TxTake, Goto, At, Ctx
    <3>2. QED
      BY <3>1
  <2>2. CASE txrem # cur["irq"]
    <3>1. Where' = "txfree" /\ pkt'["irq"] = txbuf[txrem]
      BY <1>23, <2>2 DEF TxTake, Goto, At, Ctx
    <3>2. txbuf' = txbuf /\ txrem' = txrem
      BY <1>23 DEF TxTake
    <3>3. QED
      BY <3>1, <3>2
  <2>3. QED
    BY <2>1, <2>2
<1>24. CASE TxFree("irq")
  BY <1>24 DEF TxFree, FreePkt, Freed, Goto, At
<1>25. CASE TxAdvance("irq")
  BY <1>25 DEF TxAdvance, Goto, At
<1>26. CASE OutAlloc("irq")
  BY <1>26 DEF OutAlloc, AllocPkt, Unlinked, Caller, Goto, At
<1>27. CASE OutSlot("irq")
  BY <1>27 DEF OutSlot, Goto, At
<1>28. CASE OutPut("irq")
  BY <1>28 DEF OutPut, Goto, At
<1>29. CASE OutKick("irq")
  BY <1>29 DEF OutKick, Goto, At
<1>30. CASE OutFree("irq")
  BY <1>30 DEF OutFree, FreePkt, Freed, Caller, Goto, At
<1>31. QED
  BY ServerNext, <1>1, <1>2, <1>3, <1>4, <1>5, <1>6, <1>7, <1>8, <1>9, <1>10, <1>11, <1>12, <1>13, <1>14, <1>15, <1>16, <1>17, <1>18, <1>19, <1>20, <1>21, <1>22, <1>23, <1>24, <1>25, <1>26, <1>27, <1>28, <1>29, <1>30 DEF Dispatcher, Driver, Isr, Out

LEMMA ChargeFill ==
  ASSUME ServerInv, FillRxRing
  PROVE  Charge'
<1>0. /\ pc["fg"] = "fill" /\ Where = "idle" /\ pc \in [Ctx -> Points]
      /\ free \in Seq(MaybePkt) /\ Len(free) \in Nat /\ (free = <<>> <=> Len(free) = 0)
  BY DEF FillRxRing, At, ServerInv, WInv, Up, MacOn, Startup, TInv, TypeOK, ListsOK, Where
<1>1. /\ onring = RxOff(rxadd) /\ onring <= MinRx /\ Len(free) = PoolSize - onring
      /\ RxOff(rxadd) \in Int /\ (RxFull <=> RxOff(rxadd) = RxSize - 1)
  <2>1. RxOff(rxadd) \in Int /\ (RxFull <=> RxOff(rxadd) = RxSize - 1)
    BY Ranges DEF ServerInv, RxFull, RxNext, RxOff, Off
  <2>2. onring = RxOff(rxadd) /\ onring <= MinRx /\ Len(free) = PoolSize - onring
    BY <1>0, <2>1 DEF ServerInv, Charge
  <2>3. QED
    BY <2>1, <2>2
<1>2. CASE onring >= MinRx \/ free = <<>> \/ RxFull
  <2>1. onring = MinRx
    BY <1>0, <1>1, <1>2, SizesAssumption
  <2>2. pc' = [pc EXCEPT !["fg"] = "hwinit"] /\ UNCHANGED <<onring, rxadd, rxrem>>
    BY <1>1, <1>2, SizesAssumption DEF FillRxRing, Goto, lists, rings
  <2>3. (RxOff(rxadd))' = RxOff(rxadd)
    BY <2>2 DEF RxOff
  <2>4. Where' = "idle" /\ pc'["fg"] = "hwinit"
    BY <1>0, <2>2 DEF Where, Ctx
  <2>5. onring' = MinRx /\ (RxOff(rxadd))' = MinRx /\ MinRx \in Nat
    BY <1>1, <2>1, <2>2, <2>3, SizesAssumption
  <2>6. QED
    BY <2>4, <2>5 DEF Charge
<1>3. CASE ~(onring >= MinRx \/ free = <<>> \/ RxFull)
  <2>1. pc' = pc /\ rxrem' = rxrem /\ onring' = onring + 1 /\ rxadd' = RxNext(rxadd)
    BY <1>3, <1>1, SizesAssumption DEF FillRxRing, AddRcvbuf
  <2>2. Len(free') = Len(free) - 1
    BY <1>0, <1>3, LenTailAppend DEF FillRxRing
  <2>3. (RxOff(rxadd))' = RxOff(rxadd) + 1
    <3>1. rxrem \in Nat /\ rxadd \in Nat /\ rxadd < RxSize /\ rxrem < RxSize /\ RxSize \in Nat
      BY Ranges DEF ServerInv
    <3>2. RxNext(rxadd) # rxrem
      BY <1>3 DEF RxFull
    <3>3. QED
      BY <2>1, <3>1, <3>2 DEF RxOff, Off, RxNext
  <2>4. onring' <= MinRx /\ Len(free') = PoolSize - onring'
    BY <1>0, <1>1, <1>3, <2>1, <2>2, SizesAssumption
  <2>5. QED
    BY <1>0, <1>1, <2>1, <2>3, <2>4 DEF Charge, Where
<1>4. QED
  BY <1>2, <1>3

LEMMA ChargeAdvance ==
  ASSUME ServerInv, RxAdvance("irq")
  PROVE  Charge'
<1>1. Where = "rxadv" /\ Where' = "rxput" /\ rxrem' = RxNext(rxrem)
  BY Ranges DEF RxAdvance, Goto, At, ServerInv, RxOrder, RxLoop, Hands, Where, Ctx
<1>2. UNCHANGED <<rxadd, onring, free>> /\ pc'["fg"] = pc["fg"]
  BY Ranges DEF RxAdvance, Goto, ServerInv, Ctx
<1>3. rxadd # rxrem
  BY <1>1, FirstInRing DEF ServerInv, RxOrder, RxLoop
<1>4. (RxOff(rxadd))' = RxOff(rxadd) - 1 /\ RxOff(rxadd) \in Int
  BY <1>1, <1>2, <1>3, Ranges DEF RxNext, RxOff, Off, ServerInv
<1>5. QED
  BY <1>1, <1>2, <1>4 DEF ServerInv, Charge

LEMMA ChargePut ==
  ASSUME ServerInv, RxPut("irq")
  PROVE  Charge'
<1>1. Where = "rxput" /\ Where' = "rxtake" /\ ~RxFull
  BY RoomToPut, Ranges DEF RxPut, Goto, At, ServerInv, Where, Ctx
<1>2. rxadd' = RxNext(rxadd) /\ UNCHANGED <<rxrem, onring, free>> /\ pc'["fg"] = pc["fg"]
  BY <1>1, Ranges DEF RxPut, AddRcvbuf, Goto, ServerInv, Ctx
<1>3. (RxOff(rxadd))' = RxOff(rxadd) + 1 /\ RxOff(rxadd) \in Int
  BY <1>1, <1>2, Ranges DEF RxFull, RxNext, RxOff, Off, ServerInv
<1>4. QED
  BY <1>1, <1>2, <1>3 DEF ServerInv, Charge

LEMMA ChargeNext ==
  ASSUME FgSends = FALSE, ServerInv, Next
  PROVE  Charge'
<1> USE Ranges DEF ServerInv, Charge, Hands, WInv, Up, MacOn, Startup, Ctx, Where, RxOff, Off,
          lists, rings, hw, locals, mac, ctxs, hist
<1>1. CASE FillRxRing
  BY <1>1, ChargeFill
<1>2. CASE Start
  BY <1>2 DEF Start, Hwinit, StartRead, StartClear, Goto, At
<1>3. CASE IrqEntry
  BY <1>3 DEF IrqEntry, Goto, At
<1>4. CASE ServeTimer
  BY <1>4 DEF ServeTimer, Goto, At
<1>5. CASE ServeEth
  BY <1>5 DEF ServeEth, Goto, At
<1>6. CASE IrqExit
  BY <1>6 DEF IrqExit, Goto, At
<1>7. CASE TimerDone
  BY <1>7 DEF TimerDone, Goto, At
<1>8. CASE DmaRx
  BY <1>8 DEF DmaRx, Goto, At
<1>9. CASE DmaTx
  BY <1>9 DEF DmaTx, Goto, At
<1>10. CASE Send("irq")
  BY <1>10 DEF Send, Goto, At
<1>11. CASE EnterCS("irq")
  BY SMTT(40), <1>11, PointsAre DEF EnterCS, Locked, Goto, At
<1>12. CASE Status("irq")
  BY <1>12 DEF Status, Caller, Goto, At
<1>13. CASE Clear("irq")
  BY <1>13 DEF Clear, Cleared, Goto, At
<1>14. CASE RxSnap("irq")
  BY <1>14 DEF RxSnap, Goto, At
<1>15. CASE RxTake("irq")
  BY <1>15 DEF RxTake, AfterTake, Goto, At
<1>16. CASE Deliver("irq")
  BY <1>16 DEF Deliver, Goto, At
<1>17. CASE RxFree("irq")
  BY <1>17 DEF RxFree, FreePkt, Freed, Goto, At
<1>18. CASE RxAlloc("irq")
  BY <1>18 DEF RxAlloc, AllocPkt, Unlinked, Goto, At
<1>19. CASE RxAdvance("irq")
  BY <1>19, ChargeAdvance
<1>20. CASE RxPut("irq")
  BY <1>20, ChargePut
<1>21. CASE RxDec("irq")
  BY <1>21 DEF RxDec, Goto, At
<1>22. CASE TxSnap("irq")
  BY <1>22 DEF TxSnap, Goto, At
<1>23. CASE TxTake("irq")
  BY <1>23 DEF TxTake, Goto, At
<1>24. CASE TxFree("irq")
  BY <1>24 DEF TxFree, FreePkt, Freed, Goto, At
<1>25. CASE TxAdvance("irq")
  BY <1>25 DEF TxAdvance, Goto, At
<1>26. CASE OutAlloc("irq")
  BY <1>26 DEF OutAlloc, AllocPkt, Unlinked, Caller, Goto, At
<1>27. CASE OutSlot("irq")
  BY <1>27 DEF OutSlot, Goto, At
<1>28. CASE OutPut("irq")
  BY <1>28 DEF OutPut, Goto, At
<1>29. CASE OutKick("irq")
  BY <1>29 DEF OutKick, Goto, At
<1>30. CASE OutFree("irq")
  BY <1>30 DEF OutFree, FreePkt, Freed, Caller, Goto, At
<1>31. QED
  BY ServerNext, <1>1, <1>2, <1>3, <1>4, <1>5, <1>6, <1>7, <1>8, <1>9, <1>10, <1>11, <1>12, <1>13, <1>14, <1>15, <1>16, <1>17, <1>18, <1>19, <1>20, <1>21, <1>22, <1>23, <1>24, <1>25, <1>26, <1>27, <1>28, <1>29, <1>30 DEF Dispatcher, Driver, Isr, Out


-----------------------------------------------------------------------------
(* What the moves of a buffer do to the parts of the pool.                 *)
LEMMA TailOf ==
  ASSUME NEW S, NEW s \in Seq(S), s # <<>>, Once(s)
  PROVE  Once(Tail(s)) /\ On(Tail(s)) = On(s) \ {Head(s)} /\ Head(s) \in On(s)
<1>1. Len(s) \in Nat /\ Len(s) >= 1 /\ Len(Tail(s)) = Len(s) - 1 /\ Head(s) = s[1]
  OBVIOUS
<1>2. \A k \in 1..Len(Tail(s)) : Tail(s)[k] = s[k + 1]
  OBVIOUS
<1>3. Once(Tail(s))
  <2>1. \A j, k \in 1..Len(Tail(s)) : j + 1 \in 1..Len(s) /\ k + 1 \in 1..Len(s)
    BY <1>1
  <2>2. QED
    BY <1>2, <2>1 DEF Once
<1>4. Head(s) \in On(s)
  BY <1>1 DEF On
<1>5. On(Tail(s)) \subseteq On(s) \ {Head(s)}
  <2>1. SUFFICES ASSUME NEW k \in 1..Len(Tail(s)) PROVE Tail(s)[k] \in On(s) \ {Head(s)}
    BY DEF On
  <2>2. k + 1 \in 1..Len(s) /\ 1 \in 1..Len(s) /\ k + 1 # 1
    BY <1>1
  <2>3. s[k + 1] # s[1]
    BY <2>2 DEF Once
  <2>4. QED
    BY <1>1, <1>2, <2>2, <2>3 DEF On
<1>6. On(s) \ {Head(s)} \subseteq On(Tail(s))
  <2>1. SUFFICES ASSUME NEW k \in 1..Len(s), s[k] # s[1] PROVE s[k] \in On(Tail(s))
    BY <1>1 DEF On
  <2>2. k - 1 \in 1..Len(Tail(s)) /\ (k - 1) + 1 = k
    BY <1>1, <2>1
  <2>3. Tail(s)[k - 1] = s[k]
    BY <1>2, <2>2
  <2>4. QED
    BY <2>2, <2>3 DEF On
<1>7. QED
  BY <1>3, <1>4, <1>5, <1>6

LEMMA AppendOf ==
  ASSUME NEW S, NEW s \in Seq(S), NEW e \in S, Once(s), e \notin On(s)
  PROVE  Once(Append(s, e)) /\ On(Append(s, e)) = On(s) \cup {e}
<1>1. Len(s) \in Nat /\ Len(Append(s, e)) = Len(s) + 1 /\ Append(s, e)[Len(s) + 1] = e
  OBVIOUS
<1>2. \A k \in 1..Len(s) : Append(s, e)[k] = s[k]
  OBVIOUS
<1>3. \A k \in 1..Len(Append(s, e)) : k \in 1..Len(s) \/ k = Len(s) + 1
  BY <1>1
<1>4. \A k \in 1..Len(s) : s[k] # e
  BY DEF On
<1>5. Once(Append(s, e))
  <2>1. SUFFICES ASSUME NEW j \in 1..Len(Append(s, e)), NEW k \in 1..Len(Append(s, e)),
                        Append(s, e)[j] = Append(s, e)[k]
                 PROVE  j = k
    BY DEF Once
  <2>2. QED
    BY <1>1, <1>2, <1>3, <1>4, <2>1 DEF Once
<1>6. On(Append(s, e)) = On(s) \cup {e}
  <2>1. On(Append(s, e)) \subseteq On(s) \cup {e}
    BY <1>1, <1>2, <1>3 DEF On
  <2>2. On(s) \subseteq On(Append(s, e))
    <3>1. 1..Len(s) \subseteq 1..Len(Append(s, e))
      BY <1>1
    <3>2. QED
      BY <1>2, <3>1 DEF On
  <2>3. e \in On(Append(s, e))
    <3>1. Len(s) + 1 \in 1..Len(Append(s, e))
      BY <1>1
    <3>2. QED
      BY <1>1, <3>1 DEF On
  <2>4. QED
    BY <2>1, <2>2, <2>3
<1>7. QED
  BY <1>5, <1>6

(* eth_alloc_pkt: the head of the list goes into the caller's hands.       *)
LEMMA HeadTaken ==
  ASSUME NEW list \in Seq(MaybePkt), list # <<>>, NEW rb, NEW R, NEW tb, NEW T,
         Parted(list, rb, R, tb, T, {})
  PROVE  Parted(Tail(list), rb, R, tb, T, {Head(list)})
<1>1. Once(Tail(list)) /\ On(Tail(list)) = On(list) \ {Head(list)} /\ Head(list) \in On(list)
  BY TailOf DEF Parted
<1>2. QED
  BY <1>1 DEF Parted

(* eth_free_pkt: what the caller holds goes to the end of the list.        *)
LEMMA GivenBack ==
  ASSUME NEW list \in Seq(MaybePkt), NEW p \in MaybePkt, NEW rb, NEW R, NEW tb, NEW T,
         Parted(list, rb, R, tb, T, {p})
  PROVE  Parted(Append(list, p), rb, R, tb, T, {})
<1>1. Once(Append(list, p)) /\ On(Append(list, p)) = On(list) \cup {p}
  BY AppendOf DEF Parted
<1>2. QED
  BY <1>1 DEF Parted

(* The driver gives up the buffer of a slot.                               *)
LEMMA SlotTaken ==
  ASSUME NEW list, NEW rb, NEW R, NEW tb, NEW T, NEW i \in R,
         Parted(list, rb, R, tb, T, {})
  PROVE  Parted(list, rb, R \ {i}, tb, T, {rb[i]})
<1>1. In(rb, R \ {i}) = In(rb, R) \ {rb[i]} /\ rb[i] \in In(rb, R) /\ OnceIn(rb, R \ {i})
  BY DEF Parted, In, OnceIn
<1>2. QED
  BY <1>1 DEF Parted

(* A buffer is put into a slot that is not in use.                         *)
LEMMA SlotFilled ==
  ASSUME NEW list, NEW D, NEW rb \in [D -> MaybePkt], NEW R \in SUBSET D, NEW tb, NEW T,
         NEW i \in D \ R, NEW p, Parted(list, rb, R, tb, T, {p})
  PROVE  Parted(list, [rb EXCEPT ![i] = p], R \cup {i}, tb, T, {})
<1> DEFINE new == [rb EXCEPT ![i] = p]
<1>1. new[i] = p /\ \A j \in R : new[j] = rb[j]
  OBVIOUS
<1>2. In(new, R \cup {i}) = In(rb, R) \cup {p}
  BY <1>1 DEF In
<1>3. OnceIn(new, R \cup {i})
  <2>1. \A j \in R : rb[j] # p
    BY DEF Parted, In
  <2>2. QED
    BY <1>1, <2>1 DEF Parted, OnceIn
<1>4. QED
  BY <1>2, <1>3 DEF Parted

(* What holds of the receive ring holds of the transmit ring.              *)
LEMMA Swapped ==
  ASSUME NEW list, NEW rb, NEW R, NEW tb, NEW T, NEW h, Parted(list, rb, R, tb, T, h)
  PROVE  Parted(list, tb, T, rb, R, h)
<1>1. (On(list) \cup In(rb, R)) \cup In(tb, T) = (On(list) \cup In(tb, T)) \cup In(rb, R)
  OBVIOUS
<1>2. QED
  BY <1>1 DEF Parted


-----------------------------------------------------------------------------
(* The slots in use, by the point where the interrupt routine is.          *)
RxGap  == {"rxalloc", "rxallocCS", "rxadv"}
TxGap  == {"txadv"}
InHand == {"rxadv", "rxput", "oslot", "oput", "ofree", "ofreeCS"}

LEMMA BetweenMoves ==
  ASSUME NEW n \in Nat, n >= 2, NEW lo \in 0..(n - 1), NEW hi \in 0..(n - 1), NEW i \in 0..(n - 1),
         NEW next, next \in 0..(n - 1)
  PROVE  /\ next = (IF hi + 1 = n THEN 0 ELSE hi + 1) /\ next # lo =>
              /\ Between(lo, next, i) <=> Between(lo, hi, i) \/ i = hi
              /\ ~Between(lo, hi, hi)
         /\ next = (IF lo + 1 = n THEN 0 ELSE lo + 1) /\ lo # hi =>
              /\ Between(next, hi, i) <=> Between(lo, hi, i) /\ i # lo
              /\ Between(lo, hi, lo)
BY DEF Between

SetsAt ==
  /\ RxSet = {i \in RxSlots : Between(rxrem, rxadd, i) /\ ~(i = rxrem /\ Where \in RxGap)}
  /\ TxSet = {i \in TxSlots : Between(txrem, txadd, i) /\ ~(i = txrem /\ Where \in TxGap)}
  /\ Held = IF pkt["irq"] # NoPkt /\ Where \in InHand THEN {pkt["irq"]} ELSE {}

LEMMA SetsAre == WInv => SetsAt
<1> HAVE WInv
<1>1. (RxTaken <=> Where \in RxGap) /\ (TxTaken <=> Where \in TxGap)
  BY DEF RxTaken, TxTaken, Where, RxGap, TxGap, WInv, Ctx
<1>2. Held = IF pkt["irq"] # NoPkt /\ Where \in InHand THEN {pkt["irq"]} ELSE {}
  BY DEF Held, Holds, Where, InHand
<1>3. QED
  BY <1>1, <1>2 DEF SetsAt, RxSet, TxSet, RxOwned, TxOwned

LEMMA SetsAreNext == WInv' => SetsAt'
BY SetsAre, PTL

(* A step that moves no buffer.                                            *)
Quiet ==
  /\ UNCHANGED <<free, rxbuf, rxrem, rxadd, txbuf, txrem, txadd>>
  /\ Where \in RxGap <=> Where' \in RxGap
  /\ Where \in TxGap <=> Where' \in TxGap
  /\ Where \in InHand <=> Where' \in InHand
  /\ Where \in InHand => pkt'["irq"] = pkt["irq"]

LEMMA QuietSteps ==
  ASSUME FgSends = FALSE, TInv, WInv
  PROVE  Start \/ Dispatcher \/ DmaRx \/ DmaTx \/ Send("irq") \/ EnterCS("irq") \/ Status("irq") \/ Clear("irq")
         \/ RxSnap("irq") \/ Deliver("irq") \/ TxSnap("irq") \/ TxTake("irq") \/ OutSlot("irq")
         \/ OutKick("irq") => Quiet
<1> USE Ranges DEF WInv, Up, MacOn, Startup, Ctx, Quiet, Where, RxGap, TxGap, InHand, lists, rings, hw, locals, mac, ctxs, hist
<1>1. Start => Quiet
  BY DEF Start, Hwinit, StartRead, StartClear, Goto, At
<1>2. IrqEntry => Quiet
  BY DEF IrqEntry, Goto, At
<1>3. ServeTimer => Quiet
  BY DEF ServeTimer, Goto, At
<1>4. ServeEth => Quiet
  BY DEF ServeEth, Goto, At
<1>5. IrqExit => Quiet
  BY DEF IrqExit, Goto, At
<1>6. TimerDone => Quiet
  BY DEF TimerDone, Goto, At
<1>7. DmaRx => Quiet
  BY DEF DmaRx, Goto, At
<1>8. DmaTx => Quiet
  BY DEF DmaTx, Goto, At
<1>9. Send("irq") => Quiet
  BY DEF Send, Goto, At
<1>10. EnterCS("irq") => Quiet
  BY PointsAre DEF EnterCS, Locked, Goto, At
<1>11. Status("irq") => Quiet
  BY DEF Status, Caller, Goto, At
<1>12. Clear("irq") => Quiet
  BY DEF Clear, Cleared, Goto, At
<1>13. RxSnap("irq") => Quiet
  BY DEF RxSnap, Goto, At
<1>14. Deliver("irq") => Quiet
  BY DEF Deliver, Goto, At
<1>15. TxSnap("irq") => Quiet
  BY DEF TxSnap, Goto, At
<1>16. TxTake("irq") => Quiet
  BY DEF TxTake, Goto, At
<1>17. OutSlot("irq") => Quiet
  BY DEF OutSlot, Goto, At
<1>18. OutKick("irq") => Quiet
  BY DEF OutKick, Goto, At
<1>19. QED
  BY <1>1, <1>2, <1>3, <1>4, <1>5, <1>6, <1>7, <1>8, <1>9, <1>10, <1>11, <1>12, <1>13, <1>14, <1>15, <1>16, <1>17, <1>18 DEF Dispatcher

LEMMA QuietSplit ==
  ASSUME WInv, WInv', Split, Quiet
  PROVE  Split'
<1>1. RxSet' = RxSet /\ TxSet' = TxSet /\ Held' = Held
  BY SetsAre, SetsAreNext DEF SetsAt, Quiet
<1>2. QED
  BY <1>1 DEF Split, Quiet


(* How the slots in use change when a slot is filled, when its buffer is    *)
(* given up, and when the remove pointer moves past it.                    *)
LEMMA RxSetMoves ==
  ASSUME TInv, WInv, WInv'
  PROVE  /\ rxadd' = RxNext(rxadd) /\ rxrem' = rxrem /\ RxNext(rxadd) # rxrem
            /\ Where \notin RxGap /\ Where' \notin RxGap =>
              RxSet' = RxSet \cup {rxadd} /\ rxadd \in RxSlots \ RxSet
         /\ UNCHANGED <<rxadd, rxrem>> /\ rxadd # rxrem /\ Where \notin RxGap /\ Where' \in RxGap =>
              RxSet' = RxSet \ {rxrem} /\ rxrem \in RxSet
         /\ rxadd' = rxadd /\ rxrem' = RxNext(rxrem) /\ rxadd # rxrem
            /\ Where \in RxGap /\ Where' \notin RxGap => RxSet' = RxSet
         /\ UNCHANGED <<rxadd, rxrem>> /\ (Where \in RxGap <=> Where' \in RxGap) => RxSet' = RxSet
<1>1. /\ RxSet = {i \in RxSlots : Between(rxrem, rxadd, i) /\ ~(i = rxrem /\ Where \in RxGap)}
      /\ RxSet' = {i \in RxSlots : Between(rxrem', rxadd', i) /\ ~(i = rxrem' /\ Where' \in RxGap)}
  BY SetsAre, SetsAreNext DEF SetsAt
<1>2. /\ RxSize \in Nat /\ RxSize >= 2 /\ RxSlots = 0..(RxSize - 1)
      /\ rxrem \in RxSlots /\ rxadd \in RxSlots
      /\ RxNext(rxrem) \in RxSlots /\ RxNext(rxadd) \in RxSlots
  BY Ranges, NextInRing DEF TInv, TypeOK, ListsOK, RxSlots
<1>3. ASSUME RxNext(rxadd) # rxrem, NEW i \in RxSlots
      PROVE  (Between(rxrem, RxNext(rxadd), i) <=> Between(rxrem, rxadd, i) \/ i = rxadd)
             /\ ~Between(rxrem, rxadd, rxadd)
  BY <1>2, <1>3, BetweenMoves DEF RxNext
<1>4. ASSUME rxadd # rxrem, NEW i \in RxSlots
      PROVE  (Between(RxNext(rxrem), rxadd, i) <=> Between(rxrem, rxadd, i) /\ i # rxrem)
             /\ Between(rxrem, rxadd, rxrem)
  BY <1>2, <1>4, BetweenMoves DEF RxNext
<1>5. ASSUME rxadd' = RxNext(rxadd), rxrem' = rxrem, RxNext(rxadd) # rxrem,
             Where \notin RxGap, Where' \notin RxGap
      PROVE  RxSet' = RxSet \cup {rxadd} /\ rxadd \in RxSlots \ RxSet
  BY <1>1, <1>2, <1>3, <1>5
<1>6. ASSUME UNCHANGED <<rxadd, rxrem>>, rxadd # rxrem, Where \notin RxGap, Where' \in RxGap
      PROVE  RxSet' = RxSet \ {rxrem} /\ rxrem \in RxSet
  BY <1>1, <1>2, <1>4, <1>6
<1>7. ASSUME rxadd' = rxadd, rxrem' = RxNext(rxrem), rxadd # rxrem,
             Where \in RxGap, Where' \notin RxGap
      PROVE  RxSet' = RxSet
  BY <1>1, <1>2, <1>4, <1>7
<1>8. QED
  BY <1>1, <1>5, <1>6, <1>7

(* The same for the transmit ring.                                         *)
LEMMA TxSetMoves ==
  ASSUME TInv, WInv, WInv'
  PROVE  /\ txadd' = TxNext(txadd) /\ txrem' = txrem /\ TxNext(txadd) # txrem
            /\ Where \notin TxGap /\ Where' \notin TxGap =>
              TxSet' = TxSet \cup {txadd} /\ txadd \in TxSlots \ TxSet
         /\ UNCHANGED <<txadd, txrem>> /\ txadd # txrem /\ Where \notin TxGap /\ Where' \in TxGap =>
              TxSet' = TxSet \ {txrem} /\ txrem \in TxSet
         /\ txadd' = txadd /\ txrem' = TxNext(txrem) /\ txadd # txrem
            /\ Where \in TxGap /\ Where' \notin TxGap => TxSet' = TxSet
         /\ UNCHANGED <<txadd, txrem>> /\ (Where \in TxGap <=> Where' \in TxGap) => TxSet' = TxSet
<1>1. /\ TxSet = {i \in TxSlots : Between(txrem, txadd, i) /\ ~(i = txrem /\ Where \in TxGap)}
      /\ TxSet' = {i \in TxSlots : Between(txrem', txadd', i) /\ ~(i = txrem' /\ Where' \in TxGap)}
  BY SetsAre, SetsAreNext DEF SetsAt
<1>2. /\ TxSize \in Nat /\ TxSize >= 2 /\ TxSlots = 0..(TxSize - 1)
      /\ txrem \in TxSlots /\ txadd \in TxSlots
      /\ TxNext(txrem) \in TxSlots /\ TxNext(txadd) \in TxSlots
  BY Ranges, NextInRing DEF TInv, TypeOK, ListsOK, TxSlots
<1>3. ASSUME TxNext(txadd) # txrem, NEW i \in TxSlots
      PROVE  (Between(txrem, TxNext(txadd), i) <=> Between(txrem, txadd, i) \/ i = txadd)
             /\ ~Between(txrem, txadd, txadd)
  BY <1>2, <1>3, BetweenMoves DEF TxNext
<1>4. ASSUME txadd # txrem, NEW i \in TxSlots
      PROVE  (Between(TxNext(txrem), txadd, i) <=> Between(txrem, txadd, i) /\ i # txrem)
             /\ Between(txrem, txadd, txrem)
  BY <1>2, <1>4, BetweenMoves DEF TxNext
<1>5. ASSUME txadd' = TxNext(txadd), txrem' = txrem, TxNext(txadd) # txrem,
             Where \notin TxGap, Where' \notin TxGap
      PROVE  TxSet' = TxSet \cup {txadd} /\ txadd \in TxSlots \ TxSet
  BY <1>1, <1>2, <1>3, <1>5
<1>6. ASSUME UNCHANGED <<txadd, txrem>>, txadd # txrem, Where \notin TxGap, Where' \in TxGap
      PROVE  TxSet' = TxSet \ {txrem} /\ txrem \in TxSet
  BY <1>1, <1>2, <1>4, <1>6
<1>7. ASSUME txadd' = txadd, txrem' = TxNext(txrem), txadd # txrem,
             Where \in TxGap, Where' \notin TxGap
      PROVE  TxSet' = TxSet
  BY <1>1, <1>2, <1>4, <1>7
<1>8. QED
  BY <1>1, <1>5, <1>6, <1>7

-----------------------------------------------------------------------------
(* Each step that moves a buffer keeps the pool parted.                    *)
LEMMA Typed ==
  ASSUME ServerInv
  PROVE  /\ TInv /\ WInv /\ Hands /\ Charge /\ RxOrder /\ TxOrder /\ Split
         /\ Split = Parted(free, rxbuf, RxSet, txbuf, TxSet, Held)
         /\ free \in Seq(MaybePkt) /\ pkt["irq"] \in MaybePkt
         /\ rxbuf \in [RxSlots -> MaybePkt] /\ txbuf \in [TxSlots -> MaybePkt]
         /\ RxSet \in SUBSET RxSlots /\ TxSet \in SUBSET TxSlots
         /\ Held = IF pkt["irq"] # NoPkt /\ Where \in InHand THEN {pkt["irq"]} ELSE {}
<1>1. TInv /\ WInv /\ Hands /\ Charge /\ RxOrder /\ TxOrder /\ Split
  BY DEF ServerInv
<1>2. free \in Seq(MaybePkt) /\ pkt["irq"] \in MaybePkt
      /\ rxbuf \in [RxSlots -> MaybePkt] /\ txbuf \in [TxSlots -> MaybePkt]
  BY <1>1 DEF TInv, TypeOK, ListsOK, CtxOK, Ctx
<1>3. QED
  BY <1>1, <1>2, SetsAre DEF SetsAt, RxSet, TxSet, Split

LEMMA HeldNext ==
  ASSUME WInv'
  PROVE  /\ Held' = IF pkt'["irq"] # NoPkt /\ Where' \in InHand THEN {pkt'["irq"]} ELSE {}
         /\ Split' = Parted(free', rxbuf', RxSet', txbuf', TxSet', Held')
BY SetsAreNext DEF SetsAt, Split

LEMMA SplitFill ==
  ASSUME FgSends = FALSE, ServerInv, WInv', FillRxRing
  PROVE  Split'
<1>0. pc["fg"] = "fill" /\ Where = "idle" /\ pc \in [Ctx -> Points]
  BY Typed DEF FillRxRing, At, Where, WInv, Up, MacOn, Startup
<1>1. CASE onring >= MinRx \/ free = <<>> \/ RxFull
  <2>1. onring \in Int /\ MinRx \in Int
    BY Typed, SizesAssumption DEF TInv, TypeOK, ListsOK
  <2>2. pc' = [pc EXCEPT !["fg"] = "hwinit"] /\ UNCHANGED lists
    BY <1>1, <2>1 DEF FillRxRing, Goto
  <2>3. Where' = Where
    BY <1>0, <2>2 DEF Where, Ctx
  <2>4. Quiet
    BY <1>0, <2>2, <2>3 DEF Quiet, lists, rings, InHand
  <2>5. QED
    BY <2>4, Typed, QuietSplit
<1>2. CASE ~(onring >= MinRx \/ free = <<>> \/ RxFull)
  <2>1. onring \in Int /\ MinRx \in Int
    BY Typed, SizesAssumption DEF TInv, TypeOK, ListsOK
  <2>2. /\ pc' = pc /\ free # <<>> /\ free' = Tail(free) /\ rxbuf' = [rxbuf EXCEPT ![rxadd] = Head(free)]
        /\ rxadd' = RxNext(rxadd) /\ UNCHANGED <<rxrem, txbuf, txrem, txadd>>
    BY <1>2, <2>1 DEF FillRxRing, AddRcvbuf
  <2>3. Where' = "idle" /\ RxNext(rxadd) # rxrem
    BY <1>0, <1>2, <2>2 DEF Where, RxFull
  <2>4. RxSet' = RxSet \cup {rxadd} /\ rxadd \in RxSlots \ RxSet /\ TxSet' = TxSet
    BY <1>0, <2>2, <2>3, Typed, RxSetMoves, TxSetMoves DEF RxGap, TxGap
  <2>5. Held = {} /\ Held' = {}
    BY <1>0, <2>3, Typed, HeldNext DEF InHand
  <2>6. Parted(Tail(free), rxbuf, RxSet, txbuf, TxSet, {Head(free)})
    BY <2>2, <2>5, Typed, HeadTaken
  <2>7. Parted(Tail(free), [rxbuf EXCEPT ![rxadd] = Head(free)], RxSet \cup {rxadd}, txbuf, TxSet, {})
    BY <2>4, <2>6, Typed, SlotFilled
  <2>8. QED
    BY <2>2, <2>4, <2>5, <2>7, HeldNext
<1>3. QED
  BY <1>1, <1>2

LEMMA SplitRxTake ==
  ASSUME FgSends = FALSE, ServerInv, WInv', RxTake("irq")
  PROVE  Split'
<1>1. /\ Where = "rxtake" /\ UNCHANGED <<free, rxbuf, rxrem, rxadd, txbuf, txrem, txadd>>
  BY DEF RxTake, At, Where, lists, rings
<1>2. CASE Where' # "rxadv"
  <2>1. Where' \in {"txsnap", "status", "deliver"}
    BY <1>2, Ranges, Typed DEF RxTake, AfterTake, Goto, Where, Ctx
  <2>2. Quiet
    BY <1>1, <2>1 DEF Quiet, RxGap, TxGap, InHand
  <2>3. QED
    BY <2>2, Typed, QuietSplit
<1>3. CASE Where' = "rxadv"
  <2>1. rxrem # cur["irq"] /\ pkt' = [pkt EXCEPT !["irq"] = rxbuf[rxrem]]
    BY <1>3, Ranges, Typed DEF RxTake, Goto, Where, Ctx
  <2>2. pkt'["irq"] = rxbuf[rxrem]
    BY <2>1, Ranges, Typed DEF Ctx
  <2>3. rxrem # rxadd
    BY <1>1, <2>1, Typed, FirstInRing DEF RxLoop
  <2>4. RxSet' = RxSet \ {rxrem} /\ rxrem \in RxSet /\ TxSet' = TxSet
    BY <1>1, <1>3, <2>3, Typed, RxSetMoves, TxSetMoves DEF RxGap, TxGap
  <2>5. Held = {} /\ Held' = {rxbuf[rxrem]}
    BY <1>1, <1>3, <2>2, <2>4, Typed, InPool, HeldNext DEF InHand
  <2>6. QED
    BY <1>1, <2>4, <2>5, Typed, SlotTaken, HeldNext
<1>4. QED
  BY <1>2, <1>3

LEMMA SplitRxFree ==
  ASSUME FgSends = FALSE, ServerInv, WInv', RxFree("irq")
  PROVE  Split'
<1>1. /\ Where = "rxfreeCS" /\ Where' = "rxalloc" /\ free' = Append(free, pkt["irq"])
      /\ UNCHANGED <<rxbuf, rxrem, rxadd, txbuf, txrem, txadd>>
  BY Ranges, Typed DEF RxFree, FreePkt, Freed, At, Goto, Where, rings, Ctx
<1>2. rxrem # rxadd /\ pkt["irq"] = rxbuf[rxrem]
  BY <1>1, Typed, FirstInRing DEF RxLoop, RxOrder, Hands
<1>3. RxSet' = RxSet \ {rxrem} /\ rxrem \in RxSet /\ TxSet' = TxSet
  BY <1>1, <1>2, Typed, RxSetMoves, TxSetMoves DEF RxGap, TxGap
<1>4. Held = {} /\ Held' = {}
  BY <1>1, Typed, HeldNext DEF InHand
<1>5. Parted(free, rxbuf, RxSet \ {rxrem}, txbuf, TxSet, {rxbuf[rxrem]})
  BY <1>3, <1>4, Typed, SlotTaken
<1>6. Parted(Append(free, pkt["irq"]), rxbuf, RxSet \ {rxrem}, txbuf, TxSet, {})
  BY <1>2, <1>5, Typed, GivenBack
<1>7. QED
  BY <1>1, <1>3, <1>4, <1>6, HeldNext

LEMMA SplitRxAlloc ==
  ASSUME FgSends = FALSE, ServerInv, WInv', RxAlloc("irq")
  PROVE  Split'
<1>1. /\ Where = "rxallocCS" /\ Where' = "rxadv" /\ free # <<>> /\ free' = Tail(free)
      /\ UNCHANGED <<rxbuf, rxrem, rxadd, txbuf, txrem, txadd>>
  BY Ranges, Typed DEF RxAlloc, AllocPkt, Unlinked, Hands, At, Goto, Where, rings, Ctx
<1>2. pkt'["irq"] = Head(free)
  BY <1>1, Ranges, Typed DEF RxAlloc, AllocPkt, Ctx
<1>3. RxSet' = RxSet /\ TxSet' = TxSet
  BY <1>1, Typed, RxSetMoves, TxSetMoves DEF RxGap, TxGap
<1>4. Held = {} /\ Held' = {Head(free)}
  BY <1>1, <1>2, Typed, InPool, HeldNext DEF InHand
<1>5. QED
  BY <1>1, <1>3, <1>4, Typed, HeadTaken, HeldNext

LEMMA SplitRxAdvance ==
  ASSUME FgSends = FALSE, ServerInv, WInv', RxAdvance("irq")
  PROVE  Split'
<1>1. /\ Where = "rxadv" /\ Where' = "rxput" /\ rxrem' = RxNext(rxrem)
      /\ UNCHANGED <<free, rxbuf, rxadd, txbuf, txrem, txadd, pkt>>
  BY Ranges, Typed DEF RxAdvance, At, Goto, Where, Hands, RxOrder, RxLoop, locals, Ctx
<1>2. rxrem # rxadd
  BY <1>1, Typed, FirstInRing DEF RxLoop, RxOrder
<1>3. RxSet' = RxSet /\ TxSet' = TxSet
  BY <1>1, <1>2, Typed, RxSetMoves, TxSetMoves DEF RxGap, TxGap
<1>4. Held' = Held
  BY <1>1, Typed, HeldNext DEF InHand
<1>5. QED
  BY <1>1, <1>3, <1>4, Typed, HeldNext

LEMMA SplitRxPut ==
  ASSUME FgSends = FALSE, ServerInv, WInv', RxPut("irq")
  PROVE  Split'
<1>1. Where = "rxput" /\ Where' = "rxtake" /\ ~RxFull
  BY Ranges, Typed, RoomToPut DEF RxPut, At, Goto, Where, Ctx
<1>2. /\ rxbuf' = [rxbuf EXCEPT ![rxadd] = pkt["irq"]] /\ rxadd' = RxNext(rxadd)
      /\ UNCHANGED <<free, rxrem, txbuf, txrem, txadd>>
  BY <1>1 DEF RxPut, AddRcvbuf
<1>3. RxSet' = RxSet \cup {rxadd} /\ rxadd \in RxSlots \ RxSet /\ TxSet' = TxSet
  BY <1>1, <1>2, Typed, RxSetMoves, TxSetMoves DEF RxGap, TxGap, RxFull
<1>4. Held = {pkt["irq"]} /\ Held' = {}
  BY <1>1, Typed, HeldNext DEF InHand, Hands
<1>5. QED
  BY <1>2, <1>3, <1>4, Typed, SlotFilled, HeldNext

LEMMA SplitTxFree ==
  ASSUME FgSends = FALSE, ServerInv, WInv', TxFree("irq")
  PROVE  Split'
<1>1. /\ Where = "txfreeCS" /\ Where' = "txadv" /\ free' = Append(free, pkt["irq"])
      /\ UNCHANGED <<rxbuf, rxrem, rxadd, txbuf, txrem, txadd>>
  BY Ranges, Typed DEF TxFree, FreePkt, Freed, At, Goto, Where, rings, Ctx
<1>2. txrem # txadd /\ pkt["irq"] = txbuf[txrem]
  BY <1>1, Typed, FirstInRing DEF TxLoop, TxOrder, Hands
<1>3. TxSet' = TxSet \ {txrem} /\ txrem \in TxSet /\ RxSet' = RxSet
  BY <1>1, <1>2, Typed, RxSetMoves, TxSetMoves DEF RxGap, TxGap
<1>4. Held = {} /\ Held' = {}
  BY <1>1, Typed, HeldNext DEF InHand
<1>5. Parted(free, txbuf, TxSet \ {txrem}, rxbuf, RxSet, {txbuf[txrem]})
  BY <1>3, <1>4, Typed, SlotTaken, Swapped
<1>6. Parted(Append(free, pkt["irq"]), rxbuf, RxSet, txbuf, TxSet \ {txrem}, {})
  BY <1>2, <1>5, Typed, GivenBack, Swapped
<1>7. QED
  BY <1>1, <1>3, <1>4, <1>6, HeldNext

LEMMA SplitTxAdvance ==
  ASSUME FgSends = FALSE, ServerInv, WInv', TxAdvance("irq")
  PROVE  Split'
<1>1. /\ Where = "txadv" /\ Where' = "txtake" /\ txrem' = TxNext(txrem)
      /\ UNCHANGED <<free, rxbuf, rxrem, rxadd, txbuf, txadd, pkt>>
  BY Ranges, Typed DEF TxAdvance, At, Goto, Where, TxOrder, TxLoop, locals, Ctx
<1>2. txrem # txadd
  BY <1>1, Typed, FirstInRing DEF TxLoop, TxOrder
<1>3. RxSet' = RxSet /\ TxSet' = TxSet
  BY <1>1, <1>2, Typed, RxSetMoves, TxSetMoves DEF RxGap, TxGap
<1>4. Held = {} /\ Held' = {}
  BY <1>1, Typed, HeldNext DEF InHand
<1>5. QED
  BY <1>1, <1>3, <1>4, Typed, HeldNext

LEMMA SplitOutAlloc ==
  ASSUME FgSends = FALSE, ServerInv, WInv', OutAlloc("irq")
  PROVE  Split'
<1>1. Where = "oallocCS" /\ UNCHANGED <<rxbuf, rxrem, rxadd, txbuf, txrem, txadd>>
  BY DEF OutAlloc, AllocPkt, At, Where, rings
<1>2. CASE free = <<>>
  <2>1. Where' = "stack" /\ free' = free
    BY <1>2, Ranges, Typed DEF OutAlloc, AllocPkt, Unlinked, Caller, Goto, Where, Ctx
  <2>2. Quiet
    BY <1>1, <2>1 DEF Quiet, RxGap, TxGap, InHand
  <2>3. QED
    BY <2>2, Typed, QuietSplit
<1>3. CASE free # <<>>
  <2>1. Where' = "oslot" /\ free' = Tail(free) /\ pkt'["irq"] = Head(free)
    BY <1>3, Ranges, Typed DEF OutAlloc, AllocPkt, Unlinked, Goto, Where, Ctx
  <2>2. RxSet' = RxSet /\ TxSet' = TxSet
    BY <1>1, <2>1, Typed, RxSetMoves, TxSetMoves DEF RxGap, TxGap
  <2>3. Held = {} /\ Held' = {Head(free)}
    BY <1>1, <1>3, <2>1, Typed, InPool, HeldNext DEF InHand
  <2>4. QED
    BY <1>1, <1>3, <2>1, <2>2, <2>3, Typed, HeadTaken, HeldNext
<1>4. QED
  BY <1>2, <1>3

LEMMA SplitOutPut ==
  ASSUME FgSends = FALSE, ServerInv, WInv', OutPut("irq")
  PROVE  Split'
<1>1. Where = "oput" /\ Where' = "okick" /\ slot["irq"] = txadd /\ TxNext(txadd) # txrem
  BY Ranges, Typed DEF OutPut, At, Goto, Where, TxOrder, Ctx
<1>2. /\ txbuf' = [txbuf EXCEPT ![txadd] = pkt["irq"]] /\ txadd' = TxNext(txadd)
      /\ UNCHANGED <<free, rxbuf, rxrem, rxadd, txrem>>
  BY <1>1 DEF OutPut
<1>3. TxSet' = TxSet \cup {txadd} /\ txadd \in TxSlots \ TxSet /\ RxSet' = RxSet
  BY <1>1, <1>2, Typed, RxSetMoves, TxSetMoves DEF RxGap, TxGap
<1>4. Held = {pkt["irq"]} /\ Held' = {}
  BY <1>1, Typed, HeldNext DEF InHand, Hands
<1>5. Parted(free, txbuf', TxSet', rxbuf, RxSet, {})
  BY <1>2, <1>3, <1>4, Typed, SlotFilled, Swapped
<1>6. QED
  BY <1>2, <1>3, <1>4, <1>5, Swapped, HeldNext

LEMMA SplitOutFree ==
  ASSUME FgSends = FALSE, ServerInv, WInv', OutFree("irq")
  PROVE  Split'
<1>1. /\ Where = "ofreeCS" /\ Where' = "stack" /\ free' = Append(free, pkt["irq"])
      /\ UNCHANGED <<rxbuf, rxrem, rxadd, txbuf, txrem, txadd>>
  BY Ranges, Typed DEF OutFree, FreePkt, Freed, Caller, At, Goto, Where, rings, Ctx
<1>2. RxSet' = RxSet /\ TxSet' = TxSet
  BY <1>1, Typed, RxSetMoves, TxSetMoves DEF RxGap, TxGap
<1>3. Held = {pkt["irq"]} /\ Held' = {}
  BY <1>1, Typed, HeldNext DEF InHand, Hands
<1>4. QED
  BY <1>1, <1>2, <1>3, Typed, GivenBack, HeldNext

(* Every step keeps every buffer in exactly one place.                     *)
LEMMA SplitNext ==
  ASSUME FgSends = FALSE, ServerInv, WInv', Next
  PROVE  Split'
<1>1. ~RxDec("irq")
  BY Typed DEF RxDec, At, Where, Charge
<1>2. CASE Quiet
  BY <1>2, Typed, QuietSplit
<1>3. QED
  BY <1>1, <1>2, Typed, ServerNext, QuietSteps, SplitFill, SplitRxTake, SplitRxFree, SplitRxAlloc, SplitRxAdvance,
     SplitRxPut, SplitTxFree, SplitTxAdvance, SplitOutAlloc, SplitOutPut, SplitOutFree
     DEF Driver, Isr, Out


-----------------------------------------------------------------------------
LEMMA SplitAccounts ==
  ASSUME ServerInv
  PROVE  Accounted
<1> USE DEF On, Once, In, OnceIn
<1>1. /\ Once(free) /\ OnceIn(rxbuf, RxSet) /\ OnceIn(txbuf, TxSet)
      /\ On(free) \cap In(rxbuf, RxSet) = {} /\ On(free) \cap In(txbuf, TxSet) = {}
      /\ In(rxbuf, RxSet) \cap In(txbuf, TxSet) = {}
      /\ Held \cap (On(free) \cup In(rxbuf, RxSet) \cup In(txbuf, TxSet)) = {}
      /\ On(free) \cup In(rxbuf, RxSet) \cup In(txbuf, TxSet) \cup Held = Pkts
  BY Typed DEF Parted
<1>2. DOMAIN free = 1..Len(free)
  BY Typed
<1>3. \A c \in Ctx : Holds(c) => c = "irq" /\ pkt[c] \in Held
  BY Typed DEF Holds, Held, WInv, Ctx
<1>4. /\ \A i \in RxSlots : RxOwned(i) => i \in RxSet /\ rxbuf[i] \in In(rxbuf, RxSet)
      /\ \A i \in TxSlots : TxOwned(i) => i \in TxSet /\ txbuf[i] \in In(txbuf, TxSet)
      /\ \A k \in DOMAIN free : free[k] \in On(free)
  BY <1>2 DEF RxSet, TxSet
<1>5. Exclusive
  <2>1. /\ \A i, j \in DOMAIN free : free[i] = free[j] => i = j
        /\ \A i, j \in RxSlots : RxOwned(i) /\ RxOwned(j) /\ rxbuf[i] = rxbuf[j] => i = j
        /\ \A i, j \in TxSlots : TxOwned(i) /\ TxOwned(j) /\ txbuf[i] = txbuf[j] => i = j
    BY <1>1, <1>2, <1>4
  <2> HIDE DEF On, In
  <2>2. /\ \A i \in DOMAIN free, j \in RxSlots : RxOwned(j) => free[i] # rxbuf[j]
        /\ \A i \in DOMAIN free, j \in TxSlots : TxOwned(j) => free[i] # txbuf[j]
        /\ \A i \in RxSlots, j \in TxSlots : RxOwned(i) /\ TxOwned(j) => rxbuf[i] # txbuf[j]
    BY <1>1, <1>4
  <2>3. \A c \in Ctx : Holds(c) =>
          /\ \A i \in DOMAIN free : free[i] # pkt[c]
          /\ \A i \in RxSlots : RxOwned(i) => rxbuf[i] # pkt[c]
          /\ \A i \in TxSlots : TxOwned(i) => txbuf[i] # pkt[c]
    BY <1>1, <1>3, <1>4
  <2>4. QED
    BY <2>1, <2>2, <2>3 DEF Exclusive
<1>6. NoLeak
  <2>1. SUFFICES ASSUME NEW p \in Pkts
                 PROVE  \/ \E i \in DOMAIN free : free[i] = p
                        \/ \E i \in RxSlots : RxOwned(i) /\ rxbuf[i] = p
                        \/ \E i \in TxSlots : TxOwned(i) /\ txbuf[i] = p
                        \/ \E c \in Ctx : Holds(c) /\ pkt[c] = p
    BY DEF NoLeak
  <2>2. p \in On(free) \/ p \in In(rxbuf, RxSet) \/ p \in In(txbuf, TxSet) \/ p \in Held
    BY <1>1
  <2>3. QED
    BY <1>2, <2>2 DEF RxSet, TxSet, Held, Ctx
<1>7. QED
  BY <1>5, <1>6 DEF Accounted

LEMMA RoomAlways == ServerInv => RxSpace
<1> HAVE ServerInv
<1>1. SUFFICES ASSUME NEW c \in Ctx, pc[c] = "rxput" PROVE ~RxFull
  BY DEF RxSpace
<1>2. Where = "rxput"
  BY <1>1, Typed DEF WInv, Where, Ctx
<1>3. QED
  BY <1>2, Typed, RoomToPut

(* The number of slots from one slot up to another.                        *)
LEMMA SlotsBetween ==
  ASSUME NEW n \in Nat, NEW lo \in 0..(n - 1), NEW hi \in 0..(n - 1)
  PROVE  Cardinality({i \in 0..(n - 1) : Between(lo, hi, i)}) = Off(lo, hi, n)
<1> DEFINE B == {i \in 0..(n - 1) : Between(lo, hi, i)}
<1>1. CASE lo <= hi
  <2>1. B = lo..(hi - 1)
    BY <1>1 DEF Between
  <2>2. Cardinality(lo..(hi - 1)) = hi - lo
    <3>1. lo \in Int /\ hi \in Int /\ hi - 1 \in Int
      OBVIOUS
    <3>2. Cardinality(lo..(hi - 1)) = IF lo > hi - 1 THEN 0 ELSE (hi - 1) - lo + 1
      BY <3>1, FS_Interval
    <3>3. QED
      BY <1>1, <3>1, <3>2
  <2>3. QED
    BY <1>1, <2>1, <2>2 DEF Off
<1>2. CASE ~(lo <= hi)
  <2>1. B = (lo..(n - 1)) \cup (0..(hi - 1))
    BY <1>2 DEF Between
  <2>2. IsFiniteSet(lo..(n - 1)) /\ Cardinality(lo..(n - 1)) = n - lo
    BY FS_Interval
  <2>3. IsFiniteSet(0..(hi - 1)) /\ Cardinality(0..(hi - 1)) = hi
    BY FS_Interval
  <2>4. (lo..(n - 1)) \cap (0..(hi - 1)) = {} /\ Cardinality({}) = 0
    BY <1>2, FS_EmptySet
  <2>5. Cardinality((lo..(n - 1)) \cup (0..(hi - 1))) = (n - lo) + hi - 0
    <3> DEFINE S == lo..(n - 1)
               T == 0..(hi - 1)
    <3>1. IsFiniteSet(S) /\ IsFiniteSet(T) /\ Cardinality(S \cap T) = 0
      BY <2>2, <2>3, <2>4
    <3>2. Cardinality(S) = n - lo /\ Cardinality(T) = hi
      BY <2>2, <2>3
    <3> HIDE DEF S, T
    <3>3. Cardinality(S \cup T) = Cardinality(S) + Cardinality(T) - Cardinality(S \cap T)
      BY <3>1, FS_Union
    <3>4. Cardinality(S \cup T) = (n - lo) + hi - 0
      BY <3>1, <3>2, <3>3
    <3>5. QED
      BY <3>4 DEF S, T
  <2>6. Off(lo, hi, n) = (n - lo) + hi - 0
    BY <1>2 DEF Off
  <2> HIDE DEF B
  <2>7. Cardinality(B) = Off(lo, hi, n)
    BY <2>1, <2>5, <2>6
  <2>8. QED
    BY <2>7 DEF B
<1>3. QED
  BY <1>1, <1>2

LEMMA ChargedAlways == ServerInv => RingStaysCharged
<1> HAVE ServerInv
<1>1. SUFFICES ASSUME Up, pc["irq"] = "idle", pc["fg"] = "idle"
               PROVE  onring = MinRx /\ Cardinality({i \in RxSlots : Between(rxrem, rxadd, i)}) = onring
  BY DEF RingStaysCharged
<1>2. onring = MinRx /\ onring = RxOff(rxadd) + 0
  BY <1>1, Typed DEF Charge, Where
<1>3. RxOff(rxadd) \in Int /\ RxSize \in Nat /\ rxrem \in 0..(RxSize - 1) /\ rxadd \in 0..(RxSize - 1)
  BY SMTT(40), Typed, Ranges DEF RxOff, Off
<1>4. Cardinality({i \in RxSlots : Between(rxrem, rxadd, i)}) = RxOff(rxadd)
  BY <1>3, SlotsBetween DEF RxSlots, RxOff
<1>5. QED
  BY <1>2, <1>3, <1>4


-----------------------------------------------------------------------------
(* Frames.  Slots are compared by their way from the remove pointer.       *)
LEMMA RxOffsets ==
  ASSUME TInv
  PROVE  /\ \A i \in RxSlots : RxOff(i) \in Nat /\ RxOff(i) < RxSize /\ (RxOff(i) = 0 <=> i = rxrem)
         /\ \A i, j \in RxSlots : RxOff(i) = RxOff(j) => i = j
         /\ \A i \in RxSlots : RxNext(i) # rxrem => RxOff(RxNext(i)) = RxOff(i) + 1
         /\ \A i \in RxSlots : RxNext(i) = rxrem => RxOff(i) = RxSize - 1
         /\ \A i \in RxSlots : Between(rxrem, rxadd, i) <=> RxOff(i) < RxOff(rxadd)
         /\ \A i \in RxSlots : Between(rxrem, rxcd, i) <=> RxOff(i) < RxOff(rxcd)
         /\ \A k \in 0..(RxSize - 1) : \E i \in RxSlots : RxOff(i) = k
         /\ rxrem \in RxSlots /\ rxadd \in RxSlots /\ rxcd \in RxSlots
<1> USE Ranges DEF RxSlots, RxOff, Off
<1>1. \A i \in RxSlots : RxOff(i) \in Nat /\ RxOff(i) < RxSize /\ (RxOff(i) = 0 <=> i = rxrem)
  OBVIOUS
<1>2. \A i, j \in RxSlots : RxOff(i) = RxOff(j) => i = j
  OBVIOUS
<1>3. \A i \in RxSlots : RxNext(i) # rxrem => RxOff(RxNext(i)) = RxOff(i) + 1
  BY DEF RxNext
<1>4. \A i \in RxSlots : RxNext(i) = rxrem => RxOff(i) = RxSize - 1
  BY DEF RxNext
<1>5. \A i \in RxSlots : Between(rxrem, rxadd, i) <=> RxOff(i) < RxOff(rxadd)
  BY DEF Between
<1>6. \A i \in RxSlots : Between(rxrem, rxcd, i) <=> RxOff(i) < RxOff(rxcd)
  BY DEF Between
<1>7. \A k \in 0..(RxSize - 1) : \E i \in RxSlots : RxOff(i) = k
  <2> TAKE k \in 0..(RxSize - 1)
  <2>1. CASE rxrem + k < RxSize
    <3>1. rxrem + k \in RxSlots /\ RxOff(rxrem + k) = k
      BY <2>1
    <3>2. QED
      BY <3>1
  <2>2. CASE ~(rxrem + k < RxSize)
    <3>1. rxrem + k - RxSize \in RxSlots /\ RxOff(rxrem + k - RxSize) = k
      BY <2>2
    <3>2. QED
      BY <3>1
  <2>3. QED
    BY <2>1, <2>2
<1>8. rxrem \in RxSlots /\ rxadd \in RxSlots /\ rxcd \in RxSlots
  OBVIOUS
<1> HIDE DEF RxSlots, RxOff, Off
<1>9. QED
  BY <1>1, <1>2, <1>3, <1>4, <1>5, <1>6, <1>7, <1>8

(* While procrxring has a frame to look at, it is the oldest in the ring.  *)
LEMMA FirstFrame ==
  ASSUME ServerInv, Where \in RxLoop, cur["irq"] # rxrem
  PROVE  /\ RxOff(rxcd) >= 1 /\ Done + 1 <= arrived /\ Done \in Nat /\ arrived \in Nat
         /\ Where \notin RxGap => rxrem \in RxSet /\ content[rxbuf[rxrem]] = Done + 1
<1>1. RxOff(rxcd) >= 1
  BY Typed, RxOffsets DEF RxOrder
<1>2. arrived \in Nat /\ Done \in Nat /\ Done + 1 <= arrived
  BY <1>1, Typed, RxOffsets DEF ServerInv, FramesUp, Done, TInv, TypeOK, HistOK
<1>3. ASSUME Where \notin RxGap PROVE rxrem \in RxSet /\ content[rxbuf[rxrem]] = Done + 1
  <2>1. rxrem \in RxSet
    BY <1>3, Typed, FirstInRing, FirstOwned DEF RxGap
  <2>2. RxOff(rxrem) = 0 /\ RxOff(rxrem) < RxOff(rxcd)
    BY <1>1, Typed, RxOffsets
  <2>3. content[rxbuf[rxrem]] = Done + 1 + RxOff(rxrem)
    BY <2>1, <2>2 DEF ServerInv, FramesUp
  <2>4. QED
    BY <1>2, <2>1, <2>2, <2>3
<1>4. QED
  BY <1>1, <1>2, <1>3

\* A step that leaves the frames in the ring and those passed up alone.
Delivering == {"deliver", "deliverCS"}
SameUp ==
  /\ UNCHANGED <<arrived, bad, delivered, content, rxrem, rxadd, rxcd, rxbuf>>
  /\ Where \in RxGap <=> Where' \in RxGap
  /\ Where \in PassedUp <=> Where' \in PassedUp
  /\ Where' \in Delivering => Where \in Delivering

LEMMA SameUpSteps ==
  ASSUME FgSends = FALSE, TInv, WInv
  PROVE  Start \/ Dispatcher \/ DmaTx \/ Send("irq") \/ EnterCS("irq") \/ Status("irq") \/ Clear("irq")
         \/ RxSnap("irq") \/ RxAlloc("irq") \/ TxSnap("irq") \/ TxTake("irq") \/ TxFree("irq") \/ TxAdvance("irq")
         \/ OutAlloc("irq") \/ OutSlot("irq") \/ OutKick("irq") \/ OutFree("irq") => SameUp
<1> USE Ranges DEF WInv, Up, MacOn, Startup, Ctx, SameUp, Where, RxGap, PassedUp, Delivering, lists, rings, hw, locals, mac, ctxs, hist
<1>1. Start => SameUp
  BY DEF Start, Hwinit, StartRead, StartClear, Goto, At
<1>2. IrqEntry => SameUp
  BY DEF IrqEntry, Goto, At
<1>3. ServeTimer => SameUp
  BY DEF ServeTimer, Goto, At
<1>4. ServeEth => SameUp
  BY DEF ServeEth, Goto, At
<1>5. IrqExit => SameUp
  BY DEF IrqExit, Goto, At
<1>6. TimerDone => SameUp
  BY DEF TimerDone, Goto, At
<1>7. DmaTx => SameUp
  BY DEF DmaTx, Goto, At
<1>8. Send("irq") => SameUp
  BY DEF Send, Goto, At
<1>9. EnterCS("irq") => SameUp
  BY PointsAre DEF EnterCS, Locked, Goto, At
<1>10. Status("irq") => SameUp
  BY DEF Status, Caller, Goto, At
<1>11. Clear("irq") => SameUp
  BY DEF Clear, Cleared, Goto, At
<1>12. RxSnap("irq") => SameUp
  BY DEF RxSnap, Goto, At
<1>13. RxAlloc("irq") => SameUp
  BY DEF RxAlloc, AllocPkt, Unlinked, Goto, At
<1>14. TxSnap("irq") => SameUp
  BY DEF TxSnap, Goto, At
<1>15. TxTake("irq") => SameUp
  BY DEF TxTake, Goto, At
<1>16. TxFree("irq") => SameUp
  BY DEF TxFree, FreePkt, Freed, Goto, At
<1>17. TxAdvance("irq") => SameUp
  BY DEF TxAdvance, Goto, At
<1>18. OutAlloc("irq") => SameUp
  BY DEF OutAlloc, AllocPkt, Unlinked, Caller, Goto, At
<1>19. OutSlot("irq") => SameUp
  BY DEF OutSlot, Goto, At
<1>20. OutKick("irq") => SameUp
  BY DEF OutKick, Goto, At
<1>21. OutFree("irq") => SameUp
  BY DEF OutFree, FreePkt, Freed, Caller, Goto, At
<1>22. QED
  BY <1>1, <1>2, <1>3, <1>4, <1>5, <1>6, <1>7, <1>8, <1>9, <1>10, <1>11, <1>12, <1>13, <1>14, <1>15, <1>16, <1>17, <1>18, <1>19, <1>20, <1>21 DEF Dispatcher

LEMMA SameUpKeeps ==
  ASSUME ServerInv, WInv', SameUp
  PROVE  FramesUp'
<1>1. RxSet' = RxSet
  BY Typed, RxSetMoves DEF SameUp
<1>2. Done' = Done /\ DeliveredSet' = DeliveredSet /\ \A i : (RxOff(i))' = RxOff(i)
  BY DEF SameUp, Done, DeliveredSet, RxOff
<1>3. QED
  BY <1>1, <1>2 DEF ServerInv, FramesUp, SameUp, Delivering


LEMMA UpTypes ==
  ASSUME ServerInv
  PROVE  /\ arrived \in Nat /\ Done \in Nat /\ Done <= arrived /\ RxOff(rxcd) \in Nat /\ arrived = Done + RxOff(rxcd)
         /\ delivered \in Seq(Nat) /\ DeliveredSet \subseteq Nat /\ bad \subseteq 1..arrived /\ content \in [MaybePkt -> Nat]
<1>1. arrived \in Nat /\ delivered \in Seq(Nat) /\ content \in [MaybePkt -> Nat]
  BY Typed DEF TInv, TypeOK, HistOK, MacOK
<1>2. DeliveredSet \subseteq Nat
  BY <1>1 DEF DeliveredSet, On
<1>3. RxOff(rxcd) \in Nat /\ Done >= 0 /\ bad \subseteq 1..arrived
  BY Typed, RxOffsets DEF ServerInv, FramesUp
<1>4. QED
  BY <1>1, <1>2, <1>3 DEF Done

LEMMA UpFill ==
  ASSUME FgSends = FALSE, ServerInv, WInv', FillRxRing
  PROVE  FramesUp'
<1>1. /\ Where = "idle" /\ rxcd = rxrem /\ Where' = "idle"
      /\ UNCHANGED <<arrived, bad, delivered, content, rxrem, rxcd>>
  BY Typed, Ranges DEF FillRxRing, At, Goto, Where, WInv, Up, MacOn, Startup, lists, rings, hist, Ctx
<1>2. /\ Done' = Done /\ DeliveredSet' = DeliveredSet /\ RxOff(rxcd) = 0
      /\ \A i : (RxOff(i))' = RxOff(i)
  BY <1>1, Typed, RxOffsets DEF Done, DeliveredSet, RxOff
<1>3. RxSet' \subseteq RxSlots
  BY DEF RxSet
<1>4. \A i \in RxSlots : ~(RxOff(i) < 0)
  BY Typed, RxOffsets
<1>5. QED
  BY <1>1, <1>2, <1>3, <1>4 DEF ServerInv, FramesUp, PassedUp

LEMMA UpTake ==
  ASSUME FgSends = FALSE, ServerInv, WInv', RxTake("irq")
  PROVE  FramesUp'
<1>1. /\ Where = "rxtake"
      /\ UNCHANGED <<arrived, bad, delivered, content, rxrem, rxadd, rxcd, rxbuf>>
  BY DEF RxTake, At, Where, lists, rings, hw, mac, hist
<1>2. /\ Done' = Done /\ DeliveredSet' = DeliveredSet /\ \A i : (RxOff(i))' = RxOff(i)
  BY <1>1 DEF Done, DeliveredSet, RxOff
<1>3. CASE rxrem = cur["irq"]
  <2>1. Where' \in {"txsnap", "status"}
    BY <1>3, Typed, Ranges DEF RxTake, Goto, Where, Ctx
  <2>2. SameUp
    BY <1>1, <2>1 DEF SameUp, RxGap, PassedUp, Delivering
  <2>3. QED
    BY <2>2, SameUpKeeps
<1>4. CASE rxrem # cur["irq"]
  <2>1. Where' = IF Done + 1 \in bad THEN "rxadv" ELSE "deliver"
    BY SMTT(40), <1>1, <1>4, Typed, Ranges, FirstFrame DEF RxTake, AfterTake, Goto, Where, Ctx, RxLoop, RxGap
  <2>2. RxSet' \subseteq RxSet
    BY <1>1, SetsAre, SetsAreNext, Typed DEF SetsAt, RxGap
  <2>3. QED
    BY <1>1, <1>2, <2>1, <2>2, UpTypes DEF ServerInv, FramesUp, PassedUp
<1>5. QED
  BY <1>3, <1>4

LEMMA UpDeliver ==
  ASSUME FgSends = FALSE, ServerInv, WInv', Deliver("irq")
  PROVE  FramesUp'
<1>1. /\ Where = "deliverCS" /\ Where' = "rxfree" /\ delivered' = Append(delivered, content[pkt["irq"]])
      /\ UNCHANGED <<arrived, bad, content, rxrem, rxadd, rxcd, rxbuf>>
  BY Typed, Ranges DEF Deliver, At, Goto, Where, Ctx, lists, rings, hw, mac
<1>2. cur["irq"] # rxrem /\ pkt["irq"] = rxbuf[rxrem]
  BY <1>1, Typed DEF RxOrder, Hands, RxLoop
<1>3. delivered' = Append(delivered, Done + 1) /\ Done + 1 \notin bad /\ Done + 1 <= arrived
  BY <1>1, <1>2, FirstFrame DEF RxLoop, RxGap, ServerInv, FramesUp
<1>4. /\ Done' = Done /\ (\A i : (RxOff(i))' = RxOff(i)) /\ RxSet' = RxSet
  BY <1>1, Typed, RxSetMoves DEF Done, RxOff, RxGap
<1>5. \A f \in DeliveredSet : f \notin bad /\ 1 <= f /\ f <= Done /\ f \in Nat
  BY <1>1, UpTypes DEF ServerInv, FramesUp, PassedUp
<1>6. /\ Len(delivered) \in Nat /\ Len(delivered') = Len(delivered) + 1 /\ delivered'[Len(delivered) + 1] = Done + 1
      /\ \A k \in 1..Len(delivered) : delivered'[k] = delivered[k] /\ delivered[k] \in DeliveredSet
  <2>1. \A k \in 1..Len(delivered) : delivered[k] \in DeliveredSet
    BY DEF DeliveredSet, On
  <2>2. Done + 1 \in Nat /\ delivered \in Seq(Nat)
    BY UpTypes
  <2>3. QED
    BY <1>3, <2>1, <2>2
<1>7. \A j, k \in 1..Len(delivered') : j < k => delivered'[j] < delivered'[k]
  <2> SUFFICES ASSUME NEW j \in 1..Len(delivered'), NEW k \in 1..Len(delivered'), j < k
               PROVE  delivered'[j] < delivered'[k]
    OBVIOUS
  <2>1. j \in 1..Len(delivered) /\ delivered'[j] = delivered[j] /\ delivered[j] <= Done /\ delivered[j] \in Nat
    BY <1>5, <1>6
  <2>2. CASE k \in 1..Len(delivered)
    BY <1>6, <2>1, <2>2 DEF ServerInv, FramesUp
  <2>3. CASE k = Len(delivered) + 1
    BY <1>6, <2>1, <2>3, UpTypes
  <2>4. QED
    BY <1>6, <2>2, <2>3
<1>8. DeliveredSet' = DeliveredSet \cup {Done + 1}
  <2>1. 1..Len(delivered') = 1..Len(delivered) \cup {Len(delivered) + 1}
    BY <1>6
  <2>2. QED
    BY <1>6, <2>1 DEF DeliveredSet, On
<1>9. QED
  BY <1>1, <1>3, <1>4, <1>5, <1>7, <1>8, UpTypes DEF ServerInv, FramesUp, PassedUp

LEMMA UpFree ==
  ASSUME FgSends = FALSE, ServerInv, WInv', RxFree("irq")
  PROVE  FramesUp'
<1>1. /\ Where = "rxfreeCS" /\ Where' = "rxalloc"
      /\ UNCHANGED <<arrived, bad, delivered, content, rxrem, rxadd, rxcd, rxbuf>>
  BY Typed, Ranges DEF RxFree, FreePkt, At, Goto, Where, Ctx, rings, hw, mac, hist
<1>2. Done' = Done /\ DeliveredSet' = DeliveredSet /\ \A i : (RxOff(i))' = RxOff(i)
  BY <1>1 DEF Done, DeliveredSet, RxOff
<1>3. RxSet' \subseteq RxSet
  BY <1>1, SetsAre, SetsAreNext, Typed DEF SetsAt, RxGap
<1>4. QED
  BY <1>1, <1>2, <1>3 DEF ServerInv, FramesUp, PassedUp

LEMMA UpAdvance ==
  ASSUME FgSends = FALSE, ServerInv, WInv', RxAdvance("irq")
  PROVE  FramesUp'
<1>1. /\ Where = "rxadv" /\ Where' = "rxput" /\ rxrem' = RxNext(rxrem)
      /\ UNCHANGED <<arrived, bad, delivered, content, rxadd, rxcd, rxbuf>>
  BY Ranges, Typed DEF RxAdvance, At, Goto, Where, Hands, RxOrder, RxLoop, mac, hist, Ctx
<1>2. rxrem # rxadd /\ cur["irq"] # rxrem
  BY <1>1, Typed, FirstInRing DEF RxLoop, RxOrder
<1>3. RxSet' = RxSet /\ RxSet \subseteq RxSlots
  BY <1>1, <1>2, Typed, RxSetMoves DEF RxGap
<1>4. \A i \in RxSlots : i # rxrem => (RxOff(i))' = RxOff(i) - 1
  <2>1. RxSize \in Nat /\ rxrem \in Nat /\ rxrem < RxSize
    BY Typed, Ranges
  <2>2. QED
    BY <1>1, <2>1 DEF RxOff, Off, RxNext, RxSlots
<1>5. (RxOff(rxcd))' = RxOff(rxcd) - 1 /\ Done' = Done + 1 /\ DeliveredSet' = DeliveredSet
  <2>1. rxcd # rxrem /\ rxcd \in RxSlots /\ rxcd' = rxcd
    BY <1>1, <1>2, Typed, FirstFrame, RxOffsets DEF RxLoop
  <2>2. (RxOff(rxcd))' = RxOff(rxcd) - 1
    <3>1. \A i \in RxSlots : Off(rxrem', i, RxSize) = (RxOff(i))'
      BY DEF RxOff
    <3>2. (RxOff(rxcd))' = Off(rxrem', rxcd, RxSize)
      BY <2>1 DEF RxOff
    <3>3. QED
      BY <1>4, <2>1, <3>1, <3>2
  <2>3. QED
    BY <1>1, <2>2, UpTypes DEF Done, DeliveredSet
<1>6. \A i \in RxSet' : (RxOff(i))' < (RxOff(rxcd))' => content'[rxbuf'[i]] = Done' + 1 + (RxOff(i))'
  <2> SUFFICES ASSUME NEW i \in RxSet, (RxOff(i))' < (RxOff(rxcd))'
               PROVE  content[rxbuf[i]] = Done' + 1 + (RxOff(i))'
    BY <1>1, <1>3
  <2>1. i # rxrem
    BY <1>1, Typed, SetsAre DEF SetsAt, RxGap
  <2>2. i \in RxSlots /\ RxOff(i) \in Nat /\ (RxOff(i))' = RxOff(i) - 1 /\ RxOff(i) < RxOff(rxcd)
    BY <1>3, <1>4, <1>5, <2>1, Typed, RxOffsets, UpTypes
  <2>3. content[rxbuf[i]] = Done + 1 + RxOff(i)
    BY <2>2 DEF ServerInv, FramesUp
  <2>4. QED
    BY <1>5, <2>2, <2>3, UpTypes
<1>7. /\ \A f \in DeliveredSet : f \notin bad /\ 1 <= f /\ f <= Done + 1 /\ f \in Nat
      /\ \A f \in 1..(Done + 1) : f \in bad \cup DeliveredSet
  <2>1. Done + 1 \in bad \cup DeliveredSet /\ \A f \in 1..Done : f \in bad \cup DeliveredSet
    BY <1>1 DEF ServerInv, FramesUp, PassedUp
  <2>2. \A f \in 1..(Done + 1) : f \in 1..Done \/ f = Done + 1
    BY UpTypes
  <2>3. QED
    BY <1>1, <2>1, <2>2, UpTypes DEF ServerInv, FramesUp, PassedUp
<1>8. QED
  BY <1>1, <1>5, <1>6, <1>7, UpTypes DEF ServerInv, FramesUp, PassedUp

LEMMA UpPut ==
  ASSUME FgSends = FALSE, ServerInv, WInv', RxPut("irq")
  PROVE  FramesUp'
<1>1. Where = "rxput" /\ Where' = "rxtake" /\ ~RxFull
  BY Ranges, Typed, RoomToPut DEF RxPut, At, Goto, Where, Ctx
<1>2. /\ rxbuf' = [rxbuf EXCEPT ![rxadd] = pkt["irq"]] /\ rxadd' = RxNext(rxadd)
      /\ UNCHANGED <<rxrem, rxcd, content, arrived, bad, delivered>>
  BY <1>1 DEF RxPut, AddRcvbuf, hist
<1>3. RxSet' = RxSet \cup {rxadd} /\ \A i \in RxSet : rxbuf'[i] = rxbuf[i]
  BY <1>1, <1>2, Typed, RxSetMoves DEF RxGap, RxFull
<1>4. Done' = Done /\ DeliveredSet' = DeliveredSet /\ \A i : (RxOff(i))' = RxOff(i)
  BY <1>2 DEF Done, DeliveredSet, RxOff
<1>5. ~(RxOff(rxadd) < RxOff(rxcd))
  BY Typed, RxOffsets DEF RxOrder
<1>6. QED
  BY <1>1, <1>2, <1>3, <1>4, <1>5 DEF ServerInv, FramesUp, PassedUp


(* The hardware fills the current descriptor, which the driver has not     *)
(* looked at: its buffer is no other's.                                    *)
LEMMA CurrentOwned ==
  ASSUME ServerInv, rxcd # rxptr
  PROVE  /\ RxOff(rxcd) < RxOff(rxadd) /\ RxNext(rxcd) # rxrem /\ rxcd \in RxSet
         /\ RxOff(RxNext(rxcd)) = RxOff(rxcd) + 1
<1>0. TInv
  BY Typed
<1>1. /\ rxcd \in RxSlots /\ rxadd \in RxSlots /\ RxOff(rxcd) \in Nat /\ RxOff(rxadd) \in Nat
      /\ RxOff(rxadd) < RxSize /\ RxSize \in Nat
  BY Typed, RxOffsets, Ranges
<1>2. RxOff(rxcd) < RxOff(rxadd)
  BY <1>1, Typed, RxOffsets DEF RxOrder
<1>3. RxNext(rxcd) # rxrem
  BY <1>1, <1>2, Typed, RxOffsets
<1>4. ~(rxcd = rxrem /\ Where \in RxGap)
  <2>1. Where \in RxGap => RxOff(rxcd) >= 1
    BY Typed, FirstFrame DEF RxGap, RxLoop, RxOrder
  <2>2. QED
    BY <1>1, <2>1, Typed, RxOffsets
<1>5. rxcd \in RxSet
  <2>1. Between(rxrem, rxadd, rxcd)
    BY <1>0, <1>1, <1>2, RxOffsets
  <2>2. QED
    BY <1>1, <1>4, <2>1, Typed, SetsAre DEF SetsAt
<1>6. RxOff(RxNext(rxcd)) = RxOff(rxcd) + 1
  BY <1>0, <1>1, <1>3, RxOffsets
<1>7. QED
  BY <1>2, <1>3, <1>5, <1>6

LEMMA UpDmaRx ==
  ASSUME FgSends = FALSE, ServerInv, WInv', DmaRx
  PROVE  FramesUp'
<1>1. /\ arrived' = arrived + 1 /\ rxcd' = RxNext(rxcd) /\ rxcd # rxptr
      /\ bad \subseteq bad' /\ bad' \subseteq bad \cup {arrived + 1}
      /\ content' = [content EXCEPT ![rxbuf[rxcd]] = arrived + 1]
      /\ UNCHANGED <<rxbuf, rxrem, rxadd, pc, delivered>>
  BY DEF DmaRx, lists, rings, ctxs
<1>2. /\ RxOff(rxcd) < RxOff(rxadd) /\ RxNext(rxcd) # rxrem /\ rxcd \in RxSet /\ rxcd \in RxSlots
      /\ (RxOff(rxcd))' = RxOff(rxcd) + 1
  BY <1>1, Typed, CurrentOwned DEF RxOff, RxSet
<1>3. /\ Where' = Where /\ DeliveredSet' = DeliveredSet /\ (\A i \in RxSlots : (RxOff(i))' = RxOff(i))
      /\ RxSet' = RxSet
  <2>1. Where' = Where
    BY <1>1 DEF Where
  <2>2. QED
    BY <1>1, <2>1, Typed, RxSetMoves DEF DeliveredSet, RxOff
<1>4. Done' = Done
  BY <1>1, <1>2, UpTypes DEF Done
<1>5. \A i \in RxSet' : (RxOff(i))' < (RxOff(rxcd))' => content'[rxbuf'[i]] = Done' + 1 + (RxOff(i))'
  <2> SUFFICES ASSUME NEW i \in RxSet, RxOff(i) < RxOff(rxcd) + 1
               PROVE  content'[rxbuf[i]] = Done + 1 + RxOff(i)
    BY <1>1, <1>2, <1>3, <1>4, Typed
  <2>1. rxbuf[i] \in MaybePkt /\ i \in RxSlots /\ RxOff(i) \in Nat
    BY Typed, RxOffsets
  <2>2. CASE i = rxcd
    <3>1. content'[rxbuf[i]] = arrived + 1
      BY <1>1, <2>1, <2>2, UpTypes
    <3>2. QED
      BY <2>2, <3>1, UpTypes
  <2>3. CASE i # rxcd
    <3>1. RxOff(i) < RxOff(rxcd)
      BY <1>2, <2>1, <2>3, Typed, RxOffsets, UpTypes
    <3>2. rxbuf[i] # rxbuf[rxcd]
      BY <1>2, <2>3, Typed DEF Parted, OnceIn
    <3>3. content'[rxbuf[i]] = content[rxbuf[i]]
      BY <1>1, <2>1, <3>2, UpTypes
    <3>4. QED
      BY <3>1, <3>3 DEF ServerInv, FramesUp
  <2>4. QED
    BY <2>2, <2>3
<1>6. Where \in PassedUp \cup Delivering => Done + 1 <= arrived
  BY Typed, FirstFrame DEF PassedUp, Delivering, RxLoop, RxOrder
<1>7. \A f \in DeliveredSet : f \notin bad' /\ 1 <= f /\ f <= Done + (IF Where \in PassedUp THEN 1 ELSE 0)
  <2> SUFFICES ASSUME NEW f \in DeliveredSet
               PROVE  f \notin bad' /\ 1 <= f /\ f <= Done + (IF Where \in PassedUp THEN 1 ELSE 0)
    OBVIOUS
  <2>1. f \notin bad /\ 1 <= f /\ f <= Done + (IF Where \in PassedUp THEN 1 ELSE 0)
    BY DEF ServerInv, FramesUp
  <2>2. f \in Nat /\ f <= arrived
    BY <1>6, <2>1, UpTypes
  <2>3. QED
    BY <1>1, <2>1, <2>2, UpTypes
<1>8. Where \in Delivering => Done + 1 \notin bad'
  <2>1. Where \in Delivering => Done + 1 \notin bad /\ Done + 1 # arrived + 1
    BY <1>6, UpTypes DEF ServerInv, FramesUp, Delivering
  <2>2. QED
    BY <1>1, <2>1
<1>9. bad' \subseteq 1..arrived'
  BY <1>1, UpTypes
<1>10. /\ \A j, k \in 1..Len(delivered) : j < k => delivered[j] < delivered[k]
       /\ \A f \in 1..Done : f \in bad' \cup DeliveredSet
       /\ Where \in PassedUp => Done + 1 \in bad' \cup DeliveredSet
       /\ Done >= 0
  BY <1>1 DEF ServerInv, FramesUp
<1>11. delivered' = delivered
  BY <1>1
<1>12. QED
  BY <1>3, <1>4, <1>5, <1>7, <1>8, <1>9, <1>10, <1>11 DEF FramesUp, Delivering

LEMMA UpOutPut ==
  ASSUME FgSends = FALSE, ServerInv, WInv', OutPut("irq")
  PROVE  FramesUp'
<1>1. /\ Where = "oput" /\ Where' = "okick" /\ content' = [content EXCEPT ![pkt["irq"]] = accepted + 1]
      /\ UNCHANGED <<arrived, bad, delivered, rxrem, rxadd, rxcd, rxbuf>>
  BY Typed, Ranges DEF OutPut, At, Goto, Where, mac, Ctx
<1>2. /\ Done' = Done /\ DeliveredSet' = DeliveredSet /\ (\A i : (RxOff(i))' = RxOff(i))
      /\ RxSet' = RxSet
  BY <1>1, Typed, RxSetMoves DEF Done, DeliveredSet, RxOff, RxGap
<1>3. \A i \in RxSet : content'[rxbuf[i]] = content[rxbuf[i]]
  <2> TAKE i \in RxSet
  <2>1. pkt["irq"] \in Held
    BY <1>1, Typed DEF InHand, Hands
  <2>2. rxbuf[i] \in In(rxbuf, RxSet) /\ rxbuf[i] \in MaybePkt
    BY Typed DEF In
  <2>3. rxbuf[i] # pkt["irq"]
    BY <2>1, <2>2, Typed DEF Parted
  <2>4. QED
    BY <1>1, <2>2, <2>3, UpTypes
<1>4. QED
  BY <1>1, <1>2, <1>3 DEF ServerInv, FramesUp, PassedUp

(* Every step keeps the frames in the receive ring and those passed up.    *)
LEMMA FramesUpNext ==
  ASSUME FgSends = FALSE, ServerInv, WInv', Next
  PROVE  FramesUp'
<1>1. ~RxDec("irq")
  BY Typed DEF RxDec, At, Where, Charge
<1>2. CASE SameUp
  BY <1>2, SameUpKeeps
<1>3. QED
  BY <1>1, <1>2, Typed, ServerNext, SameUpSteps, UpFill, UpTake, UpDeliver, UpFree, UpAdvance, UpPut, UpDmaRx, UpOutPut
     DEF Driver, Isr, Out

-----------------------------------------------------------------------------
LEMMA TxOffsets ==
  ASSUME TInv
  PROVE  /\ \A i \in TxSlots : TxOff(i) \in Nat /\ TxOff(i) < TxSize /\ (TxOff(i) = 0 <=> i = txrem)
         /\ \A i, j \in TxSlots : TxOff(i) = TxOff(j) => i = j
         /\ \A i \in TxSlots : TxNext(i) # txrem => TxOff(TxNext(i)) = TxOff(i) + 1
         /\ \A i \in TxSlots : TxNext(i) = txrem => TxOff(i) = TxSize - 1
         /\ \A i \in TxSlots : Between(txrem, txadd, i) <=> TxOff(i) < TxOff(txadd)
         /\ txrem \in TxSlots /\ txadd \in TxSlots /\ txcd \in TxSlots /\ txptr \in TxSlots
         /\ TxSize \in Nat
<1> USE Ranges DEF TxSlots, TxOff, Off
<1>1. \A i \in TxSlots : TxOff(i) \in Nat /\ TxOff(i) < TxSize /\ (TxOff(i) = 0 <=> i = txrem)
  OBVIOUS
<1>2. \A i, j \in TxSlots : TxOff(i) = TxOff(j) => i = j
  OBVIOUS
<1>3. \A i \in TxSlots : TxNext(i) # txrem => TxOff(TxNext(i)) = TxOff(i) + 1
  BY DEF TxNext
<1>4. \A i \in TxSlots : TxNext(i) = txrem => TxOff(i) = TxSize - 1
  BY DEF TxNext
<1>5. \A i \in TxSlots : Between(txrem, txadd, i) <=> TxOff(i) < TxOff(txadd)
  BY DEF Between
<1>6. /\ txrem \in TxSlots /\ txadd \in TxSlots /\ txcd \in TxSlots /\ txptr \in TxSlots
      /\ TxSize \in Nat
  OBVIOUS
<1> HIDE DEF TxSlots, TxOff, Off
<1>7. QED
  BY <1>1, <1>2, <1>3, <1>4, <1>5, <1>6

LEMMA OutTypes ==
  ASSUME ServerInv
  PROVE  /\ TInv /\ wire \in Seq(Nat) /\ Len(wire) \in Nat /\ accepted \in Nat /\ content \in [MaybePkt -> Nat]
         /\ TxOff(txcd) \in Nat /\ TxOff(txadd) \in Nat /\ TxOff(txcd) <= TxOff(txadd)
         /\ Gone \in Int /\ Len(wire) = Gone + TxOff(txcd) /\ accepted = Gone + TxOff(txadd)
<1>1. TInv
  BY Typed
<1>2. wire \in Seq(Nat) /\ accepted \in Nat /\ content \in [MaybePkt -> Nat]
  BY <1>1 DEF TInv, TypeOK, HistOK, MacOK
<1>3. Len(wire) \in Nat
  BY <1>2
<1>4. TxOff(txcd) \in Nat /\ TxOff(txadd) \in Nat /\ TxOff(txptr) \in Nat
  BY <1>1, TxOffsets
<1>5. TxOff(txcd) <= TxOff(txadd)
  BY <1>4, Typed DEF TxOrder
<1>6. QED
  BY <1>1, <1>2, <1>3, <1>4, <1>5 DEF Gone, ServerInv, FramesOut

(* The hardware's slots are in use, so their buffers are nobody else's.    *)
LEMMA WindowOwned ==
  ASSUME ServerInv, NEW i \in TxSlots, TxOff(txcd) <= TxOff(i), TxOff(i) < TxOff(txadd)
  PROVE  i \in TxSet
<1>1. TInv /\ TxOff(i) \in Nat /\ TxOff(txcd) \in Nat
  BY Typed, TxOffsets
<1>2. Between(txrem, txadd, i)
  BY <1>1, TxOffsets
<1>3. ASSUME i = txrem, Where \in TxGap PROVE FALSE
  <2>1. cur["irq"] \in TxSlots /\ cur["irq"] # txrem /\ TxOff(cur["irq"]) <= TxOff(txcd)
    BY <1>3, Typed DEF TxOrder, TxGap, TxLoop
  <2>2. TxOff(cur["irq"]) \in Nat /\ TxOff(cur["irq"]) # 0 /\ TxOff(i) = 0
    BY <1>1, <1>3, <2>1, TxOffsets
  <2>3. QED
    BY <1>1, <2>1, <2>2
<1>4. QED
  BY <1>2, <1>3, Typed, SetsAre DEF SetsAt

\* A step that leaves the frames to be sent alone.
SameOut == UNCHANGED <<accepted, wire, content, txrem, txadd, txcd, txbuf>>

LEMMA SameOutSteps ==
  FillRxRing \/ Start \/ Dispatcher \/ Send("irq") \/ EnterCS("irq") \/ Status("irq") \/ Clear("irq")
  \/ RxSnap("irq") \/ RxTake("irq") \/ Deliver("irq") \/ RxFree("irq") \/ RxAlloc("irq") \/ RxAdvance("irq")
  \/ RxPut("irq") \/ RxDec("irq") \/ TxSnap("irq") \/ TxTake("irq") \/ TxFree("irq") \/ OutAlloc("irq")
  \/ OutSlot("irq") \/ OutKick("irq") \/ OutFree("irq") => SameOut
<1> USE DEF SameOut, lists, rings, hw, locals, mac, ctxs, hist
<1>1. FillRxRing => SameOut
  BY DEF FillRxRing, AddRcvbuf, Goto, At
<1>2. Start => SameOut
  BY DEF Start, Hwinit, StartRead, StartClear, Goto, At
<1>3. IrqEntry => SameOut
  BY DEF IrqEntry, Goto, At
<1>4. ServeTimer => SameOut
  BY DEF ServeTimer, Goto, At
<1>5. ServeEth => SameOut
  BY DEF ServeEth, Goto, At
<1>6. IrqExit => SameOut
  BY DEF IrqExit, Goto, At
<1>7. TimerDone => SameOut
  BY DEF TimerDone, Goto, At
<1>8. Send("irq") => SameOut
  BY DEF Send, Goto, At
<1>9. EnterCS("irq") => SameOut
  BY DEF EnterCS, Locked, Goto, At
<1>10. Status("irq") => SameOut
  BY DEF Status, Caller, Goto, At
<1>11. Clear("irq") => SameOut
  BY DEF Clear, Cleared, Goto, At
<1>12. RxSnap("irq") => SameOut
  BY DEF RxSnap, Goto, At
<1>13. RxTake("irq") => SameOut
  BY DEF RxTake, AfterTake, Goto, At
<1>14. Deliver("irq") => SameOut
  BY DEF Deliver, Goto, At
<1>15. RxFree("irq") => SameOut
  BY DEF RxFree, FreePkt, Freed, Goto, At
<1>16. RxAlloc("irq") => SameOut
  BY DEF RxAlloc, AllocPkt, Unlinked, Goto, At
<1>17. RxAdvance("irq") => SameOut
  BY DEF RxAdvance, Goto, At
<1>18. RxPut("irq") => SameOut
  BY DEF RxPut, AddRcvbuf, Goto, At
<1>19. RxDec("irq") => SameOut
  BY DEF RxDec, Goto, At
<1>20. TxSnap("irq") => SameOut
  BY DEF TxSnap, Goto, At
<1>21. TxTake("irq") => SameOut
  BY DEF TxTake, Goto, At
<1>22. TxFree("irq") => SameOut
  BY DEF TxFree, FreePkt, Freed, Goto, At
<1>23. OutAlloc("irq") => SameOut
  BY DEF OutAlloc, AllocPkt, Unlinked, Caller, Goto, At
<1>24. OutSlot("irq") => SameOut
  BY DEF OutSlot, Goto, At
<1>25. OutKick("irq") => SameOut
  BY DEF OutKick, Goto, At
<1>26. OutFree("irq") => SameOut
  BY DEF OutFree, FreePkt, Freed, Caller, Goto, At
<1>27. QED
  BY <1>1, <1>2, <1>3, <1>4, <1>5, <1>6, <1>7, <1>8, <1>9, <1>10, <1>11, <1>12, <1>13, <1>14, <1>15, <1>16, <1>17, <1>18, <1>19, <1>20, <1>21, <1>22, <1>23, <1>24, <1>25, <1>26 DEF Dispatcher

LEMMA OutDmaRx ==
  ASSUME FgSends = FALSE, ServerInv, DmaRx
  PROVE  FramesOut'
<1>1. /\ rxcd # rxptr /\ content' = [content EXCEPT ![rxbuf[rxcd]] = arrived + 1]
      /\ UNCHANGED <<accepted, wire, txrem, txadd, txcd, txbuf>>
  BY DEF DmaRx, lists, rings
<1>2. rxbuf[rxcd] \in In(rxbuf, RxSet)
  BY <1>1, CurrentOwned DEF In
<1>3. \A i \in TxSlots : TxOff(txcd) <= TxOff(i) /\ TxOff(i) < TxOff(txadd) =>
        content'[txbuf[i]] = content[txbuf[i]]
  <2> TAKE i \in TxSlots
  <2> HAVE TxOff(txcd) <= TxOff(i) /\ TxOff(i) < TxOff(txadd)
  <2>1. txbuf[i] \in In(txbuf, TxSet) /\ txbuf[i] \in MaybePkt
    BY WindowOwned, Typed DEF In
  <2>2. txbuf[i] # rxbuf[rxcd]
    BY <1>2, <2>1, Typed DEF Parted
  <2>3. QED
    BY <1>1, <2>1, <2>2, OutTypes
<1>4. Gone' = Gone /\ \A i : (TxOff(i))' = TxOff(i)
  BY <1>1 DEF Gone, TxOff
<1>5. QED
  BY <1>1, <1>3, <1>4 DEF ServerInv, FramesOut

LEMMA OutDmaTx ==
  ASSUME FgSends = FALSE, ServerInv, DmaTx
  PROVE  FramesOut'
<1>1. /\ txcd # txptr /\ wire' = Append(wire, content[txbuf[txcd]]) /\ txcd' = TxNext(txcd)
      /\ UNCHANGED <<accepted, content, txrem, txadd, txbuf>>
  BY DEF DmaTx, lists, rings
<1>2. /\ TxOff(txcd) < TxOff(txadd) /\ (TxOff(txcd))' = TxOff(txcd) + 1 /\ txcd \in TxSlots
  <2>1. /\ TxOff(txcd) \in Nat /\ TxOff(txptr) \in Nat /\ TxOff(txadd) \in Nat /\ TxOff(txptr) < TxSize
        /\ TxOff(txcd) # TxOff(txptr) /\ TxSize \in Nat /\ txcd \in TxSlots
    BY <1>1, OutTypes, TxOffsets
  <2>2. TxOff(txcd) < TxOff(txptr) /\ TxOff(txptr) <= TxOff(txadd)
    BY <2>1, Typed DEF TxOrder
  <2>3. TxNext(txcd) # txrem
    BY <2>1, <2>2, OutTypes, TxOffsets
  <2>4. TxOff(TxNext(txcd)) = TxOff(txcd) + 1
    BY <2>1, <2>3, OutTypes, TxOffsets
  <2>5. (TxOff(txcd))' = TxOff(TxNext(txcd))
    BY <1>1 DEF TxOff
  <2>6. QED
    BY <2>1, <2>2, <2>4, <2>5
<1>3. content[txbuf[txcd]] = Len(wire) + 1
  <2>1. content[txbuf[txcd]] = Gone + 1 + TxOff(txcd)
    BY <1>2, OutTypes DEF ServerInv, FramesOut
  <2>2. QED
    BY <2>1, OutTypes
<1>4. Len(wire') = Len(wire) + 1 /\ \A k \in 1..Len(wire') : wire'[k] = k
  <2>1. wire \in Seq(Nat) /\ Len(wire) + 1 \in Nat /\ wire' = Append(wire, Len(wire) + 1)
    BY <1>1, <1>3, OutTypes
  <2>2. Len(wire') = Len(wire) + 1 /\ wire'[Len(wire) + 1] = Len(wire) + 1
        /\ \A k \in 1..Len(wire) : wire'[k] = wire[k]
    BY <2>1
  <2>3. \A k \in 1..Len(wire') : k \in 1..Len(wire) \/ k = Len(wire) + 1
    BY <2>1, <2>2
  <2>4. QED
    BY <2>2, <2>3 DEF ServerInv, FramesOut
<1>5. Gone' = Gone
  BY <1>2, <1>4, OutTypes DEF Gone
<1>6. \A i : (TxOff(i))' = TxOff(i)
  BY <1>1 DEF TxOff
<1>7. \A i \in TxSlots : TxOff(i) \in Nat
  BY OutTypes, TxOffsets
<1>8. \A i \in TxSlots : (TxOff(txcd))' <= TxOff(i) => TxOff(txcd) <= TxOff(i)
  BY <1>2, <1>7, OutTypes
<1>9. QED
  BY <1>1, <1>4, <1>5, <1>6, <1>8 DEF ServerInv, FramesOut

LEMMA OutAdvance ==
  ASSUME FgSends = FALSE, ServerInv, TxAdvance("irq")
  PROVE  FramesOut'
<1>1. /\ Where = "txadv" /\ txrem' = TxNext(txrem)
      /\ UNCHANGED <<accepted, content, wire, txadd, txcd, txbuf>>
  BY Typed DEF TxAdvance, At, Where, TxOrder, TxLoop, mac, hist
<1>2. txadd # txrem /\ txcd # txrem /\ TxOff(txcd) >= 1
  <2>1. cur["irq"] \in TxSlots /\ cur["irq"] # txrem /\ TxOff(cur["irq"]) <= TxOff(txcd)
    BY <1>1, Typed DEF TxOrder, TxLoop
  <2>2. TxOff(cur["irq"]) \in Nat /\ TxOff(cur["irq"]) # 0
    BY <2>1, OutTypes, TxOffsets
  <2>3. TxOff(txcd) >= 1 /\ TxOff(txadd) >= 1
    BY <2>1, <2>2, OutTypes
  <2>4. QED
    BY <2>3, OutTypes, TxOffsets
<1>3. /\ TxSize \in Nat /\ txrem \in Nat /\ txrem < TxSize
      /\ txadd \in TxSlots /\ txcd \in TxSlots /\ TxOff(txadd) < TxSize
  BY OutTypes, Ranges, TxOffsets
<1>4. \A i \in TxSlots : (TxOff(i))' = IF i = txrem THEN TxSize - 1 ELSE TxOff(i) - 1
  BY <1>1, <1>3 DEF TxOff, Off, TxNext, TxSlots
<1>5. (TxOff(txcd))' = TxOff(txcd) - 1 /\ (TxOff(txadd))' = TxOff(txadd) - 1
  <2>1. (TxOff(txcd))' = Off(txrem', txcd, TxSize) /\ (TxOff(txadd))' = Off(txrem', txadd, TxSize)
    BY <1>1 DEF TxOff
  <2>2. \A i \in TxSlots : Off(txrem', i, TxSize) = (TxOff(i))'
    BY DEF TxOff
  <2>3. QED
    BY <1>2, <1>3, <1>4, <2>1, <2>2
<1>6. Gone' = Gone + 1
  BY <1>1, <1>5, OutTypes DEF Gone
<1>7. accepted' = Gone' + (TxOff(txadd))'
  BY <1>1, <1>5, <1>6, OutTypes
<1>8. \A i \in TxSlots : (TxOff(txcd))' <= (TxOff(i))' /\ (TxOff(i))' < (TxOff(txadd))' =>
        content'[txbuf'[i]] = Gone' + 1 + (TxOff(i))'
  <2> SUFFICES ASSUME NEW i \in TxSlots, (TxOff(txcd))' <= (TxOff(i))', (TxOff(i))' < (TxOff(txadd))'
               PROVE  content[txbuf[i]] = Gone' + 1 + (TxOff(i))'
    BY <1>1
  <2>1. i # txrem
    BY <1>3, <1>4, <1>5, OutTypes
  <2>2. (TxOff(i))' = TxOff(i) - 1 /\ TxOff(i) \in Nat
    BY <1>4, <2>1, OutTypes, TxOffsets
  <2>3. TxOff(txcd) <= TxOff(i) /\ TxOff(i) < TxOff(txadd)
    BY <1>5, <2>2, OutTypes
  <2>4. content[txbuf[i]] = Gone + 1 + TxOff(i)
    BY <2>3 DEF ServerInv, FramesOut
  <2>5. QED
    BY <1>6, <2>2, <2>4, OutTypes
<1>9. \A k \in 1..Len(wire') : wire'[k] = k
  BY <1>1 DEF ServerInv, FramesOut
<1>10. QED
  BY <1>7, <1>8, <1>9 DEF FramesOut

LEMMA OutOutPut ==
  ASSUME FgSends = FALSE, ServerInv, OutPut("irq")
  PROVE  FramesOut'
<1>1. Where = "oput" /\ slot["irq"] = txadd /\ TxNext(txadd) # txrem
  BY Typed DEF OutPut, At, Where, TxOrder
<1>2. /\ accepted' = accepted + 1 /\ content' = [content EXCEPT ![pkt["irq"]] = accepted + 1]
      /\ txbuf' = [txbuf EXCEPT ![txadd] = pkt["irq"]] /\ txadd' = TxNext(txadd)
      /\ UNCHANGED <<wire, txrem, txcd>>
  BY <1>1 DEF OutPut, mac
<1>3. /\ Gone' = Gone /\ (\A i : (TxOff(i))' = TxOff(i)) /\ (TxOff(txcd))' = TxOff(txcd)
      /\ (TxOff(txadd))' = TxOff(TxNext(txadd))
  BY <1>2 DEF Gone, TxOff
<1>4. txadd \in TxSlots /\ (TxOff(txadd))' = TxOff(txadd) + 1 /\ \A i \in TxSlots : TxOff(i) \in Nat
  <2>1. txadd \in TxSlots /\ TxOff(TxNext(txadd)) = TxOff(txadd) + 1
    BY <1>1, OutTypes, TxOffsets
  <2>2. \A i \in TxSlots : TxOff(i) \in Nat
    BY OutTypes, TxOffsets
  <2>3. QED
    BY <1>3, <2>1, <2>2
<1>5. pkt["irq"] \in Held /\ pkt["irq"] \in MaybePkt
  BY <1>1, Typed DEF InHand, Hands
<1>6. \A i \in TxSlots : TxOff(txcd) <= TxOff(i) /\ TxOff(i) < TxOff(txadd) + 1 =>
        content'[txbuf'[i]] = Gone + 1 + TxOff(i)
  <2> SUFFICES ASSUME NEW i \in TxSlots, TxOff(txcd) <= TxOff(i), TxOff(i) < TxOff(txadd) + 1
               PROVE  content'[txbuf'[i]] = Gone + 1 + TxOff(i)
    OBVIOUS
  <2>1. CASE i = txadd
    <3>1. txbuf'[i] = pkt["irq"]
      BY <1>2, <1>4, <2>1, Typed
    <3>2. content'[pkt["irq"]] = accepted + 1
      BY <1>2, <1>5, OutTypes
    <3>3. QED
      BY <2>1, <3>1, <3>2, OutTypes
  <2>2. CASE i # txadd
    <3>1. TxOff(i) # TxOff(txadd)
      BY <1>4, <2>2, OutTypes, TxOffsets
    <3>2. TxOff(i) < TxOff(txadd)
      BY <1>4, <3>1, OutTypes
    <3>3. txbuf[i] \in In(txbuf, TxSet) /\ txbuf'[i] = txbuf[i] /\ txbuf[i] \in MaybePkt
      BY <1>2, <2>2, <3>2, WindowOwned, Typed DEF In
    <3>4. txbuf[i] # pkt["irq"]
      BY <1>5, <3>3, Typed DEF Parted
    <3>5. content'[txbuf'[i]] = content[txbuf[i]]
      BY <1>2, <3>3, <3>4, OutTypes
    <3>6. QED
      BY <3>2, <3>5 DEF ServerInv, FramesOut
  <2>3. QED
    BY <2>1, <2>2
<1>7. accepted' = Gone + (TxOff(txadd) + 1)
  BY <1>2, OutTypes
<1>8. QED
  BY <1>2, <1>3, <1>4, <1>6, <1>7 DEF ServerInv, FramesOut

(* Every step keeps the frames between cfe_output and the wire.            *)
LEMMA FramesOutNext ==
  ASSUME FgSends = FALSE, ServerInv, Next
  PROVE  FramesOut'
<1>1. CASE SameOut
  <2>1. Gone' = Gone /\ (\A i : (TxOff(i))' = TxOff(i)) /\ (TxOff(txcd))' = TxOff(txcd)
        /\ (TxOff(txadd))' = TxOff(txadd)
    BY <1>1 DEF Gone, TxOff, SameOut
  <2>2. QED
    BY <1>1, <2>1 DEF ServerInv, FramesOut, SameOut
<1>2. QED
  BY <1>1, Typed, ServerNext, SameOutSteps, OutDmaRx, OutDmaTx, OutAdvance, OutOutPut DEF Driver, Isr, Out


-----------------------------------------------------------------------------
LEMMA FramesInOrder == ServerInv => InOrder
<1> HAVE ServerInv
<1>1. \A i, j \in DOMAIN delivered : i < j => delivered[i] < delivered[j]
  BY SMTT(40), UpTypes DEF ServerInv, FramesUp
<1>2. \A i \in DOMAIN delivered : delivered[i] \in DeliveredSet
  BY UpTypes DEF DeliveredSet, On
<1>3. \A f \in DeliveredSet : f \in 1..arrived \ bad
  <2>1. Where \in PassedUp => Done + 1 <= arrived
    BY Typed, FirstFrame DEF PassedUp, RxLoop, RxOrder
  <2> TAKE f \in DeliveredSet
  <2>2. f \notin bad /\ 1 <= f /\ f <= Done + (IF Where \in PassedUp THEN 1 ELSE 0) /\ f \in Nat
    BY UpTypes DEF ServerInv, FramesUp
  <2>3. f <= arrived
    BY <2>1, <2>2, UpTypes
  <2>4. QED
    BY <2>2, <2>3, UpTypes
<1>4. \A f \in 1..arrived \ bad :
        \/ \E i \in DOMAIN delivered : delivered[i] = f
        \/ \E i \in RxSlots : Between(rxrem, rxcd, i) /\ content[rxbuf[i]] = f
  <2> TAKE f \in 1..arrived \ bad
  <2>1. CASE f \in DeliveredSet
    BY <2>1, UpTypes DEF DeliveredSet, On
  <2>2. CASE f \notin DeliveredSet
    <3>1. f \in Nat /\ ~(f <= Done) /\ f <= arrived
      BY <2>2, UpTypes DEF ServerInv, FramesUp
    <3>2. f - Done - 1 \in 0..(RxSize - 1) /\ f - Done - 1 < RxOff(rxcd)
      <4>1. RxOff(rxcd) < RxSize /\ RxSize \in Nat
        BY Typed, RxOffsets, Ranges
      <4>2. QED
        BY <3>1, <4>1, UpTypes
    <3>3. PICK i \in RxSlots : RxOff(i) = f - Done - 1
      BY <3>2, Typed, RxOffsets
    <3>4. ~(i = rxrem /\ Where \in RxGap)
      <4> SUFFICES ASSUME i = rxrem, Where \in RxGap PROVE FALSE
        OBVIOUS
      <4>1. f = Done + 1
        <5>1. RxOff(i) = 0
          BY Typed, RxOffsets
        <5>2. QED
          BY <3>1, <3>3, <5>1, UpTypes
      <4>2. QED
        BY <2>2, <4>1 DEF ServerInv, FramesUp, PassedUp, RxGap
    <3>5. RxOff(rxcd) <= RxOff(rxadd) /\ RxOff(i) \in Nat /\ RxOff(rxadd) \in Nat /\ RxOff(i) < RxOff(rxcd)
      BY <3>2, <3>3, Typed, RxOffsets DEF RxOrder
    <3>6. RxOff(i) < RxOff(rxadd)
      BY <3>5, UpTypes
    <3>7. Between(rxrem, rxadd, i) /\ Between(rxrem, rxcd, i)
      BY <3>5, <3>6, Typed, RxOffsets
    <3>8. i \in RxSet
      BY <3>4, <3>7, Typed, SetsAre DEF SetsAt
    <3>9. content[rxbuf[i]] = Done + 1 + RxOff(i)
      BY <3>5, <3>8 DEF ServerInv, FramesUp
    <3>10. content[rxbuf[i]] = f
      BY <3>1, <3>3, <3>9, UpTypes
    <3>11. QED
      BY <3>7, <3>10
  <2>3. QED
    BY <2>1, <2>2
<1>5. wire = [i \in 1..Len(wire) |-> i] /\ Len(wire) <= accepted
  <2>1. wire \in Seq(Nat) /\ Len(wire) <= accepted
    BY OutTypes
  <2>2. \A k \in 1..Len(wire) : wire[k] = k
    BY DEF ServerInv, FramesOut
  <2>3. QED
    BY <2>1, <2>2
<1>6. \A i \in TxSlots : Between(txcd, txadd, i) =>
        content[txbuf[i]] = Len(wire) + 1 + (IF i >= txcd THEN i - txcd ELSE i - txcd + TxSize)
  <2> TAKE i \in TxSlots
  <2> HAVE Between(txcd, txadd, i)
  <2>1. /\ txrem \in Nat /\ txcd \in Nat /\ txadd \in Nat /\ TxSize \in Nat /\ i \in Nat
        /\ txrem < TxSize /\ txcd < TxSize /\ txadd < TxSize /\ i < TxSize
    BY SMTT(40), OutTypes, Ranges DEF TxSlots
  <2>2. Off(txrem, txcd, TxSize) <= Off(txrem, txadd, TxSize)
    BY OutTypes DEF TxOff
  <2>3. /\ Off(txrem, txcd, TxSize) <= Off(txrem, i, TxSize)
        /\ Off(txrem, i, TxSize) < Off(txrem, txadd, TxSize)
        /\ (IF i >= txcd THEN i - txcd ELSE i - txcd + TxSize)
              = Off(txrem, i, TxSize) - Off(txrem, txcd, TxSize)
        /\ Off(txrem, i, TxSize) \in Int
    BY <2>1, <2>2 DEF Between, Off
  <2>4. content[txbuf[i]] = Gone + 1 + TxOff(i)
    BY <2>3 DEF ServerInv, FramesOut, TxOff
  <2>5. TxOff(i) \in Int /\ (IF i >= txcd THEN i - txcd ELSE i - txcd + TxSize) = TxOff(i) - TxOff(txcd)
    BY <2>3 DEF TxOff
  <2> DEFINE d == IF i >= txcd THEN i - txcd ELSE i - txcd + TxSize
  <2> HIDE DEF d
  <2>6. d = TxOff(i) - TxOff(txcd)
    BY <2>5 DEF d
  <2>7. content[txbuf[i]] = Len(wire) + 1 + d
    <3>1. Len(wire) = Gone + TxOff(txcd) /\ Gone \in Int /\ TxOff(txcd) \in Int /\ TxOff(i) \in Int
      BY <2>5, OutTypes
    <3>2. (Gone + TxOff(txcd)) + 1 + (TxOff(i) - TxOff(txcd)) = Gone + 1 + TxOff(i)
      BY <3>1
    <3>3. QED
      BY <2>4, <2>6, <3>1, <3>2
  <2>8. QED
    BY <2>7 DEF d
<1>7. QED
  BY <1>1, <1>2, <1>3, <1>4, <1>5, <1>6 DEF InOrder

-----------------------------------------------------------------------------
LEMMA ServerInit == Init => ServerInv
<1> SUFFICES ASSUME Init PROVE ServerInv
  OBVIOUS
<1>1. TInv
  BY TInit
<1>2. WInv
  BY PointsAre DEF Init, WInv, Up, MacOn, Startup, Ctx, RxToCome, TxToCome, RxLoop, TxLoop
<1>3. /\ Where = "idle" /\ pc["fg"] = "fill" /\ rxrem = 0 /\ rxadd = 0 /\ rxcd = 0 /\ rxptr = 0 /\ onring = 0
      /\ txrem = 0 /\ txadd = 0 /\ txcd = 0 /\ txptr = 0 /\ arrived = 0 /\ accepted = 0
      /\ bad = {} /\ delivered = <<>> /\ wire = <<>> /\ free = [i \in 1..PoolSize |-> i]
  BY DEF Init, Where, Ctx
<1>4. /\ Off(0, 0, RxSize) = 0 /\ Off(0, 0, TxSize) = 0
      /\ RxOff(rxadd) = 0 /\ RxOff(rxcd) = 0 /\ TxOff(txcd) = 0 /\ TxOff(txadd) = 0 /\ TxOff(txptr) = 0
  BY <1>3 DEF RxOff, TxOff, Off
<1>5. RxOrder /\ TxOrder
  BY <1>3, <1>4 DEF RxOrder, TxOrder, RxLoop, TxLoop
<1>6. Hands
  BY <1>3 DEF Hands
<1>7. Len(free) = PoolSize
  BY <1>3, SizesAssumption
<1>8. Charge
  BY <1>3, <1>4, <1>7, SizesAssumption DEF Charge
<1>9. RxSet = {} /\ TxSet = {} /\ Held = {}
  <2>1. \A i \in RxSlots : ~Between(0, 0, i)
    BY SlotsAreNat DEF Between
  <2>2. \A i \in TxSlots : ~Between(0, 0, i)
    BY SlotsAreNat DEF Between
  <2>3. QED
    BY <1>2, <1>3, <2>1, <2>2, SetsAre DEF SetsAt, InHand
<1>10. Split
  <2>1. Once(free) /\ On(free) = Pkts
    BY <1>3, <1>7, SizesAssumption DEF Once, On, Pkts
  <2>2. In(rxbuf, {}) = {} /\ In(txbuf, {}) = {} /\ OnceIn(rxbuf, {}) /\ OnceIn(txbuf, {})
    BY DEF In, OnceIn
  <2>3. QED
    BY <1>9, <2>1, <2>2 DEF Split, Parted
<1>11. FramesUp
  <2>1. Done = 0 /\ DeliveredSet = {} /\ Len(delivered) = 0
    BY <1>3, <1>4 DEF Done, DeliveredSet, On
  <2>2. QED
    BY <1>3, <1>9, <2>1 DEF FramesUp, PassedUp
<1>12. FramesOut
  <2>1. Gone = 0 /\ Len(wire) = 0
    BY <1>3, <1>4 DEF Gone
  <2>2. \A i \in TxSlots : ~(0 <= TxOff(i) /\ TxOff(i) < 0)
    BY <1>1, TxOffsets
  <2>3. QED
    BY <1>3, <1>4, <2>1, <2>2 DEF FramesOut
<1>13. QED
  BY <1>1, <1>2, <1>5, <1>6, <1>8, <1>10, <1>11, <1>12 DEF ServerInv

LEMMA ServerStep ==
  ASSUME FgSends = FALSE, ServerInv, [Next]_vars
  PROVE  ServerInv'
<1>1. TInv' /\ WInv'
  BY Typed, TNext, WNext
<1>2. CASE Next
  BY <1>1, <1>2, Typed, RxOrderNext, TxOrderNext, HandsNext, ChargeNext, SplitNext, FramesUpNext, FramesOutNext
     DEF ServerInv
<1>3. CASE UNCHANGED vars
  <2> USE <1>3 DEF vars, lists, rings, hw, mac, ctxs, locals, hist
  <2>1. RxOrder' /\ TxOrder' /\ Hands' /\ Charge'
    BY Typed DEF RxOrder, TxOrder, Hands, Charge, Where, Up, RxOff, TxOff
  <2>2. Quiet /\ SameUp /\ SameOut
    BY DEF Quiet, SameUp, SameOut, Where
  <2>3. FramesOut'
    BY DEF ServerInv, FramesOut, Gone, TxOff
  <2>4. QED
    BY <1>1, <2>1, <2>2, <2>3, Typed, QuietSplit, SameUpKeeps DEF ServerInv
<1>4. QED
  BY <1>2, <1>3

LEMMA ServerAlways == ASSUME FgSends = FALSE PROVE Spec => []ServerInv
<1>1. ServerInv /\ [Next]_vars => ServerInv'
  BY ServerStep
<1>2. QED
  BY ServerInit, <1>1, PTL DEF Spec

(* In a server every packet buffer is always in exactly one place: on the  *)
(* free list, in one descriptor of one ring, or in the hands of the        *)
(* interrupt routine or of cfe_output, their error paths and interruptions *)
(* included.                                                               *)
THEOREM ServerAccounted ==
  ASSUME FgSends = FALSE
  PROVE  Spec => []Accounted
<1>1. ServerInv => Accounted
  BY SplitAccounts
<1>2. QED
  BY ServerAlways, <1>1, PTL

(* In a server bcm4401_add_rcvbuf, whose result procrxring ignores, always *)
(* finds room for the buffer that goes back.                               *)
THEOREM ServerRxSpace ==
  ASSUME FgSends = FALSE
  PROVE  Spec => []RxSpace
BY ServerAlways, RoomAlways, PTL

(* In a server the receive ring holds MINRXRING buffers whenever the        *)
(* driver is at rest, though nothing refills it after attach.              *)
THEOREM ServerRingStaysCharged ==
  ASSUME FgSends = FALSE
  PROVE  Spec => []RingStaysCharged
BY ServerAlways, ChargedAlways, PTL

(* In a server frames go up once each, in the order of arrival and never   *)
(* one with an error, and what cfe_output accepted reaches the wire once,  *)
(* in order and unchanged.                                                 *)
THEOREM ServerInOrder ==
  ASSUME FgSends = FALSE
  PROVE  Spec => []InOrder
BY ServerAlways, FramesInOrder, PTL

=============================================================================
