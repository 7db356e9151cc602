--------------------------- MODULE BcmEtherProofs ---------------------------
(***************************************************************************)
(* Proofs about the input queue of bcm_ether.c (BcmEther), for every size  *)
(* of ring and pool, burst and number of pbufs kept that the assumption    *)
(* allows, and any number of frames.                                       *)
(***************************************************************************)
EXTENDS BcmEther, FiniteSetTheorems, SequenceTheorems, TLAPS

(* The slot i places behind slot s, without a division.                    *)
Along(s, i) == IF s + i < QueueLen THEN s + i ELSE s + i - QueueLen

(* The frame in netif.input; the frames doque is through with; the slots   *)
(* in use, that of the frame in netif.input included.                      *)
InInput == IF pc = "input" THEN 1 ELSE 0
Done == Len(passed) - InInput
Used == received - Done

Types ==
  /\ inque \in [Slots -> Nat] /\ inquestart \in Slots /\ inqueend \in Slots
  /\ received \in Nat /\ burst \in Nat /\ burst <= MaxBurst
  /\ passed \in Seq(Nat)

(* Since the last poll ended with an empty ring no more slots were used    *)
(* than frames came, so that the ring never fills; they hold the frames in *)
(* the order of arrival.                                                   *)
RingInv ==
  /\ InInput <= Used /\ Used <= burst /\ InInput <= Len(passed)
  /\ inqueend = Along(inquestart, Used)
  /\ \A i \in 0..(Used - 1) : inque[Along(inquestart, i)] = Done + i + 1

(* What lwIP holds was passed to it; one pbuf over its limit may be the    *)
(* one in netif.input.                                                     *)
HeldInv ==
  /\ IsFiniteSet(held) /\ Cardinality(held) <= MaxHeld + InInput
  /\ held \subseteq 1..Len(passed)
  /\ pc = "input" => Len(passed) \in held

QueueInv == Types /\ RingInv /\ HeldInv

-----------------------------------------------------------------------------
(* Sums of two slots, modulo the length of the ring.                       *)
LEMMA Modulo ==
  ASSUME NEW n \in Nat \ {0}, NEW x \in Nat, x < n + n
  PROVE  (x % n) = IF x < n THEN x ELSE x - n
  OBVIOUS

LEMMA Sizes == QueueLen \in Nat \ {0} /\ MaxBurst \in Nat /\ MaxHeld \in Nat /\ PoolSize \in Nat
               /\ MaxBurst < QueueLen /\ MaxBurst + MaxHeld <= PoolSize
  BY SizesAssumption

LEMMA Counted ==
  ASSUME Types, RingInv
  PROVE  /\ Used \in Nat /\ Used < QueueLen /\ Done \in Nat /\ InInput \in 0..1
         /\ Len(passed) \in Nat /\ Len(passed) = Done + InInput
         /\ received = Done + Used
<1>1. InInput \in 0..1 /\ Len(passed) \in Nat
  BY DEF Types, InInput
<1>2. InInput <= Len(passed) /\ Done = Len(passed) - InInput
  BY DEF RingInv, Done
<1>3. Done \in Nat /\ received \in Nat /\ Used = received - Done
  BY <1>1, <1>2 DEF Types, Used
<1>4. InInput <= Used /\ Used <= burst /\ burst \in Nat /\ burst <= MaxBurst
  BY DEF RingInv, Types
<1>5. QED
  BY <1>1, <1>2, <1>3, <1>4, Sizes

LEMMA AlongSlots ==
  ASSUME NEW s \in Slots, NEW i \in Nat, i < QueueLen
  PROVE  Along(s, i) \in Slots
  BY Sizes DEF Along, Slots

(* The queue of the model, in terms of the slots in use.                   *)
LEMMA QueueCount ==
  ASSUME Types, RingInv
  PROVE  First \in Slots /\ First = Along(inquestart, InInput) /\ Count = Used - InInput
<1>1. inquestart \in Slots /\ inqueend \in Slots /\ QueueLen \in Nat \ {0}
  BY Sizes DEF Types
<1>2. First \in Slots /\ First = Along(inquestart, InInput)
  BY <1>1 DEF First, After, InInput, Along, Slots
<1>3. inqueend - First + QueueLen \in Nat /\ inqueend - First + QueueLen < QueueLen + QueueLen
  BY <1>1, <1>2 DEF Slots
<1>4. Count = IF inqueend - First + QueueLen < QueueLen THEN inqueend - First + QueueLen
                                                        ELSE inqueend - First
  BY <1>1, <1>2, <1>3, Modulo DEF Count, Slots
<1>5. InInput \in 0..1 /\ Used \in Nat /\ Used < QueueLen /\ InInput <= Used
      /\ inqueend = Along(inquestart, Used)
  BY Counted DEF RingInv
<1>6. QED
  BY <1>1, <1>2, <1>4, <1>5 DEF Along, Slots

LEMMA QueueIs ==
  ASSUME Types, RingInv
  PROVE  /\ Count \in Nat /\ Count = Used - InInput
         /\ Queue = [i \in 1..Count |-> Len(passed) + i]
<1>1. Count \in Nat /\ Count = Used - InInput /\ First \in Slots
      /\ First = Along(inquestart, InInput)
  BY QueueCount, Counted DEF RingInv
<1>2. ASSUME NEW i \in 1..Count
      PROVE  inque[(First + i - 1) % QueueLen] = Len(passed) + i
  <2> DEFINE j == i - 1
             k == InInput + j
  <2>1. j \in Nat /\ j < QueueLen /\ First \in 0..(QueueLen - 1) /\ QueueLen \in Nat \ {0}
        /\ First + i - 1 = First + j
    BY <1>1, Sizes, Counted DEF Slots
  <2>2. (First + i - 1) % QueueLen = Along(First, j)
    <3> HIDE DEF j
    <3>1. First + j \in Nat /\ First + j < QueueLen + QueueLen
      BY <2>1
    <3> DEFINE x == First + j
    <3>2. First + i - 1 = x /\ Along(First, j) = IF x < QueueLen THEN x ELSE x - QueueLen
      BY <2>1 DEF Along
    <3>3. x \in Nat /\ x < QueueLen + QueueLen
      BY <3>1
    <3> HIDE DEF x
    <3>4. (x % QueueLen) = IF x < QueueLen THEN x ELSE x - QueueLen
      BY <2>1, <3>3, Modulo
    <3>5. QED
      BY <3>2, <3>4
  <2>3. k \in 0..(Used - 1) /\ Done + k + 1 = Len(passed) + i
    BY <1>1, Counted
  <2>4. Along(First, j) = Along(inquestart, k)
    <3>1. inquestart \in 0..(QueueLen - 1) /\ InInput \in 0..1 /\ k < QueueLen
      BY SMTT(40), <2>1, <2>3, Counted DEF Types, Slots
    <3> HIDE DEF j
    <3>2. QED
      BY <1>1, <2>1, <3>1 DEF Along
  <2> HIDE DEF k
  <2>5. inque[Along(inquestart, k)] = Done + k + 1
    BY <2>3 DEF RingInv
  <2>6. QED
    BY <2>2, <2>3, <2>4, <2>5
<1>3. QED
  BY <1>1, <1>2 DEF Queue

(* The pbufs in the queue are the frames that wait.                        *)
LEMMA InQueueIs ==
  ASSUME Types, RingInv
  PROVE  /\ InQueue \subseteq (Len(passed) + 1)..received
         /\ IsFiniteSet(InQueue) /\ Cardinality(InQueue) <= Used - InInput
<1>1. /\ Count \in Nat /\ Count = Used - InInput
      /\ Queue = [i \in 1..Count |-> Len(passed) + i]
  BY QueueIs
<1>2. Len(passed) \in Nat /\ received \in Nat /\ received = Len(passed) + Count
  BY <1>1, Counted DEF Types
<1>3. InQueue \subseteq (Len(passed) + 1)..received
  BY <1>1, <1>2 DEF InQueue
<1> DEFINE a == Len(passed) + 1
<1>4. a \in Int /\ received \in Int /\ (IF a > received THEN 0 ELSE received - a + 1) = Count
  BY <1>1, <1>2
<1>5. InQueue \in SUBSET (a..received)
  BY <1>3
<1> HIDE DEF a
<1>6. IsFiniteSet(a..received) /\ Cardinality(a..received) = Count
  BY <1>4, FS_Interval
<1>7. IsFiniteSet(InQueue) /\ Cardinality(InQueue) <= Count
  BY <1>5, <1>6, FS_Subset
<1>8. QED
  BY <1>1, <1>3, <1>7

(* Another frame finds a free pbuf.                                        *)
LEMMA PbufThere ==
  ASSUME QueueInv, burst < MaxBurst
  PROVE  Pbuf = received + 1
<1> DEFINE all == InQueue \cup held
           some == all \ {NoPbuf}
<1>1. IsFiniteSet(InQueue) /\ Cardinality(InQueue) <= Used - InInput
  BY InQueueIs DEF QueueInv
<1>2. IsFiniteSet(held) /\ Cardinality(held) <= MaxHeld + InInput
  BY DEF QueueInv, HeldInv
<1>3. IsFiniteSet(all)
      /\ Cardinality(all) = Cardinality(InQueue) + Cardinality(held) - Cardinality(InQueue \cap held)
  BY <1>1, <1>2, FS_Union
<1>4. Cardinality(InQueue) \in Nat /\ Cardinality(held) \in Nat
      /\ Cardinality(InQueue \cap held) \in Nat
  <2>1. IsFiniteSet(InQueue \cap held)
    BY <1>1, FS_Intersection
  <2>2. QED
    BY <1>1, <1>2, <2>1, FS_CardinalityType
<1>5. IsFiniteSet(some) /\ Cardinality(some) <= Cardinality(all)
  <2>1. some \in SUBSET all
    OBVIOUS
  <2> HIDE DEF some, all
  <2>2. QED
    BY <1>3, <2>1, FS_Subset
<1>6. Cardinality(some) \in Nat
  BY <1>5, FS_CardinalityType
<1>7. /\ Used \in Nat /\ InInput \in 0..1 /\ Used <= burst /\ InInput <= Used
      /\ burst \in Nat
  BY Counted DEF QueueInv, RingInv, Types
<1> HIDE DEF some, all
<1>8. Cardinality(all) <= Used + MaxHeld /\ Cardinality(all) \in Int
  BY <1>1, <1>2, <1>3, <1>4, <1>7, Sizes
<1>9. Cardinality(some) < PoolSize
  BY <1>5, <1>6, <1>7, <1>8, Sizes
<1>10. QED
  BY <1>9 DEF Pbuf, some, all

-----------------------------------------------------------------------------
(* A step that leaves the ring, its frames and held alone, and does not    *)
(* enter or leave netif.input.                                             *)
LEMMA Elsewhere ==
  ASSUME QueueInv, UNCHANGED <<ring, burst, received, passed>>, (pc = "input") <=> (pc' = "input"),
         IsFiniteSet(held'), held' \subseteq held, pc = "input" => held' = held
  PROVE  QueueInv'
<1>1. UNCHANGED <<InInput, Done, Used>>
  BY DEF InInput, Done, Used
<1>2. Types' /\ RingInv'
  BY <1>1 DEF QueueInv, Types, RingInv, ring, Along
<1>3. Cardinality(held') <= Cardinality(held) /\ Cardinality(held) \in Nat /\ Cardinality(held') \in Nat
  <2>1. held' \in SUBSET held /\ IsFiniteSet(held)
    BY DEF QueueInv, HeldInv
  <2>2. QED
    BY <2>1, FS_Subset, FS_CardinalityType
<1>4. HeldInv'
  BY <1>1, <1>3, Sizes DEF QueueInv, HeldInv, InInput
<1>5. QED
  BY <1>2, <1>4 DEF QueueInv

(* net_rcv: one more slot, behind the others.                              *)
LEMMA NetRcvKeeps ==
  ASSUME QueueInv, NetRcv
  PROVE  QueueInv' /\ InInput' = InInput /\ Used' = Used + 1
<1>1. /\ received' = received + 1 /\ burst' = burst + 1 /\ burst < MaxBurst
      /\ inque' = [inque EXCEPT ![inqueend] = received + 1] /\ inqueend' = After(inqueend)
      /\ UNCHANGED <<inquestart, pc, passed, held>>
  BY PbufThere DEF NetRcv, Arrival
<1>2. InInput' = InInput /\ Done' = Done /\ Used' = Used + 1
  <2>1. InInput' = InInput /\ Done' = Done
    BY <1>1 DEF InInput, Done
  <2>2. QED
    BY SMTT(40), <1>1, <2>1, Counted DEF Used, QueueInv, Types
<1>3. /\ Used \in Nat /\ Done \in Nat /\ received = Done + Used /\ Used <= burst /\ InInput <= Used
      /\ InInput <= Len(passed) /\ InInput \in 0..1
      /\ burst \in Nat /\ received \in Nat /\ QueueLen \in Nat /\ Used + 1 < QueueLen
      /\ inquestart \in 0..(QueueLen - 1) /\ inqueend \in 0..(QueueLen - 1)
      /\ inqueend = Along(inquestart, Used) /\ MaxBurst \in Nat
  <2>1. Types /\ RingInv
    BY DEF QueueInv
  <2>2. Used \in Nat /\ Done \in Nat /\ received = Done + Used /\ InInput \in 0..1
    BY <2>1, Counted
  <2>3. Used <= burst /\ InInput <= Used /\ InInput <= Len(passed) /\ inqueend = Along(inquestart, Used)
    BY <2>1 DEF RingInv
  <2>4. burst \in Nat /\ received \in Nat /\ inquestart \in 0..(QueueLen - 1)
        /\ inqueend \in 0..(QueueLen - 1)
    BY <2>1 DEF Types, Slots
  <2>5. Used + 1 < QueueLen
    BY <1>1, <2>2, <2>3, <2>4, Sizes
  <2>6. QED
    BY <2>2, <2>3, <2>4, <2>5, Sizes
<1>4. Types'
  <2>1. inqueend' \in Slots
    BY <1>1, <1>3 DEF After, Slots
  <2>2. QED
    BY <1>1, <1>3, <2>1 DEF QueueInv, Types
<1>5. inqueend' = Along(inquestart', Used')
  BY <1>1, <1>2, <1>3 DEF Along, After
<1>6. ASSUME NEW i \in 0..(Used' - 1)
      PROVE  inque'[Along(inquestart', i)] = Done' + i + 1
  <2>1. CASE i = Used
    BY <1>1, <1>2, <1>3, <2>1 DEF QueueInv, Types, Slots
  <2>2. CASE i # Used
    <3>1. i \in 0..(Used - 1)
      BY <1>2, <1>3, <2>2
    <3>2. Along(inquestart, i) # inqueend
      BY <1>3, <3>1 DEF Along
    <3>3. inque[Along(inquestart, i)] = Done + i + 1
      BY <3>1 DEF QueueInv, RingInv
    <3>4. Along(inquestart, i) \in Slots
      BY <1>3, <3>1, AlongSlots DEF QueueInv, Types
    <3>5. QED
      BY <1>1, <1>2, <3>2, <3>3, <3>4 DEF QueueInv, Types
  <2>3. QED
    BY <2>1, <2>2
<1>7. RingInv'
  BY <1>1, <1>2, <1>3, <1>5, <1>6 DEF RingInv
<1>8. HeldInv'
  BY <1>1, <1>2 DEF QueueInv, HeldInv
<1>9. QED
  BY <1>2, <1>4, <1>7, <1>8 DEF QueueInv

(* doque: the first frame goes to netif.input, its slot stays in use.      *)
LEMMA InputKeeps ==
  ASSUME QueueInv, Input
  PROVE  /\ QueueInv' /\ InInput = 0 /\ InInput' = 1 /\ Used' = Used /\ Used > 0
         /\ passed' = Append(passed, Len(passed) + 1)
<1>1. InInput = 0 /\ InInput' = 1 /\ UNCHANGED <<ring, burst, received>>
      /\ inquestart # inqueend /\ pc' = "input"
  BY DEF Input, InInput
<1>2. /\ Used \in Nat /\ Done \in Nat /\ received = Done + Used /\ Used <= burst
      /\ burst \in Nat /\ received \in Nat /\ QueueLen \in Nat
      /\ inquestart \in 0..(QueueLen - 1)
      /\ inqueend = Along(inquestart, Used) /\ Len(passed) = Done
  BY <1>1, Counted, Sizes DEF QueueInv, RingInv, Types, Slots
<1>3. Used > 0
  BY <1>1, <1>2 DEF Along
<1>4. inque[inquestart] = Len(passed) + 1
  <2>1. inque[Along(inquestart, 0)] = Done + 0 + 1
    BY <1>2, <1>3 DEF QueueInv, RingInv
  <2>2. Along(inquestart, 0) = inquestart
    BY <1>2 DEF Along
  <2>3. QED
    BY <1>2, <2>1, <2>2
<1>5. passed' = Append(passed, Len(passed) + 1) /\ held' = held \cup {Len(passed) + 1}
  BY <1>4 DEF Input
<1>6. passed' \in Seq(Nat) /\ Len(passed') = Len(passed) + 1 /\ Len(passed) \in Nat
  BY <1>5 DEF QueueInv, Types
<1>7. Done' = Done /\ Used' = Used
  <2>1. Done' = Done
    BY <1>1, <1>2, <1>6 DEF Done
  <2>2. QED
    BY <1>1, <2>1 DEF Used
<1>8. Types'
  BY <1>1, <1>6 DEF QueueInv, Types, ring
<1>9. RingInv'
  <2>1. inqueend' = Along(inquestart', Used') /\ \A i \in 0..(Used' - 1) : inque'[Along(inquestart', i)] = Done' + i + 1
    BY <1>1, <1>7 DEF QueueInv, RingInv, ring, Along
  <2>2. InInput' <= Used' /\ Used' <= burst' /\ InInput' <= Len(passed')
    BY <1>1, <1>2, <1>3, <1>6, <1>7
  <2>3. QED
    BY <2>1, <2>2 DEF RingInv
<1>10. HeldInv'
  <2>1. IsFiniteSet(held) /\ Cardinality(held) <= MaxHeld /\ held \subseteq 1..Len(passed)
    BY <1>1, Sizes DEF QueueInv, HeldInv
  <2> DEFINE new == Len(passed) + 1
  <2> HIDE DEF new
  <2>2. IsFiniteSet(held \cup {new})
        /\ Cardinality(held \cup {new}) = IF new \in held THEN Cardinality(held) ELSE Cardinality(held) + 1
    BY <2>1, FS_AddElement
  <2>3. Cardinality(held) \in Nat
    BY <2>1, FS_CardinalityType
  <2>4. held' = held \cup {new}
    BY <1>5 DEF new
  <2>5. Cardinality(held') <= MaxHeld + InInput'
    BY <1>1, <2>1, <2>2, <2>3, <2>4, Sizes
  <2>6. held' \subseteq 1..Len(passed') /\ Len(passed') \in held'
    <3>1. \A k \in held : k \in 1..Len(passed) + 1
      BY <1>6, <2>1
    <3>2. new \in 1..Len(passed) + 1 /\ new = Len(passed')
      BY <1>6 DEF new
    <3>3. QED
      BY <1>6, <2>4, <3>1, <3>2
  <2>7. QED
    BY <2>2, <2>4, <2>5, <2>6 DEF HeldInv
<1>11. QED
  BY <1>1, <1>3, <1>5, <1>7, <1>8, <1>9, <1>10 DEF QueueInv

(* netif.input is through: its slot is free again.                         *)
LEMMA AdvanceKeeps ==
  ASSUME QueueInv, Advance
  PROVE  QueueInv' /\ InInput = 1 /\ InInput' = 0 /\ Used' = Used - 1
<1>1. /\ InInput = 1 /\ InInput' = 0 /\ UNCHANGED <<inque, inqueend, burst, received, passed>>
      /\ inquestart' = After(inquestart) /\ pc = "input" /\ pc' # "input"
  BY DEF Advance, Advanced, InInput
<1>2. Types /\ RingInv /\ HeldInv
  BY DEF QueueInv
<1>3. /\ Used \in Nat /\ Done \in Nat /\ received = Done + Used /\ received \in Nat
      /\ Len(passed) \in Nat /\ Len(passed) = Done + 1
  BY <1>1, <1>2, Counted DEF Types
<1>4. Used <= burst /\ 1 <= Used /\ inqueend = Along(inquestart, Used) /\ burst \in Nat
      /\ inquestart \in 0..(QueueLen - 1) /\ Used < QueueLen
  BY <1>1, <1>2, Counted DEF RingInv, Types, Slots
<1>5. Done' = Done + 1 /\ Used' = Used - 1
  <2>1. Done' = Done + 1
    BY <1>1, <1>3 DEF Done
  <2>2. QED
    BY <1>1, <1>3, <2>1 DEF Used
<1>6. Types'
  <2>1. inquestart' \in Slots
    BY <1>1, <1>4, Sizes DEF After, Slots
  <2>2. QED
    BY <1>1, <1>2, <2>1 DEF Types
<1>7. RingInv'
  <2>1. inqueend' = Along(inquestart', Used')
    BY <1>1, <1>3, <1>4, <1>5, Sizes DEF Along, After
  <2>2. ASSUME NEW i \in 0..(Used' - 1)
        PROVE  inque'[Along(inquestart', i)] = Done' + i + 1
    <3>1. i + 1 \in 0..(Used - 1) /\ i \in Nat
      BY <1>3, <1>5, <2>2
    <3>2. inque[Along(inquestart, i + 1)] = Done + (i + 1) + 1
      BY <1>2, <3>1 DEF RingInv
    <3>3. Along(inquestart, i + 1) = Along(inquestart', i)
      BY <1>1, <1>3, <1>4, <3>1, Sizes DEF Along, After
    <3>4. Done + (i + 1) + 1 = Done' + i + 1
      BY <1>3, <1>5, <3>1
    <3>5. QED
      BY <1>1, <3>2, <3>3, <3>4
  <2>3. InInput' <= Used' /\ Used' <= burst' /\ InInput' <= Len(passed')
    BY <1>1, <1>3, <1>4, <1>5
  <2>4. QED
    BY <2>1, <2>2, <2>3 DEF RingInv
<1>8. HeldInv'
  <2>1. inque[inquestart] = Len(passed)
    <3>1. inque[Along(inquestart, 0)] = Done + 0 + 1
      BY <1>2, <1>3, <1>4 DEF RingInv
    <3>2. Along(inquestart, 0) = inquestart
      BY <1>4, Sizes DEF Along
    <3>3. QED
      BY <1>3, <3>1, <3>2
  <2> DEFINE old == Len(passed)
  <2>2. IsFiniteSet(held) /\ Cardinality(held) <= MaxHeld + 1 /\ held \subseteq 1..Len(passed)
        /\ old \in held
    BY <1>1, <1>2 DEF HeldInv
  <2>3. held' = held \ {old} \/ (held' = held /\ Cardinality(held) <= MaxHeld)
    BY <2>1 DEF Advance
  <2> HIDE DEF old
  <2>4. CASE held' = held \ {old}
    <3>1. IsFiniteSet(held \ {old}) /\ Cardinality(held \ {old}) = Cardinality(held) - 1
      BY <2>2, FS_RemoveElement
    <3>2. Cardinality(held) \in Nat
      BY <2>2, FS_CardinalityType
    <3>3. IsFiniteSet(held') /\ Cardinality(held') <= MaxHeld + InInput'
      BY <1>1, <2>2, <2>4, <3>1, <3>2, Sizes
    <3>4. held' \subseteq 1..Len(passed')
      BY <1>1, <2>2, <2>4
    <3>5. QED
      BY <1>1, <3>3, <3>4 DEF HeldInv
  <2>5. CASE held' = held /\ Cardinality(held) <= MaxHeld
    <3>1. Cardinality(held') <= MaxHeld + InInput'
      BY <1>1, <2>5, Sizes
    <3>2. QED
      BY <1>1, <2>2, <2>5, <3>1 DEF HeldInv
  <2>6. QED
    BY <2>3, <2>4, <2>5
<1>9. QED
  BY <1>1, <1>5, <1>6, <1>7, <1>8 DEF QueueInv

(* A poll ends with an empty ring, and the next burst begins.              *)
LEMMA PollDoneKeeps ==
  ASSUME QueueInv, PollDone
  PROVE  QueueInv' /\ UNCHANGED <<InInput, Used>>
<1>1. /\ UNCHANGED <<ring, received, passed, held>> /\ burst' = 0 /\ inquestart = inqueend
      /\ pc = "doque" /\ pc' = "idle"
  BY DEF PollDone
<1>2. InInput = 0 /\ InInput' = 0 /\ Done' = Done /\ Used' = Used
  BY <1>1 DEF InInput, Done, Used
<1>3. Used = 0
  <2>1. Used \in Nat /\ Used < QueueLen /\ inquestart = Along(inquestart, Used)
        /\ inquestart \in 0..(QueueLen - 1)
    BY <1>1, Counted DEF QueueInv, RingInv, Types, Slots
  <2>2. QED
    BY <2>1, Sizes DEF Along
<1>4. Types'
  BY <1>1, Sizes DEF QueueInv, Types, ring
<1>5. RingInv'
  BY <1>1, <1>2, <1>3 DEF QueueInv, RingInv, ring, Along
<1>6. HeldInv'
  BY <1>1, <1>2 DEF QueueInv, HeldInv
<1>7. QED
  BY <1>2, <1>4, <1>5, <1>6 DEF QueueInv

(* The other steps.                                                        *)
LEMMA OthersKeep ==
  ASSUME QueueInv, NetUp \/ NetPoll \/ TimeoutsDone \/ Release \/ UNCHANGED vars
  PROVE  QueueInv' /\ UNCHANGED <<InInput, Used, ring, passed>>
<1>1. UNCHANGED <<ring, burst, received, passed>> /\ ((pc = "input") <=> (pc' = "input"))
  BY DEF NetUp, NetPoll, TimeoutsDone, Release, vars
<1>2. held' \subseteq held /\ (pc = "input" => held' = held)
  BY DEF NetUp, NetPoll, TimeoutsDone, Release, vars
<1>3. IsFiniteSet(held')
  BY <1>2, FS_Subset DEF QueueInv, HeldInv
<1>4. UNCHANGED <<InInput, Used>>
  BY <1>1 DEF InInput, Done, Used
<1>5. QED
  BY <1>1, <1>2, <1>3, <1>4, Elsewhere

LEMMA QueueFirst == Init => QueueInv
<1>1. SUFFICES ASSUME Init PROVE QueueInv
  OBVIOUS
<1>2. InInput = 0 /\ Len(passed) = 0 /\ Done = 0 /\ Used = 0
  <2>1. passed = <<>> /\ pc = "idle" /\ received = 0
    BY <1>1 DEF Init
  <2>2. InInput = 0 /\ Len(passed) = 0
    BY <2>1 DEF InInput
  <2>3. Done = 0
    BY <2>2 DEF Done
  <2>4. QED
    BY <2>1, <2>2, <2>3 DEF Used
<1>3. Types
  BY <1>1, Sizes DEF Init, Types, Slots, NoPbuf
<1>4. RingInv
  BY <1>1, <1>2, Sizes DEF Init, RingInv, Along
<1>5. HeldInv
  BY <1>1, <1>2, FS_EmptySet, Sizes DEF Init, HeldInv
<1>6. QED
  BY <1>3, <1>4, <1>5 DEF QueueInv

LEMMA QueueKeeps == QueueInv /\ [Next]_vars => QueueInv'
  BY NetRcvKeeps, InputKeeps, AdvanceKeeps, PollDoneKeeps, OthersKeep DEF Next, Timer, Doque

LEMMA QueueAlways == Spec => []QueueInv
  BY QueueFirst, QueueKeeps, PTL DEF Spec

(* PbufsAccounted: no entry of the ring is the NULL of a failed pbuf_alloc *)
(* and no pbuf is both there and with lwIP (bcm_ether.c, net_rcv, eninque  *)
(* and doque), under the two assumptions on bursts and on held pbufs.      *)
THEOREM PbufsKnown == Spec => []PbufsAccounted
<1>1. QueueInv => PbufsAccounted
  <2>1. SUFFICES ASSUME QueueInv PROVE PbufsAccounted
    OBVIOUS
  <2>2. Len(passed) \in Nat /\ InQueue \subseteq (Len(passed) + 1)..received
        /\ held \subseteq 1..Len(passed)
    BY <2>1, InQueueIs, Counted DEF QueueInv, HeldInv
  <2>3. QED
    BY <2>2 DEF PbufsAccounted, NoPbuf
<1>2. QED
  BY <1>1, QueueAlways, PTL

-----------------------------------------------------------------------------
(* The ring implements the queue of FrameQueue.                            *)

InLine ==
  /\ Count \in Nat /\ Count = Used - InInput
  /\ Queue = [i \in 1..Count |-> Len(passed) + i]

LEMMA LineNow == QueueInv => InLine
  BY QueueIs DEF QueueInv, InLine

LEMMA LineNext == QueueInv' => InLine'
  BY LineNow, PTL

(* Frames in line, from the one behind frame m.                            *)
LEMMA Line ==
  ASSUME NEW m \in Nat, NEW n \in Nat
  PROVE  /\ Append([i \in 1..n |-> m + i], m + n + 1) = [i \in 1..(n + 1) |-> m + i]
         /\ Len([i \in 1..n |-> m + i]) = n
  OBVIOUS

LEMMA LineTaken ==
  ASSUME NEW m \in Nat, NEW n \in Nat, n > 0
  PROVE  /\ [i \in 1..n |-> m + i] # <<>>
         /\ Head([i \in 1..n |-> m + i]) = m + 1
         /\ Tail([i \in 1..n |-> m + i]) = [i \in 1..(n - 1) |-> m + 1 + i]
<1> DEFINE s == [i \in 1..n |-> m + i]
<1>1. s \in Seq(Nat) /\ Len(s) = n /\ \A i \in 1..n : s[i] = m + i
  OBVIOUS
<1> DEFINE t == [i \in 1..(n - 1) |-> m + 1 + i]
<1>2. t \in Seq(Nat) /\ Len(t) = n - 1 /\ \A i \in 1..(n - 1) : t[i] = m + 1 + i
  OBVIOUS
<1> HIDE DEF s, t
<1>3. s # <<>> /\ Head(s) = m + 1
  BY <1>1
<1>4. /\ Tail(s) \in Seq(Nat) /\ Len(Tail(s)) = n - 1
      /\ \A i \in 1..(n - 1) : Tail(s)[i] = s[i + 1]
  BY <1>1, <1>3
<1>5. \A i \in 1..(n - 1) : Tail(s)[i] = t[i]
  BY <1>1, <1>2, <1>4
<1>6. Tail(s) = t
  BY <1>2, <1>4, <1>5, SeqEqual
<1>7. QED
  BY <1>3, <1>6 DEF s, t

(* Each step is a step of FrameQueue, or leaves its queue alone: net_rcv   *)
(* is Receive, the begin of a netif.input is Take.                         *)
LEMMA QueueSteps == QueueInv /\ [Next]_vars => [Abstract!Next]_<<Queue, passed>>
<1>1. SUFFICES ASSUME QueueInv, [Next]_vars PROVE [Abstract!Next]_<<Queue, passed>>
  OBVIOUS
<1>2. /\ Count \in Nat /\ Count = Used - InInput /\ Len(passed) \in Nat
      /\ Queue = [i \in 1..Count |-> Len(passed) + i]
  BY <1>1, QueueIs, Counted DEF QueueInv
<1>3. /\ Count' \in Nat /\ Count' = Used' - InInput'
      /\ Queue' = [i \in 1..Count' |-> Len(passed') + i]
  BY <1>1, QueueKeeps, LineNext DEF InLine
<1>4. InInput \in 0..1 /\ Used \in Nat
  BY <1>1, Counted DEF QueueInv
<1>5. CASE NetRcv
  <2>1. passed' = passed /\ Count' = Count + 1
    BY <1>1, <1>2, <1>3, <1>4, <1>5, NetRcvKeeps DEF NetRcv
  <2>2. Queue' = Append(Queue, Len(passed) + Len(Queue) + 1)
    BY <1>2, <1>3, <2>1, Line
  <2>3. QED
    BY <2>1, <2>2 DEF Abstract!Next, Abstract!Receive
<1>6. CASE Input
  <2>1. passed' = Append(passed, Len(passed) + 1) /\ Count' = Count - 1 /\ Count > 0
    BY <1>1, <1>2, <1>3, <1>4, <1>6, InputKeeps
  <2>2. Len(passed') = Len(passed) + 1
    BY <1>1, <2>1 DEF QueueInv, Types
  <2>3. Queue # <<>> /\ Head(Queue) = Len(passed) + 1 /\ Queue' = Tail(Queue)
    <3>1. Count' = Count - 1 /\ Len(passed') = Len(passed) + 1
          /\ Queue' = [i \in 1..(Count - 1) |-> Len(passed) + 1 + i]
      BY <1>3, <2>1, <2>2
    <3>2. QED
      BY <1>2, <2>1, <3>1, LineTaken
  <2>4. QED
    BY <2>1, <2>3 DEF Abstract!Next, Abstract!Take
<1>7. CASE Advance
  <2>1. passed' = passed /\ Count' = Count
    BY <1>1, <1>2, <1>3, <1>4, <1>7, AdvanceKeeps DEF Advance
  <2>2. QED
    BY <1>2, <1>3, <2>1
<1>8. CASE PollDone
  <2>1. passed' = passed /\ Count' = Count
    BY <1>1, <1>2, <1>3, <1>8, PollDoneKeeps DEF PollDone
  <2>2. QED
    BY <1>2, <1>3, <2>1
<1>9. CASE NetUp \/ NetPoll \/ TimeoutsDone \/ Release \/ UNCHANGED vars
  <2>1. passed' = passed /\ Count' = Count
    BY <1>1, <1>2, <1>3, <1>9, OthersKeep
  <2>2. QED
    BY <1>2, <1>3, <2>1
<1>10. QED
  BY <1>1, <1>5, <1>6, <1>7, <1>8, <1>9 DEF Next, Timer, Doque

(* The safety part of ImplementsFrameQueue: every frame given to net_rcv   *)
(* is passed to netif.input once and in order, although eninque also runs  *)
(* while doque is in netif.input.                                          *)
THEOREM RingIsQueue == Spec => Abstract!Init /\ [][Abstract!Next]_<<Queue, passed>>
<1>1. Init => Abstract!Init
  <2>1. SUFFICES ASSUME Init PROVE Abstract!Init
    OBVIOUS
  <2>2. passed = <<>> /\ pc = "idle" /\ received = 0
    BY <2>1 DEF Init
  <2>3. Len(passed) = 0 /\ InInput = 0
    BY <2>2 DEF InInput
  <2>4. Done = 0 /\ Used = 0
    <3>1. Done = 0
      BY <2>3 DEF Done
    <3>2. QED
      BY <2>2, <3>1 DEF Used
  <2>5. Count = 0 /\ Queue = [i \in 1..Count |-> Len(passed) + i]
    BY <2>1, <2>3, <2>4, QueueFirst, QueueIs DEF QueueInv
  <2>6. Queue = <<>>
    BY <2>5
  <2>7. QED
    BY <2>2, <2>6 DEF Abstract!Init
<1>2. QED
  BY <1>1, QueueSteps, QueueAlways, PTL DEF Spec
=============================================================================
