------------------------------ MODULE BcmEther ------------------------------
(***************************************************************************)
(* The input queue between the MAC driver and lwIP (bcm_ether.c): net_rcv  *)
(* copies a frame to a pbuf and eninque stores it in a ring of INQEULEN    *)
(* pointers; net_poll, on every timer tick, lets doque pass the ring's     *)
(* content to netif.input.                                                 *)
(*                                                                         *)
(* In the interrupt context nothing preempts eninque, but it also runs     *)
(* nested in netif.input, which transmits and thereby polls the MAC.       *)
(* BcmEtherClient adds a foreground that runs it too.                      *)
(*                                                                         *)
(* eninque has no test for a full ring and net_rcv none for a failed       *)
(* pbuf_alloc.  Two assumptions stand in for them: between two polls no     *)
(* more than MaxBurst frames arrive, and lwIP keeps at most MaxHeld pbufs.  *)
(***************************************************************************)
EXTENDS Integers, Sequences, FiniteSets

CONSTANTS
  QueueLen,  \* INQEULEN
  PoolSize,  \* PBUF_POOL_SIZE
  MaxBurst,  \* assumption: frames received between two polls
  MaxHeld,   \* assumption: pbufs lwIP keeps (reassembly, TCP out of order)
  MaxFrames  \* bound: frames that arrive

ASSUME SizesAssumption ==
  /\ QueueLen \in Nat /\ PoolSize \in Nat /\ MaxBurst \in Nat /\ MaxHeld \in Nat
  /\ MaxFrames \in Nat
  /\ MaxBurst < QueueLen /\ MaxBurst + MaxHeld <= PoolSize

VARIABLES
  inque, inquestart, inqueend,
  netstat,   \* net_init is through
  pc,        \* where the interrupt is
  burst,     \* frames since the last poll ended
  received, passed,  \* frames given to net_rcv, and passed to netif.input
  held       \* pbufs that lwIP has not freed

ring == <<inque, inquestart, inqueend>>
vars == <<ring, netstat, pc, burst, received, passed, held>>

Slots == 0..(QueueLen - 1)
NoPbuf == 0

Init ==
  /\ inque = [s \in Slots |-> NoPbuf] /\ inquestart = 0 /\ inqueend = 0
  /\ netstat = 0
  /\ pc = "idle"
  /\ burst = 0 /\ received = 0 /\ passed = <<>> /\ held = {}

After(s) == IF s + 1 = QueueLen THEN 0 ELSE s + 1

\* The slots from inquestart to inqueend; the first is doque's while it is in netif.input.
First == IF pc = "input" THEN After(inquestart) ELSE inquestart
Count == (inqueend - First + QueueLen) % QueueLen
Queue == [i \in 1..Count |-> inque[(First + i - 1) % QueueLen]]
InQueue == {Queue[i] : i \in DOMAIN Queue}

-----------------------------------------------------------------------------
\* pbuf_alloc: NULL when the pool is empty.
Pbuf == IF Cardinality((InQueue \cup held) \ {NoPbuf}) < PoolSize THEN received + 1 ELSE NoPbuf

Arrival ==
  /\ received < MaxFrames /\ burst < MaxBurst
  /\ received' = received + 1 /\ burst' = burst + 1

(* net_rcv and eninque: from the MAC's handler, or nested in what lwIP      *)
(* sends from the timer's.                                                 *)
NetRcv ==
  /\ pc \in {"idle", "timeouts", "input"}
  /\ Arrival
  /\ inque' = [inque EXCEPT ![inqueend] = Pbuf]
  /\ inqueend' = After(inqueend)
  /\ UNCHANGED <<inquestart, netstat, pc, passed, held>>

(* The end of net_init: from here on net_poll looks at the queue.          *)
NetUp ==
  /\ netstat = 0 /\ netstat' = 1
  /\ UNCHANGED <<ring, pc, burst, received, passed, held>>

(* timer_isr calls net_poll.                                               *)
NetPoll ==
  /\ netstat = 1 /\ pc = "idle"
  /\ pc' = "timeouts"
  /\ UNCHANGED <<ring, netstat, burst, received, passed, held>>

(* sys_check_timeouts, in which lwIP may send, is through.                 *)
TimeoutsDone ==
  /\ pc = "timeouts"
  /\ pc' = "doque"
  /\ UNCHANGED <<ring, netstat, burst, received, passed, held>>

(* doque: pass on the pbuf under inquestart.                               *)
Input ==
  /\ pc = "doque" /\ inquestart # inqueend
  /\ passed' = Append(passed, inque[inquestart])
  /\ held' = held \cup {inque[inquestart]}
  /\ pc' = "input"
  /\ UNCHANGED <<ring, netstat, burst, received>>

\* Definitions whose names end in _Mut are faulty variants of the definition that
\* follows them; no other definition uses them.  They show that the properties bite.
Stays_Mut == inquestart    \* passes the frame on again
Advanced_Mut == inqueend   \* drops what came in while netif.input ran
Advanced == After(inquestart)
(* netif.input is through: an error frees the pbuf here, otherwise lwIP has *)
(* freed it or keeps it.                                                   *)
Advance ==
  /\ pc = "input"
  /\ inquestart' = Advanced
  /\ \/ held' = held \ {inque[inquestart]}
     \/ Cardinality(held) <= MaxHeld /\ UNCHANGED held
  /\ pc' = "doque"
  /\ UNCHANGED <<inque, inqueend, netstat, burst, received, passed>>

PollDone ==
  /\ pc = "doque" /\ inquestart = inqueend
  /\ pc' = "idle" /\ burst' = 0
  /\ UNCHANGED <<ring, netstat, received, passed, held>>

(* lwIP frees a pbuf it kept (external).                                   *)
Release ==
  /\ \E p \in held : held' = held \ {p}
  /\ pc # "input"
  /\ UNCHANGED <<ring, netstat, pc, burst, received, passed>>

Doque == TimeoutsDone \/ Input \/ Advance \/ PollDone
Timer == NetUp \/ NetPoll \/ Doque \/ Release
Next == NetRcv \/ Timer
Spec == Init /\ [][Next]_vars
\* net_init ends, the timer ticks and its handler runs.
LiveSpec == Spec /\ WF_vars(NetUp) /\ WF_vars(NetPoll) /\ WF_vars(Doque)

-----------------------------------------------------------------------------
(* Every frame is passed on once, in the order of arrival, and in the end   *)
(* none is left in the queue, although eninque also runs while doque is in  *)
(* netif.input and the two share the ring without a lock.                  *)
Abstract == INSTANCE FrameQueue WITH queue <- Queue, taken <- passed
ImplementsFrameQueue == Abstract!Spec

(* With the two assumptions no queue entry is the NULL of a failed          *)
(* pbuf_alloc, and no pbuf is both in the queue and with lwIP.             *)
PbufsAccounted ==
  /\ NoPbuf \notin InQueue /\ NoPbuf \notin held
  /\ InQueue \cap held = {}
=============================================================================
