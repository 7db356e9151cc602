--------------------------- MODULE BcmEtherClient ---------------------------
(***************************************************************************)
(* The input queue when the script itself transmits: cfe_output polls the  *)
(* MAC, so that net_rcv and eninque also run in the foreground, in a       *)
(* critical section that masks the MAC's interrupt and not the timer's.    *)
(***************************************************************************)
EXTENDS BcmEther

VARIABLES
  fgpc,  \* "idle", or "advance" between the two stores of eninque
  slot   \* the inqueend it has read

cvars == <<vars, fgpc, slot>>

ClientInit == Init /\ fgpc = "idle" /\ slot = 0

(* eninque in the foreground: the pbuf is stored first.                    *)
FgStore ==
  /\ fgpc = "idle" /\ pc = "idle" /\ netstat = 1
  /\ Arrival
  /\ inque' = [inque EXCEPT ![inqueend] = Pbuf] /\ slot' = inqueend
  /\ fgpc' = "advance"
  /\ UNCHANGED <<inquestart, inqueend, netstat, pc, passed, held>>

(* Then inqueend moves on from the value read before.                      *)
FgAdvance ==
  /\ fgpc = "advance" /\ pc = "idle"
  /\ inqueend' = After(slot)
  /\ fgpc' = "idle"
  /\ UNCHANGED <<inque, inquestart, netstat, pc, slot, burst, received, passed, held>>

\* The critical section keeps the MAC's handler out, not the timer's.
Interrupt ==
  /\ Timer \/ (NetRcv /\ (pc = "idle" => fgpc = "idle"))
  /\ UNCHANGED <<fgpc, slot>>

ClientNext == FgStore \/ FgAdvance \/ Interrupt
ClientSpec == ClientInit /\ [][ClientNext]_cvars

-----------------------------------------------------------------------------
(* No frame given to net_rcv vanishes: it is in the queue, about to be, or  *)
(* was passed on.  bcm4401_rx_callback calls net_rcv between CS_ENTER and   *)
(* CS_EXIT, the "Entry to and exit from critical sections (currently        *)
(* relative to interrupts only, not SMP)" (dev_sb_mac.c:271).              *)
NoFrameLost ==
  \A f \in 1..received :
    \/ f \in InQueue
    \/ fgpc = "advance" /\ inque[slot] = f
    \/ \E i \in DOMAIN passed : passed[i] = f
=============================================================================
