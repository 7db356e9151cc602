----------------------------- MODULE FrameQueue -----------------------------
(***************************************************************************)
(* What the input queue of bcm_ether.c promises: the frames net_rcv was    *)
(* given are passed to the stack once each, in order, and none is left.    *)
(***************************************************************************)
EXTENDS Naturals, Sequences

VARIABLES
  queue,  \* frames received and not yet passed on
  taken   \* frames passed to netif.input

Init == queue = <<>> /\ taken = <<>>

\* Frames are numbered as they arrive.
Receive ==
  /\ queue' = Append(queue, Len(taken) + Len(queue) + 1)
  /\ UNCHANGED taken

Take ==
  /\ queue # <<>>
  /\ taken' = Append(taken, Head(queue)) /\ queue' = Tail(queue)

Next == Receive \/ Take
Spec == Init /\ [][Next]_<<queue, taken>> /\ WF_<<queue, taken>>(Take)
=============================================================================
