------------------------------ MODULE LibQueue ------------------------------
(***************************************************************************)
(* lib_queue.c: a ring of elements linked both ways through a queue block. *)
(* Its callers (SbMac's lists, the stack of try blocks) enqueue what is    *)
(* not on a queue and dequeue what is; a callback of q_map may take out    *)
(* the element it is given.                                                *)
(***************************************************************************)
EXTENDS Integers, Sequences, FiniteSets

CONSTANTS Items, NULL, QB  \* the elements; no element; the queue block

QueueAssumption ==  \* assumed in Parts
  NULL \notin Items /\ QB \notin Items /\ QB # NULL /\ IsFiniteSet(Items)

VARIABLES
  q_next, q_prev,  \* q_next and q_prev of the block and of every element
  on,              \* the elements that the callers have put on the queue
  qe,              \* q_map's element, QB when it is over
  res              \* what the last call returned

vars == <<q_next, q_prev, on, qe, res>>

Init ==
  /\ q_next = [i \in Items \cup {QB} |-> QB] /\ q_prev = q_next  \* q_init
  /\ on = {} /\ qe = QB /\ res = NULL

-----------------------------------------------------------------------------
\* Definitions whose names end in _Mut are faulty variants of the definition that
\* follows them; no other definition uses them.  They show that the properties bite.
Tail_Mut(i) == [q_next EXCEPT ![QB] = i, ![i] = QB]  \* the last element keeps its q_next
(* q_enqueue links behind q_prev, which may be the block itself.           *)
Tail1(i) == [q_next EXCEPT ![q_prev[QB]] = i, ![i] = QB]
Enqueue(i) ==
  /\ qe = QB /\ i \notin on
  /\ q_next' = Tail1(i)
  /\ q_prev' = [q_prev EXCEPT ![i] = q_prev[QB], ![QB] = i]
  /\ on' = on \cup {i} /\ res' = NULL /\ UNCHANGED qe

(* q_dequeue: the links of the neighbours, not those of the element.       *)
Unlink(i) ==
  /\ q_next' = [q_next EXCEPT ![q_prev[i]] = q_next[i]]
  /\ q_prev' = [q_prev EXCEPT ![q_next[i]] = q_prev[i]]
  /\ on' = on \ {i}
Dequeue(i) == qe = QB /\ i \in on /\ Unlink(i) /\ res' = NULL /\ UNCHANGED qe

Deqnext ==
  /\ qe = QB /\ UNCHANGED qe
  /\ IF q_next[QB] = QB THEN res' = NULL /\ UNCHANGED <<q_next, q_prev, on>>
                        ELSE res' = q_next[QB] /\ Unlink(q_next[QB])

(* The walks along q_next, k links from the block.                         *)
At(k) == LET at[j \in 0..Cardinality(Items) + 1] == IF j = 0 THEN QB ELSE q_next[at[j - 1]] IN at[k]
Walk(S) == CHOOSE k \in S : \A j \in S : k <= j
Count ==  \* q_count
  /\ qe = QB /\ res' = Walk({k \in 0..Cardinality(Items) : At(k + 1) = QB})
  /\ UNCHANGED <<q_next, q_prev, on, qe>>
Find(i) ==  \* q_find: the element or the block, whichever comes first
  LET k == Walk({k \in 1..Cardinality(Items) + 1 : At(k) \in {i, QB}}) IN
  /\ qe = QB /\ res' = IF At(k) = i THEN k ELSE 0
  /\ UNCHANGED <<q_next, q_prev, on, qe>>

(* q_map reads the link before it calls.                                   *)
Map ==
  /\ qe = QB /\ qe' = q_next[QB] /\ res' = NULL
  /\ UNCHANGED <<q_next, q_prev, on>>
Visit ==
  /\ qe # QB /\ res' = qe
  /\ Unlink(qe) \/ UNCHANGED <<q_next, q_prev, on>>
  /\ qe' \in {q_next[qe], QB}  \* it ends when the callback returns nonzero

Next ==
  \/ \E i \in Items : Enqueue(i) \/ Dequeue(i) \/ Find(i)
  \/ Deqnext \/ Count \/ Map \/ Visit
Spec == Init /\ [][Next]_vars

-----------------------------------------------------------------------------
TypeOK ==
  /\ q_next \in [Items \cup {QB} -> Items \cup {QB}] /\ q_prev \in [Items \cup {QB} -> Items \cup {QB}]
  /\ on \subseteq Items /\ qe \in Items \cup {QB}

Along(i) ==  \* the elements from i to the end
  LET at[j \in 0..Cardinality(Items)] == IF j = 0 THEN i ELSE IF at[j - 1] = QB THEN QB ELSE q_next[at[j - 1]]
      len == Cardinality({j \in 0..Cardinality(Items) - 1 : at[j] # QB})
  IN [j \in 1..len |-> at[j - 1]]
Fifo == INSTANCE SeqQueue WITH queue <- Along(q_next[QB]), result <- res, walk <- Along(qe)

(* The links implement a queue: elements leave in the order in which they  *)
(* came, whichever are taken out in between, q_count and q_find tell the   *)
(* truth, and q_map visits every element once, also one that its callback  *)
(* removes.                                                                *)
IsFifo == Fifo!Spec
=============================================================================
