------------------------------ MODULE SeqQueue ------------------------------
(***************************************************************************)
(* What lib_queue.c promises: a first-in first-out queue, elements of      *)
(* which can be taken out anywhere, and a walk over it.                    *)
(***************************************************************************)
EXTENDS Integers, Sequences

CONSTANTS Items, NULL
VARIABLES
  queue,   \* the elements in order
  result,  \* of the call before: an element, a number or NULL
  walk     \* the elements that q_map has still to visit

Pos(s, i) == IF \E k \in 1..Len(s) : s[k] = i THEN CHOOSE k \in 1..Len(s) : s[k] = i ELSE 0
Without(s, i) ==
  LET k == Pos(s, i) IN IF k = 0 THEN s ELSE SubSeq(s, 1, k - 1) \o SubSeq(s, k + 1, Len(s))

Init == queue = <<>> /\ result = NULL /\ walk = <<>>
Enqueue == \E i \in Items : /\ Pos(queue, i) = 0 /\ queue' = Append(queue, i)
                            /\ result' = NULL /\ UNCHANGED walk
Dequeue == \E i \in Items : /\ Pos(queue, i) # 0 /\ queue' = Without(queue, i)
                            /\ result' = NULL /\ UNCHANGED walk
Deqnext == /\ result' = (IF queue = <<>> THEN NULL ELSE Head(queue))
           /\ queue' = (IF queue = <<>> THEN <<>> ELSE Tail(queue)) /\ UNCHANGED walk
Count == result' = Len(queue) /\ UNCHANGED <<queue, walk>>
Find == \E i \in Items : result' = Pos(queue, i) /\ UNCHANGED <<queue, walk>>
Map == walk' = queue /\ result' = NULL /\ UNCHANGED queue
Visit == /\ walk # <<>> /\ walk' \in {Tail(walk), <<>>} /\ result' = Head(walk)
         /\ queue' \in {queue, Without(queue, Head(walk))}
Next == IF walk = <<>> THEN Enqueue \/ Dequeue \/ Deqnext \/ Count \/ Find \/ Map ELSE Visit
vars == <<queue, result, walk>>
Spec == Init /\ [][Next]_vars
=============================================================================
