------------------------------ MODULE BoundedFifo ------------------------------
(***************************************************************************)
(* What the ring of sync_mpmc.c promises its users: a first-in first-out    *)
(* queue of at most Capacity items, in which nothing is lost, duplicated or *)
(* invented.  A new call of the benchmark begins on an empty queue.         *)
(***************************************************************************)
EXTENDS Naturals, Sequences

CONSTANTS Items, Capacity

VARIABLES
  queue,      (* the items inside, oldest first                             *)
  delivered   (* the items that left it in this call                        *)

vars == << queue, delivered >>

Init == queue = << >> /\ delivered = << >>

Enqueue(item) ==
  /\ Len(queue) < Capacity
  /\ queue' = Append(queue, item)
  /\ UNCHANGED delivered

Dequeue ==
  /\ queue # << >>
  /\ delivered' = Append(delivered, Head(queue))
  /\ queue' = Tail(queue)

NewCall ==
  /\ queue = << >>
  /\ delivered' = << >>
  /\ UNCHANGED queue

Next == Dequeue \/ NewCall \/ \E item \in Items : Enqueue(item)

Spec == Init /\ [][Next]_vars
=============================================================================
