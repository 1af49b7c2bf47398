----------------------------- MODULE FifoQueue -----------------------------
(***************************************************************************)
(* What a bounded queue promises: elements leave in the order in which     *)
(* they entered, each exactly once, and at most `bound' of them are        *)
(* inside.  Both queues of the repository, the lock-free CasQueue and the  *)
(* sequential SnailQueue, are shown to implement it.                       *)
(***************************************************************************)
EXTENDS Integers, Sequences

CONSTANT Items

VARIABLES
  items,  \* the elements inside, oldest first
  taken,  \* history: every element that has left, oldest first
  bound   \* the number of elements that fit, fixed when the queue is made

vars == <<items, taken, bound>>

Init == items = <<>> /\ taken = <<>> /\ bound \in Int

Enqueue(v) ==
  /\ Len(items) < bound
  /\ items' = Append(items, v)
  /\ UNCHANGED <<taken, bound>>

Dequeue ==
  /\ items # <<>>
  /\ taken' = Append(taken, Head(items))
  /\ items' = Tail(items)
  /\ UNCHANGED bound

Next == Dequeue \/ \E v \in Items : Enqueue(v)

Spec == Init /\ [][Next]_vars

=============================================================================
