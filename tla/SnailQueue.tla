----------------------------- MODULE SnailQueue -----------------------------
(***************************************************************************)
(* The sequential ring of common/snail_queue/snail_queue.go.  The queue is *)
(* documented as goroutine unsafe, so one goroutine makes all the calls;   *)
(* what it may do is call the queue again, any number of times, from the   *)
(* callback of a traversal, since a callback is a closure.  A traversal    *)
(* that a callback begins is not followed: it changes nothing itself, and  *)
(* what its callback does counts as done by the outer one.                 *)
(***************************************************************************)
EXTENDS Integers, Sequences

CONSTANTS
  Values,    \* the objects that are enqueued
  Width,     \* 2^16 in the code: head, tail, size, capacity are uint16
  Default,   \* 256 in the code: the capacity when none is asked for
  Requests,  \* the capacities that CreateSnailQueue is asked for
  Limits,    \* the limits that traversals are given
  MaxTaken   \* bound: the number of elements dequeued

ASSUME SnailQueueAssumption ==
  /\ Width \in Nat /\ Width >= 3
  /\ Default \in 1..(Width - 2)
  /\ Requests \subseteq 0..(Width - 1)
  /\ Limits \subseteq 0..(Width - 1)
  /\ MaxTaken \in Nat

VARIABLES
  status,    \* "nil": the pointer is nil; "live"; "panic": the program died
  head, tail, size, capacity, elements,  \* the fields of SnailQueue
  requested, \* history: how many elements the queue was made for
  mode,      \* "idle", or the traversal that is running: "fwd" or "rev"
  i,         \* its index: i of Traversal, tail_idx of ReverseTraversal
  limit,     \* its limit
  curr_size, \* the local of ReverseTraversal
  seen,      \* the elements its callback has been given
  start,     \* history: the content of the queue when it began
  asked,     \* history: the limit it was called with
  added,     \* history: the elements its callback has enqueued
  taken      \* history: the elements Dequeue returned

fields == <<head, tail, size, capacity, elements, taken>>
made   == <<status, requested>>
loop   == <<mode, i, limit, curr_size, seen, start, asked>>
walk   == <<loop, added>>
vars   == <<made, fields, walk>>

(* What the slots from head to tail hold, oldest first.                    *)
contents == [k \in 1..size |-> elements[(head + (k - 1)) % capacity]]

IsEmpty == head = tail

IsFull == ((tail + 1) % Width) % capacity = head

(* make([]interface{}, n) holds nil in every slot.                         *)
nil == "nil"

(* Variant with a fault: no slot is added to tell a full ring from an      *)
(* empty one.                                                              *)
CreateSnailQueueTight(c) ==
  /\ requested = IF c = 0 THEN Default ELSE c
  /\ capacity = requested
  /\ elements = [s \in 0..(capacity - 1) |-> nil]

(* One slot more than asked for; the sum is a uint16.                      *)
CreateSnailQueue(c) ==
  /\ requested = IF c = 0 THEN Default ELSE c
  /\ capacity = (requested + 1) % Width
  /\ elements = [s \in 0..(capacity - 1) |-> nil]

(* A queue that was created, or a nil pointer to one.                      *)
Init ==
  /\ \/ status = "live" /\ \E c \in Requests : CreateSnailQueue(c)
     \/ status = "nil" /\ requested = 0 /\ capacity = 0 /\ elements = <<>>
  /\ head = 0 /\ tail = 0 /\ size = 0
  /\ mode = "idle" /\ i = 0 /\ limit = 0 /\ curr_size = 0
  /\ seen = <<>> /\ start = <<>> /\ asked = 0 /\ added = <<>>
  /\ taken = <<>>

-----------------------------------------------------------------------------
(* Variant with a fault: size is left to the caller.                       *)
PutUncounted(v) ==
  IF IsFull
  THEN UNCHANGED fields
  ELSE /\ elements' = [elements EXCEPT ![tail] = v]
       /\ tail' = ((tail + 1) % Width) % capacity
       /\ UNCHANGED <<head, size, capacity, taken>>

(* Variant with a fault: on a full ring the oldest element makes room.     *)
PutOverwriting(v) ==
  /\ elements' = [elements EXCEPT ![tail] = v]
  /\ tail' = ((tail + 1) % Width) % capacity
  /\ IF IsFull
     THEN head' = ((head + 1) % Width) % capacity /\ size' = size
     ELSE head' = head /\ size' = (size + 1) % Width
  /\ UNCHANGED <<capacity, taken>>

(* What Enqueue does to a queue whose capacity is not 0.                   *)
Put(v) ==
  IF IsFull
  THEN UNCHANGED fields
  ELSE /\ elements' = [elements EXCEPT ![tail] = v]
       /\ tail' = ((tail + 1) % Width) % capacity
       /\ size' = (size + 1) % Width
       /\ UNCHANGED <<head, capacity, taken>>

(* What Dequeue does.                                                      *)
Get ==
  IF IsEmpty
  THEN UNCHANGED fields
  ELSE /\ Len(taken) < MaxTaken
       /\ taken' = Append(taken, elements[head])
       /\ head' = ((head + 1) % Width) % capacity
       /\ size' = (size - 1) % Width
       /\ UNCHANGED <<tail, capacity, elements>>

(* The queue is called between traversals, or by the callback that was     *)
(* given the last of the elements seen: cb(ele).                           *)
MayCall == mode = "idle" \/ seen # <<>>

Enqueue(v) ==
  /\ status = "live" /\ MayCall /\ capacity # 0
  /\ Put(v)
  /\ added' = IF mode = "idle" \/ IsFull THEN added ELSE Append(added, v)
  /\ UNCHANGED <<made, loop>>

(* IsFull divides by the capacity: with 0 the program panics.              *)
EnqueueDivide ==
  /\ status = "live" /\ mode = "idle" /\ capacity = 0
  /\ status' = "panic"
  /\ UNCHANGED <<requested, fields, walk>>

Dequeue ==
  /\ status = "live" /\ MayCall
  /\ Get
  /\ UNCHANGED <<made, walk>>

-----------------------------------------------------------------------------
Limited(l) == IF l = 0 THEN Width - 1 ELSE l

(* Variant with a fault: the walk begins behind the oldest element.        *)
TraversalSecond(l) ==
  /\ status = "live" /\ mode = "idle" /\ capacity # 0
  /\ mode' = "fwd" /\ i' = (head + 1) % capacity /\ limit' = Limited(l)
  /\ seen' = <<>> /\ start' = contents /\ asked' = l /\ added' = <<>>
  /\ UNCHANGED <<made, fields, curr_size>>

Traversal(l) ==
  /\ status = "live" /\ mode = "idle"
  /\ mode' = "fwd" /\ i' = head /\ limit' = Limited(l)
  /\ seen' = <<>> /\ start' = contents /\ asked' = l /\ added' = <<>>
  /\ UNCHANGED <<made, fields, curr_size>>

(* The loop reads queue.tail anew on every turn; i, which is its own, is   *)
(* advanced here before the callback's calls.                              *)
TraversalStep ==
  /\ mode = "fwd" /\ i # tail /\ limit # 0
  /\ limit' = limit - 1
  /\ seen' = Append(seen, elements[i])
  /\ i' = ((i + 1) % Width) % capacity
  /\ UNCHANGED <<made, fields, mode, curr_size, start, asked, added>>

TraversalEnd ==
  /\ mode = "fwd" /\ (i = tail \/ limit = 0)
  /\ mode' = "idle"
  /\ UNCHANGED <<made, fields, i, limit, curr_size, seen, start, asked, added>>

(* Here tail and size are read once, before the loop.                      *)
ReverseTraversal(l) ==
  /\ status = "live" /\ mode = "idle"
  /\ mode' = "rev" /\ i' = tail /\ limit' = Limited(l) /\ curr_size' = size
  /\ seen' = <<>> /\ start' = contents /\ asked' = l /\ added' = <<>>
  /\ UNCHANGED <<made, fields>>

(* ReverseTraversal, unlike the others, does not test for a nil queue.     *)
ReverseTraversalNil ==
  /\ status = "nil"
  /\ status' = "panic"
  /\ UNCHANGED <<requested, fields, walk>>

(* Variant with a fault: a negative index is taken as -1.                  *)
ReverseStepFlat ==
  /\ mode = "rev" /\ curr_size # 0 /\ limit # 0
  /\ limit' = limit - 1
  /\ i' = i - 1
  /\ seen' = Append(seen, elements[IF i - 1 < 0 THEN capacity - 1 ELSE i - 1])
  /\ curr_size' = curr_size - 1
  /\ UNCHANGED <<made, fields, mode, start, asked, added>>

(* tail_idx is an int and goes below 0 once the walk passes slot 0.        *)
ReverseStep ==
  /\ mode = "rev" /\ curr_size # 0 /\ limit # 0
  /\ limit' = limit - 1
  /\ i' = i - 1
  /\ seen' = Append(seen, elements[IF i - 1 < 0 THEN capacity + (i - 1) ELSE i - 1])
  /\ curr_size' = curr_size - 1
  /\ UNCHANGED <<made, fields, mode, start, asked, added>>

ReverseEnd ==
  /\ mode = "rev" /\ (curr_size = 0 \/ limit = 0)
  /\ mode' = "idle"
  /\ UNCHANGED <<made, fields, i, limit, curr_size, seen, start, asked, added>>

-----------------------------------------------------------------------------
Next ==
  \/ \E v \in Values : Enqueue(v)
  \/ EnqueueDivide
  \/ Dequeue
  \/ \E l \in Limits : Traversal(l) \/ ReverseTraversal(l)
  \/ TraversalStep \/ TraversalEnd
  \/ ReverseTraversalNil \/ ReverseStep \/ ReverseEnd

Spec == Init /\ [][Next]_vars

-----------------------------------------------------------------------------
(* The fields keep the types and ranges the struct SnailQueue relies on.   *)
TypeOK ==
  /\ status \in {"nil", "live", "panic"}
  /\ head \in 0..(Width - 1) /\ tail \in 0..(Width - 1)
  /\ size \in 0..(Width - 1) /\ capacity \in 0..(Width - 1)
  /\ requested \in 0..(Width - 1)
  /\ elements \in [0..(capacity - 1) -> Values \cup {nil}]
  /\ taken \in Seq(Values)
  /\ mode \in {"idle", "fwd", "rev"}
  /\ limit \in 0..(Width - 1) /\ curr_size \in 0..(Width - 1) /\ asked \in 0..(Width - 1)
  /\ i \in Int /\ seen \in Seq(Values \cup {nil}) /\ start \in Seq(Values)
  /\ added \in Seq(Values)

(***************************************************************************)
(* The two ways the code counts its elements agree: size, which only       *)
(* ReverseTraversal reads, and the distance from head to tail, by which    *)
(* IsEmpty, IsFull and Traversal go (snail_queue.go:30-35, 49, 67, 83).    *)
(***************************************************************************)
SizeIsDistance ==
  capacity # 0 => /\ tail = (head + size) % capacity
                  /\ size < capacity
                  /\ head < capacity

(***************************************************************************)
(* Enqueue fails exactly when the queue holds the number of elements that  *)
(* CreateSnailQueue was asked for, or 256 by default (14, 20, 35, 38).     *)
(***************************************************************************)
FullAtCapacity == capacity # 0 => (IsFull <=> size = requested)

(* The queue as an abstract queue.                                         *)
Abs == INSTANCE FifoQueue WITH
  Items <- Values, items <- contents, taken <- taken, bound <- requested

(***************************************************************************)
(* Enqueue and Dequeue implement a bounded FIFO queue with the capacity    *)
(* that was asked for, also when a callback of a traversal calls them.     *)
(***************************************************************************)
ImplementsFifo == Abs!Spec

Reversed(s) == [k \in 1..Len(s) |-> s[Len(s) + 1 - k]]

(* As much of s as a traversal with limit l gives its callback.            *)
UpTo(l, s) == IF Limited(l) > Len(s) THEN s ELSE SubSeq(s, 1, Limited(l))

(* Of the elements Traversal found and was given, those it has yet to see. *)
Left == Len(start) + Len(added) - Len(seen)

(* Its callback has enqueued so much, into the slots of elements it had    *)
(* dequeued unseen, that the tail has come round to the index: the loop    *)
(* takes that for the end of the queue.                                    *)
Lapped == capacity # 0 /\ Left >= capacity

(***************************************************************************)
(* Traversal gives its callback the elements of the queue, `first in first *)
(* access' (73), and after them those the callback itself enqueues, if the *)
(* tail does not come round to its index; an element that the callback     *)
(* dequeues early it is given all the same.                                *)
(* ReverseTraversal gives it the elements the queue held at the call,      *)
(* `first in last access' (93), also when the callback dequeues some of    *)
(* them; a callback that enqueues may write over those still to come.      *)
(* Both go on to the end `when the limit is 0' (74), which no queue        *)
(* reaches, only a callback that keeps adding; and otherwise as far as the *)
(* limit allows.                                                           *)
(***************************************************************************)
TraversalComplete ==
  [][/\ (mode = "fwd" /\ mode' = "idle" /\ ~Lapped) => seen = UpTo(asked, start \o added)
     /\ (mode = "rev" /\ mode' = "idle" /\ added = <<>>) =>
          seen = UpTo(asked, Reversed(start))]_vars

(* How many elements the callback has dequeued.                            *)
Gone == Len(start) + Len(added) - size

(***************************************************************************)
(* As long as its callback has not dequeued more elements than it was      *)
(* given, however it mixes Enqueue and Dequeue, Traversal hands out only   *)
(* slots between head and tail: it reads queue.tail anew on each turn.     *)
(***************************************************************************)
VisitsQueued ==
  (mode = "fwd" /\ i # tail /\ Gone <= Len(seen)) => (i - head) % capacity < size

(* Every slot from head to tail holds an object that was enqueued.         *)
SlotsHold == \A k \in 0..(size - 1) : elements[(head + k) % capacity] \in Values

(* A queue without a ring stays as it was made.                            *)
RingInv ==
  /\ capacity # 0 => capacity = requested + 1
  /\ capacity = 0 => head = 0 /\ tail = 0 /\ size = 0

(* The index of a traversal stays in the ring: backward no more than one   *)
(* turn below the tail.                                                    *)
WalkInv ==
  /\ (mode = "fwd" /\ capacity = 0) => i = tail
  /\ (mode = "fwd" /\ capacity # 0) => i \in 0..(capacity - 1)
  /\ (mode = "rev" /\ capacity = 0) => curr_size = 0
  /\ (mode = "rev" /\ capacity # 0) => i < capacity /\ i - curr_size > -capacity

(* During a Traversal the tail is as far from the index as there are       *)
(* elements yet to see, queued or dequeued, modulo the ring; until they    *)
(* fill it, their slots hold them and those seen were the ones before.     *)
ForwardInv ==
  mode = "fwd" =>
    LET all == start \o added
    IN  /\ Left >= 0
        /\ capacity # 0 => tail = (i + Left) % capacity
        /\ limit = Limited(asked) - Len(seen)
        /\ capacity = 0 => Left = 0
        /\ ~Lapped =>
             /\ \A k \in 1..Left : elements[(i + (k - 1)) % capacity] = all[Len(seen) + k]
             /\ \A m \in 1..Len(seen) : seen[m] = all[m]

(* During a ReverseTraversal whose callback has added nothing, the slots   *)
(* still to be visited hold the oldest elements, queued or dequeued.       *)
ReverseInv ==
  (mode = "rev" /\ added = <<>>) =>
    /\ curr_size + Len(seen) = Len(start)
    /\ capacity # 0 => \A j \in 1..curr_size :
         elements[(capacity + (i - curr_size) + (j - 1)) % capacity] = start[j]
    /\ \A m \in 1..Len(seen) : seen[m] = start[Len(start) + 1 - m]
    /\ limit = Limited(asked) - Len(seen)

(***************************************************************************)
(* Inductive invariant of the queue and its traversals.                    *)
(***************************************************************************)
IInv ==
  /\ TypeOK
  /\ SizeIsDistance
  /\ SlotsHold
  /\ RingInv
  /\ WalkInv

=============================================================================
