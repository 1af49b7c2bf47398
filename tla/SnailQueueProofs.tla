-------------------------- MODULE SnailQueueProofs --------------------------
(***************************************************************************)
(* Proofs about SnailQueue for every capacity, every width of the indices, *)
(* every set of objects and any number of calls from the callbacks of      *)
(* traversals.                                                             *)
(***************************************************************************)
EXTENDS SnailQueue, RingArith, SequenceTheorems, TLAPS

(* The part of the invariant that concerns the fields of the struct.       *)
FieldsOK ==
  /\ head \in 0..(Width - 1) /\ tail \in 0..(Width - 1)
  /\ size \in 0..(Width - 1) /\ capacity \in 0..(Width - 1)
  /\ requested \in 0..(Width - 1)
  /\ elements \in [0..(capacity - 1) -> Values \cup {nil}]
  /\ taken \in Seq(Values)
  /\ SizeIsDistance /\ SlotsHold /\ RingInv

(* The part that concerns the traversal.                                   *)
WalkOK ==
  /\ status \in {"nil", "live", "panic"}
  /\ mode \in {"idle", "fwd", "rev"}
  /\ limit \in 0..(Width - 1) /\ curr_size \in 0..(Width - 1) /\ asked \in 0..(Width - 1)
  /\ i \in Int /\ seen \in Seq(Values \cup {nil}) /\ start \in Seq(Values)
  /\ added \in Seq(Values)
  /\ WalkInv

(* The two parts make up the invariant.                                    *)
LEMMA Parts == IInv <=> FieldsOK /\ WalkOK
  BY DEF IInv, FieldsOK, WalkOK, TypeOK

-----------------------------------------------------------------------------
(* The uint16 sum in front of `% capacity' does not wrap.                  *)
LEMMA NextSlot ==
  ASSUME NEW c \in 1..(Width - 1), NEW x \in 0..(c - 1)
  PROVE  ((x + 1) % Width) % c = (x + 1) % c
<1>1. x + 1 \in 0..(Width - 1)
  BY SnailQueueAssumption
<1>2. (x + 1) % Width = x + 1
  BY <1>1, SnailQueueAssumption
<1> QED
  BY <1>2

(* What Enqueue leaves behind, and the abstract step it takes.             *)
LEMMA PutEffect ==
  ASSUME FieldsOK, capacity # 0, NEW v \in Values, Put(v), UNCHANGED requested
  PROVE  /\ FieldsOK'
         /\ capacity' = capacity
         /\ \/ UNCHANGED fields
            \/ head' = head /\ size' = size + 1 /\ Abs!Enqueue(v)
<1>1. CASE IsFull
  BY <1>1 DEF Put, fields, FieldsOK, SizeIsDistance, SlotsHold, RingInv
<1>2. CASE ~IsFull
  <2> DEFINE c == capacity
  <2>1. /\ c \in 1..(Width - 1) /\ c \in Nat /\ c >= 1
        /\ head \in 0..(c - 1) /\ size \in 0..(c - 1) /\ tail = (head + size) % c
        /\ tail \in 0..(c - 1) /\ c = requested + 1
    BY SnailQueueAssumption DEF FieldsOK, SizeIsDistance, RingInv
  <2>2. /\ elements' = [elements EXCEPT ![tail] = v]
        /\ tail' = ((tail + 1) % Width) % c
        /\ size' = (size + 1) % Width
        /\ head' = head /\ capacity' = c /\ taken' = taken /\ requested' = requested
    BY <1>2 DEF Put
  <2> HIDE DEF c
  <2>3. ((tail + 1) % Width) % c = (head + (size + 1)) % c
    <3>1. ((tail + 1) % Width) % c = (tail + 1) % c
      BY <2>1, NextSlot
    <3>2. (((head + size) % c) + 1) % c = ((head + size) + 1) % c
      BY <2>1, ReduceSum
    <3> QED
      BY <2>1, <3>1, <3>2
  <2>4. size + 1 < c
    <3> SUFFICES ASSUME size = c - 1 PROVE FALSE
      BY <2>1
    <3>0. head \in Nat /\ head % c = head
      BY <2>1
    <3>1. (head + c) % c = head
      BY <2>1, <3>0, RingPeriod
    <3>2. ((tail + 1) % Width) % c = head
      BY <2>1, <2>3, <3>1
    <3> QED
      BY <1>2, <3>2 DEF IsFull, c
  <2>5. size' = size + 1
    <3>1. size + 1 \in 0..(Width - 1)
      BY <2>1, <2>4, SnailQueueAssumption
    <3> QED
      BY <2>2, <3>1, SnailQueueAssumption
  <2>6. \A k \in 0..(size - 1) :
          /\ (head + k) % c \in 0..(c - 1)
          /\ elements'[(head + k) % c] = elements[(head + k) % c]
    <3> SUFFICES ASSUME NEW k \in 0..(size - 1)
                 PROVE  /\ (head + k) % c \in 0..(c - 1)
                        /\ elements'[(head + k) % c] = elements[(head + k) % c]
      OBVIOUS
    <3>1. /\ head + k \in Nat /\ head + size \in Nat /\ head + k < head + size
          /\ head + size < (head + k) + c
      BY <2>1
    <3>2. (head + k) % c # (head + size) % c
      BY <2>1, <3>1, RingDistinct
    <3>3. (head + k) % c \in 0..(c - 1)
      BY <2>1, <3>1
    <3> QED
      BY <2>1, <2>2, <3>2, <3>3 DEF FieldsOK, c
  <2>7. elements'[(head + size) % c] = v /\ elements' \in [0..(c - 1) -> Values \cup {nil}]
    BY <2>1, <2>2 DEF FieldsOK, c
  <2>8. FieldsOK'
    <3>1. SizeIsDistance'
      BY <2>1, <2>2, <2>3, <2>4, <2>5 DEF SizeIsDistance
    <3>2. SlotsHold'
      <4> SUFFICES ASSUME NEW k \in 0..size PROVE elements'[(head + k) % c] \in Values
        BY <2>1, <2>2, <2>5 DEF SlotsHold
      <4>1. CASE k = size
        BY <2>7, <4>1
      <4>2. CASE k \in 0..(size - 1)
        BY <2>6, <4>2 DEF FieldsOK, SlotsHold, c
      <4> QED
        BY <2>1, <4>1, <4>2
    <3>3. RingInv'
      BY <2>1, <2>2 DEF RingInv
    <3>4. tail' \in 0..(Width - 1) /\ size' \in 0..(Width - 1)
      <4>1. head + (size + 1) \in Nat
        BY <2>1
      <4>2. (head + (size + 1)) % c \in 0..(c - 1)
        BY <2>1, <4>1
      <4>3. tail' \in 0..(c - 1)
        BY <2>2, <2>3, <4>2
      <4> QED
        BY <2>1, <2>4, <2>5, <4>3, SnailQueueAssumption
    <3> QED
      BY <2>2, <2>7, <3>1, <3>2, <3>3, <3>4 DEF FieldsOK, c
  <2>9. Abs!Enqueue(v)
    <3>1. contents = [k \in 1..size |-> elements[(head + (k - 1)) % c]]
      BY DEF contents, c
    <3>2. contents' = [k \in 1..(size + 1) |-> elements'[(head + (k - 1)) % c]]
      BY <2>2, <2>5 DEF contents
    <3>3. contents \in Seq(Values) /\ Len(contents) = size
      <4>1. \A k \in 1..size : k - 1 \in 0..(size - 1)
        BY <2>1
      <4>2. \A k \in 1..size : elements[(head + (k - 1)) % c] \in Values
        BY <4>1 DEF FieldsOK, SlotsHold, c
      <4> QED
        BY <2>1, <3>1, <4>2
    <3>4. \A k \in 1..size : contents'[k] = contents[k]
      <4> SUFFICES ASSUME NEW k \in 1..size PROVE contents'[k] = contents[k]
        OBVIOUS
      <4>1. k - 1 \in 0..(size - 1) /\ k \in 1..(size + 1)
        BY <2>1
      <4> QED
        BY <2>6, <3>1, <3>2, <4>1
    <3>5. contents'[size + 1] = v
      <4>1. size + 1 \in 1..(size + 1) /\ head + ((size + 1) - 1) = head + size
        BY <2>1
      <4> QED
        BY <2>7, <3>2, <4>1
    <3>6. contents' = Append(contents, v)
      <4> HIDE DEF contents
      <4>1. /\ Append(contents, v) \in Seq(Values) /\ Len(Append(contents, v)) = size + 1
            /\ \A k \in 1..size : Append(contents, v)[k] = contents[k]
            /\ Append(contents, v)[size + 1] = v
        BY <3>3, AppendProperties
      <4>2. \A k \in 1..(size + 1) : contents'[k] = Append(contents, v)[k]
        BY <2>1, <3>4, <3>5, <4>1
      <4>3. \A k \in 1..(size + 1) : contents'[k] \in Values
        BY <2>1, <3>3, <3>4, <3>5
      <4>4. contents' \in Seq(Values) /\ Len(contents') = size + 1
        BY <2>1, <3>2, <4>3
      <4> QED
        BY <4>1, <4>2, <4>4, SeqEqual
    <3>7. Len(contents) < requested
      BY <2>1, <2>4, <3>3 DEF FieldsOK
    <3> QED
      BY <2>2, <3>6, <3>7 DEF Abs!Enqueue
  <2> QED
    BY <2>2, <2>5, <2>8, <2>9 DEF c
<1> QED
  BY <1>1, <1>2

(* What Dequeue leaves behind, and the abstract step it takes.             *)
LEMMA GetEffect ==
  ASSUME FieldsOK, Get, UNCHANGED requested
  PROVE  /\ FieldsOK'
         /\ capacity' = capacity
         /\ \/ UNCHANGED fields
            \/ /\ capacity # 0 /\ size > 0 /\ tail' = tail
               /\ head' = (head + 1) % capacity /\ size' = size - 1
               /\ Abs!Dequeue
<1>1. CASE IsEmpty
  BY <1>1 DEF Get, fields, FieldsOK, SizeIsDistance, SlotsHold, RingInv
<1>2. CASE ~IsEmpty
  <2> DEFINE c == capacity
  <2>1. c # 0
    BY <1>2 DEF FieldsOK, RingInv, IsEmpty
  <2>2. /\ c \in 1..(Width - 1) /\ c \in Nat /\ c >= 1
        /\ head \in 0..(c - 1) /\ size \in 0..(c - 1) /\ tail = (head + size) % c
        /\ c = requested + 1
    BY <2>1, SnailQueueAssumption DEF FieldsOK, SizeIsDistance, RingInv
  <2>3. /\ taken' = Append(taken, elements[head])
        /\ head' = ((head + 1) % Width) % c
        /\ size' = (size - 1) % Width
        /\ tail' = tail /\ capacity' = c /\ elements' = elements /\ requested' = requested
    BY <1>2 DEF Get
  <2> HIDE DEF c
  <2>4. head % c = head
    BY <2>2
  <2>5. size > 0
    <3> SUFFICES ASSUME size = 0 PROVE FALSE
      BY <2>2
    <3>1. head + size = head
      BY <2>2
    <3> QED
      BY <1>2, <2>2, <2>4, <3>1 DEF IsEmpty
  <2>6. head' = (head + 1) % c /\ head' \in 0..(c - 1)
    <3>1. head' = (head + 1) % c
      BY <2>2, <2>3, NextSlot
    <3>2. head + 1 \in Nat
      BY <2>2
    <3> QED
      BY <2>2, <3>1, <3>2
  <2>7. size' = size - 1
    <3>1. size - 1 \in 0..(Width - 1)
      BY <2>2, <2>5, SnailQueueAssumption
    <3> QED
      BY <2>3, <3>1, SnailQueueAssumption
  <2>8. \A k \in 0..(size - 1) : (head' + k) % c = (head + (k + 1)) % c
    <3> SUFFICES ASSUME NEW k \in 0..(size - 1)
                 PROVE  (((head + 1) % c) + k) % c = (head + (k + 1)) % c
      BY <2>6
    <3>1. /\ k \in Nat /\ head + 1 \in Nat /\ (head + 1) + k = head + (k + 1)
      BY <2>2
    <3>2. (((head + 1) % c) + k) % c = ((head + 1) + k) % c
      BY <2>2, <3>1, ReduceSum
    <3> QED
      BY <3>1, <3>2
  <2>9. elements[head] \in Values
    <3>1. 0 \in 0..(size - 1) /\ head + 0 = head
      BY <2>2, <2>5
    <3>2. elements[(head + 0) % c] \in Values
      BY <3>1 DEF FieldsOK, SlotsHold, c
    <3> QED
      BY <2>4, <3>1, <3>2
  <2>10. FieldsOK'
    <3>1. SizeIsDistance'
      <4>1. size - 1 \in 0..(size - 1) /\ (size - 1) + 1 = size
        BY <2>2, <2>5
      <4>2. (head' + (size - 1)) % c = (head + size) % c
        BY <2>8, <4>1
      <4>3. tail' = (head' + size') % capacity'
        BY <2>2, <2>3, <2>7, <4>2
      <4>4. size' < capacity' /\ head' < capacity'
        BY <2>2, <2>3, <2>6, <2>7
      <4> QED
        BY <4>3, <4>4 DEF SizeIsDistance
    <3>2. SlotsHold'
      <4> SUFFICES ASSUME NEW k \in 0..((size - 1) - 1)
                   PROVE  elements[(head' + k) % c] \in Values
        BY <2>3, <2>7 DEF SlotsHold
      <4>1. k \in 0..(size - 1) /\ k + 1 \in 0..(size - 1)
        BY <2>2
      <4>2. elements[(head + (k + 1)) % c] \in Values
        BY <4>1 DEF FieldsOK, SlotsHold, c
      <4> QED
        BY <2>8, <4>1, <4>2
    <3>3. RingInv'
      BY <2>2, <2>3 DEF RingInv
    <3>4. head' \in 0..(Width - 1) /\ size' \in 0..(Width - 1)
      BY <2>2, <2>5, <2>6, <2>7, SnailQueueAssumption
    <3>5. taken' \in Seq(Values)
      BY <2>3, <2>9, AppendProperties DEF FieldsOK
    <3> QED
      BY <2>3, <3>1, <3>2, <3>3, <3>4, <3>5 DEF FieldsOK, c
  <2>11. Abs!Dequeue
    <3>1. contents = [k \in 1..size |-> elements[(head + (k - 1)) % c]]
      BY DEF contents, c
    <3>2. contents' = [k \in 1..(size - 1) |-> elements[(head' + (k - 1)) % c]]
      BY <2>3, <2>7 DEF contents
    <3>3. contents \in Seq(Values) /\ Len(contents) = size
      <4>1. \A k \in 1..size : k - 1 \in 0..(size - 1)
        BY <2>2
      <4>2. \A k \in 1..size : elements[(head + (k - 1)) % c] \in Values
        BY <4>1 DEF FieldsOK, SlotsHold, c
      <4> QED
        BY <2>2, <3>1, <4>2
    <3>4. Head(contents) = elements[head]
      <4>1. 1 \in 1..size /\ head + (1 - 1) = head
        BY <2>2, <2>5
      <4>2. contents[1] = elements[head]
        BY <2>4, <3>1, <4>1
      <4> HIDE DEF contents
      <4> QED
        BY <3>3, <4>2
    <3>5. \A k \in 1..(size - 1) : contents'[k] = contents[k + 1]
      <4> SUFFICES ASSUME NEW k \in 1..(size - 1) PROVE contents'[k] = contents[k + 1]
        OBVIOUS
      <4>1. /\ k - 1 \in 0..(size - 1) /\ (k - 1) + 1 = (k + 1) - 1 /\ k + 1 \in 1..size
        BY <2>2
      <4> QED
        BY <2>8, <3>1, <3>2, <4>1
    <3>6. contents # <<>>
      <4> HIDE DEF contents
      <4> QED
        BY <2>5, <3>3
    <3>7. contents' = Tail(contents)
      <4> HIDE DEF contents
      <4>1. /\ Tail(contents) \in Seq(Values) /\ Len(Tail(contents)) = size - 1
            /\ \A k \in 1..(size - 1) : Tail(contents)[k] = contents[k + 1]
        BY <3>3, <3>6, HeadTailProperties
      <4>2. \A k \in 1..(size - 1) : contents'[k] = Tail(contents)[k]
        BY <3>5, <4>1
      <4>3. \A k \in 1..(size - 1) : contents'[k] \in Values
        BY <4>1, <4>2, ElementOfSeq
      <4>4. contents' \in Seq(Values) /\ Len(contents') = size - 1
        BY <2>2, <2>5, <3>2, <4>3
      <4> QED
        BY <4>1, <4>2, <4>4, SeqEqual
    <3> QED
      BY <2>3, <3>4, <3>6, <3>7 DEF Abs!Dequeue
  <2> QED
    BY <2>1, <2>3, <2>5, <2>6, <2>7, <2>10, <2>11 DEF c
<1> QED
  BY <1>1, <1>2

-----------------------------------------------------------------------------
(* The initial states satisfy the invariant.                               *)
LEMMA InitIInv == Init => IInv
<1> SUFFICES ASSUME Init PROVE IInv
  OBVIOUS
<1> USE SnailQueueAssumption
<1>1. head = 0 /\ tail = 0 /\ size = 0 /\ taken = <<>>
  BY DEF Init
<1>2. WalkOK
  BY DEF Init, WalkOK, WalkInv
<1>3. ASSUME NEW c \in Requests, CreateSnailQueue(c) PROVE FieldsOK
  <2>1. requested \in 0..(Width - 1) /\ requested + 1 \in 1..Width
    BY <1>3 DEF CreateSnailQueue
  <2>2. capacity = (requested + 1) % Width
    BY <1>3 DEF CreateSnailQueue
  <2>3. capacity \in 0..(Width - 1)
    BY <2>1, <2>2
  <2>4. capacity # 0 => capacity = requested + 1
    BY <2>1, <2>2
  <2>5. capacity # 0 => tail = (head + size) % capacity
    BY <1>1, <2>3
  <2> QED
    BY <1>1, <1>3, <2>1, <2>3, <2>4, <2>5
       DEF CreateSnailQueue, FieldsOK, SizeIsDistance, SlotsHold, RingInv
<1>4. ASSUME status = "nil", requested = 0, capacity = 0, elements = <<>> PROVE FieldsOK
  BY <1>1, <1>4 DEF FieldsOK, SizeIsDistance, SlotsHold, RingInv
<1> QED
  BY <1>2, <1>3, <1>4, Parts DEF Init

(* What a traversal starts from is a sequence of enqueued objects.         *)
LEMMA ContentsType == ASSUME FieldsOK PROVE contents \in Seq(Values)
<1>1. size \in Nat /\ \A k \in 1..size : k - 1 \in 0..(size - 1)
  BY SnailQueueAssumption DEF FieldsOK
<1>2. \A k \in 1..size : elements[(head + (k - 1)) % capacity] \in Values
  BY <1>1 DEF FieldsOK, SlotsHold
<1> QED
  BY <1>1, <1>2 DEF contents

(* Beginning a traversal preserves the invariant.                          *)
LEMMA BeginIInv ==
  ASSUME IInv, NEW l \in Limits, Traversal(l) \/ ReverseTraversal(l)
  PROVE  IInv'
<1> USE SnailQueueAssumption
<1>0. FieldsOK /\ WalkOK
  BY Parts
<1>1. FieldsOK'
  BY <1>0 DEF Traversal, ReverseTraversal, fields, made, FieldsOK, SizeIsDistance, SlotsHold, RingInv
<1>2. /\ contents \in Seq(Values) /\ l \in 0..(Width - 1)
      /\ Limited(l) \in 0..(Width - 1)
  BY <1>0, ContentsType DEF Limited
<1>3. CASE Traversal(l)
  <2>1. capacity # 0 => 0 \in 0..size /\ head = (head + 0) % capacity
    BY <1>0 DEF FieldsOK, SizeIsDistance
  <2>2. WalkInv'
    BY <1>0, <1>3, <2>1 DEF Traversal, fields, WalkInv, FieldsOK, RingInv
  <2> QED
    <3>1. WalkOK'
      BY <1>0, <1>2, <1>3, <2>2 DEF Traversal, made, fields, WalkOK, FieldsOK
    <3> QED
      BY <1>1, <3>1, Parts, PTL
<1>4. CASE ReverseTraversal(l)
  <2>1. capacity # 0 => tail < capacity /\ tail - size > -capacity
    BY <1>0 DEF FieldsOK, SizeIsDistance
  <2>2. WalkInv'
    BY <1>0, <1>4, <2>1 DEF ReverseTraversal, fields, WalkInv, FieldsOK, RingInv
  <2> QED
    <3>1. WalkOK'
      BY <1>0, <1>2, <1>4, <2>2 DEF ReverseTraversal, made, fields, WalkOK, FieldsOK
    <3> QED
      BY <1>1, <3>1, Parts, PTL
<1> QED
  BY <1>3, <1>4

(* A turn of Traversal moves the index to the next slot.                   *)
LEMMA TraversalStepIInv ==
  ASSUME IInv, TraversalStep
  PROVE  IInv'
<1> USE SnailQueueAssumption
<1>0. FieldsOK /\ WalkOK
  BY Parts
<1> DEFINE c == capacity
<1>1. /\ c # 0 /\ mode = "fwd" /\ UNCHANGED <<made, fields, mode, added>>
      /\ c' = c /\ i \in 0..(c - 1) /\ c \in 1..(Width - 1)
  BY <1>0 DEF TraversalStep, fields, WalkOK, WalkInv, FieldsOK
<1>2. FieldsOK'
  BY <1>0, <1>1 DEF made, fields, FieldsOK, SizeIsDistance, SlotsHold, RingInv
<1>3. i' = (i + 1) % c
  BY <1>1, NextSlot DEF TraversalStep
<1> HIDE DEF c
<1>4. i' \in 0..(c - 1)
  BY <1>1, <1>3
<1>5. limit' \in 0..(Width - 1)
  BY <1>0 DEF TraversalStep, WalkOK
<1>6. seen' \in Seq(Values \cup {nil})
  <2>1. elements[i] \in Values \cup {nil}
    BY <1>0, <1>1 DEF FieldsOK, c
  <2> QED
    BY <1>0, <2>1, AppendProperties DEF TraversalStep, WalkOK
<1>7. WalkInv'
  BY <1>1, <1>4 DEF WalkInv, c
<1>8. WalkOK'
  BY <1>0, <1>1, <1>4, <1>5, <1>6, <1>7 DEF TraversalStep, made, WalkOK
<1> QED
  BY <1>2, <1>8, Parts, PTL

(* A turn of ReverseTraversal reads a slot of the ring.                    *)
LEMMA ReverseStepIInv ==
  ASSUME IInv, ReverseStep
  PROVE  IInv'
<1> USE SnailQueueAssumption
<1>0. FieldsOK /\ WalkOK
  BY Parts
<1>1. /\ capacity # 0 /\ mode = "rev" /\ curr_size # 0 /\ UNCHANGED made
      /\ i < capacity /\ i - curr_size > -capacity
  BY <1>0 DEF ReverseStep, WalkOK, WalkInv
<1>2. FieldsOK' /\ capacity' = capacity
  BY <1>0 DEF ReverseStep, made, fields, FieldsOK, SizeIsDistance, SlotsHold, RingInv
<1>3. /\ capacity \in 1..(Width - 1) /\ i \in Int /\ curr_size \in 1..(Width - 1)
      /\ i' = i - 1 /\ curr_size' = curr_size - 1
  BY <1>0, <1>1 DEF FieldsOK, WalkOK, ReverseStep
<1> DEFINE slot == IF i - 1 < 0 THEN capacity + (i - 1) ELSE i - 1
<1>4. slot \in 0..(capacity - 1)
  BY <1>1, <1>3
<1>5. WalkOK'
  <2>1. limit' \in 0..(Width - 1)
    BY <1>0 DEF ReverseStep, WalkOK
  <2>2. seen' \in Seq(Values \cup {nil})
    <3>1. elements[slot] \in Values \cup {nil}
      BY <1>0, <1>4 DEF FieldsOK
    <3>2. seen' = Append(seen, elements[slot])
      BY DEF ReverseStep
    <3> QED
      BY <1>0, <3>1, <3>2, AppendProperties DEF WalkOK
  <2>3. i' < capacity' /\ i' - curr_size' > -capacity'
    BY <1>1, <1>2, <1>3
  <2>4. WalkInv'
    BY <1>1, <1>2, <2>3 DEF ReverseStep, WalkInv
  <2> QED
    BY <1>0, <1>3, <2>1, <2>2, <2>4 DEF ReverseStep, made, WalkOK
<1> QED
  BY <1>2, <1>5, Parts, PTL

(* The calls and the ends of traversals preserve the invariant.            *)
LEMMA OtherIInv ==
  ASSUME IInv,
         \/ \E v \in Values : Enqueue(v)
         \/ Dequeue \/ EnqueueDivide \/ ReverseTraversalNil \/ TraversalEnd \/ ReverseEnd
         \/ UNCHANGED vars
  PROVE  IInv'
<1> USE SnailQueueAssumption
<1>0. FieldsOK /\ WalkOK
  BY Parts
<1>1. CASE \E v \in Values : Enqueue(v)
  <2>1. PICK v \in Values : Enqueue(v)
    BY <1>1
  <2>2. FieldsOK' /\ capacity' = capacity /\ capacity # 0
    BY <1>0, <2>1, PutEffect DEF Enqueue, made
  <2>3. added' \in Seq(Values)
    <3>1. Append(added, v) \in Seq(Values)
      BY <1>0, AppendProperties DEF WalkOK
    <3> QED
      BY <1>0, <2>1, <3>1 DEF Enqueue, WalkOK
  <2>4. WalkOK'
    BY <1>0, <2>1, <2>2, <2>3 DEF Enqueue, made, loop, WalkOK, WalkInv
  <2> QED
    BY <2>2, <2>4, Parts, PTL
<1>2. CASE Dequeue
  <2>2. FieldsOK' /\ capacity' = capacity /\ tail' = tail
    BY <1>0, <1>2, GetEffect DEF Dequeue, made, fields
  <2>3. WalkOK'
    BY <1>0, <1>2, <2>2 DEF Dequeue, made, walk, loop, WalkOK, WalkInv
  <2> QED
    BY <2>2, <2>3, Parts, PTL
<1>3. CASE EnqueueDivide \/ ReverseTraversalNil \/ TraversalEnd \/ ReverseEnd \/ UNCHANGED vars
  <2>1. UNCHANGED <<fields, requested>>
    BY <1>3 DEF EnqueueDivide, ReverseTraversalNil, TraversalEnd, ReverseEnd, vars, made
  <2>2. FieldsOK'
    BY <1>0, <2>1 DEF fields, FieldsOK, SizeIsDistance, SlotsHold, RingInv
  <2>3. WalkOK'
    <3>1. CASE TraversalEnd \/ ReverseEnd
      BY <1>0, <3>1 DEF TraversalEnd, ReverseEnd, made, WalkOK, WalkInv
    <3>2. CASE EnqueueDivide \/ ReverseTraversalNil
      BY <1>0, <2>1, <3>2 DEF EnqueueDivide, ReverseTraversalNil, walk, loop, fields, WalkOK, WalkInv
    <3>3. CASE UNCHANGED vars
      BY <1>0, <2>1, <3>3 DEF vars, made, walk, loop, fields, WalkOK, WalkInv
    <3> QED
      BY <1>3, <3>1, <3>2, <3>3
  <2> QED
    BY <2>2, <2>3, Parts, PTL
<1> QED
  BY <1>1, <1>2, <1>3

-----------------------------------------------------------------------------
(***************************************************************************)
(* The invariant holds in every run of the queue and of its traversals.    *)
(***************************************************************************)
THEOREM Invariance == Spec => []IInv
<1>1. Init => IInv
  BY InitIInv
<1>2. IInv /\ [Next]_vars => IInv'
  BY BeginIInv, TraversalStepIInv, ReverseStepIInv, OtherIInv DEF Next
<1> QED
  BY <1>1, <1>2, PTL DEF Spec

(***************************************************************************)
(* The field size and the distance from head to tail always agree.         *)
(***************************************************************************)
THEOREM SizeIsDistanceTheorem == Spec => []SizeIsDistance
<1>1. IInv => SizeIsDistance
  BY DEF IInv
<1> QED
  BY <1>1, Invariance, PTL

(***************************************************************************)
(* Enqueue refuses exactly when the queue holds as many elements as it was *)
(* made for (snail_queue.go:20, 35, 44).                                   *)
(***************************************************************************)
THEOREM FullAtCapacityTheorem == Spec => []FullAtCapacity
<1>1. IInv => FullAtCapacity
  <2> SUFFICES ASSUME IInv, capacity # 0 PROVE IsFull <=> size = requested
    BY DEF FullAtCapacity
  <2> DEFINE c == capacity
  <2>1. /\ c \in 1..(Width - 1) /\ c \in Nat /\ c >= 1 /\ c = requested + 1
        /\ head \in 0..(c - 1) /\ size \in 0..(c - 1) /\ tail = (head + size) % c
        /\ tail \in 0..(c - 1) /\ requested \in Nat
    BY SnailQueueAssumption DEF IInv, TypeOK, SizeIsDistance, RingInv
  <2>2. IsFull <=> ((tail + 1) % Width) % c = head
    BY DEF IsFull
  <2> HIDE DEF c
  <2>3. ((tail + 1) % Width) % c = (head + (size + 1)) % c
    <3>1. ((tail + 1) % Width) % c = (tail + 1) % c
      BY <2>1, NextSlot
    <3>2. (((head + size) % c) + 1) % c = ((head + size) + 1) % c
      BY <2>1, ReduceSum
    <3> QED
      BY <2>1, <3>1, <3>2
  <2>4. head \in Nat /\ head % c = head
    BY <2>1
  <2>5. CASE size = requested
    <3>1. head + (size + 1) = head + c
      BY <2>1, <2>5
    <3>2. (head + c) % c = head
      BY <2>1, <2>4, RingPeriod
    <3> QED
      BY <2>2, <2>3, <2>5, <3>1, <3>2
  <2>6. CASE size # requested
    <3>1. head + (size + 1) \in Nat /\ head < head + (size + 1) /\ head + (size + 1) < head + c
      BY <2>1, <2>6
    <3>2. head % c # (head + (size + 1)) % c
      BY <2>1, <2>4, <3>1, RingDistinct
    <3> QED
      BY <2>2, <2>3, <2>4, <2>6, <3>2
  <2> QED
    BY <2>5, <2>6
<1> QED
  BY <1>1, Invariance, PTL

(* One step of the ring is a step of the abstract queue, or none.          *)
LEMMA StepSimulation ==
  ASSUME IInv, [Next]_vars
  PROVE  [Abs!Next]_(Abs!vars)
<1>0. FieldsOK
  BY Parts
<1>1. UNCHANGED requested
  BY DEF Next, vars, made, Enqueue, EnqueueDivide, Dequeue, Traversal, ReverseTraversal,
         TraversalStep, TraversalEnd, ReverseTraversalNil, ReverseStep, ReverseEnd
<1>2. CASE UNCHANGED fields
  BY <1>1, <1>2 DEF fields, contents, Abs!vars
<1>3. ASSUME NEW v \in Values, Enqueue(v) PROVE [Abs!Next]_(Abs!vars)
  <2>1. UNCHANGED fields \/ Abs!Enqueue(v)
    BY <1>0, <1>1, <1>3, PutEffect DEF Enqueue
  <2> QED
    BY <1>2, <2>1 DEF Abs!Next
<1>4. ASSUME Dequeue PROVE [Abs!Next]_(Abs!vars)
  <2>1. UNCHANGED fields \/ Abs!Dequeue
    BY <1>0, <1>1, <1>4, GetEffect DEF Dequeue
  <2> QED
    BY <1>2, <2>1 DEF Abs!Next
<1>5. ASSUME \/ EnqueueDivide \/ ReverseTraversalNil \/ TraversalEnd \/ ReverseEnd
             \/ TraversalStep \/ ReverseStep \/ UNCHANGED vars
             \/ \E l \in Limits : Traversal(l) \/ ReverseTraversal(l)
      PROVE  UNCHANGED fields
  BY <1>5 DEF EnqueueDivide, ReverseTraversalNil, TraversalEnd, ReverseEnd, vars, Traversal,
              ReverseTraversal, TraversalStep, ReverseStep
<1> QED
  BY <1>2, <1>3, <1>4, <1>5 DEF Next

(***************************************************************************)
(* SnailQueue implements a bounded FIFO queue of the capacity asked for:   *)
(* Enqueue and Dequeue take effect as one step each, from the program and  *)
(* from a callback alike.                                                  *)
(***************************************************************************)
THEOREM Refinement == Spec => ImplementsFifo
<1>1. Init => Abs!Init
  <2> SUFFICES ASSUME Init PROVE contents = <<>> /\ taken = <<>> /\ requested \in Int
    BY DEF Abs!Init
  <2>1. size = 0 /\ taken = <<>>
    BY DEF Init
  <2>2. requested \in Int
    BY InitIInv, SnailQueueAssumption DEF IInv, TypeOK
  <2> QED
    BY <2>1, <2>2 DEF contents
<1>2. IInv /\ [Next]_vars => [Abs!Next]_(Abs!vars)
  BY StepSimulation
<1> QED
  BY <1>1, <1>2, Invariance, PTL DEF Spec, ImplementsFifo, Abs!Spec

-----------------------------------------------------------------------------
(* Where a traversal is on its way: the invariant behind TraversalComplete *)
(* and VisitsQueued.                                                       *)
WalkHistory == ForwardInv /\ ReverseInv

(* How many elements the abstract content has.                             *)
LEMMA ContentsLen == ASSUME FieldsOK PROVE contents \in Seq(Values) /\ Len(contents) = size
<1>1. contents \in Seq(Values) /\ size \in Nat
  BY ContentsType DEF FieldsOK
<1>2. DOMAIN contents = 1..size
  BY DEF contents
<1>3. Len(contents) \in Nat /\ DOMAIN contents = 1..Len(contents)
  <2> HIDE DEF contents
  <2> QED
    BY <1>1, LenProperties
<1> HIDE DEF contents
<1> QED
  BY <1>1, <1>2, <1>3

(* What a successful Enqueue writes.                                       *)
LEMMA PutWrites ==
  ASSUME FieldsOK, capacity # 0, NEW v \in Values, Put(v), ~IsFull
  PROVE  /\ elements' = [elements EXCEPT ![tail] = v]
         /\ tail' = (tail + 1) % capacity /\ capacity' = capacity
<1>1. capacity \in 1..(Width - 1) /\ tail \in 0..(capacity - 1)
  <2>1. /\ capacity \in 1..(Width - 1) /\ head \in 0..(capacity - 1)
        /\ size \in 0..(capacity - 1) /\ tail = (head + size) % capacity
    BY SnailQueueAssumption DEF FieldsOK, SizeIsDistance
  <2>2. head + size \in Nat
    BY <2>1
  <2> QED
    BY <2>1, <2>2
<1> QED
  BY <1>1, NextSlot DEF Put

(* A sequence with one more element at the end of its second part.         *)
LEMMA ConcatAppend ==
  ASSUME NEW S, NEW s \in Seq(S), NEW t \in Seq(S), NEW v \in S
  PROVE  /\ s \o t \in Seq(S) /\ Len(s \o t) = Len(s) + Len(t)
         /\ Append(t, v) \in Seq(S) /\ Len(Append(t, v)) = Len(t) + 1
         /\ Len(s) \in Nat /\ Len(t) \in Nat
         /\ \A k \in 1..(Len(s) + Len(t)) : (s \o Append(t, v))[k] = (s \o t)[k]
         /\ (s \o Append(t, v))[Len(s) + Len(t) + 1] = v
<1> DEFINE u == Append(t, v)
<1>1. /\ u \in Seq(S) /\ Len(u) = Len(t) + 1 /\ u[Len(t) + 1] = v
      /\ \A k \in 1..Len(t) : u[k] = t[k]
  BY AppendProperties
<1> HIDE DEF u
<1>2. /\ s \o t \in Seq(S) /\ Len(s \o t) = Len(s) + Len(t)
      /\ Len(s) \in Nat /\ Len(t) \in Nat
      /\ \A k \in 1..(Len(s) + Len(t)) : (s \o t)[k] =
            IF k <= Len(s) THEN s[k] ELSE t[k - Len(s)]
  BY ConcatProperties
<1>3. \A k \in 1..(Len(s) + Len(u)) : (s \o u)[k] =
        IF k <= Len(s) THEN s[k] ELSE u[k - Len(s)]
  BY <1>1, ConcatProperties
<1>4. ASSUME NEW k \in 1..(Len(s) + Len(t)) PROVE (s \o u)[k] = (s \o t)[k]
  <2>1. k \in 1..(Len(s) + Len(u)) /\ (~(k <= Len(s)) => k - Len(s) \in 1..Len(t))
    BY <1>1, <1>2
  <2> QED
    BY <1>1, <1>2, <1>3, <2>1
<1>5. (s \o u)[Len(s) + Len(t) + 1] = v
  <2>1. /\ Len(s) + Len(t) + 1 \in 1..(Len(s) + Len(u)) /\ ~(Len(s) + Len(t) + 1 <= Len(s))
        /\ (Len(s) + Len(t) + 1) - Len(s) = Len(t) + 1
    BY <1>1, <1>2
  <2> QED
    BY <1>1, <1>3, <2>1
<1> QED
  BY <1>1, <1>2, <1>4, <1>5 DEF u

(* The lengths a Traversal is made of.                                     *)
LEMMA LeftType ==
  ASSUME WalkOK
  PROVE  /\ start \in Seq(Values) /\ added \in Seq(Values)
         /\ Len(start) \in Nat /\ Len(added) \in Nat /\ Len(seen) \in Nat /\ Left \in Int
         /\ Len(start \o added) = Len(start) + Len(added)
         /\ Left = Len(start \o added) - Len(seen)
         /\ start \o added \in Seq(Values) /\ Limited(asked) \in Int
  BY ConcatProperties, SnailQueueAssumption DEF WalkOK, Left, Limited

(* A turn of Traversal gives the callback the next element.                *)
LEMMA ForwardStep ==
  ASSUME IInv, ForwardInv, TraversalStep
  PROVE  ForwardInv'
<1> USE SnailQueueAssumption
<1> DEFINE c   == capacity
           all == start \o added
           n   == Len(seen)
           lft == Left
<1>0. FieldsOK /\ WalkOK
  BY Parts
<1>1. /\ c # 0 /\ mode = "fwd" /\ i # tail /\ i \in 0..(c - 1) /\ c \in 1..(Width - 1)
      /\ UNCHANGED <<fields, start, asked, added>> /\ capacity' = c /\ tail' = tail
      /\ elements' = elements
      /\ seen' = Append(seen, elements[i]) /\ limit' = limit - 1
      /\ i' = ((i + 1) % Width) % c
  BY <1>0 DEF TraversalStep, fields, WalkOK, WalkInv, FieldsOK
<1>2. /\ lft >= 0 /\ tail = (i + lft) % c /\ limit = Limited(asked) - n
      /\ (lft < c => /\ \A k \in 1..lft : elements[(i + (k - 1)) % c] = all[n + k]
                     /\ \A m \in 1..n : seen[m] = all[m])
  <2>1. lft < c => ~Lapped
    BY <1>0, <1>1, LeftType DEF Lapped
  <2> QED
    BY <1>1, <2>1 DEF ForwardInv
<1>3. /\ all \in Seq(Values) /\ Len(all) \in Nat /\ n \in Nat /\ lft \in Int
      /\ lft = Len(all) - n /\ Limited(asked) \in Int
  BY <1>0, LeftType
<1>4. elements[i] \in Values \cup {nil}
  BY <1>0, <1>1 DEF FieldsOK
<1>5. /\ Len(seen') = n + 1 /\ seen'[n + 1] = elements[i]
      /\ \A m \in 1..n : seen'[m] = seen[m]
  BY <1>0, <1>1, <1>4, AppendProperties DEF WalkOK
<1>6. Left' = lft - 1 /\ (start \o added)' = all
  BY <1>0, <1>1, <1>5, LeftType DEF Left
<1>7. Lapped' <=> lft - 1 >= c
  BY <1>1, <1>6 DEF Lapped
<1> HIDE DEF c, all, n, lft
<1>8. i % c = i /\ i' = (i + 1) % c
  <2>1. i % c = i
    BY <1>1
  <2>2. ((i + 1) % Width) % c = (i + 1) % c
    BY <1>1, NextSlot
  <2> QED
    BY <1>1, <2>1, <2>2
<1>9. lft >= 1
  <2>1. i + 0 = i /\ i # tail /\ tail = (i + lft) % c
    BY <1>1, <1>2
  <2>2. lft # 0
    BY <1>8, <2>1
  <2> QED
    BY <1>2, <1>3, <2>2
<1>10. \A k \in Nat : (i' + k) % c = (i + (k + 1)) % c
  <2> SUFFICES ASSUME NEW k \in Nat PROVE (((i + 1) % c) + k) % c = (i + (k + 1)) % c
    BY <1>8
  <2>1. (((i + 1) % c) + k) % c = ((i + 1) + k) % c
    BY <1>1, ReduceSum
  <2> QED
    BY <1>1, <2>1
<1>11. tail = (i' + (lft - 1)) % c
  <2>1. lft - 1 \in Nat /\ (lft - 1) + 1 = lft
    BY <1>3, <1>9
  <2> QED
    BY <1>2, <1>10, <2>1
<1>12. ASSUME ~Lapped'
       PROVE  /\ \A k \in 1..(lft - 1) : elements[(i' + (k - 1)) % c] = all[(n + 1) + k]
              /\ \A m \in 1..(n + 1) : seen'[m] = all[m]
  <2>1. lft # c
    BY <1>1, <1>2, <1>8, RingPeriod
  <2>2. lft < c
    BY <1>1, <1>3, <1>7, <1>12, <2>1
  <2>3. \A k \in 1..(lft - 1) : elements[(i' + (k - 1)) % c] = all[(n + 1) + k]
    <3> SUFFICES ASSUME NEW k \in 1..(lft - 1)
                 PROVE  elements[(i' + (k - 1)) % c] = all[(n + 1) + k]
      OBVIOUS
    <3>1. k - 1 \in Nat /\ (k - 1) + 1 = (k + 1) - 1 /\ k + 1 \in 1..lft /\ n + (k + 1) = (n + 1) + k
      BY <1>3, <1>9
    <3>2. elements[(i + ((k + 1) - 1)) % c] = all[n + (k + 1)]
      BY <1>2, <2>2, <3>1
    <3> QED
      BY <1>10, <3>1, <3>2
  <2>4. elements[i] = all[n + 1]
    <3>1. 1 \in 1..lft /\ i + (1 - 1) = i
      BY <1>1, <1>3, <1>9
    <3> QED
      BY <1>2, <1>8, <2>2, <3>1
  <2>5. \A m \in 1..(n + 1) : seen'[m] = all[m]
    <3> SUFFICES ASSUME NEW m \in 1..(n + 1) PROVE seen'[m] = all[m]
      OBVIOUS
    <3>1. CASE m = n + 1
      BY <1>5, <2>4, <3>1
    <3>2. CASE m \in 1..n
      BY <1>2, <1>5, <2>2, <3>2
    <3> QED
      BY <1>3, <3>1, <3>2
  <2> QED
    BY <2>3, <2>5
<1>13. /\ Left' >= 0 /\ tail' = (i' + Left') % capacity'
       /\ limit' = Limited(asked') - Len(seen') /\ capacity' # 0
  <2>1. Left' >= 0 /\ Limited(asked') = Limited(asked)
    BY <1>1, <1>3, <1>6, <1>9
  <2>2. limit' = Limited(asked) - (n + 1)
    BY <1>1, <1>2, <1>3
  <2> QED
    BY <1>1, <1>5, <1>6, <1>11, <2>1, <2>2
<1> QED
  BY <1>1, <1>5, <1>6, <1>12, <1>13 DEF ForwardInv

(* An Enqueue writes a slot behind the elements yet to see.                *)
LEMMA ForwardEnqueue ==
  ASSUME IInv, ForwardInv, NEW v \in Values, Enqueue(v), mode = "fwd"
  PROVE  ForwardInv'
<1> USE SnailQueueAssumption
<1> DEFINE c   == capacity
           all == start \o added
           n   == Len(seen)
           lft == Left
<1>0. FieldsOK /\ WalkOK
  BY Parts
<1>1. c # 0 /\ Put(v) /\ UNCHANGED <<mode, i, limit, seen, start, asked>>
  BY DEF Enqueue, loop
<1>2. CASE IsFull
  <2>1. UNCHANGED <<fields, added>>
    BY <1>1, <1>2 DEF Enqueue, Put
  <2> QED
    BY <1>1, <2>1 DEF fields, ForwardInv, Left, Lapped, Limited
<1>3. CASE ~IsFull
  <2>1. /\ elements' = [elements EXCEPT ![tail] = v]
        /\ tail' = (tail + 1) % c /\ capacity' = c
        /\ added' = Append(added, v)
    BY <1>0, <1>1, <1>3, PutWrites DEF Enqueue
  <2>2. /\ c \in Nat /\ c >= 1 /\ i \in 0..(c - 1)
        /\ elements \in [0..(c - 1) -> Values \cup {nil}]
    BY <1>0, <1>1 DEF FieldsOK, WalkOK, WalkInv
  <2>3. /\ lft >= 0 /\ tail = (i + lft) % c /\ limit = Limited(asked) - n
        /\ (lft < c => /\ \A k \in 1..lft : elements[(i + (k - 1)) % c] = all[n + k]
                       /\ \A m \in 1..n : seen[m] = all[m])
    <3>1. lft < c => ~Lapped
      BY <1>0, <2>2, LeftType DEF Lapped
    <3> QED
      BY <1>1, <3>1 DEF ForwardInv
  <2>4. /\ n \in Nat /\ lft \in Nat /\ Len(all) = n + lft /\ Len(all) \in Nat
    BY <1>0, <2>3, LeftType
  <2> DEFINE more == (start \o added)'
  <2>5. /\ Len(added') = Len(added) + 1
        /\ \A k \in 1..Len(all) : more[k] = all[k]
        /\ more[Len(all) + 1] = v
    <3>1. start \in Seq(Values) /\ added \in Seq(Values) /\ Len(all) = Len(start) + Len(added)
      BY <1>0, LeftType
    <3>2. more = start \o Append(added, v)
      BY <1>1, <2>1
    <3> HIDE DEF more
    <3> QED
      BY <2>1, <3>1, <3>2, ConcatAppend
  <2>6. Left' = lft + 1
    BY <1>0, <1>1, <2>5, LeftType DEF Left
  <2>7. Lapped' <=> lft + 1 >= c
    BY <1>1, <2>1, <2>6 DEF Lapped
  <2> HIDE DEF c, all, n, lft, more
  <2>8. tail' = (i + (lft + 1)) % c /\ tail \in 0..(c - 1)
    <3> DEFINE x == i + lft
    <3>1. x \in Nat /\ x + 1 = i + (lft + 1) /\ tail = x % c
      BY <2>2, <2>3, <2>4
    <3> HIDE DEF x
    <3>2. ((x % c) + 1) % c = (x + 1) % c
      BY <2>2, <3>1, ReduceSum
    <3>3. x % c \in 0..(c - 1)
      BY <2>2, <3>1
    <3> QED
      BY <2>1, <3>1, <3>2, <3>3 DEF c
  <2>9. ASSUME ~Lapped'
        PROVE  /\ \A k \in 1..(lft + 1) : elements'[(i + (k - 1)) % c] = more[n + k]
               /\ \A m \in 1..n : seen[m] = more[m]
    <3>1. lft < c - 1
      BY <2>2, <2>4, <2>7, <2>9
    <3>2. lft < c
      BY <2>2, <2>4, <3>1
    <3>3. \A m \in 1..n : seen[m] = more[m]
      <4>1. \A m \in 1..n : m \in 1..Len(all)
        BY <2>4
      <4> QED
        BY <2>3, <2>5, <3>2, <4>1
    <3>4. ASSUME NEW k \in 1..lft PROVE elements'[(i + (k - 1)) % c] = more[n + k]
      <4>1. /\ i + (k - 1) \in Nat /\ i + lft \in Nat /\ i + (k - 1) < i + lft
            /\ i + lft < (i + (k - 1)) + c
        BY <2>2, <2>4, <3>2
      <4>2. (i + (k - 1)) % c # tail
        BY <2>2, <2>3, <4>1, RingDistinct
      <4>3. (i + (k - 1)) % c \in 0..(c - 1)
        BY <2>2, <4>1
      <4>4. n + k \in 1..Len(all)
        BY <2>4
      <4> QED
        BY <2>1, <2>2, <2>3, <2>5, <3>2, <4>2, <4>3, <4>4
    <3>5. elements'[(i + ((lft + 1) - 1)) % c] = more[n + (lft + 1)]
      <4>1. i + ((lft + 1) - 1) = i + lft /\ n + (lft + 1) = Len(all) + 1
        BY <2>2, <2>4
      <4>2. elements'[tail] = v
        BY <2>1, <2>2, <2>8
      <4> QED
        BY <2>3, <2>5, <4>1, <4>2
    <3>6. \A k \in 1..(lft + 1) : k \in 1..lft \/ k = lft + 1
      BY <2>4
    <3> QED
      BY <3>3, <3>4, <3>5, <3>6
  <2>10. /\ Left' >= 0 /\ tail' = (i' + Left') % capacity'
         /\ limit' = Limited(asked') - Len(seen') /\ capacity' # 0
    <3>1. Left' >= 0 /\ Limited(asked') = Limited(asked) /\ Len(seen') = n
      BY <1>1, <2>4, <2>6 DEF n
    <3> QED
      BY <1>1, <2>1, <2>3, <2>6, <2>8, <3>1 DEF c
  <2> QED
    BY <1>1, <2>1, <2>6, <2>9, <2>10 DEF ForwardInv, more, n
<1> QED
  BY <1>2, <1>3

(* A Dequeue leaves the slots and the tail alone.                          *)
LEMMA ForwardDequeue ==
  ASSUME IInv, WalkHistory, Dequeue
  PROVE  WalkHistory'
<1>1. UNCHANGED <<tail, capacity, elements, walk>>
  BY DEF Dequeue, Get, fields
<1> QED
  BY <1>1 DEF WalkHistory, ForwardInv, ReverseInv, Left, Lapped, Limited, walk, loop

(* So does an Enqueue, if it adds nothing.                                 *)
LEMMA ReverseEnqueue ==
  ASSUME IInv, ReverseInv, NEW v \in Values, Enqueue(v), mode = "rev"
  PROVE  ReverseInv'
<1> SUFFICES ASSUME added' = <<>> PROVE ReverseInv'
  BY DEF ReverseInv
<1>1. Append(added, v) # <<>>
  BY AppendProperties DEF IInv, TypeOK
<1>2. IsFull /\ added = <<>>
  BY <1>1 DEF Enqueue
<1>3. UNCHANGED <<fields, loop, added>>
  BY <1>2 DEF Enqueue, Put
<1> QED
  BY <1>3 DEF fields, loop, ReverseInv, Limited

(* A turn of ReverseTraversal gives the callback the youngest element that *)
(* is left.                                                                *)
LEMMA ReverseStepInv ==
  ASSUME IInv, ReverseInv, ReverseStep
  PROVE  ReverseInv'
<1> USE SnailQueueAssumption
<1> SUFFICES ASSUME added' = <<>> PROVE ReverseInv'
  BY DEF ReverseInv
<1> DEFINE c    == capacity
           n    == Len(seen)
           slot == IF i - 1 < 0 THEN c + (i - 1) ELSE i - 1
<1>0. FieldsOK /\ WalkOK
  BY Parts
<1>1. /\ c # 0 /\ mode = "rev" /\ curr_size # 0
      /\ UNCHANGED <<fields, start, asked, added>>
      /\ seen' = Append(seen, elements[slot]) /\ limit' = limit - 1
      /\ i' = i - 1 /\ curr_size' = curr_size - 1
      /\ i < c /\ i - curr_size > -c
  BY <1>0 DEF ReverseStep, made, WalkOK, WalkInv
<1>2. added = <<>> /\ elements' = elements /\ capacity' = c
  BY <1>1 DEF fields
<1>3. /\ curr_size + n = Len(start)
      /\ \A j \in 1..curr_size : elements[(c + (i - curr_size) + (j - 1)) % c] = start[j]
      /\ \A m \in 1..n : seen[m] = start[Len(start) + 1 - m]
      /\ limit = Limited(asked) - n
  BY <1>1, <1>2 DEF ReverseInv
<1>4. /\ c \in 1..(Width - 1) /\ i \in Int /\ curr_size \in 1..(Width - 1)
      /\ seen \in Seq(Values \cup {nil}) /\ n \in Nat
      /\ start \in Seq(Values) /\ Len(start) \in Nat
  BY <1>0, <1>1 DEF FieldsOK, WalkOK
<1>4a. /\ curr_size + n = Len(start) /\ limit = Limited(asked) - n
       /\ curr_size \in Int /\ n \in Int /\ Len(start) \in Int /\ Limited(asked) \in Int
  BY <1>0, <1>3, <1>4 DEF Limited, WalkOK
<1> HIDE DEF c, n
<1>5. slot = (c + (i - curr_size) + (curr_size - 1)) % c
  <2>1. c + (i - curr_size) + (curr_size - 1) = c + (i - 1)
    BY <1>4
  <2>2. CASE i - 1 < 0
    <3>1. c + (i - 1) \in 0..(c - 1)
      BY <1>1, <1>4, <2>2
    <3> QED
      BY <1>4, <2>1, <2>2, <3>1
  <2>3. CASE i - 1 >= 0
    <3>1. i - 1 \in 0..(c - 1) /\ i - 1 \in Nat /\ c \in Nat /\ c >= 1
      BY <1>1, <1>4, <2>3
    <3> DEFINE x == i - 1
    <3>2. x \in Nat /\ x \in 0..(c - 1)
      BY <3>1
    <3> HIDE DEF x
    <3>3. (x + c) % c = x % c
      BY <3>1, <3>2, RingPeriod
    <3>4. x % c = x /\ c + x = x + c
      BY <3>1, <3>2
    <3>5. slot = x /\ c + (i - 1) = c + x
      BY <1>4, <2>3 DEF x
    <3> HIDE DEF slot
    <3> QED
      BY <2>1, <3>3, <3>4, <3>5
  <2> QED
    BY <1>4, <2>2, <2>3
<1>6. elements[slot] = start[curr_size] /\ elements[slot] \in Values
  <2>1. curr_size \in 1..curr_size /\ curr_size \in 1..Len(start)
    BY <1>3, <1>4
  <2> HIDE DEF slot
  <2>2. elements[slot] = start[curr_size]
    BY <1>3, <1>5, <2>1
  <2>3. start[curr_size] \in Values
    BY <1>4, <2>1, ElementOfSeq
  <2> QED
    BY <2>2, <2>3
<1> HIDE DEF slot
<1>7. /\ Len(seen') = n + 1
      /\ \A m \in 1..(n + 1) : seen'[m] = start[Len(start) + 1 - m]
  <2>1. /\ Len(seen') = n + 1
        /\ \A m \in 1..n : seen'[m] = seen[m]
        /\ seen'[n + 1] = elements[slot]
    BY <1>1, <1>4, <1>6, AppendProperties DEF n
  <2>2. Len(start) + 1 - (n + 1) = curr_size
    BY <1>4a
  <2> SUFFICES ASSUME NEW m \in 1..(n + 1) PROVE seen'[m] = start[Len(start) + 1 - m]
    BY <2>1
  <2>3. CASE m = n + 1
    BY <1>6, <2>1, <2>2, <2>3
  <2>4. CASE m \in 1..n
    BY <1>3, <2>1, <2>4
  <2> QED
    BY <1>4, <2>3, <2>4
<1>8. \A j \in 1..curr_size' :
        elements'[(c + (i' - curr_size') + (j - 1)) % c] = start[j]
  <2>1. i' - curr_size' = i - curr_size
    BY <1>1, <1>4
  <2>2. \A j \in 1..curr_size' : j \in 1..curr_size
    BY <1>1, <1>4
  <2> QED
    BY <1>2, <1>3, <2>1, <2>2
<1>9. limit' = Limited(asked) - (n + 1) /\ curr_size' + (n + 1) = Len(start)
  BY <1>1, <1>4a
<1> QED
  BY <1>1, <1>2, <1>7, <1>8, <1>9 DEF ReverseInv, Limited

(* A traversal begins with nothing seen, nothing added, and its index at   *)
(* one end of the queue.                                                   *)
LEMMA BeginWalk ==
  ASSUME IInv, NEW l \in Limits, Traversal(l) \/ ReverseTraversal(l)
  PROVE  ForwardInv' /\ ReverseInv'
<1> USE SnailQueueAssumption
<1>0. FieldsOK /\ WalkOK
  BY Parts
<1>1. contents \in Seq(Values) /\ Len(contents) = size
  BY <1>0, ContentsLen
<1>2. /\ UNCHANGED fields /\ seen' = <<>> /\ added' = <<>> /\ asked' = l
      /\ limit' = Limited(l) /\ start' = contents /\ contents' = contents
      /\ head' = head /\ size' = size /\ capacity' = capacity /\ elements' = elements
  BY DEF Traversal, ReverseTraversal, fields, contents
<1>3. Len(<<>>) = 0 /\ Limited(l) \in Int /\ size \in Nat
  BY <1>0 DEF Limited, FieldsOK
<1>4. capacity # 0 => /\ capacity \in Nat /\ capacity >= 1 /\ head \in 0..(capacity - 1)
                      /\ size \in 0..(capacity - 1) /\ tail = (head + size) % capacity
  BY <1>0 DEF FieldsOK, SizeIsDistance
<1>5. CASE Traversal(l)
  <2>1. mode' = "fwd" /\ i' = head
    BY <1>5 DEF Traversal
  <2> HIDE DEF contents
  <2>2. (start \o added)' = contents
    BY <1>1, <1>2, ConcatEmptySeq
  <2>3. Left' = size
    <3>1. Len(seen') = 0 /\ Len(added') = 0 /\ Len(start') = size
      BY <1>1, <1>2
    <3> QED
      BY <1>3, <3>1 DEF Left
  <2>4. capacity # 0 => tail = (head + size) % capacity
    BY <1>4
  <2>5. \A k \in 1..size : elements[(head + (k - 1)) % capacity] = contents[0 + k]
    BY <1>3 DEF contents
  <2>6. limit' = Limited(asked') - 0 /\ tail' = tail
    BY <1>2, <1>3 DEF fields
  <2>7. capacity = 0 => size = 0
    BY <1>0 DEF FieldsOK, RingInv
  <2> QED
    BY <1>2, <1>3, <2>1, <2>2, <2>3, <2>4, <2>5, <2>6, <2>7 DEF ForwardInv, ReverseInv
<1>6. CASE ReverseTraversal(l)
  <2>1. mode' = "rev" /\ i' = tail /\ curr_size' = size
    BY <1>6 DEF ReverseTraversal
  <2>2. ASSUME capacity # 0, NEW j \in 1..size
        PROVE  elements[(capacity + (tail - size) + (j - 1)) % capacity] = contents[j]
    <3> DEFINE c == capacity
               x == head + size
               y == (c - size) + (j - 1)
               z == head + (j - 1)
    <3>1. /\ c \in Nat /\ c >= 1 /\ head \in 0..(c - 1) /\ size \in 0..(c - 1)
          /\ tail = x % c /\ x \in Int /\ y \in Int /\ z \in Nat
          /\ x + y = z + c
      BY <1>4, <2>2
    <3>2. contents[j] = elements[z % c]
      BY DEF contents
    <3> HIDE DEF x, y, z, c
    <3>3. ((x % c) + y) % c = (x + y) % c
      BY <3>1, ReduceFirst
    <3>4. (z + c) % c = z % c
      BY <3>1, RingPeriod
    <3>5. tail \in Int
      BY <1>0 DEF FieldsOK
    <3>6. c + (tail - size) + (j - 1) = tail + y
      BY <3>1, <3>5 DEF y
    <3>7. (c + (tail - size) + (j - 1)) % c = z % c
      BY <3>1, <3>3, <3>4, <3>6
    <3> QED
      BY <3>2, <3>7 DEF c
  <2> HIDE DEF contents
  <2>3. size + 0 = Len(contents) /\ limit' = Limited(asked') - 0
    BY <1>1, <1>2, <1>3
  <2> QED
    BY <1>2, <1>3, <2>1, <2>2, <2>3 DEF ForwardInv, ReverseInv
<1> QED
  BY <1>5, <1>6

(* Every step preserves it.                                                *)
LEMMA WalkHistoryStep ==
  ASSUME IInv, WalkHistory, [Next]_vars
  PROVE  WalkHistory'
<1>1. ASSUME NEW l \in Limits, Traversal(l) \/ ReverseTraversal(l) PROVE WalkHistory'
  BY <1>1, BeginWalk DEF WalkHistory
<1>2. CASE TraversalStep
  <2>1. ForwardInv'
    BY <1>2, ForwardStep DEF WalkHistory
  <2>2. ReverseInv'
    BY <1>2 DEF TraversalStep, ReverseInv
  <2> QED
    BY <2>1, <2>2 DEF WalkHistory
<1>3. CASE ReverseStep
  <2>1. ReverseInv'
    BY <1>3, ReverseStepInv DEF WalkHistory
  <2>2. ForwardInv'
    BY <1>3 DEF ReverseStep, ForwardInv
  <2> QED
    BY <2>1, <2>2 DEF WalkHistory
<1>4. CASE TraversalEnd \/ ReverseEnd
  BY <1>4 DEF TraversalEnd, ReverseEnd, WalkHistory, ForwardInv, ReverseInv
<1>5. ASSUME NEW v \in Values, Enqueue(v) PROVE WalkHistory'
  <2>1. mode' = mode /\ mode \in {"idle", "fwd", "rev"}
    BY <1>5 DEF Enqueue, loop, IInv, TypeOK
  <2>2. ForwardInv'
    BY <1>5, <2>1, ForwardEnqueue DEF WalkHistory, ForwardInv
  <2>3. ReverseInv'
    BY <1>5, <2>1, ReverseEnqueue DEF WalkHistory, ReverseInv
  <2> QED
    BY <2>2, <2>3 DEF WalkHistory
<1>6. CASE EnqueueDivide \/ ReverseTraversalNil \/ UNCHANGED vars
  <2>1. UNCHANGED <<fields, walk>>
    BY <1>6 DEF EnqueueDivide, ReverseTraversalNil, vars
  <2> QED
    BY <2>1 DEF fields, walk, loop, WalkHistory, ForwardInv, ReverseInv, Left, Lapped, Limited
<1> QED
  BY <1>1, <1>2, <1>3, <1>4, <1>5, <1>6, ForwardDequeue DEF Next

(* A sequence that agrees with s as far as a traversal with limit l goes.  *)
LEMMA IsUpTo ==
  ASSUME NEW S, NEW s \in Seq(S), NEW t \in Seq(S), NEW l \in 0..(Width - 1),
         Len(t) <= Len(s), \A m \in 1..Len(t) : t[m] = s[m],
         Len(t) <= Limited(l), Len(t) = Len(s) \/ Len(t) = Limited(l)
  PROVE  t = UpTo(l, s)
<1>1. Limited(l) \in Nat /\ Len(s) \in Nat /\ Len(t) \in Nat
  BY SnailQueueAssumption DEF Limited
<1>2. CASE Limited(l) > Len(s)
  <2>1. Len(t) = Len(s)
    BY <1>1, <1>2
  <2>2. t = s
    BY <2>1, SeqEqual
  <2> QED
    BY <1>2, <2>2 DEF UpTo
<1>3. CASE Limited(l) <= Len(s)
  <2>1. Len(t) = Limited(l)
    BY <1>1, <1>3
  <2> DEFINE n == Limited(l)
             u == SubSeq(s, 1, n)
  <2>2. \A m \in 1..n : s[m] \in S
    <3>1. \A m \in 1..n : m \in 1..Len(s)
      BY <1>1, <1>3
    <3> QED
      BY <3>1, ElementOfSeq
  <2> HIDE DEF n
  <2>3. /\ u \in Seq(S) /\ Len(u) = (IF 1 <= n THEN n - 1 + 1 ELSE 0)
        /\ \A m \in 1..(n - 1 + 1) : u[m] = s[1 + m - 1]
    <3>1. 1 \in Int /\ n \in Int
      BY <1>1 DEF n
    <3> QED
      BY <2>2, <3>1, SubSeqProperties
  <2> HIDE DEF u
  <2>4. n \in Nat /\ Len(t) = n
    BY <1>1, <2>1 DEF n
  <2>5. Len(u) = n /\ \A m \in 1..n : u[m] = s[m]
    BY <2>3, <2>4
  <2>6. t = u
    BY <2>3, <2>4, <2>5, SeqEqual
  <2> QED
    BY <1>1, <1>3, <2>6 DEF UpTo, u, n
<1> QED
  BY <1>1, <1>2, <1>3

(* When Traversal ends it has given out all there was up to the limit.     *)
LEMMA ForwardEnd ==
  ASSUME IInv, ForwardInv, TraversalEnd, ~Lapped
  PROVE  seen = UpTo(asked, start \o added)
<1> USE SnailQueueAssumption
<1> DEFINE all == start \o added
           V   == Values \cup {nil}
           lft == Left
<1>0. FieldsOK /\ WalkOK
  BY Parts
<1>1. mode = "fwd" /\ (i = tail \/ limit = 0)
  BY DEF TraversalEnd
<1>2. /\ lft >= 0 /\ (capacity # 0 => tail = (i + lft) % capacity)
      /\ \A m \in 1..Len(seen) : seen[m] = all[m]
      /\ limit = Limited(asked) - Len(seen) /\ (capacity = 0 => lft = 0)
  BY <1>1 DEF ForwardInv
<1>3. /\ seen \in Seq(V) /\ all \in Seq(V) /\ Len(all) \in Nat /\ Len(seen) \in Nat
      /\ lft \in Int /\ lft = Len(all) - Len(seen)
  <2>1. seen \in Seq(V) /\ start \in Seq(V) /\ added \in Seq(V)
    BY <1>0 DEF WalkOK
  <2>2. all \in Seq(V)
    <3> HIDE DEF V
    <3> QED
      BY <2>1, ConcatProperties
  <2> HIDE DEF V
  <2> QED
    BY <1>0, <2>1, <2>2, LeftType
<1>4. /\ asked \in 0..(Width - 1) /\ limit \in Nat /\ Limited(asked) \in Nat
  BY <1>0 DEF WalkOK, Limited
<1>5. capacity # 0 => /\ capacity \in Nat /\ capacity >= 1 /\ i \in 0..(capacity - 1)
                      /\ lft < capacity
  BY <1>0, <1>1, <1>3 DEF WalkOK, WalkInv, FieldsOK, Lapped
<1> HIDE DEF all, V, lft
<1>6. Len(seen) <= Limited(asked) /\ Len(seen) <= Len(all)
  BY <1>2, <1>3, <1>4
<1>7. Len(seen) = Len(all) \/ Len(seen) = Limited(asked)
  <2>1. CASE limit = 0
    BY <1>2, <1>3, <1>4, <2>1
  <2>2. CASE i = tail
    <3>1. lft = 0
      <4> SUFFICES ASSUME capacity # 0, lft > 0 PROVE FALSE
        BY <1>2, <1>3
      <4> DEFINE c == capacity
      <4>1. c \in Nat /\ c >= 1 /\ i \in 0..(c - 1) /\ lft < c /\ i = (i + lft) % c
        BY <1>2, <1>5, <2>2
      <4> HIDE DEF c
      <4>2. i % c # (i + lft) % c
        <5>1. i \in Nat /\ i + lft \in Nat /\ i < i + lft /\ i + lft < i + c
          BY <1>3, <4>1
        <5> QED
          BY <4>1, <5>1, RingDistinct
      <4> QED
        BY <4>1, <4>2
    <3> QED
      BY <1>3, <3>1
  <2> QED
    BY <1>1, <2>1, <2>2
<1> QED
  BY <1>2, <1>3, <1>4, <1>6, <1>7, IsUpTo DEF all

(* When ReverseTraversal ends and its callback added nothing, it has given *)
(* out all there was at the call, from the youngest on, up to the limit.   *)
LEMMA BackwardEnd ==
  ASSUME IInv, ReverseInv, ReverseEnd, added = <<>>
  PROVE  seen = UpTo(asked, Reversed(start))
<1> USE SnailQueueAssumption
<1> DEFINE r == Reversed(start)
           V == Values \cup {nil}
<1>1. mode = "rev" /\ (curr_size = 0 \/ limit = 0)
  BY DEF ReverseEnd
<1>2. /\ curr_size + Len(seen) = Len(start)
      /\ \A m \in 1..Len(seen) : seen[m] = start[Len(start) + 1 - m]
      /\ limit = Limited(asked) - Len(seen)
  BY <1>1 DEF ReverseInv
<1>3. /\ seen \in Seq(V) /\ start \in Seq(V) /\ asked \in 0..(Width - 1)
      /\ limit \in Nat /\ curr_size \in Nat /\ Limited(asked) \in Nat
      /\ Len(seen) \in Nat /\ Len(start) \in Nat
  BY DEF IInv, TypeOK, Limited
<1> HIDE DEF V
<1>4. /\ r \in Seq(V) /\ Len(r) = Len(start)
      /\ \A m \in 1..Len(start) : r[m] = start[Len(start) + 1 - m]
  <2>1. r = [k \in 1..Len(start) |-> start[Len(start) + 1 - k]]
    BY DEF Reversed
  <2>2. \A k \in 1..Len(start) : start[Len(start) + 1 - k] \in V
    <3>1. \A k \in 1..Len(start) : Len(start) + 1 - k \in 1..Len(start)
      BY <1>3
    <3> QED
      BY <1>3, <3>1, ElementOfSeq
  <2> HIDE DEF r
  <2> QED
    BY <1>3, <2>1, <2>2
<1> HIDE DEF r
<1>5. Len(seen) <= Len(r) /\ \A m \in 1..Len(seen) : seen[m] = r[m]
  <2>1. Len(seen) <= Len(start)
    BY <1>2, <1>3
  <2>2. \A m \in 1..Len(seen) : m \in 1..Len(start)
    BY <1>3, <2>1
  <2> QED
    BY <1>2, <1>4, <2>1, <2>2
<1>6. Len(seen) <= Limited(asked) /\ (Len(seen) = Len(r) \/ Len(seen) = Limited(asked))
  BY <1>1, <1>2, <1>3, <1>4
<1> QED
  BY <1>3, <1>4, <1>5, <1>6, IsUpTo DEF r

(***************************************************************************)
(* Where a traversal is, in every run.                                     *)
(***************************************************************************)
THEOREM WalkInvariance == Spec => [](IInv /\ WalkHistory)
<1>1. Init => WalkHistory
  BY DEF Init, WalkHistory, ForwardInv, ReverseInv
<1>2. IInv /\ WalkHistory /\ [Next]_vars => WalkHistory'
  BY WalkHistoryStep
<1> QED
  BY <1>1, <1>2, Invariance, PTL DEF Spec

(***************************************************************************)
(* A traversal that ends has given its callback every element, in order,   *)
(* as far as its limit allows (snail_queue.go:73-117): Traversal the       *)
(* elements of the queue and then those that the callback added, whatever  *)
(* it dequeued meanwhile, unless the tail came round to the index; and     *)
(* ReverseTraversal, if the callback added nothing, those the queue held   *)
(* at the call, the youngest first.                                        *)
(***************************************************************************)
THEOREM TraversalCompleteTheorem == Spec => TraversalComplete
<1>1. IInv /\ WalkHistory /\ [Next]_vars =>
        [/\ (mode = "fwd" /\ mode' = "idle" /\ ~Lapped) => seen = UpTo(asked, start \o added)
         /\ (mode = "rev" /\ mode' = "idle" /\ added = <<>>) =>
              seen = UpTo(asked, Reversed(start))]_vars
  <2> SUFFICES ASSUME IInv, WalkHistory, Next, mode # "idle", mode' = "idle"
               PROVE  /\ mode = "fwd" /\ ~Lapped => seen = UpTo(asked, start \o added)
                      /\ (mode = "rev" /\ added = <<>>) => seen = UpTo(asked, Reversed(start))
    OBVIOUS
  <2>1. \/ TraversalEnd /\ mode = "fwd"
        \/ ReverseEnd /\ mode = "rev"
    BY DEF Next, Enqueue, EnqueueDivide, Dequeue, Traversal, ReverseTraversal, TraversalStep,
           TraversalEnd, ReverseTraversalNil, ReverseStep, ReverseEnd, walk, loop
  <2> QED
    BY <2>1, ForwardEnd, BackwardEnd DEF WalkHistory
<1> QED
  BY <1>1, WalkInvariance, PTL DEF Spec, TraversalComplete

(***************************************************************************)
(* Traversal (snail_queue.go:75-91) hands its callback only slots between  *)
(* head and tail as long as the callback has dequeued no more elements     *)
(* than it was given, however many it takes or adds in one visit.          *)
(***************************************************************************)
THEOREM VisitsQueuedTheorem == Spec => []VisitsQueued
<1>1. IInv /\ WalkHistory => VisitsQueued
  <2> USE SnailQueueAssumption
  <2> SUFFICES ASSUME IInv, WalkHistory, mode = "fwd", i # tail, Gone <= Len(seen)
               PROVE  (i - head) % capacity < size
    BY DEF VisitsQueued
  <2> DEFINE c   == capacity
             lft == Left
  <2>0. FieldsOK /\ WalkOK
    BY Parts
  <2>1. c # 0
    BY <2>0 DEF WalkOK, WalkInv
  <2>2. /\ c \in Nat /\ c >= 1 /\ i \in 0..(c - 1) /\ head \in 0..(c - 1)
        /\ size \in 0..(c - 1) /\ tail = (head + size) % c
    BY <2>0, <2>1 DEF FieldsOK, SizeIsDistance, WalkOK, WalkInv
  <2>3. lft >= 0 /\ tail = (i + lft) % c /\ lft \in Int /\ lft <= size
    BY <2>0, <2>1, <2>2, LeftType DEF WalkHistory, ForwardInv, Gone, Left
  <2> HIDE DEF c, lft
  <2>4. lft \in 1..size
    <3>1. i % c = i
      BY <2>2
    <3>2. i + 0 = i /\ i # tail /\ tail = (i + lft) % c
      BY <2>2, <2>3
    <3>3. lft # 0
      BY <3>1, <3>2
    <3> QED
      BY <2>2, <2>3, <3>3
  <2>5. i - head = size - lft \/ i - head = (size - lft) - c
    <3> DEFINE x == head + size
               y == i + lft
    <3>1. x \in Nat /\ y \in Nat /\ x % c = y % c
      BY <2>2, <2>3, <2>4
    <3>2. y < x + c /\ x < (y + c) + c
      BY <2>2, <2>4
    <3>3. x = y \/ x = y + c
      <4> HIDE DEF x, y
      <4>1. ~(x < y /\ y < x + c)
        BY <2>2, <3>1, RingDistinct
      <4>2. ~(y < x /\ x < y + c)
        BY <2>2, <3>1, RingDistinct
      <4> DEFINE z == y + c
      <4>3. z \in Nat /\ z % c = x % c
        <5>1. (y + c) % c = y % c
          BY <2>2, <3>1, RingPeriod
        <5> QED
          BY <2>2, <3>1, <5>1
      <4>4. ~(z < x /\ x < z + c)
        <5> HIDE DEF z
        <5> QED
          BY <2>2, <3>1, <4>3, RingDistinct
      <4> QED
        BY <2>2, <3>1, <3>2, <4>1, <4>2, <4>4
    <3> QED
      BY <2>2, <2>4, <3>3
  <2> DEFINE k == size - lft
             q == (i - head) \div c
             r == (i - head) % c
  <2>6. k \in 0..(c - 1) /\ k < size
    BY <2>2, <2>4
  <2>7. q \in Int /\ i - head = q * c + r /\ r \in 0..(c - 1)
    BY <2>2
  <2> HIDE DEF q, r, k
  <2>8. \/ i - head = 0 * c + k \/ i - head = (-1) * c + k
    BY <2>2, <2>5, <2>6 DEF k
  <2>9. k = r
    BY <2>2, <2>6, <2>7, <2>8, RemainderUnique
  <2> QED
    BY <2>6, <2>9 DEF r, c
<1> QED
  BY <1>1, WalkInvariance, PTL

=============================================================================
