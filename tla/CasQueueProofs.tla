--------------------------- MODULE CasQueueProofs ---------------------------
(***************************************************************************)
(* Proofs about the lock-free queue, for every ring size and number of     *)
(* calls: its types and its counter with any number of producers and       *)
(* consumers; and with the single producer of CasQueueSP, which has to be  *)
(* a hypothesis, its order, its content, its refusals and what it refines. *)
(***************************************************************************)
EXTENDS CasQueueSP, CasQueueWindows, RingArith, SequenceTheorems, FiniteSetTheorems, TLAPS

-----------------------------------------------------------------------------
(* Arithmetic of the ring.                                                 *)

(* index_of_queue (cas_queue.hpp:43) always names a slot of the ring.      *)
LEMMA SlotType == \A i \in Nat : index_of_queue(i) \in 0..(Size - 1)
  BY CasQueueAssumption DEF index_of_queue

(* Indices less than one ring size apart have different slots.             *)
LEMMA SlotDiffers ==
  \A i, j \in Nat : (i < j /\ j < i + Size) => index_of_queue(i) # index_of_queue(j)
<1> SUFFICES ASSUME NEW i \in Nat, NEW j \in Nat, i < j, j < i + Size
             PROVE  i % Size # j % Size
  BY DEF index_of_queue
<1>1. Size \in Nat /\ Size >= 1
  BY CasQueueAssumption
<1> QED
  BY <1>1, RingDistinct

(* The slots repeat with the size of the ring.                             *)
LEMMA SlotPeriod == \A i \in Nat : index_of_queue(i + Size) = index_of_queue(i)
<1> SUFFICES ASSUME NEW i \in Nat PROVE (i + Size) % Size = i % Size
  BY DEF index_of_queue
<1>1. Size \in Nat /\ Size >= 1
  BY CasQueueAssumption
<1> QED
  BY <1>1, RingPeriod

(* Wrapping arithmetic stays in the range of a uint32_t.                   *)
LEMMA WrapType == \A i \in Int : i % IdxMod \in 0..(IdxMod - 1)
  BY CasQueueAssumption

(* ... and so do the counters that step by one.                            *)
LEMMA StepType ==
  \A i \in 0..(IdxMod - 1) : /\ Inc(i) \in 0..(IdxMod - 1)
                             /\ (i - 1) % IdxMod \in 0..(IdxMod - 1)
<1>1. IdxMod \in Nat
  BY CasQueueAssumption
<1>2. \A i \in 0..(IdxMod - 1) : i + 1 \in Int /\ i - 1 \in Int
  BY <1>1
<1> QED
  BY <1>2, WrapType DEF Inc

(* A slot is found as well from an index that has wrapped.                 *)
LEMMA SlotOfCount ==
  ASSUME NEW n \in Nat
  PROVE  /\ index_of_queue(n % IdxMod) = index_of_queue(n)
         /\ index_of_queue((n % IdxMod) + 1) = index_of_queue(n + 1)
<1> DEFINE q == n \div IdxMod
           r == n % IdxMod
           d == IdxMod \div Size
<1>1. /\ IdxMod \in Nat /\ IdxMod >= 1 /\ Size \in Nat /\ Size >= 1 /\ IdxMod % Size = 0
  BY CasQueueAssumption
<1>2. q \in Nat /\ r \in Nat /\ n = q * IdxMod + r
  BY <1>1
<1>3. d \in Nat /\ IdxMod = d * Size
  BY <1>1
<1> HIDE DEF q, r, d
<1>4. q * d \in Nat /\ (q * d) * Size = q * IdxMod
  BY <1>1, <1>2, <1>3
<1>5. n = (q * d) * Size + r /\ n + 1 = (q * d) * Size + (r + 1)
  BY <1>1, <1>2, <1>4
<1>6. n % Size = r % Size
  BY <1>1, <1>2, <1>4, <1>5, WholeTurns
<1>7. (n + 1) % Size = (r + 1) % Size
  <2>1. r + 1 \in Nat
    BY <1>2
  <2>2. ((q * d) * Size + (r + 1)) % Size = (r + 1) % Size
    BY <1>1, <1>4, <2>1, WholeTurns
  <2> QED
    BY <1>5, <2>2
<1> QED
  BY <1>6, <1>7 DEF index_of_queue, r

(* An index that counts n elements counts, incremented, one more.          *)
LEMMA IncCount ==
  ASSUME NEW n \in Nat
  PROVE  Inc(n % IdxMod) = (n + 1) % IdxMod
<1>1. IdxMod \in Nat /\ IdxMod >= 1 /\ 1 \in Nat
  BY CasQueueAssumption
<1> QED
  BY <1>1, ReduceSum DEF Inc

(* The wrapped difference of two indices is the difference of the counts.  *)
LEMMA WrappedDifference ==
  ASSUME NEW m \in Nat, NEW n \in Nat, m <= n, n - m <= Size - 1
  PROVE  ((n % IdxMod) - (m % IdxMod)) % IdxMod = n - m
<1>1. IdxMod \in Nat /\ IdxMod >= 1 /\ Size <= IdxMod /\ Size \in Nat
  BY CasQueueAssumption
<1>2. n \in Int /\ m \in Int /\ n % IdxMod \in Int /\ -m \in Int
  BY <1>1
<1>3. ((n % IdxMod) - (m % IdxMod)) % IdxMod = ((n % IdxMod) - m) % IdxMod
  BY <1>1, <1>2, ReduceFirst, Zenon
<1>4. ((n % IdxMod) + (-m)) % IdxMod = (n + (-m)) % IdxMod
  BY <1>1, <1>2, ReduceFirst, Zenon
<1>5. (n % IdxMod) - m = (n % IdxMod) + (-m) /\ n + (-m) = n - m
  BY <1>2
<1>6. n - m \in 0..(IdxMod - 1)
  BY <1>1
<1>7. (n - m) % IdxMod = n - m
  BY <1>1, <1>6
<1> QED
  BY <1>3, <1>4, <1>5, <1>7

(* What Append does to the histories.                                      *)
LEMMA AppendFacts ==
  ASSUME NEW S, NEW s \in Seq(S), NEW e \in S
  PROVE  /\ Append(s, e) \in Seq(S)
         /\ Len(Append(s, e)) = Len(s) + 1
         /\ \A k \in 1..Len(s) : Append(s, e)[k] = s[k]
         /\ Append(s, e)[Len(s) + 1] = e
  BY AppendProperties

-----------------------------------------------------------------------------
(* With any number of producers and consumers.                             *)

(* The initial state is type correct.                                      *)
LEMMA InitTypeOK == Init => TypeOK
  BY CasQueueAssumption DEF Init, Item, TypeOK, Elements, PcValues, Threads

(* Every step of an enqueue is type correct.                               *)
LEMMA EnqueueTypeOK ==
  ASSUME TypeOK, NEW p \in Producers, EnqueueCall(p) \/ enqueue(p)
  PROVE  TypeOK'
<1> USE CasQueueAssumption DEF TypeOK, Goto, shared, locals, history, Threads
<1>1. \A i \in 0..(IdxMod - 1) : Inc(i) \in 0..(IdxMod - 1)
  BY ONLY StepType
<1>2. \A i \in Nat : index_of_queue(i) \in 0..(Size - 1)
  BY SlotType
<1>3. CASE EnqueueCall(p)
  <2>1. Item(issued + 1) \in Elements /\ issued + 1 \in 0..MaxOps
    BY <1>3 DEF EnqueueCall, Item, Elements
  <2> QED
    BY <1>3, <2>1 DEF EnqueueCall, PcValues
<1>4. CASE EnqLoadRead(p) \/ EnqLoadWrite(p) \/ EnqClaimFail(p) \/ EnqPublishFail(p)
  BY <1>4 DEF EnqLoadRead, EnqLoadWrite, EnqClaimFail, EnqPublishFail, PcValues
<1>5. CASE EnqClaim(p)
  <2>1. data[p].lo \in 0..MaxOps
    BY DEF Elements
  <2>2. Append(claimed, data[p].lo) \in Seq(0..MaxOps)
    BY <2>1, AppendFacts
  <2> QED
    BY <1>1, <1>5, <2>2 DEF EnqClaim, PcValues
<1>6. CASE EnqCopyLo(p) \/ EnqCopyHi(p)
  <2>1. \A e \in Elements : /\ [lo |-> data[p].lo, hi |-> e.hi] \in Elements
                            /\ [lo |-> e.lo, hi |-> data[p].hi] \in Elements
    BY DEF Elements
  <2>2. index_of_queue(curr_write_idx[p]) \in 0..(Size - 1)
    BY <1>2
  <2>3. \E e \in Elements : queue' = [queue EXCEPT ![index_of_queue(curr_write_idx[p])] = e]
    BY <1>6, <2>1, <2>2 DEF EnqCopyLo, EnqCopyHi
  <2>4. queue' \in [0..(Size - 1) -> Elements]
    BY <2>3
  <2> QED
    BY <1>6, <2>4 DEF EnqCopyLo, EnqCopyHi, PcValues
<1>7. CASE EnqPublish(p) \/ EnqCount(p)
  BY <1>1, <1>7 DEF EnqPublish, EnqCount, PcValues
<1> QED
  BY <1>3, <1>4, <1>5, <1>6, <1>7 DEF enqueue

(* Every step of a dequeue is type correct.                                *)
LEMMA DequeueTypeOK ==
  ASSUME TypeOK, NEW c \in Consumers, DequeueCall(c) \/ dequeue(c)
  PROVE  TypeOK'
<1> USE CasQueueAssumption DEF TypeOK, Goto, shared, locals, history, Threads
<1>1. CASE DequeueCall(c) \/ DeqLoadRead(c) \/ DeqLoadLast(c) \/ DeqClaimFail(c)
  BY <1>1 DEF DequeueCall, DeqLoadRead, DeqLoadLast, DeqClaimFail, PcValues
<1>2. CASE DeqCopyLo(c) \/ DeqCopyHi(c)
  <2>1. queue[index_of_queue(curr_read_idx[c])] \in Elements
    BY SlotType
  <2>2. \A a, b \in Elements : [lo |-> a.lo, hi |-> b.hi] \in Elements
    BY DEF Elements
  <2>3. \E e \in Elements : data' = [data EXCEPT ![c] = e]
    BY <1>2, <2>1, <2>2 DEF DeqCopyLo, DeqCopyHi
  <2>4. data' \in [Threads -> Elements]
    BY <2>3
  <2> QED
    BY <1>2, <2>4 DEF DeqCopyLo, DeqCopyHi, PcValues
<1>3. CASE DeqClaim(c)
  <2>1. Append(delivered, data[c]) \in Seq(Elements)
    BY AppendFacts
  <2>2. Inc(read_idx) \in 0..(IdxMod - 1)
    BY StepType
  <2> QED
    BY <1>3, <2>1, <2>2 DEF DeqClaim, PcValues
<1>4. CASE DeqCount(c)
  <2>1. (length - 1) % IdxMod \in 0..(IdxMod - 1)
    BY StepType
  <2> QED
    BY <1>4, <2>1 DEF DeqCount, PcValues
<1> QED
  BY <1>1, <1>2, <1>3, <1>4 DEF dequeue

(***************************************************************************)
(* The members of cas_queue_t and the locals of its callers keep their     *)
(* types, the indices and the counter wrapping (cas_queue.hpp:58-135).     *)
(***************************************************************************)
THEOREM TypeOKTheorem == Spec => []TypeOK
<1>1. TypeOK /\ [Next]_vars => TypeOK'
  <2> SUFFICES ASSUME TypeOK, [Next]_vars PROVE TypeOK'
    OBVIOUS
  <2>1. CASE UNCHANGED vars
    BY <2>1 DEF vars, shared, locals, history, TypeOK
  <2> QED
    BY <2>1, EnqueueTypeOK, DequeueTypeOK DEF Next
<1> QED
  BY <1>1, InitTypeOK, PTL DEF Spec

-----------------------------------------------------------------------------
(* The counter of the elements.                                            *)

(* The calls that have moved their index and have yet to move the counter. *)
Enqueued == {p \in Producers : pc[p] = "e_count"}
Dequeued == {c \in Consumers : pc[c] = "d_count"}

(* They are finitely many, and one more when another arrives.              *)
LEMMA PendingCount ==
  ASSUME NEW T, IsFiniteSet(T), NEW S \in SUBSET T
  PROVE  /\ Cardinality(S) \in Nat
         /\ \A t \in T \ S : Cardinality(S \cup {t}) = Cardinality(S) + 1
<1>1. IsFiniteSet(S)
  BY FS_Subset
<1> QED
  BY <1>1, FS_CardinalityType, FS_AddElement

(* What the counter should be: the indices, the pending calls set off.     *)
Balance(w, r, e, d) == (w - r - e + d) % IdxMod

(* The balance, when an index or the counter moves by one.                 *)
LEMMA BalanceMoves ==
  ASSUME NEW w \in Int, NEW r \in Int, NEW e \in Int, NEW d \in Int
  PROVE  /\ Balance(Inc(w), r, e + 1, d) = Balance(w, r, e, d)
         /\ Balance(w, Inc(r), e, d + 1) = Balance(w, r, e, d)
         /\ Balance(w, r, e - 1, d) = Inc(Balance(w, r, e, d))
         /\ Balance(w, r, e, d - 1) = (Balance(w, r, e, d) - 1) % IdxMod
<1> DEFINE x == w - r - e + d
           M == IdxMod
<1>0. M \in Nat /\ M >= 1 /\ x \in Int
  BY CasQueueAssumption
<1> HIDE DEF M
<1>1. \A i \in Int, k \in Int : /\ ((i % M) + k) % M = (i + k) % M
                               /\ (k - (i % M)) % M = (k - i) % M
  BY <1>0, ReduceFirst
<1>2. (((w + 1) % M) + (d - r - (e + 1))) % M = x % M
  <2>1. w + 1 \in Int /\ d - r - (e + 1) \in Int /\ (w + 1) + (d - r - (e + 1)) = x
    OBVIOUS
  <2> QED
    BY ONLY <1>1, <2>1
<1>3. ((w - e + (d + 1)) - ((r + 1) % M)) % M = x % M
  <2>1. r + 1 \in Int /\ w - e + (d + 1) \in Int /\ (w - e + (d + 1)) - (r + 1) = x
    OBVIOUS
  <2> QED
    BY ONLY <1>1, <2>1
<1>4. ((x % M) + 1) % M = (x + 1) % M /\ ((x % M) + (-1)) % M = (x + (-1)) % M
  <2> HIDE DEF x
  <2> QED
    BY <1>0, <1>1
<1>5. (w + 1) % M \in Int /\ (r + 1) % M \in Int /\ x % M \in Int
  BY <1>0
<1>6. /\ ((w + 1) % M) - r - (e + 1) + d = ((w + 1) % M) + (d - r - (e + 1))
      /\ w - ((r + 1) % M) - e + (d + 1) = (w - e + (d + 1)) - ((r + 1) % M)
      /\ w - r - (e - 1) + d = x + 1 /\ w - r - e + (d - 1) = x + (-1)
      /\ (x % M) - 1 = (x % M) + (-1)
  BY <1>5
<1> QED
  BY <1>2, <1>3, <1>4, <1>6 DEF M, Balance, Inc

(* What both sides of the equation are made of.                            *)
LEMMA Account ==
  ASSUME TypeOK, IsFiniteSet(Producers), IsFiniteSet(Consumers)
  PROVE  /\ length \in Int /\ last_write_idx \in Int /\ read_idx \in Int
         /\ Cardinality(Enqueued) \in Int /\ Cardinality(Dequeued) \in Int
<1>1. Cardinality(Enqueued) \in Nat /\ Cardinality(Dequeued) \in Nat
  BY PendingCount DEF Enqueued, Dequeued
<1> QED
  BY <1>1 DEF TypeOK

(* The steps that touch neither the counter nor what it counts.            *)
LEMMA QuietStep ==
  ASSUME LengthAccounting, UNCHANGED <<length, last_write_idx, read_idx>>,
         Enqueued' = Enqueued, Dequeued' = Dequeued
  PROVE  LengthAccounting'
  BY DEF LengthAccounting, size, Enqueued, Dequeued

(* Every step of an enqueue keeps the account.                             *)
LEMMA EnqueueAccounts ==
  ASSUME TypeOK, LengthAccounting, IsFiniteSet(Producers), IsFiniteSet(Consumers),
         NEW p \in Producers, EnqueueCall(p) \/ enqueue(p)
  PROVE  LengthAccounting'
<1> DEFINE w == last_write_idx
           r == read_idx
           e == Cardinality(Enqueued)
           d == Cardinality(Dequeued)
<1>1. /\ length \in Int /\ w \in Int /\ r \in Int /\ e \in Int /\ d \in Int
      /\ length = Balance(w, r, e, d)
  BY Account DEF LengthAccounting, size, Enqueued, Dequeued, Balance
<1>2. Dequeued' = Dequeued
  BY CasQueueAssumption DEF Dequeued, TypeOK, Threads, Goto, EnqueueCall, enqueue, EnqLoadRead,
     EnqLoadWrite, EnqClaim, EnqClaimFail, EnqCopyLo, EnqCopyHi, EnqPublish, EnqPublishFail, EnqCount
<1>3. CASE EnqPublish(p)
  <2>1. length' = length /\ read_idx' = r /\ w' = Inc(w)
    BY <1>3 DEF EnqPublish
  <2>2. Enqueued' = Enqueued \cup {p} /\ p \in Producers \ Enqueued
    BY <1>3 DEF EnqPublish, Enqueued, Goto, TypeOK, Threads
  <2>3. Cardinality(Enqueued') = e + 1
    BY <2>2, PendingCount DEF Enqueued
  <2>5. length' = Balance(Inc(w), r, e + 1, d)
    <3> HIDE DEF w, r, e, d
    <3> QED
      BY <1>1, <2>1, BalanceMoves
  <2> QED
    BY <1>2, <2>1, <2>3, <2>5 DEF LengthAccounting, size, Enqueued, Dequeued, Balance
<1>4. CASE EnqCount(p)
  <2>1. length' = Inc(length) /\ read_idx' = r /\ w' = w
    BY <1>4 DEF EnqCount
  <2>2. Enqueued = Enqueued' \cup {p} /\ p \in Producers \ Enqueued' /\ Enqueued' \in SUBSET Producers
    BY <1>4 DEF EnqCount, Enqueued, Goto, TypeOK, Threads
  <2>3. Cardinality(Enqueued') \in Nat /\ e = Cardinality(Enqueued') + 1
    BY <2>2, PendingCount
  <2>4. Cardinality(Enqueued') = e - 1
    BY <2>3
  <2>5. length' = Balance(w, r, e - 1, d)
    <3> HIDE DEF w, r, e, d
    <3> QED
      BY <1>1, <2>1, BalanceMoves
  <2> QED
    BY <1>2, <2>1, <2>4, <2>5 DEF LengthAccounting, size, Enqueued, Dequeued, Balance
<1>5. CASE ~EnqPublish(p) /\ ~EnqCount(p)
  <2>1. UNCHANGED <<length, last_write_idx, read_idx>> /\ Enqueued' = Enqueued
    BY <1>5 DEF Enqueued, TypeOK, Threads, Goto, EnqueueCall, enqueue, EnqLoadRead, EnqLoadWrite,
       EnqClaim, EnqClaimFail, EnqCopyLo, EnqCopyHi, EnqPublishFail, shared, locals, history
  <2> QED
    BY <1>2, <2>1, QuietStep
<1> QED
  BY <1>3, <1>4, <1>5

(* Every step of a dequeue keeps the account.                              *)
LEMMA DequeueAccounts ==
  ASSUME TypeOK, LengthAccounting, IsFiniteSet(Producers), IsFiniteSet(Consumers),
         NEW c \in Consumers, DequeueCall(c) \/ dequeue(c)
  PROVE  LengthAccounting'
<1> DEFINE w == last_write_idx
           r == read_idx
           e == Cardinality(Enqueued)
           d == Cardinality(Dequeued)
<1>1. /\ length \in Int /\ w \in Int /\ r \in Int /\ e \in Int /\ d \in Int
      /\ length = Balance(w, r, e, d)
  BY Account DEF LengthAccounting, size, Enqueued, Dequeued, Balance
<1>2. Enqueued' = Enqueued
  BY CasQueueAssumption DEF Enqueued, TypeOK, Threads, Goto, DequeueCall, dequeue, DeqLoadRead,
     DeqLoadLast, DeqCopyLo, DeqCopyHi, DeqClaim, DeqClaimFail, DeqCount
<1>3. CASE DeqClaim(c)
  <2>1. length' = length /\ read_idx' = Inc(r) /\ w' = w
    BY <1>3 DEF DeqClaim
  <2>2. Dequeued' = Dequeued \cup {c} /\ c \in Consumers \ Dequeued
    BY <1>3 DEF DeqClaim, Dequeued, Goto, TypeOK, Threads
  <2>3. Cardinality(Dequeued') = d + 1
    BY <2>2, PendingCount DEF Dequeued
  <2>5. length' = Balance(w, Inc(r), e, d + 1)
    <3> HIDE DEF w, r, e, d
    <3> QED
      BY <1>1, <2>1, BalanceMoves
  <2> QED
    BY <1>2, <2>1, <2>3, <2>5 DEF LengthAccounting, size, Enqueued, Dequeued, Balance
<1>4. CASE DeqCount(c)
  <2>1. length' = (length - 1) % IdxMod /\ read_idx' = r /\ w' = w
    BY <1>4 DEF DeqCount
  <2>2. Dequeued = Dequeued' \cup {c} /\ c \in Consumers \ Dequeued' /\ Dequeued' \in SUBSET Consumers
    BY <1>4 DEF DeqCount, Dequeued, Goto, TypeOK, Threads
  <2>3. Cardinality(Dequeued') \in Nat /\ d = Cardinality(Dequeued') + 1
    BY <2>2, PendingCount
  <2>4. Cardinality(Dequeued') = d - 1
    BY <2>3
  <2>5. length' = Balance(w, r, e, d - 1)
    <3> HIDE DEF w, r, e, d
    <3> QED
      BY <1>1, <2>1, BalanceMoves
  <2> QED
    BY <1>2, <2>1, <2>4, <2>5 DEF LengthAccounting, size, Enqueued, Dequeued, Balance
<1>5. CASE ~DeqClaim(c) /\ ~DeqCount(c)
  <2>1. UNCHANGED <<length, last_write_idx, read_idx>> /\ Dequeued' = Dequeued
    BY <1>5 DEF Dequeued, TypeOK, Threads, Goto, DequeueCall, dequeue, DeqLoadRead, DeqLoadLast,
       DeqCopyLo, DeqCopyHi, DeqClaimFail, shared, locals, history
  <2> QED
    BY <1>2, <2>1, QuietStep
<1> QED
  BY <1>3, <1>4, <1>5

(***************************************************************************)
(* However many threads enqueue and dequeue, and however their steps       *)
(* interleave, _length is off by exactly the calls between moving an index *)
(* and counting it, modulo 2^32 (cas_queue.hpp:97-102, 126-129): it never  *)
(* drifts.  MaxOps may be any number, so that the indices may wrap.        *)
(***************************************************************************)
THEOREM LengthAccountingTheorem ==
  ASSUME IsFiniteSet(Producers), IsFiniteSet(Consumers)
  PROVE  Spec => []LengthAccounting
<1>1. Init => LengthAccounting
  <2> SUFFICES ASSUME Init PROVE LengthAccounting
    OBVIOUS
  <2>1. Enqueued = {} /\ Dequeued = {}
    BY DEF Init, Enqueued, Dequeued, Threads
  <2>2. Cardinality(Enqueued) = 0 /\ Cardinality(Dequeued) = 0
    BY <2>1, FS_EmptySet
  <2>3. ((0 - 0) - 0 + 0) % IdxMod = 0
    BY CasQueueAssumption
  <2> QED
    BY <2>2, <2>3 DEF Init, LengthAccounting, size, Enqueued, Dequeued
<1>2. TypeOK /\ LengthAccounting /\ [Next]_vars => LengthAccounting'
  <2> SUFFICES ASSUME TypeOK, LengthAccounting, [Next]_vars PROVE LengthAccounting'
    OBVIOUS
  <2>1. CASE UNCHANGED vars
    BY <2>1 DEF vars, shared, LengthAccounting, size
  <2> QED
    BY <2>1, EnqueueAccounts, DequeueAccounts DEF Next
<1> QED
  BY <1>1, <1>2, TypeOKTheorem, PTL DEF Spec

-----------------------------------------------------------------------------
(* The counts behind the inductive invariant with a single producer.       *)

(* With one producer, where it is says what is published.                  *)
LEMMA PublishedBy ==
  ASSUME SingleProducer, NEW p \in Producers
  PROVE  /\ pc[p] \in Writing => Published = Len(claimed) - 1
         /\ pc[p] \notin Writing => Published = Len(claimed)
  BY DEF SingleProducer, Published

(* The counts are numbers, and the indices name their slots.               *)
LEMMA Counts ==
  ASSUME IInv
  PROVE  /\ Len(delivered) \in Nat /\ Len(claimed) \in Nat /\ Published \in Nat
         /\ Len(delivered) <= Published /\ Published <= Len(claimed) /\ Len(claimed) <= MaxOps
         /\ Len(claimed) - Len(delivered) <= Size - 1
         /\ index_of_queue(read_idx) = index_of_queue(Len(delivered))
         /\ index_of_queue(last_write_idx) = index_of_queue(Published)
         /\ index_of_queue(write_idx + 1) = index_of_queue(Len(claimed) + 1)
<1>1. Len(delivered) \in Nat /\ Len(claimed) \in Nat /\ issued \in 0..MaxOps
  BY DEF IInv, TypeOK
<1>2. /\ Len(delivered) <= Published /\ Len(claimed) - Len(delivered) <= Size - 1
      /\ Len(claimed) <= issued
  BY DEF IInv, CountInv
<1>3. Published \in Int /\ Published <= Len(claimed)
  BY <1>1 DEF Published
<1>4. Published \in Nat /\ Len(claimed) <= MaxOps
  BY <1>1, <1>2, <1>3, CasQueueAssumption
<1>5. /\ index_of_queue(read_idx) = index_of_queue(Len(delivered))
      /\ index_of_queue(last_write_idx) = index_of_queue(Published)
      /\ index_of_queue(write_idx + 1) = index_of_queue(Len(claimed) + 1)
  BY <1>1, <1>4, SlotOfCount DEF IInv, IndexInv
<1> QED
  BY <1>1, <1>2, <1>3, <1>4, <1>5

(* An enqueue leaves the consumers and what is taken as they are.          *)
LEMMA EnqueueFrame ==
  ASSUME TypeOK, NEW p \in Producers, EnqueueCall(p) \/ enqueue(p)
  PROVE  /\ \A c \in Consumers : /\ pc'[c] = pc[c] /\ data'[c] = data[c]
                                 /\ curr_read_idx'[c] = curr_read_idx[c]
         /\ delivered' = delivered /\ read_idx' = read_idx
<1>1. \A c \in Consumers : c # p /\ c \in Threads
  BY CasQueueAssumption DEF Threads
<1> QED
  BY <1>1 DEF TypeOK, Goto, enqueue, EnqueueCall, EnqLoadRead, EnqLoadWrite, EnqClaim,
     EnqClaimFail, EnqCopyLo, EnqCopyHi, EnqPublish, EnqPublishFail, EnqCount, shared, locals,
     history

(* A dequeue leaves the producers, the slots and what is reserved.         *)
LEMMA DequeueFrame ==
  ASSUME TypeOK, NEW c \in Consumers, DequeueCall(c) \/ dequeue(c)
  PROVE  /\ \A p \in Producers : /\ pc'[p] = pc[p] /\ data'[p] = data[p]
                                 /\ curr_read_idx'[p] = curr_read_idx[p]
         /\ \A d \in Consumers \ {c} : /\ pc'[d] = pc[d] /\ data'[d] = data[d]
                                       /\ curr_read_idx'[d] = curr_read_idx[d]
         /\ UNCHANGED <<queue, write_idx, last_write_idx, curr_write_idx, issued, claimed>>
<1>1. \A p \in Producers : p # c /\ p \in Threads
  BY CasQueueAssumption DEF Threads
<1>2. \A d \in Consumers : d \in Threads
  BY DEF Threads
<1> QED
  BY <1>1, <1>2 DEF TypeOK, Goto, dequeue, DequeueCall, DeqLoadRead, DeqLoadLast, DeqCopyLo,
     DeqCopyHi, DeqClaim, DeqClaimFail, DeqCount, shared, locals, history

(* The parts of the invariant that no step of an enqueue but the copying,  *)
(* the reservation and the publication concerns.                           *)
LEMMA EnqueueQuiet ==
  ASSUME SingleProducer, IInv, NEW p \in Producers, EnqueueCall(p) \/ enqueue(p),
         UNCHANGED <<queue, write_idx, last_write_idx, claimed>>,
         pc'[p] \in Writing <=> pc[p] \in Writing, Len(claimed) <= issued'
  PROVE  /\ Published' = Published
         /\ TypeOK' /\ CountInv' /\ IndexInv' /\ ConsumerInv' /\ SlotInv' /\ ClaimedInv' /\ Fifo'
<1>1. TypeOK /\ TypeOK'
  BY EnqueueTypeOK DEF IInv
<1>2. /\ \A c \in Consumers : /\ pc'[c] = pc[c] /\ data'[c] = data[c]
                              /\ curr_read_idx'[c] = curr_read_idx[c]
      /\ delivered' = delivered /\ read_idx' = read_idx
  BY <1>1, EnqueueFrame
<1>3. Published' = Published
  BY DEF SingleProducer, Published
<1>4. CountInv' /\ IndexInv'
  BY <1>2, <1>3 DEF IInv, CountInv, IndexInv
<1>5. ConsumerInv'
  BY <1>2, <1>3 DEF IInv, ConsumerInv
<1>6. SlotInv' /\ ClaimedInv' /\ Fifo'
  BY <1>2, <1>3 DEF IInv, SlotInv, ClaimedInv, Fifo
<1> QED
  BY <1>1, <1>3, <1>4, <1>5, <1>6

(* The parts that no step of a dequeue but the claim concerns.             *)
LEMMA DequeueQuiet ==
  ASSUME IInv, NEW c \in Consumers, DequeueCall(c) \/ dequeue(c), UNCHANGED <<read_idx, delivered>>
  PROVE  /\ Published' = Published
         /\ TypeOK' /\ CountInv' /\ IndexInv' /\ ProducerInv' /\ SlotInv' /\ ClaimedInv' /\ Fifo'
<1>1. TypeOK /\ TypeOK'
  BY DequeueTypeOK DEF IInv
<1>2. /\ \A p \in Producers : /\ pc'[p] = pc[p] /\ data'[p] = data[p]
                              /\ curr_read_idx'[p] = curr_read_idx[p]
      /\ UNCHANGED <<queue, write_idx, last_write_idx, curr_write_idx, issued, claimed>>
  BY <1>1, DequeueFrame
<1>3. Published' = Published
  BY <1>2 DEF Published
<1>4. CountInv' /\ IndexInv'
  BY <1>2, <1>3 DEF IInv, CountInv, IndexInv
<1>5. ProducerInv'
  BY <1>2, <1>3 DEF IInv, ProducerInv
<1>6. SlotInv' /\ ClaimedInv' /\ Fifo'
  BY <1>2, <1>3 DEF IInv, SlotInv, ClaimedInv, Fifo
<1> QED
  BY <1>1, <1>3, <1>4, <1>5, <1>6

-----------------------------------------------------------------------------
(* The initial state satisfies the inductive invariant.                    *)
LEMMA InitIInv ==
  ASSUME SingleProducer, Init
  PROVE  IInv
<1>0. /\ Len(claimed) = 0 /\ Len(delivered) = 0 /\ Published = 0 /\ 0 % IdxMod = 0
  BY CasQueueAssumption DEF Init, Published, Writing, Threads
<1>1. TypeOK
  BY InitTypeOK
<1>2. CountInv /\ IndexInv
  BY <1>0, CasQueueAssumption DEF Init, CountInv, IndexInv
<1>3. ProducerInv
  BY DEF Init, ProducerInv, Writing, Threads
<1>4. ConsumerInv
  BY DEF Init, ConsumerInv, Threads
<1>5. SlotInv /\ ClaimedInv /\ Fifo
  BY <1>0 DEF Init, SlotInv, ClaimedInv, Fifo
<1> QED
  BY <1>1, <1>2, <1>3, <1>4, <1>5 DEF IInv

-----------------------------------------------------------------------------
(* The steps of an enqueue.                                                *)

(* Beginning an enqueue: its argument is a number nobody has used.         *)
LEMMA EnqueueCallIInv ==
  ASSUME SingleProducer, IInv, NEW p \in Producers, EnqueueCall(p)
  PROVE  IInv'
<1> USE DEF EnqueueCall, Goto, shared, Item
<1>1. /\ pc[p] = "idle" /\ pc'[p] = "e_read" /\ data'[p] = Item(issued + 1)
      /\ issued \in Nat /\ issued + 1 \in 1..MaxOps
      /\ UNCHANGED <<queue, write_idx, last_write_idx, claimed>>
  BY CasQueueAssumption DEF IInv, TypeOK, Threads
<1>2. Len(claimed) \in Nat /\ Len(claimed) < issued' /\ Len(claimed) <= issued'
  <2>1. Len(claimed) \in Nat /\ Len(claimed) <= issued /\ issued' = issued + 1
    BY Counts DEF IInv, CountInv
  <2> QED
    BY <1>1, <2>1
<1>3. /\ TypeOK' /\ CountInv' /\ IndexInv' /\ ConsumerInv' /\ SlotInv' /\ ClaimedInv' /\ Fifo'
  BY <1>1, <1>2, EnqueueQuiet DEF Writing
<1>4. ProducerInv'
  <2> SUFFICES ASSUME NEW q \in Producers PROVE q = p
    BY <1>1, <1>2 DEF ProducerInv, Writing
  <2> QED
    BY DEF SingleProducer
<1> QED
  BY <1>3, <1>4 DEF IInv

(* Loading _read_idx: the producer's copy is what has been taken.          *)
LEMMA EnqLoadReadIInv ==
  ASSUME SingleProducer, IInv, NEW p \in Producers, EnqLoadRead(p)
  PROVE  IInv'
<1> USE DEF EnqLoadRead, Goto, shared, history
<1>1. /\ pc[p] = "e_read" /\ pc'[p] = "e_write" /\ data'[p] = data[p]
      /\ curr_read_idx'[p] = read_idx /\ issued' = issued
      /\ UNCHANGED <<queue, write_idx, last_write_idx, claimed, delivered>>
  BY DEF IInv, TypeOK, Threads
<1>2. Len(claimed) <= issued' /\ Len(delivered) \in 0..Len(delivered)
      /\ Len(claimed) - Len(delivered) <= Size - 1 /\ read_idx = Len(delivered) % IdxMod
  BY <1>1, Counts DEF IInv, CountInv, IndexInv
<1>3. /\ TypeOK' /\ CountInv' /\ IndexInv' /\ ConsumerInv' /\ SlotInv' /\ ClaimedInv' /\ Fifo'
  BY <1>1, <1>2, EnqueueQuiet DEF Writing, enqueue
<1>4. ProducerInv'
  <2>1. /\ Len(claimed) < issued /\ data[p].lo \in 1..MaxOps /\ data[p].hi = data[p].lo
    BY <1>1 DEF IInv, ProducerInv
  <2>2. \A q \in Producers : q = p
    BY DEF SingleProducer
  <2> QED
    BY <1>1, <1>2, <2>1, <2>2 DEF ProducerInv, Writing
<1> QED
  BY <1>3, <1>4 DEF IInv

(* Past the test for a full queue at least two slots are free.             *)
LEMMA EnqLoadWriteIInv ==
  ASSUME SingleProducer, IInv, NEW p \in Producers, EnqLoadWrite(p)
  PROVE  IInv'
<1> USE DEF EnqLoadWrite, Goto, shared, history
<1>1. /\ pc[p] = "e_write" /\ data'[p] = data[p] /\ pc'[p] \in {"idle", "e_claim"}
      /\ issued' = issued
      /\ UNCHANGED <<queue, write_idx, last_write_idx, claimed, delivered>>
  BY DEF IInv, TypeOK, Threads
<1>2. Len(claimed) <= issued'
  BY <1>1 DEF IInv, CountInv
<1>3. /\ TypeOK' /\ CountInv' /\ IndexInv' /\ ConsumerInv' /\ SlotInv' /\ ClaimedInv' /\ Fifo'
  BY <1>1, <1>2, EnqueueQuiet DEF Writing, enqueue
<1>4. ProducerInv'
  <2>1. /\ Len(claimed) < issued /\ data[p].lo \in 1..MaxOps /\ data[p].hi = data[p].lo
    BY <1>1 DEF IInv, ProducerInv
  <2>2. \A q \in Producers : q = p
    BY DEF SingleProducer
  <2>3. pc'[p] = "e_claim" => Len(claimed) - Len(delivered) <= Size - 2
    <3> SUFFICES ASSUME pc'[p] = "e_claim" PROVE Len(claimed) - Len(delivered) <= Size - 2
      OBVIOUS
    <3>1. index_of_queue(write_idx + 1) # index_of_queue(curr_read_idx[p])
      BY DEF IInv, TypeOK, Threads
    <3>2. PICK r \in 0..Len(delivered) : curr_read_idx[p] = r % IdxMod /\ Len(claimed) - r <= Size - 1
      BY <1>1 DEF IInv, ProducerInv
    <3>3. r \in Nat /\ Len(delivered) \in Nat /\ Len(claimed) \in Nat /\ Size \in Nat
      BY <3>2, Counts, CasQueueAssumption
    <3>4. index_of_queue(Len(claimed) + 1) # index_of_queue(r)
      BY <3>1, <3>2, <3>3, Counts, SlotOfCount
    <3>5. Len(claimed) + 1 # r + Size
      BY <3>3, <3>4, SlotPeriod
    <3> QED
      BY <3>2, <3>3, <3>5
  <2> QED
    BY <1>1, <2>1, <2>2, <2>3 DEF ProducerInv, Writing
<1> QED
  BY <1>3, <1>4 DEF IInv

(* Reserving a slot: the ring keeps a free one, and the element that is to *)
(* be written is not yet published.                                        *)
LEMMA EnqClaimIInv ==
  ASSUME SingleProducer, IInv, NEW p \in Producers, EnqClaim(p)
  PROVE  IInv'
<1> USE DEF EnqClaim, Goto, shared, locals
<1>1. /\ pc[p] = "e_claim" /\ pc'[p] = "e_copy_lo" /\ data' = data
      /\ write_idx = curr_write_idx[p] /\ write_idx' = Inc(write_idx)
      /\ claimed' = Append(claimed, data[p].lo)
      /\ UNCHANGED <<queue, read_idx, last_write_idx, curr_write_idx, issued, delivered>>
  BY DEF IInv, TypeOK, Threads
<1>2. /\ Len(claimed) < issued /\ data[p].lo \in 1..MaxOps /\ data[p].hi = data[p].lo
      /\ Len(claimed) - Len(delivered) <= Size - 2
  BY <1>1 DEF IInv, ProducerInv
<1>3. /\ claimed' \in Seq(1..MaxOps) /\ Len(claimed') = Len(claimed) + 1
      /\ \A k \in 1..Len(claimed) : claimed'[k] = claimed[k]
      /\ claimed'[Len(claimed) + 1] = data[p].lo
  BY <1>1, <1>2, AppendFacts DEF IInv, ClaimedInv
<1>4. /\ Len(claimed) \in Nat /\ Len(delivered) \in Nat /\ Len(delivered) <= Published
      /\ issued \in Nat /\ Size \in Nat
  BY Counts, CasQueueAssumption DEF IInv, TypeOK
<1>5. Published = Len(claimed) /\ Published' = Len(claimed') - 1 /\ Published' = Published
  <2>1. Published = Len(claimed)
    BY <1>1, PublishedBy DEF Writing
  <2>2. Published' = Len(claimed') - 1
    BY <1>1 DEF Published, Writing
  <2> QED
    BY <1>3, <1>4, <2>1, <2>2
<1>6. TypeOK'
  BY EnqueueTypeOK DEF IInv, enqueue
<1>7. CountInv'
  BY <1>1, <1>2, <1>3, <1>4, <1>5 DEF CountInv
<1>8. IndexInv'
  <2>1. write_idx' = (Len(claimed) + 1) % IdxMod
    BY <1>1, <1>4, IncCount DEF IInv, IndexInv
  <2> QED
    BY <1>1, <1>3, <1>5, <2>1 DEF IInv, IndexInv
<1>9. ProducerInv'
  <2>1. \A q \in Producers : q = p
    BY DEF SingleProducer
  <2>2. curr_write_idx'[p] = last_write_idx'
    BY <1>1, <1>5 DEF IInv, IndexInv
  <2> QED
    BY <1>1, <1>2, <1>3, <2>1, <2>2 DEF ProducerInv, Writing
<1>10. ConsumerInv'
  <2>1. \A c \in Consumers : /\ pc'[c] = pc[c] /\ data'[c] = data[c]
                             /\ curr_read_idx'[c] = curr_read_idx[c]
    BY EnqueueFrame DEF IInv, enqueue
  <2> QED
    BY <1>1, <1>5, <2>1 DEF IInv, ConsumerInv
<1>11. SlotInv' /\ ClaimedInv'
  BY <1>1, <1>3, <1>4, <1>5 DEF IInv, SlotInv, ClaimedInv
<1>12. Fifo'
  BY <1>1, <1>3, <1>4 DEF IInv, Fifo
<1> QED
  BY <1>6, <1>7, <1>8, <1>9, <1>10, <1>11, <1>12 DEF IInv

(* A failed reservation starts the loop again.                             *)
LEMMA EnqClaimFailIInv ==
  ASSUME SingleProducer, IInv, NEW p \in Producers, EnqClaimFail(p)
  PROVE  IInv'
<1> USE DEF EnqClaimFail, Goto, shared, history
<1>1. /\ pc[p] = "e_claim" /\ pc'[p] = "e_read" /\ data' = data /\ issued' = issued
      /\ UNCHANGED <<queue, write_idx, last_write_idx, claimed>>
  BY DEF IInv, TypeOK, Threads
<1>2. Len(claimed) <= issued'
  BY <1>1 DEF IInv, CountInv
<1>3. /\ TypeOK' /\ CountInv' /\ IndexInv' /\ ConsumerInv' /\ SlotInv' /\ ClaimedInv' /\ Fifo'
  BY <1>1, <1>2, EnqueueQuiet DEF Writing, enqueue
<1>4. ProducerInv'
  <2>1. /\ Len(claimed) < issued /\ data[p].lo \in 1..MaxOps /\ data[p].hi = data[p].lo
    BY <1>1 DEF IInv, ProducerInv
  <2>2. \A q \in Producers : q = p
    BY DEF SingleProducer
  <2> QED
    BY <1>1, <2>1, <2>2 DEF ProducerInv, Writing
<1> QED
  BY <1>3, <1>4 DEF IInv

(* Writing the first word touches no slot that a consumer could take.       *)
LEMMA EnqCopyLoIInv ==
  ASSUME SingleProducer, IInv, NEW p \in Producers, EnqCopyLo(p)
  PROVE  IInv'
<1> USE DEF EnqCopyLo, Goto, shared, locals, history
<1> DEFINE s == index_of_queue(last_write_idx)
<1>1. /\ pc[p] = "e_copy_lo" /\ pc'[p] = "e_copy_hi" /\ curr_write_idx[p] = last_write_idx
      /\ UNCHANGED <<shared, locals, history>>
  BY DEF IInv, TypeOK, Threads, ProducerInv, Writing
<1>2. /\ s \in 0..(Size - 1)
      /\ queue'[s].lo = data[p].lo /\ queue'[s].hi = queue[s].hi
      /\ \A t \in 0..(Size - 1) : t # s => queue'[t] = queue[t]
  <2>1. s \in 0..(Size - 1)
    BY SlotType, CasQueueAssumption DEF IInv, TypeOK
  <2>2. queue' = [queue EXCEPT ![s] = [lo |-> data[p].lo, hi |-> queue[s].hi]]
    BY <1>1, <2>1 DEF IInv, TypeOK
  <2> HIDE DEF s
  <2> QED
    BY <2>1, <2>2 DEF IInv, TypeOK
<1>3. /\ Len(claimed) \in Nat /\ Len(delivered) \in Nat /\ Published \in Nat
      /\ Len(delivered) <= Published /\ Len(claimed) = Published + 1 /\ Size \in Nat
      /\ Len(claimed) - Len(delivered) <= Size - 1 /\ s = index_of_queue(Published)
  BY <1>1, Counts, PublishedBy, CasQueueAssumption DEF Writing
<1> HIDE DEF s
<1>4. \A i \in Nat : (Len(delivered) <= i /\ i < Published) =>
        queue'[index_of_queue(i)] = queue[index_of_queue(i)]
  <2> SUFFICES ASSUME NEW i \in Nat, Len(delivered) <= i, i < Published
               PROVE  queue'[index_of_queue(i)] = queue[index_of_queue(i)]
    OBVIOUS
  <2>1. i < Published /\ Published < i + Size
    BY <1>3
  <2>2. index_of_queue(i) # s /\ index_of_queue(i) \in 0..(Size - 1)
    BY <1>3, <2>1, SlotDiffers, SlotType
  <2> QED
    BY <1>2, <2>2
<1>5. Published' = Published
  BY <1>1 DEF Published, SingleProducer, Writing
<1>6. TypeOK' /\ CountInv' /\ IndexInv'
  BY <1>1, <1>5, EnqueueTypeOK DEF IInv, enqueue, CountInv, IndexInv
<1>7. ProducerInv'
  <2>1. \A q \in Producers : q = p
    BY DEF SingleProducer
  <2>2. index_of_queue(last_write_idx') = s
    BY <1>1 DEF s
  <2>3. /\ data[p].lo = claimed[Len(claimed)] /\ data[p].hi = claimed[Len(claimed)]
        /\ pc[p] = "e_copy_hi" => queue[s].lo = data[p].lo
    BY <1>1 DEF IInv, ProducerInv, Writing, s
  <2> QED
    BY <1>1, <1>2, <2>1, <2>2, <2>3 DEF ProducerInv, Writing
<1>8. ConsumerInv'
  <2>1. \A c \in Consumers : /\ pc'[c] = pc[c] /\ data'[c] = data[c]
                             /\ curr_read_idx'[c] = curr_read_idx[c]
    BY EnqueueFrame DEF IInv, enqueue
  <2>2. Len(delivered) < Published =>
          queue'[index_of_queue(read_idx)] = queue[index_of_queue(read_idx)]
    BY <1>3, <1>4, Counts
  <2> QED
    BY <1>1, <1>5, <2>1, <2>2 DEF IInv, ConsumerInv
<1>9. SlotInv' /\ ClaimedInv' /\ Fifo'
  BY <1>1, <1>4, <1>5 DEF IInv, SlotInv, ClaimedInv, Fifo
<1> QED
  BY <1>6, <1>7, <1>8, <1>9 DEF IInv

(* Writing the second word touches no slot that a consumer could take.      *)
LEMMA EnqCopyHiIInv ==
  ASSUME SingleProducer, IInv, NEW p \in Producers, EnqCopyHi(p)
  PROVE  IInv'
<1> USE DEF EnqCopyHi, Goto, shared, locals, history
<1> DEFINE s == index_of_queue(last_write_idx)
<1>1. /\ pc[p] = "e_copy_hi" /\ pc'[p] = "e_publish" /\ curr_write_idx[p] = last_write_idx
      /\ UNCHANGED <<shared, locals, history>>
  BY DEF IInv, TypeOK, Threads, ProducerInv, Writing
<1>2. /\ s \in 0..(Size - 1)
      /\ queue'[s].hi = data[p].hi /\ queue'[s].lo = queue[s].lo
      /\ \A t \in 0..(Size - 1) : t # s => queue'[t] = queue[t]
  <2>1. s \in 0..(Size - 1)
    BY SlotType, CasQueueAssumption DEF IInv, TypeOK
  <2>2. queue' = [queue EXCEPT ![s] = [lo |-> queue[s].lo, hi |-> data[p].hi]]
    BY <1>1, <2>1 DEF IInv, TypeOK
  <2> HIDE DEF s
  <2> QED
    BY <2>1, <2>2 DEF IInv, TypeOK
<1>3. /\ Len(claimed) \in Nat /\ Len(delivered) \in Nat /\ Published \in Nat
      /\ Len(delivered) <= Published /\ Len(claimed) = Published + 1 /\ Size \in Nat
      /\ Len(claimed) - Len(delivered) <= Size - 1 /\ s = index_of_queue(Published)
  BY <1>1, Counts, PublishedBy, CasQueueAssumption DEF Writing
<1> HIDE DEF s
<1>4. \A i \in Nat : (Len(delivered) <= i /\ i < Published) =>
        queue'[index_of_queue(i)] = queue[index_of_queue(i)]
  <2> SUFFICES ASSUME NEW i \in Nat, Len(delivered) <= i, i < Published
               PROVE  queue'[index_of_queue(i)] = queue[index_of_queue(i)]
    OBVIOUS
  <2>1. i < Published /\ Published < i + Size
    BY <1>3
  <2>2. index_of_queue(i) # s /\ index_of_queue(i) \in 0..(Size - 1)
    BY <1>3, <2>1, SlotDiffers, SlotType
  <2> QED
    BY <1>2, <2>2
<1>5. Published' = Published
  BY <1>1 DEF Published, SingleProducer, Writing
<1>6. TypeOK' /\ CountInv' /\ IndexInv'
  BY <1>1, <1>5, EnqueueTypeOK DEF IInv, enqueue, CountInv, IndexInv
<1>7. ProducerInv'
  <2>1. \A q \in Producers : q = p
    BY DEF SingleProducer
  <2>2. index_of_queue(last_write_idx') = s
    BY <1>1 DEF s
  <2>3. /\ data[p].lo = claimed[Len(claimed)] /\ data[p].hi = claimed[Len(claimed)]
        /\ pc[p] = "e_copy_hi" => queue[s].lo = data[p].lo
    BY <1>1 DEF IInv, ProducerInv, Writing, s
  <2> QED
    BY <1>1, <1>2, <2>1, <2>2, <2>3 DEF ProducerInv, Writing
<1>8. ConsumerInv'
  <2>1. \A c \in Consumers : /\ pc'[c] = pc[c] /\ data'[c] = data[c]
                             /\ curr_read_idx'[c] = curr_read_idx[c]
    BY EnqueueFrame DEF IInv, enqueue
  <2>2. Len(delivered) < Published =>
          queue'[index_of_queue(read_idx)] = queue[index_of_queue(read_idx)]
    BY <1>3, <1>4, Counts
  <2> QED
    BY <1>1, <1>5, <2>1, <2>2 DEF IInv, ConsumerInv
<1>9. SlotInv' /\ ClaimedInv' /\ Fifo'
  BY <1>1, <1>4, <1>5 DEF IInv, SlotInv, ClaimedInv, Fifo
<1> QED
  BY <1>6, <1>7, <1>8, <1>9 DEF IInv

(* The published index advances to the reserved one.                       *)
LEMMA EnqPublishFacts ==
  ASSUME SingleProducer, IInv, NEW p \in Producers, EnqPublish(p)
  PROVE  /\ pc[p] = "e_publish" /\ pc'[p] = "e_count"
         /\ Published \in Nat /\ Len(claimed) = Published + 1
         /\ Published' = Published + 1 /\ last_write_idx' = (Published + 1) % IdxMod
         /\ UNCHANGED <<queue, length, read_idx, write_idx, locals, history>>
<1> USE DEF EnqPublish, Goto
<1>1. /\ pc[p] = "e_publish" /\ pc'[p] = "e_count" /\ curr_write_idx[p] = last_write_idx
      /\ UNCHANGED <<queue, length, read_idx, write_idx, locals, history>>
  BY DEF IInv, TypeOK, Threads
<1>2. Published \in Nat /\ Len(claimed) = Published + 1
  BY <1>1, Counts, PublishedBy DEF Writing
<1>3. Published' = Published + 1
  BY <1>1, <1>2 DEF Published, SingleProducer, Writing, history
<1>4. last_write_idx' = (Published + 1) % IdxMod
  BY <1>1, <1>2, IncCount DEF IInv, IndexInv
<1> QED
  BY <1>1, <1>2, <1>3, <1>4

(* Publishing: the slot it makes visible holds the whole element.          *)
LEMMA EnqPublishIInv ==
  ASSUME SingleProducer, IInv, NEW p \in Producers, EnqPublish(p)
  PROVE  IInv'
<1> USE DEF locals, history
<1>1. /\ pc[p] = "e_publish" /\ pc'[p] = "e_count"
      /\ Published \in Nat /\ Len(claimed) = Published + 1
      /\ Published' = Published + 1 /\ last_write_idx' = (Published + 1) % IdxMod
      /\ UNCHANGED <<queue, length, read_idx, write_idx, locals, history>>
  BY EnqPublishFacts
<1>2. Len(delivered) \in Nat /\ Len(delivered) <= Published
  BY Counts
<1>3. TypeOK'
  BY EnqueueTypeOK DEF IInv, enqueue
<1>4. CountInv' /\ IndexInv'
  BY <1>1, <1>2 DEF IInv, CountInv, IndexInv
<1>5. ProducerInv'
  <2>1. \A q \in Producers : q = p
    BY DEF SingleProducer
  <2> QED
    BY <1>1, <2>1 DEF ProducerInv, Writing
<1>6. ConsumerInv'
  <2>1. \A c \in Consumers : /\ pc'[c] = pc[c] /\ data'[c] = data[c]
                             /\ curr_read_idx'[c] = curr_read_idx[c]
    BY EnqueueFrame DEF IInv, enqueue
  <2>2. Len(delivered) < Published' /\ UNCHANGED <<delivered, queue, read_idx>>
    BY <1>1, <1>2
  <2> QED
    BY <2>1, <2>2 DEF IInv, ConsumerInv
<1>7. SlotInv'
  <2>1. /\ queue[index_of_queue(Published)].lo = claimed[Published + 1]
        /\ queue[index_of_queue(Published)].hi = claimed[Published + 1]
    BY <1>1, Counts DEF IInv, ProducerInv, Writing
  <2> SUFFICES ASSUME NEW i \in 0..(MaxOps - 1), Len(delivered) <= i, i < Published + 1
               PROVE  /\ queue[index_of_queue(i)].lo = claimed[i + 1]
                      /\ queue[index_of_queue(i)].hi = claimed[i + 1]
    BY <1>1 DEF SlotInv
  <2>2. i < Published \/ i = Published
    BY <1>1, CasQueueAssumption
  <2> QED
    BY <2>1, <2>2 DEF IInv, SlotInv
<1>8. ClaimedInv' /\ Fifo'
  BY <1>1 DEF IInv, ClaimedInv, Fifo
<1> QED
  BY <1>3, <1>4, <1>5, <1>6, <1>7, <1>8 DEF IInv

(* With one producer a failed publication reloads the index it had.        *)
LEMMA EnqPublishFailIInv ==
  ASSUME SingleProducer, IInv, NEW p \in Producers, EnqPublishFail(p)
  PROVE  IInv'
<1> USE DEF EnqPublishFail, shared, history
<1>1. /\ pc' = pc /\ pc[p] = "e_publish" /\ data' = data /\ issued' = issued
      /\ curr_write_idx'[p] = last_write_idx
      /\ UNCHANGED <<queue, write_idx, last_write_idx, claimed>>
  BY DEF IInv, TypeOK
<1>2. Len(claimed) <= issued'
  BY <1>1 DEF IInv, CountInv
<1>3. /\ TypeOK' /\ CountInv' /\ IndexInv' /\ ConsumerInv' /\ SlotInv' /\ ClaimedInv' /\ Fifo'
  BY <1>1, <1>2, EnqueueQuiet DEF enqueue
<1>4. ProducerInv'
  <2>1. \A q \in Producers : q = p
    BY DEF SingleProducer
  <2> QED
    BY <1>1, <2>1 DEF IInv, ProducerInv, Writing
<1> QED
  BY <1>3, <1>4 DEF IInv

(* Adding to _length concerns no other variable.                           *)
LEMMA EnqCountIInv ==
  ASSUME SingleProducer, IInv, NEW p \in Producers, EnqCount(p)
  PROVE  IInv'
<1> USE DEF EnqCount, Goto, locals, history
<1>1. /\ pc[p] = "e_count" /\ pc'[p] = "idle" /\ issued' = issued
      /\ UNCHANGED <<queue, write_idx, last_write_idx, claimed>>
  BY DEF IInv, TypeOK, Threads
<1>2. Len(claimed) <= issued'
  BY <1>1 DEF IInv, CountInv
<1>3. /\ TypeOK' /\ CountInv' /\ IndexInv' /\ ConsumerInv' /\ SlotInv' /\ ClaimedInv' /\ Fifo'
  BY <1>1, <1>2, EnqueueQuiet DEF enqueue, Writing
<1>4. ProducerInv'
  <2>1. \A q \in Producers : q = p
    BY DEF SingleProducer
  <2> QED
    BY <1>1, <2>1 DEF ProducerInv, Writing
<1> QED
  BY <1>3, <1>4 DEF IInv

-----------------------------------------------------------------------------
(* The steps of a dequeue.                                                 *)

(* What a step of one consumer means for the others.                       *)
LEMMA DequeueOthers ==
  ASSUME IInv, NEW c \in Consumers, DequeueCall(c) \/ dequeue(c),
         UNCHANGED <<read_idx, delivered>>,
         /\ pc'[c] \in {"idle", "d_read", "d_last", "d_copy_lo", "d_copy_hi", "d_claim", "d_count"}
         /\ pc'[c] \in {"d_last", "d_copy_lo", "d_copy_hi", "d_claim"} =>
              \/ curr_read_idx'[c] = read_idx
              \/ ~OneConsumer /\ curr_read_idx'[c] < Len(delivered)
         /\ (pc'[c] \in {"d_copy_lo", "d_copy_hi", "d_claim"} /\ curr_read_idx'[c] = read_idx) =>
              Len(delivered) < Published
         /\ (pc'[c] \in {"d_copy_hi", "d_claim"} /\ curr_read_idx'[c] = read_idx) =>
              data'[c].lo = queue[index_of_queue(read_idx)].lo
         /\ (pc'[c] = "d_claim" /\ curr_read_idx'[c] = read_idx) =>
              data'[c].hi = queue[index_of_queue(read_idx)].hi
  PROVE  IInv'
<1>1. /\ Published' = Published
      /\ TypeOK' /\ CountInv' /\ IndexInv' /\ ProducerInv' /\ SlotInv' /\ ClaimedInv' /\ Fifo'
  BY DequeueQuiet
<1>2. /\ \A d \in Consumers \ {c} : /\ pc'[d] = pc[d] /\ data'[d] = data[d]
                                    /\ curr_read_idx'[d] = curr_read_idx[d]
      /\ queue' = queue
  BY DequeueFrame DEF IInv
<1>3. ConsumerInv'
  BY <1>1, <1>2 DEF IInv, ConsumerInv
<1> QED
  BY <1>1, <1>3 DEF IInv

(* Beginning a dequeue, and the steps that end or repeat one.              *)
LEMMA DeqQuietIInv ==
  ASSUME IInv, NEW c \in Consumers, DequeueCall(c) \/ DeqClaimFail(c) \/ DeqCount(c)
  PROVE  IInv'
<1>1. /\ pc'[c] \in {"d_read", "idle"} /\ UNCHANGED <<read_idx, delivered>>
  BY DEF DequeueCall, DeqClaimFail, DeqCount, Goto, shared, locals, history, IInv, TypeOK, Threads
<1> QED
  BY <1>1, DequeueOthers DEF dequeue

(* Loading _read_idx: the consumer's copy is that of the queue.            *)
LEMMA DeqLoadReadIInv ==
  ASSUME IInv, NEW c \in Consumers, DeqLoadRead(c)
  PROVE  IInv'
<1>1. /\ pc'[c] = "d_last" /\ curr_read_idx'[c] = read_idx /\ UNCHANGED <<read_idx, delivered>>
  BY DEF DeqLoadRead, Goto, shared, history, IInv, TypeOK, Threads
<1> QED
  BY <1>1, DequeueOthers DEF dequeue

(* Past the test for an empty queue an up-to-date consumer has an element. *)
LEMMA DeqLoadLastIInv ==
  ASSUME IInv, NEW c \in Consumers, DeqLoadLast(c)
  PROVE  IInv'
<1> USE DEF DeqLoadLast, Goto, shared, locals, history
<1>1. /\ pc[c] = "d_last" /\ pc'[c] \in {"idle", "d_copy_lo"}
      /\ UNCHANGED <<read_idx, delivered, curr_read_idx>>
  BY DEF IInv, TypeOK, Threads
<1>2. \/ curr_read_idx[c] = read_idx
      \/ ~OneConsumer /\ curr_read_idx[c] < Len(delivered)
  BY <1>1 DEF IInv, ConsumerInv
<1>3. (pc'[c] = "d_copy_lo" /\ curr_read_idx[c] = read_idx) => Len(delivered) < Published
  <2> SUFFICES ASSUME pc'[c] = "d_copy_lo", curr_read_idx[c] = read_idx
               PROVE  Len(delivered) < Published
    OBVIOUS
  <2>1. index_of_queue(last_write_idx) # index_of_queue(read_idx)
    BY DEF IInv, TypeOK, Threads
  <2>2. Len(delivered) # Published
    BY <2>1, Counts
  <2> QED
    BY <2>2, Counts
<1> QED
  BY <1>1, <1>2, <1>3, DequeueOthers DEF dequeue

(* Reading the first word of a slot changes only the consumer's copy.      *)
LEMMA DeqCopyLoIInv ==
  ASSUME IInv, NEW c \in Consumers, DeqCopyLo(c)
  PROVE  IInv'
<1> USE DEF DeqCopyLo, Goto, shared, history
<1>1. /\ pc[c] = "d_copy_lo" /\ pc'[c] = "d_copy_hi"
      /\ data'[c].lo = queue[index_of_queue(curr_read_idx[c])].lo
      /\ UNCHANGED <<read_idx, delivered, curr_read_idx>>
  BY DEF IInv, TypeOK, Threads
<1> QED
  BY <1>1, DequeueOthers DEF dequeue, IInv, ConsumerInv

(* Reading the second word of a slot changes only the consumer's copy.     *)
LEMMA DeqCopyHiIInv ==
  ASSUME IInv, NEW c \in Consumers, DeqCopyHi(c)
  PROVE  IInv'
<1> USE DEF DeqCopyHi, Goto, shared, history
<1>1. /\ pc[c] = "d_copy_hi" /\ pc'[c] = "d_claim" /\ data'[c].lo = data[c].lo
      /\ data'[c].hi = queue[index_of_queue(curr_read_idx[c])].hi
      /\ UNCHANGED <<read_idx, delivered, curr_read_idx>>
  BY DEF IInv, TypeOK, Threads
<1> QED
  BY <1>1, DequeueOthers DEF dequeue, IInv, ConsumerInv

(* Every published slot holds, whole, the argument it was reserved for.    *)
LEMMA SlotHoldsItem ==
  ASSUME IInv, NEW i \in Nat, Len(delivered) <= i, i < Published
  PROVE  queue[index_of_queue(i)] = Item(claimed[i + 1])
<1>1. i \in 0..(MaxOps - 1)
  BY Counts, CasQueueAssumption
<1>2. /\ queue[index_of_queue(i)].lo = claimed[i + 1]
      /\ queue[index_of_queue(i)].hi = claimed[i + 1]
  BY <1>1 DEF IInv, SlotInv
<1>3. queue[index_of_queue(i)] \in Elements
  BY SlotType DEF IInv, TypeOK
<1>4. queue[index_of_queue(i)] =
        [lo |-> queue[index_of_queue(i)].lo, hi |-> queue[index_of_queue(i)].hi]
  BY <1>3 DEF Elements
<1> QED
  BY <1>2, <1>4 DEF Item

(* What a successful claim of dequeue took is the oldest element, whole.   *)
LEMMA DeqClaimTakesOldest ==
  ASSUME IInv, NEW c \in Consumers, DeqClaim(c)
  PROVE  /\ Len(delivered) < Published
         /\ data[c] = Item(claimed[Len(delivered) + 1])
         /\ read_idx' = (Len(delivered) + 1) % IdxMod
<1> USE DEF DeqClaim, Goto
<1>1. Len(delivered) < Published
  BY DEF IInv, ConsumerInv
<1>2. /\ data[c].lo = queue[index_of_queue(read_idx)].lo
      /\ data[c].hi = queue[index_of_queue(read_idx)].hi
  BY DEF IInv, ConsumerInv
<1>3. queue[index_of_queue(read_idx)] = Item(claimed[Len(delivered) + 1])
  BY <1>1, Counts, SlotHoldsItem
<1>4. data[c] = [lo |-> data[c].lo, hi |-> data[c].hi]
  BY DEF IInv, TypeOK, Elements, Threads
<1>5. read_idx' = (Len(delivered) + 1) % IdxMod
  BY Counts, IncCount DEF IInv, IndexInv
<1> QED
  BY <1>1, <1>2, <1>3, <1>4, <1>5 DEF Item

(* No other consumer takes the index after a claim for the one it copied.  *)
LEMMA OthersAreStale ==
  ASSUME SingleProducer, IInv, NEW c \in Consumers, DeqClaim(c), NEW d \in Consumers, d # c,
         pc[d] \in {"d_last", "d_copy_lo", "d_copy_hi", "d_claim"}
  PROVE  /\ ~OneConsumer /\ curr_read_idx[d] < Len(delivered) + 1
         /\ curr_read_idx[d] # read_idx'
<1>1. ~OneConsumer /\ MaxOps < IdxMod
  BY DEF SingleProducer, OneConsumer
<1>2. /\ Len(delivered) \in Nat /\ Len(delivered) + 1 <= MaxOps /\ IdxMod \in Nat
      /\ MaxOps \in Nat
  BY DeqClaimTakesOldest, Counts, CasQueueAssumption
<1>3. read_idx = Len(delivered) /\ read_idx' = Len(delivered) + 1
  BY <1>1, <1>2, DeqClaimTakesOldest DEF IInv, IndexInv
<1>4. curr_read_idx[d] = read_idx \/ curr_read_idx[d] < Len(delivered)
  BY DEF IInv, ConsumerInv
<1>5. curr_read_idx[d] \in Nat
  BY CasQueueAssumption DEF IInv, TypeOK, Threads
<1> QED
  BY <1>1, <1>2, <1>3, <1>4, <1>5

(* The element taken is the oldest one: a claim succeeds on no stale copy. *)
LEMMA DeqClaimIInv ==
  ASSUME SingleProducer, IInv, NEW c \in Consumers, DeqClaim(c)
  PROVE  IInv'
<1> USE DEF DeqClaim, Goto, locals
<1>1. /\ Len(delivered) < Published
      /\ data[c] = Item(claimed[Len(delivered) + 1])
      /\ read_idx' = (Len(delivered) + 1) % IdxMod
  BY DeqClaimTakesOldest
<1>2. /\ Len(delivered) \in Nat /\ Published \in Nat /\ Len(claimed) \in Nat
      /\ Published <= Len(claimed) /\ Len(claimed) - Len(delivered) <= Size - 1
      /\ Size \in Nat
  BY Counts, CasQueueAssumption
<1>3. /\ Len(delivered') = Len(delivered) + 1
      /\ \A k \in 1..Len(delivered) : delivered'[k] = delivered[k]
      /\ delivered'[Len(delivered) + 1] = data[c]
  BY AppendFacts DEF IInv, TypeOK, Threads
<1>4. /\ \A p \in Producers : /\ pc'[p] = pc[p] /\ data'[p] = data[p]
                              /\ curr_read_idx'[p] = curr_read_idx[p]
      /\ \A d \in Consumers \ {c} : /\ pc'[d] = pc[d] /\ data'[d] = data[d]
                                    /\ curr_read_idx'[d] = curr_read_idx[d]
      /\ UNCHANGED <<queue, write_idx, last_write_idx, curr_write_idx, issued, claimed>>
  BY DequeueFrame DEF IInv, dequeue
<1>5. Published' = Published
  BY <1>4 DEF Published
<1>6. TypeOK'
  BY DequeueTypeOK DEF IInv, dequeue
<1>7. CountInv' /\ IndexInv'
  BY <1>1, <1>2, <1>3, <1>4, <1>5 DEF IInv, CountInv, IndexInv
<1>8. ProducerInv'
  <2> SUFFICES ASSUME NEW p \in Producers
               PROVE  /\ pc[p] = "e_write" =>
                           \E r \in 0..(Len(delivered) + 1) :
                             curr_read_idx[p] = r % IdxMod /\ Len(claimed) - r <= Size - 1
                      /\ pc[p] = "e_claim" => (curr_write_idx[p] = write_idx =>
                           Len(claimed) - (Len(delivered) + 1) <= Size - 2)
    BY <1>3, <1>4 DEF IInv, ProducerInv
  <2>1. 0..Len(delivered) \subseteq 0..(Len(delivered) + 1)
    BY <1>2
  <2>2. Len(claimed) - (Len(delivered) + 1) <= Size - 2
    BY <1>2
  <2> QED
    BY <2>1, <2>2 DEF IInv, ProducerInv
<1>9. ConsumerInv'
  <2>1. pc'[c] = "d_count"
    BY DEF IInv, TypeOK, Threads
  <2>2. \A d \in Consumers \ {c} :
          pc[d] \in {"d_last", "d_copy_lo", "d_copy_hi", "d_claim"} =>
            /\ ~OneConsumer /\ curr_read_idx[d] < Len(delivered')
            /\ curr_read_idx[d] # read_idx'
    BY <1>3, OthersAreStale
  <2> QED
    BY <1>4, <2>1, <2>2 DEF IInv, ConsumerInv
<1>10. SlotInv' /\ ClaimedInv'
  BY <1>2, <1>3, <1>4, <1>5 DEF IInv, SlotInv, ClaimedInv
<1>11. Fifo'
  BY <1>1, <1>2, <1>3, <1>4 DEF IInv, Fifo
<1> QED
  BY <1>6, <1>7, <1>8, <1>9, <1>10, <1>11 DEF IInv

-----------------------------------------------------------------------------
(* Every step of enqueue and dequeue preserves the inductive invariant.    *)
LEMMA NextIInv ==
  ASSUME SingleProducer, IInv, [Next]_vars
  PROVE  IInv'
<1>1. ASSUME NEW p \in Producers, EnqueueCall(p) \/ enqueue(p) PROVE IInv'
  BY <1>1, EnqueueCallIInv, EnqLoadReadIInv, EnqLoadWriteIInv, EnqClaimIInv, EnqClaimFailIInv,
     EnqCopyLoIInv, EnqCopyHiIInv, EnqPublishIInv, EnqPublishFailIInv, EnqCountIInv
     DEF enqueue
<1>2. ASSUME NEW c \in Consumers, DequeueCall(c) \/ dequeue(c) PROVE IInv'
  BY <1>2, DeqQuietIInv, DeqLoadReadIInv, DeqLoadLastIInv, DeqCopyLoIInv, DeqCopyHiIInv,
     DeqClaimIInv DEF dequeue
<1>3. CASE UNCHANGED vars
  BY <1>3 DEF IInv, vars, shared, locals, history, TypeOK, CountInv, IndexInv, Published,
              ProducerInv, ConsumerInv, SlotInv, ClaimedInv, Fifo
<1> QED
  BY <1>1, <1>2, <1>3 DEF Next

(***************************************************************************)
(* With one producer, IInv holds throughout every run of enqueue and       *)
(* dequeue (cas_queue.hpp:76-135).  That the indices wrap is part of it    *)
(* when there is one consumer.                                             *)
(***************************************************************************)
THEOREM Invariance ==
  ASSUME SingleProducer
  PROVE  Spec => []IInv
<1>1. Init => IInv
  BY InitIInv
<1>2. IInv /\ [Next]_vars => IInv'
  BY NextIInv
<1> QED
  BY <1>1, <1>2, PTL DEF Spec

(***************************************************************************)
(* With one producer the queue is FIFO and neither loses, duplicates nor   *)
(* tears an element, whatever the consumers do.                            *)
(***************************************************************************)
THEOREM FifoTheorem ==
  ASSUME SingleProducer
  PROVE  Spec => []Fifo
<1>1. IInv => Fifo
  BY DEF IInv
<1> QED
  BY <1>1, Invariance, PTL

(***************************************************************************)
(* With one producer no reservation reaches an element not yet taken: the  *)
(* stale _read_idx that enqueue tests (cas_queue.hpp:83-90) errs on the    *)
(* safe side.                                                              *)
(***************************************************************************)
THEOREM NoOverrunTheorem ==
  ASSUME SingleProducer
  PROVE  Spec => []NoOverrun
<1>1. IInv => NoOverrun
  BY DEF IInv, NoOverrun, CountInv
<1> QED
  BY <1>1, Invariance, PTL

-----------------------------------------------------------------------------
(* The content of the queue, and the abstract queue it implements.         *)

(* The wrapped difference of the two indices is the number of elements.    *)
LEMMA PublishedCount ==
  ASSUME IInv
  PROVE  (last_write_idx - read_idx) % IdxMod = Published - Len(delivered)
<1>1. /\ Len(delivered) \in Nat /\ Published \in Nat /\ Len(delivered) <= Published
      /\ Published - Len(delivered) <= Size - 1
  BY Counts, CasQueueAssumption
<1> QED
  BY <1>1, WrappedDifference DEF IInv, IndexInv

(***************************************************************************)
(* With one producer, what lies between _read_idx and _last_write_idx is   *)
(* completely written, as the comment at cas_queue.hpp:53-56 says.         *)
(***************************************************************************)
THEOREM PublishedIsWrittenTheorem ==
  ASSUME SingleProducer
  PROVE  Spec => []PublishedIsWritten
<1>1. IInv => PublishedIsWritten
  <2> SUFFICES ASSUME IInv, NEW k \in 1..Len(claimed), k > Len(delivered),
                      k <= Len(delivered) + ((last_write_idx - read_idx) % IdxMod)
               PROVE  queue[(k - 1) % Size] = Item(claimed[k])
    BY DEF PublishedIsWritten
  <2>1. k - 1 \in Nat /\ Len(delivered) <= k - 1 /\ k - 1 < Published /\ (k - 1) + 1 = k
    BY Counts, PublishedCount
  <2>2. queue[index_of_queue(k - 1)] = Item(claimed[(k - 1) + 1])
    BY <2>1, SlotHoldsItem
  <2> QED
    BY <2>1, <2>2 DEF index_of_queue
<1> QED
  BY <1>1, Invariance, PTL

(* The content, read off the order in which the slots were reserved.       *)
Content ==
  [k \in 1..(Published - Len(delivered)) |-> Item(claimed[Len(delivered) + k])]

(* The slots from _read_idx to _last_write_idx hold it.                    *)
LEMMA ContentsOf == IInv => contents = Content
<1> SUFFICES ASSUME IInv PROVE contents = Content
  OBVIOUS
<1>1. \A k \in 1..(Published - Len(delivered)) :
        queue[index_of_queue(read_idx + (k - 1))] = Item(claimed[Len(delivered) + k])
  <2> SUFFICES ASSUME NEW k \in 1..(Published - Len(delivered))
               PROVE  queue[index_of_queue(read_idx + (k - 1))] = Item(claimed[Len(delivered) + k])
    OBVIOUS
  <2> DEFINE r == Len(delivered)
             j == k - 1
  <2>1. /\ r \in Nat /\ j \in Nat /\ r + j \in Nat /\ r <= r + j /\ r + j < Published
        /\ (r + j) + 1 = r + k
    BY Counts
  <2>2. index_of_queue(read_idx + j) = index_of_queue(r + j)
    <3>1. read_idx = r % IdxMod /\ read_idx \in Nat
      BY CasQueueAssumption DEF IInv, IndexInv, TypeOK
    <3>2. (read_idx % Size) = r % Size
      BY Counts DEF index_of_queue
    <3>3. Size \in Nat /\ Size >= 1
      BY CasQueueAssumption
    <3> HIDE DEF r, j
    <3>4. ((read_idx % Size) + j) % Size = (read_idx + j) % Size
      BY <2>1, <3>1, <3>3, ReduceSum
    <3>5. ((r % Size) + j) % Size = (r + j) % Size
      BY <2>1, <3>3, ReduceSum
    <3> QED
      BY <3>2, <3>4, <3>5 DEF index_of_queue
  <2>3. queue[index_of_queue(r + j)] = Item(claimed[(r + j) + 1])
    BY <2>1, SlotHoldsItem
  <2> QED
    BY <2>1, <2>2, <2>3
<1> QED
  BY <1>1, PublishedCount DEF contents, Content

(* It is so before and after a step.                                       *)
LEMMA ContentsOfStep ==
  ASSUME IInv, IInv'
  PROVE  contents = Content /\ contents' = Content'
<1>1. (IInv => contents = Content)'
  BY ContentsOf, PTL
<1> QED
  BY <1>1, ContentsOf

(* A step that publishes and takes nothing, and keeps what was reserved,   *)
(* is silent.                                                              *)
LEMMA SilentStep ==
  ASSUME IInv, IInv', delivered' = delivered, Published' = Published,
         \A k \in 1..Len(claimed) : claimed'[k] = claimed[k]
  PROVE  contents' = contents
<1>1. contents = Content /\ contents' = Content'
  BY ContentsOfStep
<1>2. \A k \in 1..(Published - Len(delivered)) :
        claimed'[Len(delivered) + k] = claimed[Len(delivered) + k]
  BY Counts
<1> QED
  BY <1>1, <1>2 DEF Content, Item

(* Publishing appends to the content the element whose slot it shows.      *)
LEMMA PublishAppends ==
  ASSUME SingleProducer, IInv, IInv', NEW p \in Producers, EnqPublish(p)
  PROVE  Abs!Enqueue(Item(claimed[Published + 1]))
<1> DEFINE r == Len(delivered)
           n == Published - Len(delivered)
           f == [k \in 1..n |-> Item(claimed[r + k])]
           g == [k \in 1..(n + 1) |-> Item(claimed[r + k])]
<1>1. contents = f /\ contents' = Content'
  BY ContentsOfStep DEF Content
<1>2. /\ claimed' = claimed /\ delivered' = delivered /\ Published' = Published + 1
      /\ Len(claimed) = Published + 1 /\ Published \in Nat
  BY EnqPublishFacts DEF history
<1>3. n \in Nat /\ r \in Nat /\ n < Size - 1 /\ r + (n + 1) = Published + 1
  BY <1>2, Counts, CasQueueAssumption
<1>4. contents' = g
  <2>1. Published' - Len(delivered') = n + 1
    BY <1>2, <1>3
  <2> QED
    BY <1>1, <1>2, <2>1 DEF Content, Item
<1> HIDE DEF n, r
<1>5. f \in Seq({Item(claimed[k]) : k \in Nat}) /\ Len(f) = n
  BY <1>3
<1>6. g = Append(f, Item(claimed[Published + 1]))
  BY <1>2, <1>3, <1>5, SMTT(30)
<1> QED
  BY <1>1, <1>2, <1>3, <1>4, <1>5, <1>6 DEF Abs!Enqueue

(* Moving _read_idx takes the oldest element off the content.              *)
LEMMA ClaimTakesHead ==
  ASSUME IInv, IInv', NEW c \in Consumers, DeqClaim(c)
  PROVE  Abs!Dequeue
<1> DEFINE r == Len(delivered)
           n == Published - Len(delivered)
           f == [k \in 1..n |-> Item(claimed[r + k])]
           g == [k \in 1..(n - 1) |-> Item(claimed[r + 1 + k])]
<1>1. contents = f /\ contents' = Content'
  BY ContentsOfStep DEF Content
<1>2. /\ claimed' = claimed /\ Published' = Published /\ Len(delivered') = r + 1
      /\ delivered' = Append(delivered, Item(claimed[r + 1]))
  <2>1. claimed' = claimed /\ \A p \in Producers : pc'[p] = pc[p]
    BY DequeueFrame DEF IInv, dequeue
  <2>2. delivered' = Append(delivered, data[c]) /\ data[c] = Item(claimed[r + 1])
    BY DeqClaimTakesOldest DEF DeqClaim
  <2>3. Len(delivered') = r + 1
    BY <2>2, AppendFacts DEF IInv, TypeOK, Threads
  <2> QED
    BY <2>1, <2>2, <2>3 DEF Published
<1>3. n \in Nat /\ n >= 1 /\ r \in Nat /\ Published \in Nat
  BY DeqClaimTakesOldest, Counts
<1>4. contents' = g
  <2>1. Published' - Len(delivered') = n - 1
    BY <1>2, <1>3
  <2> QED
    BY <1>1, <1>2, <2>1 DEF Content, Item
<1> HIDE DEF n, r
<1>5. f \in Seq({Item(claimed[k]) : k \in Nat}) /\ Len(f) = n /\ f # <<>>
  BY <1>3
<1>6. Head(f) = Item(claimed[r + 1])
  BY <1>3, <1>5
<1>7. Tail(f) = g
  <2>1. Tail(f) = [k \in 1..(n - 1) |-> f[k + 1]]
    BY <1>3, <1>5
  <2>2. \A k \in 1..(n - 1) : f[k + 1] = Item(claimed[r + 1 + k])
    <3> SUFFICES ASSUME NEW k \in 1..(n - 1)
                 PROVE  f[k + 1] = Item(claimed[r + 1 + k])
      OBVIOUS
    <3>1. k + 1 \in 1..n /\ r + (k + 1) = r + 1 + k
      BY <1>3
    <3> QED
      BY <3>1
  <2> QED
    BY <2>1, <2>2
<1> QED
  BY <1>1, <1>2, <1>4, <1>5, <1>6, <1>7 DEF Abs!Dequeue

(* Every other step of an enqueue leaves the content as it is.             *)
LEMMA EnqueueSilent ==
  ASSUME SingleProducer, IInv, IInv', NEW p \in Producers,
         EnqueueCall(p) \/ enqueue(p), ~EnqPublish(p)
  PROVE  UNCHANGED <<contents, delivered>>
<1> USE DEF enqueue, EnqueueCall, EnqLoadRead, EnqLoadWrite, EnqClaim, EnqClaimFail, EnqCopyLo,
        EnqCopyHi, EnqPublishFail, EnqCount, Goto, shared, locals, history
<1>1. delivered' = delivered
  OBVIOUS
<1>2. CASE EnqClaim(p)
  <2>1. claimed' = Append(claimed, data[p].lo) /\ pc[p] = "e_claim" /\ pc'[p] = "e_copy_lo"
    BY <1>2 DEF IInv, TypeOK, Threads
  <2>2. data[p].lo \in 0..MaxOps /\ claimed \in Seq(0..MaxOps)
    BY DEF IInv, TypeOK, Elements, Threads
  <2>3. Len(claimed') = Len(claimed) + 1 /\ \A k \in 1..Len(claimed) : claimed'[k] = claimed[k]
    BY <2>1, <2>2, AppendFacts
  <2>4. Published = Len(claimed) /\ Published' = Len(claimed') - 1 /\ Len(claimed) \in Nat
    BY <2>1, PublishedBy, Counts DEF Published, Writing
  <2> QED
    BY <1>1, <2>3, <2>4, SilentStep
<1>3. CASE ~EnqClaim(p)
  <2>1. claimed' = claimed /\ (pc'[p] \in Writing <=> pc[p] \in Writing)
    BY <1>3 DEF IInv, TypeOK, Threads, Writing
  <2>2. Published' = Published
    BY <2>1 DEF Published, SingleProducer
  <2> QED
    BY <1>1, <2>1, <2>2, SilentStep
<1> QED
  BY <1>2, <1>3

(* Every other step of a dequeue leaves it as it is.                       *)
LEMMA DequeueSilent ==
  ASSUME IInv, IInv', NEW c \in Consumers, DequeueCall(c) \/ dequeue(c), ~DeqClaim(c)
  PROVE  UNCHANGED <<contents, delivered>>
<1>1. delivered' = delivered
  BY DEF dequeue, DequeueCall, DeqLoadRead, DeqLoadLast, DeqCopyLo, DeqCopyHi, DeqClaimFail,
         DeqCount, history
<1>2. claimed' = claimed /\ \A p \in Producers : pc'[p] = pc[p]
  BY DequeueFrame DEF IInv
<1>3. Published' = Published
  BY <1>2 DEF Published
<1> QED
  BY <1>1, <1>2, <1>3, SilentStep

(* One step of the ring is a step of the abstract queue, or none.          *)
LEMMA StepSimulation ==
  ASSUME SingleProducer, IInv, IInv', [Next]_vars
  PROVE  [Abs!Next]_(Abs!vars)
<1> SUFFICES ASSUME ~UNCHANGED <<contents, delivered>>
             PROVE  Abs!Next
  BY DEF Abs!vars
<1>1. CASE UNCHANGED vars
  <2>1. UNCHANGED <<contents, delivered>>
    BY <1>1 DEF vars, shared, history, contents
  <2> QED
    BY <2>1
<1>2. ASSUME NEW p \in Producers, EnqueueCall(p) \/ enqueue(p) PROVE Abs!Next
  <2>1. EnqPublish(p)
    BY <1>2, EnqueueSilent
  <2>2. Abs!Enqueue(Item(claimed[Published + 1]))
    BY <2>1, PublishAppends
  <2>3. claimed[Published + 1] \in 1..MaxOps
    <3>1. Published + 1 = Len(claimed) /\ Published \in Nat
      BY <2>1, EnqPublishFacts
    <3>2. Published + 1 \in 1..Len(claimed) /\ claimed \in Seq(1..MaxOps)
      BY <3>1 DEF IInv, ClaimedInv
    <3> QED
      BY <3>2, ElementOfSeq
  <2> QED
    BY <2>2, <2>3 DEF Abs!Next
<1>3. ASSUME NEW c \in Consumers, DequeueCall(c) \/ dequeue(c) PROVE Abs!Next
  <2>1. DeqClaim(c)
    BY <1>3, DequeueSilent
  <2> QED
    BY <2>1, ClaimTakesHead DEF Abs!Next
<1> QED
  BY <1>1, <1>2, <1>3 DEF Next

(***************************************************************************)
(* With one producer, enqueue and dequeue implement a bounded FIFO queue   *)
(* of Size - 1 elements: an enqueue takes effect where it publishes        *)
(* (cas_queue.hpp:97), a dequeue where it moves _read_idx (126).           *)
(***************************************************************************)
THEOREM Refinement ==
  ASSUME SingleProducer
  PROVE  Spec => ImplementsFifo
<1>1. Init => Abs!Init
  <2> SUFFICES ASSUME Init PROVE contents = <<>> /\ delivered = <<>>
    BY CasQueueAssumption DEF Abs!Init
  <2>1. (last_write_idx - read_idx) % IdxMod = 0
    BY CasQueueAssumption DEF Init
  <2> QED
    BY <2>1 DEF Init, contents
<1>2. IInv /\ IInv' /\ [Next]_vars => [Abs!Next]_(Abs!vars)
  BY StepSimulation
<1> QED
  BY <1>1, <1>2, Invariance, PTL DEF Spec, ImplementsFifo, Abs!Spec

-----------------------------------------------------------------------------
(* What a refusal means: CasQueueWindows.                                  *)

(* A call that is under way has noticed that the queue is empty, and a     *)
(* producer whose copies of the indices are a ring apart that it was full. *)
WindowInv ==
  /\ was_empty \in [Consumers -> BOOLEAN] /\ was_full \in [Producers -> BOOLEAN]
  /\ \A c \in Consumers : (pc[c] # "idle" /\ IsEmpty) => was_empty[c]
  /\ \A p \in Producers :
       (pc[p] = "e_write" /\ (write_idx - curr_read_idx[p]) % IdxMod = Size - 1) => was_full[p]

(* A step that is observed keeps it.                                       *)
LEMMA WindowStep ==
  ASSUME SingleProducer, IInv, WindowInv, WNext
  PROVE  WindowInv'
<1> USE DEF WNext, Observe
<1>1. was_empty' \in [Consumers -> BOOLEAN] /\ was_full' \in [Producers -> BOOLEAN]
  BY DEF WindowInv
<1>2. \A c \in Consumers : (pc'[c] # "idle" /\ IsEmpty') => was_empty'[c]
  BY DEF WindowInv
<1>3. ASSUME NEW p \in Producers, pc'[p] = "e_write",
             (write_idx' - curr_read_idx'[p]) % IdxMod = Size - 1
      PROVE  was_full'[p]
  <2>1. \/ EnqLoadRead(p)
        \/ pc[p] = "e_write" /\ write_idx' = write_idx /\ curr_read_idx'[p] = curr_read_idx[p]
    <3>1. ASSUME NEW q \in Producers, EnqueueCall(q) \/ enqueue(q), ~EnqLoadRead(p)
          PROVE  pc[p] = "e_write" /\ write_idx' = write_idx /\ curr_read_idx'[p] = curr_read_idx[p]
      <4>1. q = p
        BY DEF SingleProducer
      <4> QED
        BY <1>3, <3>1, <4>1 DEF IInv, TypeOK, Threads, enqueue, EnqueueCall, EnqLoadWrite, EnqClaim,
           EnqClaimFail, EnqCopyLo, EnqCopyHi, EnqPublish, EnqPublishFail, EnqCount, Goto,
           shared, locals, history
    <3>2. ASSUME NEW c \in Consumers, DequeueCall(c) \/ dequeue(c)
          PROVE  pc[p] = "e_write" /\ write_idx' = write_idx /\ curr_read_idx'[p] = curr_read_idx[p]
      BY <1>3, <3>2, DequeueFrame DEF IInv
    <3> QED
      BY <3>1, <3>2 DEF Next
  <2>2. CASE EnqLoadRead(p)
    <3>1. curr_read_idx'[p] = read_idx'
      BY <2>2 DEF EnqLoadRead, shared, IInv, TypeOK, Threads
    <3>2. IsFull'
      BY <1>3, <3>1 DEF IsFull
    <3> QED
      BY <1>3, <3>2
  <2>3. CASE pc[p] = "e_write" /\ write_idx' = write_idx /\ curr_read_idx'[p] = curr_read_idx[p]
    <3>1. was_full[p]
      BY <1>3, <2>3 DEF WindowInv
    <3> QED
      BY <1>3, <3>1
  <2> QED
    BY <2>1, <2>2, <2>3
<1> QED
  BY <1>1, <1>2, <1>3 DEF WindowInv

(* The observers restrict nothing: what is proved of Spec holds of WSpec.  *)
LEMMA WindowInvariance ==
  ASSUME SingleProducer
  PROVE  WSpec => [](IInv /\ WindowInv)
<1>1. WInit => Init
  BY DEF WInit
<1>2. [WNext]_wvars => [Next]_vars
  BY DEF WNext, wvars
<1>3. WSpec => []IInv
  BY <1>1, <1>2, Invariance, PTL DEF WSpec, Spec
<1>4. WInit => WindowInv
  BY DEF WInit, Init, WindowInv, Threads
<1>5. IInv /\ WindowInv /\ [WNext]_wvars => WindowInv'
  <2>1. UNCHANGED wvars /\ WindowInv => WindowInv'
    BY DEF wvars, vars, shared, locals, WindowInv, IsEmpty
  <2> QED
    BY <2>1, WindowStep
<1> QED
  BY <1>3, <1>4, <1>5, PTL DEF WSpec

(* The test for a full queue, on copies that may be old: when it holds,    *)
(* they are a ring apart.                                                  *)
LEMMA FullWasSeen ==
  ASSUME SingleProducer, IInv, WindowInv, [WNext]_wvars,
         NEW p \in Producers, pc[p] = "e_write", pc'[p] = "idle"
  PROVE  was_full[p]
<1>1. EnqLoadWrite(p)
  <2>1. ASSUME NEW q \in Producers, EnqueueCall(q) \/ enqueue(q) PROVE EnqLoadWrite(p)
    <3>1. q = p
      BY DEF SingleProducer
    <3> QED
      BY <2>1, <3>1 DEF enqueue, EnqueueCall, EnqLoadRead, EnqClaim, EnqClaimFail, EnqCopyLo,
         EnqCopyHi, EnqPublish, EnqPublishFail, EnqCount, Goto
  <2>2. ASSUME NEW c \in Consumers, DequeueCall(c) \/ dequeue(c) PROVE FALSE
    BY <2>2, DequeueFrame DEF IInv
  <2>3. pc' # pc
    OBVIOUS
  <2> QED
    BY <2>1, <2>2, <2>3 DEF WNext, Next, wvars, vars
<1>2. index_of_queue(write_idx + 1) = index_of_queue(curr_read_idx[p])
  BY <1>1 DEF EnqLoadWrite, Goto, IInv, TypeOK, Threads
<1>3. PICK r \in 0..Len(delivered) : curr_read_idx[p] = r % IdxMod /\ Len(claimed) - r <= Size - 1
  BY DEF IInv, ProducerInv
<1>4. /\ r \in Nat /\ Len(claimed) \in Nat /\ Size \in Nat /\ r <= Len(claimed)
  BY <1>3, Counts, CasQueueAssumption
<1>5. index_of_queue(Len(claimed) + 1) = index_of_queue(r)
  BY <1>2, <1>3, <1>4, Counts, SlotOfCount
<1>6. ~(Len(claimed) + 1 < r + Size)
  BY <1>4, <1>5, SlotDiffers
<1>7. Len(claimed) - r = Size - 1
  BY <1>3, <1>4, <1>6
<1>8. (write_idx - curr_read_idx[p]) % IdxMod = Size - 1
  BY <1>3, <1>4, <1>7, WrappedDifference DEF IInv, IndexInv
<1> QED
  BY <1>8 DEF WindowInv

(* The test for an empty queue: with one consumer its copy is not old.     *)
LEMMA EmptyWasSeen ==
  ASSUME OneConsumer, IInv, WindowInv, [WNext]_wvars,
         NEW c \in Consumers, pc[c] = "d_last", pc'[c] = "idle"
  PROVE  was_empty[c]
<1>1. DeqLoadLast(c)
  <2>1. ASSUME NEW d \in Consumers, DequeueCall(d) \/ dequeue(d) PROVE DeqLoadLast(c)
    <3>1. d = c
      BY DEF OneConsumer
    <3> QED
      BY <2>1, <3>1 DEF dequeue, DequeueCall, DeqLoadRead, DeqCopyLo, DeqCopyHi, DeqClaim,
         DeqClaimFail, DeqCount, Goto
  <2>2. ASSUME NEW p \in Producers, EnqueueCall(p) \/ enqueue(p) PROVE FALSE
    BY <2>2, EnqueueFrame DEF IInv
  <2>3. pc' # pc
    OBVIOUS
  <2> QED
    BY <2>1, <2>2, <2>3 DEF WNext, Next, wvars, vars
<1>2. index_of_queue(last_write_idx) = index_of_queue(curr_read_idx[c])
  BY <1>1 DEF DeqLoadLast, Goto, IInv, TypeOK, Threads
<1>3. curr_read_idx[c] = read_idx
  BY DEF IInv, ConsumerInv
<1>4. index_of_queue(Published) = index_of_queue(Len(delivered))
  BY <1>2, <1>3, Counts
<1>5. /\ Published \in Nat /\ Len(delivered) \in Nat /\ Len(delivered) <= Published
      /\ Published < Len(delivered) + Size
  BY Counts, CasQueueAssumption
<1>6. Published = Len(delivered)
  BY <1>4, <1>5, SlotDiffers
<1>7. IsEmpty
  BY <1>6 DEF IInv, IndexInv, IsEmpty
<1> QED
  BY <1>7 DEF WindowInv

(***************************************************************************)
(* With one producer, an enqueue that returns false (`queue is full',      *)
(* cas_queue.hpp:89) ran while the queue was full, though it tests a       *)
(* _read_idx that other threads have moved since; whatever the number of   *)
(* consumers.                                                              *)
(***************************************************************************)
THEOREM FullRefusalsTheorem ==
  ASSUME SingleProducer
  PROVE  WSpec => [][\A p \in Producers : (pc[p] = "e_write" /\ pc'[p] = "idle") => was_full[p]]_wvars
<1>1. IInv /\ WindowInv /\ [WNext]_wvars =>
        [\A p \in Producers : (pc[p] = "e_write" /\ pc'[p] = "idle") => was_full[p]]_wvars
  BY FullWasSeen
<1> QED
  BY <1>1, WindowInvariance, PTL DEF WSpec

(***************************************************************************)
(* With one producer and one consumer a refusal is real on both sides:     *)
(* `queue is full' (cas_queue.hpp:89) and `the queue is empty' (120) were  *)
(* true at some instant of the call, also when the indices have wrapped.   *)
(***************************************************************************)
THEOREM RefusalsWereRealTheorem ==
  ASSUME SingleProducer, OneConsumer
  PROVE  WSpec => RefusalsWereReal
<1>1. IInv /\ WindowInv /\ [WNext]_wvars =>
        [/\ \A c \in Consumers : (pc[c] = "d_last" /\ pc'[c] = "idle") => was_empty[c]
         /\ \A p \in Producers : (pc[p] = "e_write" /\ pc'[p] = "idle") => was_full[p]]_wvars
  BY FullWasSeen, EmptyWasSeen
<1> QED
  BY <1>1, WindowInvariance, PTL DEF WSpec, RefusalsWereReal

=============================================================================
