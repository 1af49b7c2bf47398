------------------------------ MODULE CasQueue ------------------------------
(***************************************************************************)
(* The lock-free ring of common/cas_queue.hpp.                             *)
(*                                                                         *)
(* Every access to one of the atomics _read_idx, _write_idx,               *)
(* _last_write_idx and _length (all seq_cst) is a step of its own.  The    *)
(* slots are plain memory: copying a T in or out takes two steps, one per  *)
(* word, so that a copy that overlaps another one shows as a T whose words *)
(* belong to different elements.  atomic_compare_exchange_weak may fail    *)
(* spuriously, and when it fails it stores the value it found in its       *)
(* `expected' argument.                                                    *)
(***************************************************************************)
EXTENDS Integers, Sequences, FiniteSets

CONSTANTS
  Producers,  \* threads that call enqueue
  Consumers,  \* threads that call dequeue
  Size,       \* _size: the number of slots, a power of two
  IdxMod,     \* 2^32 in the code: the indices and _length are uint32_t
  MaxOps      \* bound: the number of enqueue calls

ASSUME CasQueueAssumption ==
  /\ Size \in Nat /\ Size >= 2
  /\ IdxMod \in Nat /\ IdxMod >= Size /\ IdxMod % Size = 0
  /\ MaxOps \in Nat
  /\ Producers \cap Consumers = {}

VARIABLES
  queue,           \* _queue: the slots
  length,          \* _length
  read_idx,        \* _read_idx
  write_idx,       \* _write_idx
  last_write_idx,  \* _last_write_idx
  pc,              \* where each thread is in enqueue or dequeue
  curr_read_idx,   \* the local of that name, of each thread
  curr_write_idx,  \* the local of that name, of each producer
  data,            \* the argument of enqueue, the result of dequeue
  issued,          \* number of enqueue calls made; names their arguments
  claimed,         \* history: the arguments, in the order of _write_idx
  delivered        \* history: the results, in the order of _read_idx

shared  == <<length, read_idx, write_idx, last_write_idx>>
locals  == <<curr_read_idx, curr_write_idx, data>>
history == <<issued, claimed, delivered>>
vars    == <<queue, shared, pc, locals, history>>

Threads == Producers \cup Consumers

(***************************************************************************)
(* An element is two words.  Enqueue call number n carries Item(n);        *)
(* `new T[_size]' fills the slots with Item(0), which nobody enqueues.     *)
(***************************************************************************)
Elements == [lo : 0..MaxOps, hi : 0..MaxOps]

Item(n) == [lo |-> n, hi |-> n]

index_of_queue(i) == i % Size

Inc(i) == (i + 1) % IdxMod

Goto(t, from, to) ==
  /\ pc[t] = from
  /\ pc' = [pc EXCEPT ![t] = to]

Init ==
  /\ queue = [s \in 0..(Size - 1) |-> Item(0)]
  /\ length = 0
  /\ read_idx = 0
  /\ write_idx = 0
  /\ last_write_idx = 0
  /\ pc = [t \in Threads |-> "idle"]
  /\ curr_read_idx = [t \in Threads |-> 0]
  /\ curr_write_idx = [p \in Producers |-> 0]
  /\ data = [t \in Threads |-> Item(0)]
  /\ issued = 0
  /\ claimed = <<>>
  /\ delivered = <<>>

-----------------------------------------------------------------------------
(* bool enqueue(T &data)                                                   *)

EnqueueCall(p) ==
  /\ issued < MaxOps
  /\ Goto(p, "idle", "e_read")
  /\ issued' = issued + 1
  /\ data' = [data EXCEPT ![p] = Item(issued + 1)]
  /\ UNCHANGED <<queue, shared, curr_read_idx, curr_write_idx, claimed, delivered>>

EnqLoadRead(p) ==
  /\ Goto(p, "e_read", "e_write")
  /\ curr_read_idx' = [curr_read_idx EXCEPT ![p] = read_idx]
  /\ UNCHANGED <<queue, shared, curr_write_idx, data, history>>

(* Variants with a fault: the test for a full queue on indices that are    *)
(* not masked; and on their signed difference.                             *)
EnqLoadWriteUnmasked(p) ==
  /\ curr_write_idx' = [curr_write_idx EXCEPT ![p] = write_idx]
  /\ IF Inc(write_idx) = curr_read_idx[p]
     THEN Goto(p, "e_write", "idle")
     ELSE Goto(p, "e_write", "e_claim")
  /\ UNCHANGED <<queue, shared, curr_read_idx, data, history>>

EnqLoadWriteSigned(p) ==
  /\ curr_write_idx' = [curr_write_idx EXCEPT ![p] = write_idx]
  /\ IF write_idx - curr_read_idx[p] >= Size - 1
     THEN Goto(p, "e_write", "idle")
     ELSE Goto(p, "e_write", "e_claim")
  /\ UNCHANGED <<queue, shared, curr_read_idx, data, history>>

(* Loads _write_idx and compares the two local copies: false when full.    *)
EnqLoadWrite(p) ==
  /\ curr_write_idx' = [curr_write_idx EXCEPT ![p] = write_idx]
  /\ IF index_of_queue(write_idx + 1) = index_of_queue(curr_read_idx[p])
     THEN Goto(p, "e_write", "idle")
     ELSE Goto(p, "e_write", "e_claim")
  /\ UNCHANGED <<queue, shared, curr_read_idx, data, history>>

(* The compare-and-swap that reserves a slot.                              *)
EnqClaim(p) ==
  /\ Goto(p, "e_claim", "e_copy_lo")
  /\ write_idx = curr_write_idx[p]
  /\ write_idx' = Inc(write_idx)
  /\ claimed' = Append(claimed, data[p].lo)
  /\ UNCHANGED <<queue, length, read_idx, last_write_idx, locals, issued, delivered>>

EnqClaimFail(p) ==
  /\ Goto(p, "e_claim", "e_read")
  /\ curr_write_idx' = [curr_write_idx EXCEPT ![p] = write_idx]
  /\ UNCHANGED <<queue, shared, curr_read_idx, data, history>>

(* Variant with a fault: the element is published half written.            *)
EnqCopyLoOnly(p) ==
  /\ Goto(p, "e_copy_lo", "e_publish")
  /\ queue' = [queue EXCEPT ![index_of_queue(curr_write_idx[p])] =
                 [lo |-> data[p].lo, hi |-> @.hi]]
  /\ UNCHANGED <<shared, locals, history>>

(* The copy of the element, one word at a time.                            *)
EnqCopyLo(p) ==
  /\ Goto(p, "e_copy_lo", "e_copy_hi")
  /\ queue' = [queue EXCEPT ![index_of_queue(curr_write_idx[p])] =
                 [lo |-> data[p].lo, hi |-> @.hi]]
  /\ UNCHANGED <<shared, locals, history>>

EnqCopyHi(p) ==
  /\ Goto(p, "e_copy_hi", "e_publish")
  /\ queue' = [queue EXCEPT ![index_of_queue(curr_write_idx[p])] =
                 [lo |-> @.lo, hi |-> data[p].hi]]
  /\ UNCHANGED <<shared, locals, history>>

(* The compare-and-swap that makes the slot visible to dequeue.            *)
EnqPublish(p) ==
  /\ Goto(p, "e_publish", "e_count")
  /\ last_write_idx = curr_write_idx[p]
  /\ last_write_idx' = Inc(curr_write_idx[p])
  /\ UNCHANGED <<queue, length, read_idx, write_idx, locals, history>>

(* When it fails, curr_write_idx becomes what _last_write_idx held, and    *)
(* the next attempt of the loop expects that value.                        *)
EnqPublishFail(p) ==
  /\ pc[p] = "e_publish"
  /\ curr_write_idx' = [curr_write_idx EXCEPT ![p] = last_write_idx]
  /\ UNCHANGED <<queue, shared, pc, curr_read_idx, data, history>>

EnqCount(p) ==
  /\ Goto(p, "e_count", "idle")
  /\ length' = Inc(length)
  /\ UNCHANGED <<queue, read_idx, write_idx, last_write_idx, locals, history>>

enqueue(p) ==
  \/ EnqLoadRead(p)
  \/ EnqLoadWrite(p)
  \/ EnqClaim(p)
  \/ EnqClaimFail(p)
  \/ EnqCopyLo(p)
  \/ EnqCopyHi(p)
  \/ EnqPublish(p)
  \/ EnqPublishFail(p)
  \/ EnqCount(p)

-----------------------------------------------------------------------------
(* bool dequeue(T &data)                                                   *)

DequeueCall(c) ==
  /\ Goto(c, "idle", "d_read")
  /\ UNCHANGED <<queue, shared, locals, history>>

DeqLoadRead(c) ==
  /\ Goto(c, "d_read", "d_last")
  /\ curr_read_idx' = [curr_read_idx EXCEPT ![c] = read_idx]
  /\ UNCHANGED <<queue, shared, curr_write_idx, data, history>>

(* Variant with a fault: one element is taken for none.                    *)
DeqLoadLastEarly(c) ==
  /\ IF index_of_queue(last_write_idx) \in
          {index_of_queue(curr_read_idx[c]), index_of_queue(curr_read_idx[c] + 1)}
     THEN Goto(c, "d_last", "idle")
     ELSE Goto(c, "d_last", "d_copy_lo")
  /\ UNCHANGED <<queue, shared, locals, history>>

(* Loads _last_write_idx and compares: false when the queue is empty.      *)
DeqLoadLast(c) ==
  /\ IF index_of_queue(last_write_idx) = index_of_queue(curr_read_idx[c])
     THEN Goto(c, "d_last", "idle")
     ELSE Goto(c, "d_last", "d_copy_lo")
  /\ UNCHANGED <<queue, shared, locals, history>>

DeqCopyLo(c) ==
  /\ Goto(c, "d_copy_lo", "d_copy_hi")
  /\ data' = [data EXCEPT ![c] =
                [lo |-> queue[index_of_queue(curr_read_idx[c])].lo, hi |-> @.hi]]
  /\ UNCHANGED <<queue, shared, curr_read_idx, curr_write_idx, history>>

DeqCopyHi(c) ==
  /\ Goto(c, "d_copy_hi", "d_claim")
  /\ data' = [data EXCEPT ![c] =
                [lo |-> @.lo, hi |-> queue[index_of_queue(curr_read_idx[c])].hi]]
  /\ UNCHANGED <<queue, shared, curr_read_idx, curr_write_idx, history>>

(* Variant with a fault: a store in place of the compare-and-swap.         *)
DeqClaimByStore(c) ==
  /\ Goto(c, "d_claim", "d_count")
  /\ read_idx' = Inc(curr_read_idx[c])
  /\ delivered' = Append(delivered, data[c])
  /\ UNCHANGED <<queue, length, write_idx, last_write_idx, locals, issued, claimed>>

(* The compare-and-swap that takes the element copied before it.           *)
DeqClaim(c) ==
  /\ Goto(c, "d_claim", "d_count")
  /\ read_idx = curr_read_idx[c]
  /\ read_idx' = Inc(read_idx)
  /\ delivered' = Append(delivered, data[c])
  /\ UNCHANGED <<queue, length, write_idx, last_write_idx, locals, issued, claimed>>

(* Variant with a fault: the loop tries again with the index it had.       *)
DeqClaimFailStale(c) ==
  /\ Goto(c, "d_claim", "d_copy_lo")
  /\ UNCHANGED <<queue, shared, locals, history>>

DeqClaimFail(c) ==
  /\ Goto(c, "d_claim", "d_read")
  /\ curr_read_idx' = [curr_read_idx EXCEPT ![c] = read_idx]
  /\ UNCHANGED <<queue, shared, curr_write_idx, data, history>>

(* Variant with a fault: a counter that stops at zero.                     *)
DeqCountSaturating(c) ==
  /\ Goto(c, "d_count", "idle")
  /\ length' = IF length = 0 THEN 0 ELSE length - 1
  /\ UNCHANGED <<queue, read_idx, write_idx, last_write_idx, locals, history>>

(* _length is unsigned: below zero it wraps.                               *)
DeqCount(c) ==
  /\ Goto(c, "d_count", "idle")
  /\ length' = (length - 1) % IdxMod
  /\ UNCHANGED <<queue, read_idx, write_idx, last_write_idx, locals, history>>

dequeue(c) ==
  \/ DeqLoadRead(c)
  \/ DeqLoadLast(c)
  \/ DeqCopyLo(c)
  \/ DeqCopyHi(c)
  \/ DeqClaim(c)
  \/ DeqClaimFail(c)
  \/ DeqCount(c)

(* What the observers size() and empty() return.                           *)
size == length
empty == size = 0

-----------------------------------------------------------------------------
Next ==
  \/ \E p \in Producers : EnqueueCall(p) \/ enqueue(p)
  \/ \E c \in Consumers : DequeueCall(c) \/ dequeue(c)

Spec == Init /\ [][Next]_vars

(***************************************************************************)
(* A call that has begun keeps being scheduled, and a thread whose         *)
(* compare-and-swap could succeed again and again succeeds at last: it is  *)
(* neither failed spuriously nor overtaken for ever.  Nothing obliges a    *)
(* thread to begin another call.                                           *)
(***************************************************************************)
Fairness ==
  /\ \A p \in Producers : WF_vars(enqueue(p)) /\ SF_vars(EnqClaim(p) \/ EnqPublish(p))
  /\ \A c \in Consumers : WF_vars(dequeue(c)) /\ SF_vars(DeqClaim(c))

FairSpec == Spec /\ Fairness

-----------------------------------------------------------------------------
PcValues ==
  {"idle", "e_read", "e_write", "e_claim", "e_copy_lo", "e_copy_hi", "e_publish",
   "e_count", "d_read", "d_last", "d_copy_lo", "d_copy_hi", "d_claim", "d_count"}

(* Every variable keeps the type its declaration in cas_queue_t gives it.  *)
TypeOK ==
  /\ queue \in [0..(Size - 1) -> Elements]
  /\ length \in 0..(IdxMod - 1)
  /\ read_idx \in 0..(IdxMod - 1)
  /\ write_idx \in 0..(IdxMod - 1)
  /\ last_write_idx \in 0..(IdxMod - 1)
  /\ pc \in [Threads -> PcValues]
  /\ curr_read_idx \in [Threads -> 0..(IdxMod - 1)]
  /\ curr_write_idx \in [Producers -> 0..(IdxMod - 1)]
  /\ data \in [Threads -> Elements]
  /\ issued \in 0..MaxOps
  /\ claimed \in Seq(0..MaxOps)
  /\ delivered \in Seq(Elements)

(***************************************************************************)
(* FIFO without loss, duplication or tearing: the k-th element any dequeue *)
(* returned is, in both its words, the argument of the k-th enqueue that   *)
(* reserved a slot.  It is what enqueue (77) and dequeue (108) together    *)
(* promise of the elements.                                                *)
(***************************************************************************)
Fifo ==
  /\ Len(delivered) <= Len(claimed)
  /\ \A k \in 1..Len(delivered) : delivered[k] = Item(claimed[k])

(***************************************************************************)
(* A reservation never reaches the slot of an element not yet taken: the   *)
(* test `queue is full' (cas_queue.hpp:86-90) leaves at least one slot     *)
(* free between the writer and the reader.                                 *)
(***************************************************************************)
NoOverrun == Len(claimed) - Len(delivered) <= Size - 1

(***************************************************************************)
(* What the comment at cas_queue.hpp:53-56 says of _last_write_idx: the    *)
(* slots behind it belong to enqueues that are complete, so that every     *)
(* element between _read_idx and _last_write_idx is wholly in its slot.    *)
(***************************************************************************)
PublishedIsWritten ==
  \A k \in 1..Len(claimed) :
    (k > Len(delivered) /\ k <= Len(delivered) + ((last_write_idx - read_idx) % IdxMod))
      => queue[(k - 1) % Size] = Item(claimed[k])

(***************************************************************************)
(* _length is adjusted after the index it counts has moved: it differs     *)
(* from the number of published elements by exactly the enqueues and       *)
(* dequeues that are between the two steps (lines 97-102 and 126-129).     *)
(***************************************************************************)
LengthAccounting ==
  size = ((last_write_idx - read_idx)
             - Cardinality({p \in Producers : pc[p] = "e_count"})
             + Cardinality({c \in Consumers : pc[c] = "d_count"})) % IdxMod

(***************************************************************************)
(* Every call returns: an enqueue also when another producer wins the      *)
(* compare-and-swap that reserves (92) or the one that publishes (97) in   *)
(* between, after which line 97 expects an index other than its own; a     *)
(* dequeue also when another consumer takes its element (126).  MaxOps     *)
(* bounds the enqueues that compete; that nobody is overtaken for ever is  *)
(* assumed (Fairness), not shown.                                          *)
(***************************************************************************)
CallsReturn == \A t \in Threads : []<>(pc[t] = "idle")

(***************************************************************************)
(* The queue seen as an abstract FIFO queue: its content is what lies      *)
(* between _read_idx and _last_write_idx.  An enqueue takes effect when it *)
(* publishes (line 97), a dequeue when it moves _read_idx (line 126).      *)
(***************************************************************************)
contents ==
  [k \in 1..((last_write_idx - read_idx) % IdxMod) |->
     queue[index_of_queue(read_idx + (k - 1))]]

Abs == INSTANCE FifoQueue WITH
  Items <- {Item(n) : n \in 1..MaxOps},
  items <- contents, taken <- delivered, bound <- Size - 1

(* enqueue and dequeue implement a bounded FIFO queue.                     *)
ImplementsFifo == Abs!Spec

=============================================================================
