----------------------------- MODULE CasQueueSP -----------------------------
(***************************************************************************)
(* The use cas_queue.hpp:6-7 recommends: one producer, any number of       *)
(* consumers.  The indices may wrap when there is one consumer; with more  *)
(* of them, one that sleeps while _read_idx goes through all its values    *)
(* would not notice, so there the calls stay below 2^32.  IInv is the      *)
(* inductive invariant from which CasQueueProofs proves the properties of  *)
(* CasQueue for every ring size.                                           *)
(***************************************************************************)
EXTENDS CasQueue

OneConsumer == \A c, d \in Consumers : c = d

(* The use recommended; the proofs have it as their hypothesis.            *)
SingleProducer ==
  /\ \A p, q \in Producers : p = q
  /\ MaxOps < IdxMod \/ OneConsumer

(* The producer owns the slot at last_write_idx.                           *)
Writing == {"e_copy_lo", "e_copy_hi", "e_publish"}

(* How many elements have been published: all but the one being written.   *)
Published ==
  IF \E p \in Producers : pc[p] \in Writing THEN Len(claimed) - 1 ELSE Len(claimed)

(* Elements are taken after they are published, and a slot stays free.     *)
CountInv ==
  /\ Len(delivered) <= Published
  /\ Len(claimed) - Len(delivered) <= Size - 1
  /\ Len(claimed) <= issued

(* The indices count the elements taken, published and reserved.           *)
IndexInv ==
  /\ read_idx = Len(delivered) % IdxMod
  /\ last_write_idx = Published % IdxMod
  /\ write_idx = Len(claimed) % IdxMod

(* What the producer's locals say of the shared state.                     *)
ProducerInv ==
  \A p \in Producers :
    /\ pc[p] \in {"idle", "e_read", "e_write", "e_claim", "e_count"} \cup Writing
    /\ pc[p] \in {"e_read", "e_write", "e_claim"} =>
         /\ Len(claimed) < issued
         /\ data[p].lo \in 1..MaxOps /\ data[p].hi = data[p].lo
    /\ pc[p] = "e_write" =>
         \E r \in 0..Len(delivered) :
           curr_read_idx[p] = r % IdxMod /\ Len(claimed) - r <= Size - 1
    /\ pc[p] = "e_claim" =>
         (curr_write_idx[p] = write_idx => Len(claimed) - Len(delivered) <= Size - 2)
    /\ pc[p] \in Writing =>
         /\ curr_write_idx[p] = last_write_idx
         /\ data[p].lo = claimed[Len(claimed)] /\ data[p].hi = claimed[Len(claimed)]
    /\ pc[p] \in {"e_copy_hi", "e_publish"} =>
         queue[index_of_queue(last_write_idx)].lo = data[p].lo
    /\ pc[p] = "e_publish" =>
         queue[index_of_queue(last_write_idx)].hi = data[p].hi

(* A consumer whose claim would succeed has copied the oldest element: its *)
(* copy of the index is that of the queue, or belongs to an element that   *)
(* another consumer has taken.                                             *)
ConsumerInv ==
  \A c \in Consumers :
    /\ pc[c] \in {"idle", "d_read", "d_last", "d_copy_lo", "d_copy_hi", "d_claim", "d_count"}
    /\ pc[c] \in {"d_last", "d_copy_lo", "d_copy_hi", "d_claim"} =>
         \/ curr_read_idx[c] = read_idx
         \/ ~OneConsumer /\ curr_read_idx[c] < Len(delivered)
    /\ (pc[c] \in {"d_copy_lo", "d_copy_hi", "d_claim"} /\ curr_read_idx[c] = read_idx) =>
         Len(delivered) < Published
    /\ (pc[c] \in {"d_copy_hi", "d_claim"} /\ curr_read_idx[c] = read_idx) =>
         data[c].lo = queue[index_of_queue(read_idx)].lo
    /\ (pc[c] = "d_claim" /\ curr_read_idx[c] = read_idx) =>
         data[c].hi = queue[index_of_queue(read_idx)].hi

(* Every published element is whole, in its slot.                          *)
SlotInv ==
  \A i \in 0..(MaxOps - 1) :
    (Len(delivered) <= i /\ i < Published) =>
      /\ queue[index_of_queue(i)].lo = claimed[i + 1]
      /\ queue[index_of_queue(i)].hi = claimed[i + 1]

(* Only arguments of enqueue calls are ever reserved for.                  *)
ClaimedInv == claimed \in Seq(1..MaxOps)

(***************************************************************************)
(* Inductive invariant of enqueue and dequeue with a single producer.      *)
(***************************************************************************)
IInv ==
  /\ TypeOK
  /\ CountInv
  /\ IndexInv
  /\ ProducerInv
  /\ ConsumerInv
  /\ SlotInv
  /\ ClaimedInv
  /\ Fifo

=============================================================================
