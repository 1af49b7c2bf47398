-------------------------- MODULE CasQueueWindows --------------------------
(***************************************************************************)
(* What a `false' of enqueue or dequeue means.  Two history variables over *)
(* CasQueue remember, for each call in progress, whether the queue has     *)
(* been empty (full) at some instant since the call began; they restrict   *)
(* no step of the queue.                                                   *)
(***************************************************************************)
EXTENDS CasQueue

VARIABLES
  was_empty,  \* of each consumer: the queue was empty during its call
  was_full    \* of each producer: the queue was full during its call

wvars == <<vars, was_empty, was_full>>

(* No element is published and not yet taken.                              *)
IsEmpty == last_write_idx = read_idx

(* Every slot but the one kept free is reserved.                           *)
IsFull == (write_idx - read_idx) % IdxMod = Size - 1

WInit ==
  /\ Init
  /\ was_empty = [c \in Consumers |-> FALSE]
  /\ was_full = [p \in Producers |-> FALSE]

Observe ==
  /\ was_empty' = [c \in Consumers |-> pc'[c] # "idle" /\ (was_empty[c] \/ IsEmpty')]
  /\ was_full' = [p \in Producers |-> pc'[p] # "idle" /\ (was_full[p] \/ IsFull')]

WNext == Next /\ Observe

WSpec == WInit /\ [][WNext]_wvars

(***************************************************************************)
(* A call is refused for a reason: a dequeue that returns false - `the     *)
(* queue is empty', cas_queue.hpp:120 - ran while the queue was empty at   *)
(* some instant of the call, and an enqueue that returns false - `queue is *)
(* full', cas_queue.hpp:89 - while it was full.                            *)
(***************************************************************************)
RefusalsWereReal ==
  [][/\ \A c \in Consumers : (pc[c] = "d_last" /\ pc'[c] = "idle") => was_empty[c]
     /\ \A p \in Producers : (pc[p] = "e_write" /\ pc'[p] = "idle") => was_full[p]]_wvars

=============================================================================
