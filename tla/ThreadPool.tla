----------------------------- MODULE ThreadPool -----------------------------
(***************************************************************************)
(* The thread pool of common/thread_pool: its owner creates a pool, pushes *)
(* data to the threads in turn and destroys the pool; a thread is started  *)
(* when the first data comes to its context, and runs beside the owner.    *)
(*                                                                         *)
(* thread_cb and push_cb are the program's own and are modelled as the     *)
(* interface intends them: push_cb puts the data in an inbox that the      *)
(* thread's parameters hold, and thread_cb takes from that inbox.          *)
(***************************************************************************)
EXTENDS Integers, Sequences, FiniteSets, SequencesExt, Functions

CONSTANTS
  ByteMod,    \* 2^8, the modulus of uint8_t
  Counts,     \* the values of thread_count create_thread_pool is called with
  Faults,     \* what may go wrong: a subset of FaultNames
  MaxPushes,  \* bound: calls of thread_pool_push_data
  MaxPools    \* bound: calls of create_thread_pool

FaultNames == {"calloc", "pthread_create", "push_cb", "exit"}

ASSUME ThreadPoolAssumption ==
  /\ ByteMod \in Nat \ {0} /\ Counts \subseteq 0..(ByteMod - 1)
  /\ MaxPushes \in Nat /\ MaxPools \in Nat
  /\ Faults \subseteq FaultNames

EAGAIN == 11
Params == 0..(ByteMod - 2)      \* the indices of pp_thread_params

VARIABLES
  p_pool,             \* 0 for NULL, else the number of the pool
  curr_thread_index,
  thread_count,
  id,                 \* per context: the thread created for it, 0 for none
  is_running,         \* per context
  threads,            \* the threads created: their pool, parameters and state
  inbox,              \* per parameters: the data pushed and not yet taken
  pc,                 \* where the owner is
  at,                 \* thread_index, or the context cancel_all_thread is at
  result,             \* what the last call of the owner returned
  pools, pushes,      \* number of calls
  reached,            \* per context: the pushes that were directed to it
  accepted, consumed  \* the data push_cb took, the data thread_cb took

pool    == <<p_pool, curr_thread_index, thread_count, id, is_running>>
owner   == <<pc, at, result>>
history == <<pools, pushes, reached, accepted, consumed>>
vars    == <<pool, threads, inbox, owner, history>>

Contexts == 0..(thread_count - 1)

Init ==
  /\ p_pool = 0 /\ curr_thread_index = 0 /\ thread_count = 0
  /\ id = [i \in {} |-> 0] /\ is_running = [i \in {} |-> FALSE]
  /\ threads = <<>>
  /\ inbox = [i \in Params |-> <<>>]
  /\ pc = "idle" /\ at = 0 /\ result = 0
  /\ pools = 0 /\ pushes = 0 /\ reached = [i \in {} |-> 0]
  /\ accepted = {} /\ consumed = {}

-----------------------------------------------------------------------------
(* Variant with a fault: memory for one context less.                      *)
create_thread_pool_short(count) ==
  /\ pc = "idle" /\ p_pool = 0 /\ pools < MaxPools
  /\ count > 0
  /\ pools' = pools + 1
  /\ p_pool' = pools + 1 /\ curr_thread_index' = 0 /\ thread_count' = count
  /\ id' = [i \in 0..(count - 2) |-> 0]
  /\ is_running' = [i \in 0..(count - 2) |-> FALSE]
  /\ reached' = [i \in 0..(count - 2) |-> 0]
  /\ pushes' = 0
  /\ UNCHANGED <<threads, inbox, owner, accepted, consumed>>

(* create_thread_pool: no pool for a thread_count of 0 (check_params).     *)
create_thread_pool(count) ==
  /\ pc = "idle" /\ p_pool = 0 /\ pools < MaxPools
  /\ count > 0
  /\ pools' = pools + 1
  /\ p_pool' = pools + 1 /\ curr_thread_index' = 0 /\ thread_count' = count
  /\ id' = [i \in 0..(count - 1) |-> 0]
  /\ is_running' = [i \in 0..(count - 1) |-> FALSE]
  /\ reached' = [i \in 0..(count - 1) |-> 0]
  /\ pushes' = 0
  /\ UNCHANGED <<threads, inbox, owner, accepted, consumed>>

create_thread_pool_fail(count) ==
  /\ pc = "idle" /\ p_pool = 0 /\ pools < MaxPools
  /\ count = 0 \/ "calloc" \in Faults
  /\ pools' = pools + 1
  /\ UNCHANGED <<pool, threads, inbox, owner, pushes, reached, accepted, consumed>>

-----------------------------------------------------------------------------
(* thread_pool_push_data                                                   *)

(* Variant with a fault: the index runs one past the last context.         *)
next_index_past == ((curr_thread_index + 1) % ByteMod) % (thread_count + 1)

(* The index get_thread_index leaves behind, in uint8_t.                   *)
next_index == ((curr_thread_index + 1) % ByteMod) % thread_count

(* What the push is: the pushes of one pool are numbered.                  *)
Datum == (p_pool - 1) * MaxPushes + pushes

(* The index is taken and moved on, whatever becomes of the push.          *)
PushCall ==
  /\ pc = "idle" /\ p_pool # 0 /\ pushes < MaxPushes
  /\ pushes' = pushes + 1
  /\ curr_thread_index' = next_index
  /\ at' = curr_thread_index
  /\ IF curr_thread_index >= thread_count
       THEN /\ pc' = "idle" /\ result' = -1
            /\ UNCHANGED reached
       ELSE /\ pc' = IF is_running[curr_thread_index] THEN "push" ELSE "create"
            /\ reached' = [reached EXCEPT ![curr_thread_index] = @ + 1]
            /\ UNCHANGED result
  /\ UNCHANGED <<p_pool, thread_count, id, is_running, threads, inbox,
                 pools, accepted, consumed>>

(* Without a pool the push fails.                                          *)
PushNull ==
  /\ pc = "idle" /\ p_pool = 0
  /\ result' = -1
  /\ UNCHANGED <<pool, threads, inbox, pc, at, history>>

(* push_to_new_thread: the thread runs from pthread_create on.             *)
CreateThread ==
  /\ pc = "create"
  /\ threads' = Append(threads, [pool |-> p_pool, params |-> at, state |-> "runs"])
  /\ id' = [id EXCEPT ![at] = Len(threads) + 1]
  /\ pc' = "push new"
  /\ UNCHANGED <<p_pool, curr_thread_index, thread_count, is_running, inbox,
                 at, result, history>>

(* Variant with a fault: the context counts as running all the same.       *)
CreateThreadFailMarked ==
  /\ pc = "create" /\ "pthread_create" \in Faults
  /\ result' = EAGAIN
  /\ is_running' = [is_running EXCEPT ![at] = TRUE]
  /\ pc' = "idle"
  /\ UNCHANGED <<p_pool, curr_thread_index, thread_count, id, threads, inbox,
                 at, history>>

(* pthread_create's error number is what the push returns.                 *)
CreateThreadFail ==
  /\ pc = "create" /\ "pthread_create" \in Faults
  /\ result' = EAGAIN
  /\ pc' = "idle"
  /\ UNCHANGED <<pool, threads, inbox, at, history>>

Mark == is_running' = IF pc = "push new" THEN [is_running EXCEPT ![at] = TRUE]
                                         ELSE is_running

(* push_cb took the data.                                                  *)
Push ==
  /\ pc \in {"push", "push new"}
  /\ inbox' = [inbox EXCEPT ![at] = Append(@, Datum)]
  /\ accepted' = accepted \cup {Datum}
  /\ result' = 0 /\ pc' = "idle"
  /\ Mark
  /\ UNCHANGED <<p_pool, curr_thread_index, thread_count, id, threads, at,
                 pools, pushes, reached, consumed>>

(* Variant with a fault: a thread whose first push failed is forgotten.    *)
PushFailUnmarked ==
  /\ pc \in {"push", "push new"} /\ "push_cb" \in Faults
  /\ result' = -1 /\ pc' = "idle"
  /\ UNCHANGED <<pool, threads, inbox, at, history>>

(* push_cb failed: a new thread is running even so.                        *)
PushFail ==
  /\ pc \in {"push", "push new"} /\ "push_cb" \in Faults
  /\ result' = -1 /\ pc' = "idle"
  /\ Mark
  /\ UNCHANGED <<p_pool, curr_thread_index, thread_count, id, threads, inbox,
                 at, history>>

-----------------------------------------------------------------------------
(* destroy_thread_pool                                                     *)
DestroyCall ==
  /\ pc = "idle" /\ p_pool # 0
  /\ at' = 0 /\ pc' = "cancel"
  /\ UNCHANGED <<pool, threads, inbox, result, history>>

(* One turn of cancel_all_thread.  A cancelled thread goes on until its    *)
(* next cancellation point; nobody waits for it.                           *)
Cancel ==
  /\ pc = "cancel" /\ at < thread_count
  /\ IF is_running[at]
       THEN /\ is_running' = [is_running EXCEPT ![at] = FALSE]
            /\ threads' = [threads EXCEPT ![id[at]].state =
                             IF @ = "gone" THEN "gone" ELSE "cancelled"]
       ELSE UNCHANGED <<is_running, threads>>
  /\ at' = at + 1
  /\ UNCHANGED <<p_pool, curr_thread_index, thread_count, id, inbox, pc, result, history>>

(* Variant with a fault: the loop leaves out the last context.             *)
FreeEarly ==
  /\ pc = "cancel" /\ at >= thread_count - 1
  /\ p_pool' = 0 /\ pc' = "idle"
  /\ UNCHANGED <<curr_thread_index, thread_count, id, is_running, threads,
                 inbox, at, result, history>>

Free ==
  /\ pc = "cancel" /\ at = thread_count
  /\ p_pool' = 0 /\ pc' = "idle"
  /\ UNCHANGED <<curr_thread_index, thread_count, id, is_running, threads,
                 inbox, at, result, history>>

-----------------------------------------------------------------------------
(* The threads.                                                            *)

Alive(w) == w \in DOMAIN threads /\ threads[w].state # "gone"

(* thread_cb takes what push_cb put into its inbox.                        *)
Consume(w) ==
  /\ Alive(w)
  /\ LET i == threads[w].params IN
       /\ inbox[i] # <<>>
       /\ inbox' = [inbox EXCEPT ![i] = Tail(@)]
       /\ consumed' = consumed \cup {Head(inbox[i])}
  /\ UNCHANGED <<pool, threads, owner, pools, pushes, reached, accepted>>

(* thread_cb returns of itself.                                            *)
Exit(w) ==
  /\ Alive(w) /\ "exit" \in Faults
  /\ threads' = [threads EXCEPT ![w].state = "gone"]
  /\ UNCHANGED <<pool, inbox, owner, history>>

(* The cancellation takes effect.                                          *)
Cancelled(w) ==
  /\ Alive(w) /\ threads[w].state = "cancelled"
  /\ threads' = [threads EXCEPT ![w].state = "gone"]
  /\ UNCHANGED <<pool, inbox, owner, history>>

-----------------------------------------------------------------------------
push_to_new_thread == CreateThread \/ CreateThreadFail

thread_pool_push_data ==
  PushCall \/ PushNull \/ push_to_new_thread \/ Push \/ PushFail

destroy_thread_pool == DestroyCall \/ Cancel \/ Free

MaxThreads == MaxPools * MaxPushes

Next ==
  \/ \E count \in Counts : create_thread_pool(count) \/ create_thread_pool_fail(count)
  \/ thread_pool_push_data
  \/ destroy_thread_pool
  \/ \E w \in 1..MaxThreads : Consume(w) \/ Exit(w) \/ Cancelled(w)

Spec == Init /\ [][Next]_vars

(* The threads are scheduled, and so is the owner inside a call.           *)
Fairness ==
  /\ WF_vars(push_to_new_thread \/ Push \/ PushFail \/ Cancel \/ Free)
  /\ \A w \in 1..MaxThreads : WF_vars(Consume(w)) /\ WF_vars(Cancelled(w))

FairSpec == Spec /\ Fairness

-----------------------------------------------------------------------------
AllData == 1..(MaxPools * MaxPushes)

(* The types of the fields of thread_pool_t, of the contexts and threads.  *)
TypeOK ==
  /\ p_pool \in 0..MaxPools
  /\ curr_thread_index \in 0..(ByteMod - 1) /\ thread_count \in 0..(ByteMod - 1)
  /\ id \in [Contexts -> 0..Len(threads)]
  /\ is_running \in [Contexts -> BOOLEAN]
  /\ threads \in Seq([pool : 1..MaxPools, params : Params,
                      state : {"runs", "cancelled", "gone"}])
  /\ inbox \in [Params -> Seq(AllData)]
  /\ pc \in {"idle", "create", "push", "push new", "cancel"}
  /\ at \in 0..ByteMod /\ result \in {-1, 0, EAGAIN}
  /\ reached \in [Contexts -> Nat]
  /\ consumed \subseteq accepted /\ accepted \subseteq AllData

(***************************************************************************)
(* A pool starts at most one thread per context, also when the push_cb that*)
(* follows pthread_create fails: a second one would overwrite the id of the*)
(* first, which cancel_all_thread could then no longer reach.              *)
(***************************************************************************)
OneThreadPerContext ==
  \A v, w \in DOMAIN threads :
    (threads[v].pool = threads[w].pool /\ threads[v].params = threads[w].params)
      => v = w

(***************************************************************************)
(* destroy_thread_pool leaves no thread uncancelled: when it has freed the *)
(* contexts, which hold the only ids, every thread of the pool has exited  *)
(* or has its cancellation pending.                                        *)
(***************************************************************************)
NoneLeftRunning ==
  \A w \in DOMAIN threads :
    threads[w].state = "runs" => threads[w].pool = p_pool

(***************************************************************************)
(* The pushes go round, whatever fails: the n-th push of a pool is directed*)
(* to context (n - 1) % thread_count, which the uint8_t index of           *)
(* get_thread_index yields without a wrap; so none is lost to an index     *)
(* outside the contexts, and no context is more than one push ahead.       *)
(***************************************************************************)
Balanced ==
  p_pool # 0 =>
    /\ \A i \in Contexts :
         reached[i] = (pushes + thread_count - 1 - i) \div thread_count
    /\ \A i, j \in Contexts : reached[i] <= reached[j] + 1

(* The pool that d was pushed to.                                          *)
PoolOf(d) == ((d - 1) \div MaxPushes) + 1

(* The thread that d waits for has returned of itself.                     *)
Deserted(d) ==
  \E w \in DOMAIN threads :
    /\ threads[w].state = "gone" /\ threads[w].pool = p_pool
    /\ d \in Range(inbox[threads[w].params])

(***************************************************************************)
(* Data that push_cb took is taken by a thread, unless the pool is         *)
(* destroyed first or the thread has returned: whatever fails, a context   *)
(* is never marked running without a thread (thread_pool.c:84-90).         *)
(***************************************************************************)
AcceptedIsConsumed ==
  \A d \in AllData :
    (d \in accepted) ~> (d \in consumed \/ p_pool # PoolOf(d) \/ Deserted(d))

=============================================================================
