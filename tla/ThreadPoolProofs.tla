-------------------------- MODULE ThreadPoolProofs --------------------------
(***************************************************************************)
(* Proofs about ThreadPool for every width of the index, every count of    *)
(* threads, any number of pools and pushes, and whatever fails.            *)
(***************************************************************************)
EXTENDS ThreadPool, RingArith, SequenceTheorems, TLAPS

ThreadType == [pool : 1..MaxPools, params : Params, state : {"runs", "cancelled", "gone"}]

(* Where the owner can be, and with which index.                           *)
OwnerInv ==
  /\ pools \in 0..MaxPools /\ p_pool <= pools
  /\ pushes \in 0..MaxPushes
  /\ p_pool # 0 => thread_count > 0 /\ curr_thread_index < thread_count
  /\ pc # "idle" => p_pool # 0
  /\ pc \in {"create", "push", "push new"} => at < thread_count /\ pushes > 0
  /\ pc = "create" => ~is_running[at]
  /\ pc = "push new" => ~is_running[at]
  /\ pc = "cancel" => at <= thread_count /\ \A i \in Contexts : i < at => ~is_running[i]

(* The thread w was created for the context i of the pool there is.        *)
ThreadOf(w, i) == w \in 1..Len(threads) /\ threads[w].pool = p_pool /\ threads[w].params = i

(***************************************************************************)
(* The contexts and the threads agree.  A context that is marked running   *)
(* has its thread's id; and a thread of the pool is the one its context    *)
(* has the id of, and is marked, is about to be marked or was cancelled.   *)
(***************************************************************************)
ContextInv ==
  /\ \A w \in 1..Len(threads) : threads[w].pool <= pools
  /\ p_pool # 0 => \A i \in Contexts : is_running[i] => ThreadOf(id[i], i)
  /\ pc = "push new" => ThreadOf(id[at], at)
  /\ p_pool # 0 =>
       \A w \in 1..Len(threads) :
         threads[w].pool = p_pool =>
           LET i == threads[w].params IN
             /\ i \in Contexts /\ id[i] = w
             /\ \/ is_running[i]
                \/ pc = "push new" /\ at = i
                \/ pc = "cancel" /\ i < at /\ threads[w].state # "runs"

(* What waits in an inbox was accepted.                                    *)
InboxInv == \A i \in Params : \A k \in 1..Len(inbox[i]) : inbox[i][k] \in accepted

(* r turns are complete, and the turn that has begun is at the index.      *)
Turn(r) ==
  /\ pushes = r * thread_count + curr_thread_index
  /\ \A i \in Contexts : reached[i] = r + (IF i < curr_thread_index THEN 1 ELSE 0)

TurnInv == p_pool # 0 => \E r \in Nat : Turn(r)

IInv == /\ TypeOK /\ OwnerInv /\ InboxInv /\ TurnInv
        /\ ContextInv /\ OneThreadPerContext /\ NoneLeftRunning

-----------------------------------------------------------------------------
(* The uint8_t index does not wrap: it is at most the largest count.       *)
LEMMA NextIndex ==
  ASSUME TypeOK, thread_count > 0, curr_thread_index < thread_count
  PROVE  next_index = IF curr_thread_index + 1 = thread_count THEN 0 ELSE curr_thread_index + 1
<1>1. /\ thread_count \in Nat /\ curr_thread_index \in Nat /\ ByteMod \in Nat
      /\ thread_count <= ByteMod - 1
  <2>1. ByteMod \in Nat /\ ByteMod > 0
    BY ThreadPoolAssumption
  <2>2. thread_count \in 0..(ByteMod - 1) /\ curr_thread_index \in 0..(ByteMod - 1)
    BY DEF TypeOK
  <2> QED
    BY <2>1, <2>2
<1>2. (curr_thread_index + 1) % ByteMod = curr_thread_index + 1
  BY <1>1
<1>3. CASE curr_thread_index + 1 = thread_count
  <2>1. thread_count % thread_count = 0
    BY <1>1
  <2> QED
    BY <1>1, <1>2, <1>3, <2>1 DEF next_index
<1>4. CASE curr_thread_index + 1 # thread_count
  BY <1>1, <1>2, <1>4 DEF next_index
<1> QED
  BY <1>3, <1>4

(* The number of a push is one of those there can be.                      *)
LEMMA DatumInRange ==
  ASSUME TypeOK, OwnerInv, p_pool # 0, pushes > 0
  PROVE  Datum \in AllData
<1> DEFINE M == MaxPushes
           p == p_pool
<1>1. p \in Nat /\ p >= 1 /\ p <= MaxPools /\ M \in Nat /\ MaxPools \in Nat
  <2>1. MaxPools \in Nat /\ MaxPushes \in Nat
    BY ThreadPoolAssumption
  <2>2. p_pool \in 0..MaxPools
    BY DEF TypeOK
  <2> QED
    BY <2>1, <2>2
<1>2. pushes \in Nat /\ pushes <= M
  <2>1. pushes \in 0..MaxPushes
    BY DEF OwnerInv
  <2> QED
    BY <1>1, <2>1
<1> HIDE DEF M, p
<1>3. (p - 1) * M >= 0 /\ (MaxPools - p) * M >= 0
  BY <1>1
<1>4. (p - 1) * M + M = p * M /\ (MaxPools - p) * M + p * M = MaxPools * M
  BY <1>1
<1>5. (p - 1) * M + pushes >= 1 /\ (p - 1) * M + pushes <= MaxPools * M
  BY <1>1, <1>2, <1>3, <1>4
<1> QED
  BY <1>1, <1>2, <1>5 DEF Datum, AllData, M, p

(* An index below a count. *)
LEMMA InRange ==
  ASSUME NEW a \in Nat, NEW n \in Nat, a < n
  PROVE  a \in 0..(n - 1)
  OBVIOUS

(* A step that changes the state of one thread.                            *)
LEMMA ThreadState ==
  ASSUME threads \in Seq(ThreadType), NEW w \in 1..Len(threads),
         NEW s \in {"runs", "cancelled", "gone"},
         threads' = [threads EXCEPT ![w].state = s]
  PROVE  /\ threads' \in Seq(ThreadType) /\ Len(threads') = Len(threads)
         /\ \A v \in 1..Len(threads) :
              /\ threads'[v].pool = threads[v].pool /\ threads'[v].params = threads[v].params
              /\ threads'[v].state = IF v = w THEN s ELSE threads[v].state
<1>1. threads[w] \in ThreadType
  OBVIOUS
<1> DEFINE e == [threads[w] EXCEPT !.state = s]
<1>2. /\ e \in ThreadType /\ e.pool = threads[w].pool /\ e.params = threads[w].params
      /\ e.state = s
  BY <1>1 DEF ThreadType
<1>3. threads' = [threads EXCEPT ![w] = e]
  OBVIOUS
<1> HIDE DEF e
<1> QED
  BY <1>2, <1>3, ExceptSeq

(* A step that adds a thread.                                              *)
LEMMA ThreadAdded ==
  ASSUME threads \in Seq(ThreadType), NEW e \in ThreadType, threads' = Append(threads, e)
  PROVE  /\ threads' \in Seq(ThreadType) /\ Len(threads') = Len(threads) + 1
         /\ \A v \in 1..Len(threads) : threads'[v] = threads[v]
         /\ threads'[Len(threads) + 1] = e
  OBVIOUS

-----------------------------------------------------------------------------
(* The invariant holds at first.                                           *)
LEMMA InitIInv == Init => IInv
<1> SUFFICES ASSUME Init PROVE IInv
  OBVIOUS
<1>1. Contexts = {} /\ Len(threads) = 0
  BY DEF Init, Contexts
<1>2. TypeOK
  BY <1>1, ThreadPoolAssumption DEF Init, TypeOK, Params
<1>3. OwnerInv /\ InboxInv /\ TurnInv
  BY <1>1, ThreadPoolAssumption DEF Init, OwnerInv, InboxInv, TurnInv
<1>4. ContextInv /\ OneThreadPerContext /\ NoneLeftRunning
  BY <1>1 DEF Init, ContextInv, OneThreadPerContext, NoneLeftRunning
<1> QED
  BY <1>2, <1>3, <1>4 DEF IInv

(* The numbers are numbers.                                                *)
LEMMA Numbers ==
  ASSUME IInv
  PROVE  /\ ByteMod \in Nat /\ ByteMod >= 1 /\ MaxPools \in Nat /\ MaxPushes \in Nat
         /\ p_pool \in Nat /\ pools \in Nat /\ p_pool <= pools /\ pools <= MaxPools
         /\ thread_count \in Nat /\ thread_count <= ByteMod - 1 /\ curr_thread_index \in Nat
         /\ at \in Nat /\ pushes \in Nat /\ pushes <= MaxPushes /\ Len(threads) \in Nat
<1>1. ByteMod \in Nat \ {0} /\ MaxPools \in Nat /\ MaxPushes \in Nat
  BY ThreadPoolAssumption
<1>2. /\ p_pool \in 0..MaxPools /\ curr_thread_index \in 0..(ByteMod - 1)
      /\ thread_count \in 0..(ByteMod - 1) /\ at \in 0..ByteMod
      /\ threads \in Seq(ThreadType)
  BY DEF IInv, TypeOK, ThreadType
<1>3. pools \in 0..MaxPools /\ p_pool <= pools /\ pushes \in 0..MaxPushes
  BY DEF IInv, OwnerInv
<1> QED
  BY <1>1, <1>2, <1>3

(* No index of a context is outside the parameters.                        *)
LEMMA ContextIsParams ==
  ASSUME IInv, NEW i \in Contexts
  PROVE  i \in Params /\ i \in Nat /\ i < thread_count
  BY Numbers DEF Contexts, Params

(* The types of what does not concern the owner's numbers.                 *)
LEMMA Shapes ==
  ASSUME IInv
  PROVE  /\ id \in [Contexts -> 0..Len(threads)] /\ is_running \in [Contexts -> BOOLEAN]
         /\ threads \in Seq(ThreadType) /\ inbox \in [Params -> Seq(AllData)]
         /\ reached \in [Contexts -> Nat]
         /\ consumed \subseteq accepted /\ accepted \subseteq AllData
         /\ pc \in {"idle", "create", "push", "push new", "cancel"}
         /\ result \in {-1, 0, EAGAIN}
         /\ p_pool \in 0..MaxPools /\ curr_thread_index \in 0..(ByteMod - 1)
         /\ thread_count \in 0..(ByteMod - 1) /\ at \in 0..ByteMod
  BY DEF IInv, TypeOK, ThreadType

(* A thread belongs to a pool there was or is.                             *)
LEMMA ThreadFacts ==
  ASSUME IInv
  PROVE  /\ DOMAIN threads = 1..Len(threads)
         /\ \A w \in 1..Len(threads) :
              /\ threads[w] \in ThreadType
              /\ threads[w].pool \in Nat /\ threads[w].pool >= 1 /\ threads[w].pool <= pools
              /\ threads[w].state \in {"runs", "cancelled", "gone"}
              /\ threads[w].params \in Params
<1>1. threads \in Seq(ThreadType)
  BY Shapes
<1>2. \A w \in 1..Len(threads) : threads[w] \in ThreadType
  BY <1>1
<1>3. \A e \in ThreadType : /\ e.pool \in Nat /\ e.pool >= 1 /\ e.params \in Params
                             /\ e.state \in {"runs", "cancelled", "gone"}
  BY Numbers DEF ThreadType
<1>4. \A w \in 1..Len(threads) : threads[w].pool <= pools
  BY DEF IInv, ContextInv
<1> QED
  BY <1>1, <1>2, <1>3, <1>4

-----------------------------------------------------------------------------
(* create_thread_pool, with memory for it or without.                      *)
LEMMA CreateStep ==
  ASSUME IInv, NEW count \in Counts, create_thread_pool(count)
  PROVE  IInv'
<1> USE DEF create_thread_pool
<1>1. /\ p_pool = 0 /\ pc = "idle" /\ count > 0 /\ pools < MaxPools
      /\ p_pool' = pools + 1 /\ pools' = pools + 1
      /\ curr_thread_index' = 0 /\ thread_count' = count /\ pushes' = 0
      /\ id' = [i \in 0..(count - 1) |-> 0]
      /\ is_running' = [i \in 0..(count - 1) |-> FALSE]
      /\ reached' = [i \in 0..(count - 1) |-> 0]
      /\ threads' = threads /\ inbox' = inbox /\ pc' = pc /\ at' = at /\ result' = result
      /\ accepted' = accepted /\ consumed' = consumed
  BY DEF owner
<1>2. count \in 0..(ByteMod - 1) /\ count \in Nat
  BY ThreadPoolAssumption
<1>3. Contexts' = 0..(count - 1)
  BY <1>1 DEF Contexts
<1>4. TypeOK'
  <2>1. (p_pool \in 0..MaxPools)' /\ (curr_thread_index \in 0..(ByteMod - 1))'
    BY <1>1, Numbers
  <2>2. /\ (id \in [Contexts -> 0..Len(threads)])'
        /\ (is_running \in [Contexts -> BOOLEAN])'
        /\ (reached \in [Contexts -> Nat])'
    BY <1>1, <1>3, Numbers
  <2> QED
    BY <1>1, <1>2, <2>1, <2>2, Shapes DEF TypeOK, ThreadType
<1>5. /\ DOMAIN threads = 1..Len(threads)
      /\ \A w \in 1..Len(threads) :
           threads[w].pool \in Nat /\ threads[w].pool <= pools /\ threads[w].pool >= 1
  BY ThreadFacts
<1>6. OwnerInv'
  BY <1>1, <1>2, Numbers DEF OwnerInv
<1>7. InboxInv'
  BY <1>1 DEF IInv, InboxInv
<1>8. TurnInv'
  <2>1. Turn(0)'
    BY <1>1, <1>2, <1>3 DEF Turn
  <2> QED
    BY <2>1 DEF TurnInv
<1>9. ContextInv'
  BY <1>1, <1>3, <1>5, Numbers DEF ContextInv
<1>10. OneThreadPerContext' /\ NoneLeftRunning'
  BY <1>1, <1>5 DEF IInv, OneThreadPerContext, NoneLeftRunning
<1> QED
  BY <1>4, <1>6, <1>7, <1>8, <1>9, <1>10 DEF IInv

(* The parts of the invariant that a step leaves alone with its variables. *)
LEMMA SameThreads ==
  ASSUME IInv, UNCHANGED threads, UNCHANGED p_pool
  PROVE  OneThreadPerContext' /\ NoneLeftRunning'
  BY DEF IInv, OneThreadPerContext, NoneLeftRunning

(* A step that moves neither index nor counts keeps the turn.              *)
LEMMA SameTurn ==
  ASSUME IInv, UNCHANGED <<p_pool, thread_count, curr_thread_index, pushes, reached>>
  PROVE  TurnInv'
  BY DEF IInv, TurnInv, Turn, Contexts

(* create_thread_pool refuses its arguments or finds no memory.            *)
LEMMA CreateFailStep ==
  ASSUME IInv, NEW count \in Counts, create_thread_pool_fail(count)
  PROVE  IInv'
<1>1. /\ pools < MaxPools /\ pools' = pools + 1 /\ pc = "idle" /\ p_pool = 0
      /\ p_pool' = p_pool /\ curr_thread_index' = curr_thread_index
      /\ thread_count' = thread_count /\ id' = id /\ is_running' = is_running
      /\ threads' = threads /\ inbox' = inbox /\ pc' = pc /\ at' = at /\ result' = result
      /\ pushes' = pushes /\ reached' = reached /\ accepted' = accepted /\ consumed' = consumed
  BY DEF create_thread_pool_fail, pool, owner
<1>2. TypeOK' /\ InboxInv'
  BY <1>1 DEF IInv, TypeOK, InboxInv, Contexts
<1>3. OwnerInv'
  BY <1>1, Numbers DEF IInv, OwnerInv
<1>4. ContextInv'
  BY <1>1, Numbers, ThreadFacts DEF IInv, ContextInv
<1> QED
  BY <1>1, <1>2, <1>3, <1>4, SameThreads, SameTurn DEF IInv

(* A push without a pool.                                                  *)
LEMMA PushNullStep ==
  ASSUME IInv, PushNull
  PROVE  IInv'
<1>1. /\ pc = "idle" /\ p_pool = 0 /\ result' = -1
      /\ p_pool' = p_pool /\ curr_thread_index' = curr_thread_index
      /\ thread_count' = thread_count /\ id' = id /\ is_running' = is_running
      /\ threads' = threads /\ inbox' = inbox /\ pc' = pc /\ at' = at /\ pools' = pools
      /\ pushes' = pushes /\ reached' = reached /\ accepted' = accepted /\ consumed' = consumed
  BY DEF PushNull, pool, history
<1>2. TypeOK' /\ InboxInv'
  BY <1>1 DEF IInv, TypeOK, InboxInv, Contexts
<1>3. OwnerInv' /\ ContextInv'
  BY <1>1 DEF IInv, OwnerInv, ContextInv
<1> QED
  BY <1>1, <1>2, <1>3, SameThreads, SameTurn DEF IInv

(* A push takes the next context in turn.                                  *)
LEMMA PushCallStep ==
  ASSUME IInv, PushCall
  PROVE  IInv'
<1> DEFINE c == curr_thread_index
<1>1. /\ p_pool # 0 /\ pc = "idle" /\ pushes < MaxPushes /\ pushes' = pushes + 1
      /\ curr_thread_index' = next_index /\ at' = c
      /\ p_pool' = p_pool /\ thread_count' = thread_count /\ id' = id
      /\ is_running' = is_running /\ threads' = threads /\ inbox' = inbox /\ pools' = pools
      /\ accepted' = accepted /\ consumed' = consumed
  BY DEF PushCall
<1>2. c \in Nat /\ thread_count \in Nat /\ c < thread_count /\ thread_count > 0 /\ c \in Contexts
  BY <1>1, Numbers DEF IInv, OwnerInv, Contexts
<1>3. /\ pc' = (IF is_running[c] THEN "push" ELSE "create")
      /\ reached' = [reached EXCEPT ![c] = @ + 1] /\ result' = result
  BY <1>2 DEF PushCall
<1>4. curr_thread_index' = IF c + 1 = thread_count THEN 0 ELSE c + 1
  BY <1>1, <1>2, NextIndex DEF IInv
<1>5. /\ curr_thread_index' \in Nat /\ curr_thread_index' < thread_count
      /\ curr_thread_index' \in 0..(ByteMod - 1) /\ at' \in 0..ByteMod
      /\ Contexts' = Contexts
  BY <1>1, <1>2, <1>4, Numbers DEF Contexts
<1>6. TypeOK'
  <2>1. reached' \in [Contexts -> Nat]
    <3>1. reached \in [Contexts -> Nat]
      BY Shapes
    <3> QED
      BY <1>2, <1>3, <3>1
  <2>2. pc' \in {"idle", "create", "push", "push new", "cancel"}
    BY <1>3
  <2> QED
    BY <1>1, <1>3, <1>5, <2>1, <2>2, Shapes DEF TypeOK, ThreadType
<1>7. InboxInv'
  BY <1>1 DEF IInv, InboxInv
<1>8. OwnerInv'
  BY <1>1, <1>2, <1>3, <1>5, Numbers DEF IInv, OwnerInv
<1>9. ContextInv'
  BY <1>1, <1>3, <1>5 DEF IInv, ContextInv, ThreadOf
<1>10. TurnInv'
  <2>1. PICK r \in Nat : Turn(r)
    BY <1>1 DEF IInv, TurnInv
  <2>2. /\ pushes = r * thread_count + c
        /\ \A i \in Contexts : reached[i] = r + (IF i < c THEN 1 ELSE 0)
    BY <2>1 DEF Turn
  <2>3. \A i \in Contexts : reached'[i] = r + (IF i < c + 1 THEN 1 ELSE 0)
    <3>1. DOMAIN reached = Contexts
      BY Shapes
    <3>2. \A i \in Contexts : reached'[i] = IF i = c THEN reached[i] + 1 ELSE reached[i]
      BY <1>2, <1>3, <3>1
    <3> QED
      BY <1>2, <2>2, <3>2 DEF Contexts
  <2>4. CASE c + 1 = thread_count
    <3>1. \A i \in Contexts : reached'[i] = r + 1
      BY <1>2, <2>3, <2>4 DEF Contexts
    <3>2. pushes + 1 = (r + 1) * thread_count + 0
      BY <1>2, <2>2, <2>4
    <3>3. Turn(r + 1)'
      BY <1>1, <1>2, <1>4, <1>5, <2>4, <3>1, <3>2 DEF Turn, Contexts
    <3> QED
      BY <3>3 DEF TurnInv
  <2>5. CASE c + 1 # thread_count
    <3>1. pushes + 1 = r * thread_count + (c + 1)
      BY <1>2, <2>2
    <3>2. Turn(r)'
      BY <1>1, <1>4, <1>5, <2>3, <2>5, <3>1 DEF Turn
    <3> QED
      BY <3>2 DEF TurnInv
  <2> QED
    BY <2>4, <2>5
<1> QED
  BY <1>1, <1>6, <1>7, <1>8, <1>9, <1>10, SameThreads DEF IInv

(***************************************************************************)
(* push_to_new_thread: the context had no thread, since one of the pool    *)
(* would be marked.                                                        *)
(***************************************************************************)
LEMMA CreateThreadStep ==
  ASSUME IInv, CreateThread
  PROVE  IInv'
<1> DEFINE e == [pool |-> p_pool, params |-> at, state |-> "runs"]
           n == Len(threads) + 1
<1>1. /\ pc = "create" /\ pc' = "push new" /\ threads' = Append(threads, e)
      /\ id' = [id EXCEPT ![at] = n]
      /\ p_pool' = p_pool /\ curr_thread_index' = curr_thread_index
      /\ thread_count' = thread_count /\ is_running' = is_running /\ inbox' = inbox
      /\ at' = at /\ result' = result /\ pools' = pools /\ pushes' = pushes
      /\ reached' = reached /\ accepted' = accepted /\ consumed' = consumed
  BY DEF CreateThread, history
<1>2. p_pool # 0 /\ at < thread_count /\ pushes > 0 /\ ~is_running[at]
  BY <1>1 DEF IInv, OwnerInv
<1>3. at \in Contexts /\ at \in Params /\ Contexts' = Contexts
  <2>1. at \in Nat /\ thread_count \in Nat /\ ByteMod \in Nat /\ thread_count <= ByteMod - 1
    BY Numbers
  <2>2. at < thread_count /\ thread_count' = thread_count
    BY <1>1, <1>2
  <2> QED
    BY <2>1, <2>2 DEF Contexts, Params
<1>4. e \in ThreadType
  BY <1>2, <1>3, Numbers DEF ThreadType
<1>5. /\ threads' \in Seq(ThreadType) /\ Len(threads') = n /\ n \in Nat
      /\ \A w \in 1..Len(threads) : threads'[w] = threads[w]
      /\ threads'[n] = e
  <2>1. threads \in Seq(ThreadType) /\ Len(threads) \in Nat /\ threads' = Append(threads, e)
    BY <1>1, Shapes, Numbers
  <2> HIDE DEF e
  <2>2. /\ threads' \in Seq(ThreadType) /\ Len(threads') = Len(threads) + 1
        /\ \A w \in 1..Len(threads) : threads'[w] = threads[w]
        /\ threads'[Len(threads) + 1] = e
    BY <1>4, <2>1, ThreadAdded
  <2> QED
    BY <2>1, <2>2
<1>6. e.pool = p_pool /\ e.params = at /\ e.state = "runs"
  OBVIOUS
<1> HIDE DEF e
<1>7. id' \in [Contexts -> 0..n] /\ id'[at] = n /\ \A i \in Contexts : i # at => id'[i] = id[i]
  <2>1. id \in [Contexts -> 0..Len(threads)] /\ Len(threads) \in Nat
    BY Shapes, Numbers
  <2>2. id' = [id EXCEPT ![at] = n]
    BY <1>1
  <2> QED
    BY <1>3, <2>1, <2>2
<1>8. TypeOK'
  BY <1>1, <1>3, <1>5, <1>7, Shapes DEF TypeOK, ThreadType
<1>9. InboxInv'
  BY <1>1 DEF IInv, InboxInv
<1>10. OwnerInv'
  BY <1>1, <1>2 DEF IInv, OwnerInv
<1>11. \A w \in 1..Len(threads) :
         threads[w].pool = p_pool => threads[w].params # at /\ threads[w].params \in Contexts
  <2>1. pc = "create" /\ p_pool # 0 /\ ~is_running[at]
    BY <1>1, <1>2
  <2> QED
    BY <2>1 DEF IInv, ContextInv
<1>12. 1..n = (1..Len(threads)) \cup {n}
  BY Numbers
<1>13. ContextInv'
  <2>1. \A w \in 1..n : threads'[w].pool <= pools
    BY <1>5, <1>6, <1>12, Numbers DEF IInv, ContextInv
  <2>2. \A i \in Contexts : is_running[i] => ThreadOf(id[i], i)'
    <3> SUFFICES ASSUME NEW i \in Contexts, is_running[i] PROVE ThreadOf(id[i], i)'
      OBVIOUS
    <3>1. i # at /\ id'[i] = id[i] /\ ThreadOf(id[i], i)
      BY <1>2, <1>7 DEF IInv, ContextInv
    <3> QED
      BY <1>1, <1>5, <1>12, <3>1 DEF ThreadOf
  <2>3. ThreadOf(id[at], at)'
    BY <1>1, <1>5, <1>6, <1>7, <1>12 DEF ThreadOf
  <2>4. ASSUME NEW w \in 1..n, threads'[w].pool = p_pool
        PROVE  LET i == threads'[w].params IN
                 i \in Contexts /\ id'[i] = w /\ (is_running[i] \/ at = i)
    <3>1. CASE w = n
      BY <1>3, <1>5, <1>6, <1>7, <3>1
    <3>2. CASE w \in 1..Len(threads)
      <4>1. threads'[w] = threads[w]
        BY <1>5, <3>2
      <4>2. /\ threads[w].params \in Contexts /\ threads[w].params # at
            /\ id[threads[w].params] = w /\ is_running[threads[w].params]
        BY <1>1, <1>2, <1>11, <2>4, <3>2, <4>1 DEF IInv, ContextInv
      <4> QED
        BY <1>7, <4>1, <4>2
    <3> QED
      BY <1>12, <3>1, <3>2
  <2> QED
    BY <1>1, <1>3, <1>5, <2>1, <2>2, <2>3, <2>4 DEF ContextInv
<1>14. OneThreadPerContext' /\ NoneLeftRunning'
  <2>1. DOMAIN threads' = 1..n /\ DOMAIN threads = 1..Len(threads)
    BY <1>5, ThreadFacts
  <2>2. p_pool' = p_pool
    BY <1>1
  <2>3. NoneLeftRunning'
    BY <1>5, <1>6, <1>12, <2>1, <2>2 DEF IInv, NoneLeftRunning
  <2>4. ASSUME NEW w \in 1..Len(threads), threads'[w].pool = threads'[n].pool
        PROVE  threads'[w].params # threads'[n].params
    BY <1>5, <1>6, <1>11, <2>4
  <2>5. OneThreadPerContext'
    BY <1>5, <1>12, <2>1, <2>4 DEF IInv, OneThreadPerContext
  <2> QED
    BY <2>3, <2>5
<1> QED
  BY <1>1, <1>8, <1>9, <1>10, <1>13, <1>14, SameTurn DEF IInv

(* pthread_create fails for a context.                                     *)
LEMMA CreateThreadFailStep ==
  ASSUME IInv, CreateThreadFail
  PROVE  IInv'
<1>1. /\ pc = "create" /\ pc' = "idle" /\ result' = EAGAIN /\ at' = at
      /\ p_pool' = p_pool /\ curr_thread_index' = curr_thread_index
      /\ thread_count' = thread_count /\ id' = id /\ is_running' = is_running
      /\ threads' = threads /\ inbox' = inbox /\ pools' = pools /\ pushes' = pushes
      /\ reached' = reached /\ accepted' = accepted /\ consumed' = consumed
  BY DEF CreateThreadFail, pool, history
<1>2. TypeOK' /\ InboxInv'
  BY <1>1 DEF IInv, TypeOK, InboxInv, Contexts
<1>3. OwnerInv'
  BY <1>1 DEF IInv, OwnerInv
<1>4. ContextInv'
  BY <1>1 DEF IInv, ContextInv, ThreadOf, Contexts
<1> QED
  BY <1>1, <1>2, <1>3, <1>4, SameThreads, SameTurn DEF IInv

(* push_cb was called: a new thread is marked, whatever it returned.       *)
LEMMA MarkStep ==
  ASSUME IInv, pc \in {"push", "push new"}, pc' = "idle", Mark, at' = at,
         p_pool' = p_pool, thread_count' = thread_count, id' = id, threads' = threads,
         curr_thread_index' = curr_thread_index, pools' = pools, pushes' = pushes
  PROVE  /\ is_running' \in [Contexts -> BOOLEAN] /\ Contexts' = Contexts
         /\ OwnerInv' /\ ContextInv' /\ OneThreadPerContext' /\ NoneLeftRunning'
<1>1. p_pool # 0 /\ at < thread_count
  BY DEF IInv, OwnerInv
<1>2. at \in Contexts /\ Contexts' = Contexts
  <2>1. at \in Nat /\ thread_count \in Nat
    BY Numbers
  <2>2. at < thread_count
    BY <1>1
  <2>3. at \in 0..(thread_count - 1)
    BY <2>1, <2>2, InRange
  <2>4. thread_count' = thread_count
    OBVIOUS
  <2> QED
    BY <2>3, <2>4 DEF Contexts
<1>3. is_running \in [Contexts -> BOOLEAN]
  BY Shapes
<1>4. CASE pc = "push"
  <2>1. is_running' = is_running
    BY <1>4 DEF Mark
  <2>2. OwnerInv'
    BY <1>1, <2>1 DEF IInv, OwnerInv
  <2>3. ContextInv'
    BY <1>2, <1>4, <2>1 DEF IInv, ContextInv, ThreadOf
  <2> QED
    BY <1>2, <1>3, <2>1, <2>2, <2>3, SameThreads
<1>5. CASE pc = "push new"
  <2>1. is_running' = [is_running EXCEPT ![at] = TRUE]
    BY <1>5 DEF Mark
  <2>2. /\ is_running' \in [Contexts -> BOOLEAN] /\ is_running'[at]
        /\ \A i \in Contexts : i # at => is_running'[i] = is_running[i]
    BY <1>2, <1>3, <2>1
  <2>3. OwnerInv'
    BY <1>1 DEF IInv, OwnerInv
  <2>4. \A i \in Contexts : is_running'[i] => ThreadOf(id[i], i)'
    <3> SUFFICES ASSUME NEW i \in Contexts, is_running'[i] PROVE ThreadOf(id[i], i)'
      OBVIOUS
    <3>1. ThreadOf(id[i], i)
      BY <1>1, <1>5, <2>2 DEF IInv, ContextInv
    <3> QED
      BY <3>1 DEF ThreadOf
  <2>5. ASSUME NEW w \in 1..Len(threads), threads[w].pool = p_pool
        PROVE  LET i == threads[w].params IN i \in Contexts /\ id[i] = w /\ is_running'[i]
    <3> DEFINE i == threads[w].params
    <3>1. i \in Contexts /\ id[i] = w /\ (is_running[i] \/ at = i)
      BY <1>1, <1>5, <2>5 DEF IInv, ContextInv
    <3> HIDE DEF i
    <3>2. is_running'[i]
      BY <2>2, <3>1
    <3> QED
      BY <3>1, <3>2 DEF i
  <2>6. \A w \in 1..Len(threads) : threads[w].pool <= pools
    BY DEF IInv, ContextInv
  <2>7. ContextInv'
    BY <1>2, <2>4, <2>5, <2>6 DEF ContextInv
  <2> QED
    BY <1>2, <2>2, <2>3, <2>7, SameThreads
<1> QED
  BY <1>4, <1>5

(* A push hands its data to the context whose turn it is.                  *)
LEMMA PushStep ==
  ASSUME IInv, Push
  PROVE  IInv'
<1>1. /\ pc \in {"push", "push new"} /\ pc' = "idle" /\ result' = 0 /\ Mark
      /\ inbox' = [inbox EXCEPT ![at] = Append(@, Datum)] /\ accepted' = accepted \cup {Datum}
      /\ p_pool' = p_pool /\ curr_thread_index' = curr_thread_index
      /\ thread_count' = thread_count /\ id' = id /\ threads' = threads /\ at' = at
      /\ pools' = pools /\ pushes' = pushes /\ reached' = reached /\ consumed' = consumed
  BY DEF Push
<1>2. /\ is_running' \in [Contexts -> BOOLEAN] /\ Contexts' = Contexts
      /\ OwnerInv' /\ ContextInv' /\ OneThreadPerContext' /\ NoneLeftRunning'
  BY <1>1, MarkStep
<1>3. Datum \in AllData
  BY <1>1, DatumInRange DEF IInv, OwnerInv
<1>4. at \in Params
  <2>1. at \in Nat /\ thread_count \in Nat /\ ByteMod \in Nat /\ thread_count <= ByteMod - 1
    BY Numbers
  <2>2. at < thread_count
    BY <1>1 DEF IInv, OwnerInv
  <2> QED
    BY <2>1, <2>2 DEF Params
<1>5. inbox' \in [Params -> Seq(AllData)]
  <2>1. inbox \in [Params -> Seq(AllData)] /\ inbox' = [inbox EXCEPT ![at] = Append(@, Datum)]
    BY <1>1, Shapes
  <2>2. Append(inbox[at], Datum) \in Seq(AllData)
    BY <1>3, <1>4, <2>1
  <2> QED
    BY <1>4, <2>1, <2>2
<1>6. TypeOK'
  BY <1>1, <1>2, <1>3, <1>5, Shapes DEF TypeOK, ThreadType
<1>7. InboxInv'
  <2> SUFFICES ASSUME NEW i \in Params, NEW k \in 1..Len(inbox'[i])
               PROVE  inbox'[i][k] \in accepted'
    BY DEF InboxInv
  <2>1. /\ inbox[i] \in Seq(AllData) /\ \A l \in 1..Len(inbox[i]) : inbox[i][l] \in accepted
    BY Shapes DEF IInv, InboxInv
  <2>2. inbox'[i] = IF i = at THEN Append(inbox[i], Datum) ELSE inbox[i]
    <3>1. inbox \in [Params -> Seq(AllData)] /\ inbox' = [inbox EXCEPT ![at] = Append(@, Datum)]
      BY <1>1, Shapes
    <3> QED
      BY <1>4, <3>1
  <2>3. accepted' = accepted \cup {Datum}
    BY <1>1
  <2>4. CASE i = at
    <3>1. Append(inbox[i], Datum)[k] \in accepted \cup {Datum}
      BY <1>3, <2>1, <2>2, <2>4
    <3> QED
      BY <2>2, <2>3, <2>4, <3>1
  <2>5. CASE i # at
    BY <2>1, <2>2, <2>3, <2>5
  <2> QED
    BY <2>4, <2>5
<1> QED
  BY <1>1, <1>2, <1>6, <1>7, SameTurn DEF IInv

(* A push that push_cb refuses.                                            *)
LEMMA PushFailStep ==
  ASSUME IInv, PushFail
  PROVE  IInv'
<1>1. /\ pc \in {"push", "push new"} /\ pc' = "idle" /\ result' = -1 /\ Mark
      /\ p_pool' = p_pool /\ curr_thread_index' = curr_thread_index
      /\ thread_count' = thread_count /\ id' = id /\ threads' = threads /\ inbox' = inbox
      /\ at' = at /\ pools' = pools /\ pushes' = pushes /\ reached' = reached
      /\ accepted' = accepted /\ consumed' = consumed
  BY DEF PushFail, history
<1>2. /\ is_running' \in [Contexts -> BOOLEAN] /\ Contexts' = Contexts
      /\ OwnerInv' /\ ContextInv' /\ OneThreadPerContext' /\ NoneLeftRunning'
  BY <1>1, MarkStep
<1>3. TypeOK'
  BY <1>1, <1>2, Shapes DEF TypeOK, ThreadType
<1>4. InboxInv'
  BY <1>1 DEF IInv, InboxInv
<1> QED
  BY <1>1, <1>2, <1>3, <1>4, SameTurn DEF IInv

-----------------------------------------------------------------------------
(* destroy_thread_pool begins.                                             *)
LEMMA DestroyCallStep ==
  ASSUME IInv, DestroyCall
  PROVE  IInv'
<1>1. /\ pc = "idle" /\ p_pool # 0 /\ at' = 0 /\ pc' = "cancel" /\ result' = result
      /\ p_pool' = p_pool /\ curr_thread_index' = curr_thread_index
      /\ thread_count' = thread_count /\ id' = id /\ is_running' = is_running
      /\ threads' = threads /\ inbox' = inbox /\ pools' = pools /\ pushes' = pushes
      /\ reached' = reached /\ accepted' = accepted /\ consumed' = consumed
  BY DEF DestroyCall, pool, history
<1>2. 0 \in 0..ByteMod /\ Contexts' = Contexts
  BY <1>1, Numbers DEF Contexts
<1>3. TypeOK' /\ InboxInv'
  BY <1>1, <1>2 DEF IInv, TypeOK, InboxInv
<1>4. OwnerInv'
  <2>1. 0 <= thread_count /\ \A i \in Contexts : ~(i < 0)
    BY Numbers, ContextIsParams
  <2>2. /\ pools \in 0..MaxPools /\ p_pool <= pools /\ pushes \in 0..MaxPushes
        /\ thread_count > 0 /\ curr_thread_index < thread_count
    BY <1>1 DEF IInv, OwnerInv
  <2> QED
    BY <1>1, <1>2, <2>1, <2>2 DEF OwnerInv
<1>5. ContextInv'
  BY <1>1, <1>2 DEF IInv, ContextInv, ThreadOf
<1> QED
  BY <1>1, <1>3, <1>4, <1>5, SameThreads, SameTurn DEF IInv

(* The contexts are gone, and with them the ids.                           *)
LEMMA FreeStep ==
  ASSUME IInv, Free
  PROVE  IInv'
<1>1. /\ pc = "cancel" /\ at = thread_count /\ p_pool' = 0 /\ pc' = "idle"
      /\ curr_thread_index' = curr_thread_index
      /\ thread_count' = thread_count /\ id' = id /\ is_running' = is_running
      /\ threads' = threads /\ inbox' = inbox /\ at' = at /\ result' = result
      /\ pools' = pools /\ pushes' = pushes
      /\ reached' = reached /\ accepted' = accepted /\ consumed' = consumed
  BY DEF Free, history
<1>2. TypeOK' /\ InboxInv'
  <2>1. 0 \in 0..MaxPools /\ Contexts' = Contexts
    BY <1>1, Numbers DEF Contexts
  <2> QED
    BY <1>1, <2>1 DEF IInv, TypeOK, InboxInv
<1>3. OwnerInv'
  <2>1. pools \in 0..MaxPools /\ 0 <= pools /\ pushes \in 0..MaxPushes
    BY Numbers
  <2> QED
    BY <1>1, <2>1 DEF OwnerInv
<1>4. ContextInv' /\ TurnInv'
  BY <1>1 DEF IInv, ContextInv, TurnInv
<1>5. OneThreadPerContext'
  BY <1>1 DEF IInv, OneThreadPerContext
<1>6. \A w \in 1..Len(threads) : threads[w].state # "runs"
  <2> SUFFICES ASSUME NEW w \in 1..Len(threads), threads[w].state = "runs" PROVE FALSE
    OBVIOUS
  <2>1. threads[w].pool = p_pool /\ p_pool # 0
    BY <1>1, ThreadFacts DEF IInv, OwnerInv, NoneLeftRunning
  <2>2. threads[w].params \in Contexts /\ is_running[threads[w].params]
    BY <1>1, <2>1 DEF IInv, ContextInv
  <2>3. threads[w].params < at
    BY <1>1, <2>2, ContextIsParams
  <2> QED
    BY <1>1, <2>2, <2>3 DEF IInv, OwnerInv
<1>7. NoneLeftRunning'
  BY <1>1, <1>6, ThreadFacts DEF NoneLeftRunning
<1> QED
  BY <1>2, <1>3, <1>4, <1>5, <1>7 DEF IInv

(* One turn of cancel_all_thread: the context loses its mark, its thread   *)
(* has returned or gets the cancellation.                                  *)
LEMMA CancelStep ==
  ASSUME IInv, Cancel
  PROVE  IInv'
<1>1. /\ pc = "cancel" /\ at < thread_count /\ at' = at + 1 /\ pc' = pc /\ result' = result
      /\ p_pool' = p_pool /\ curr_thread_index' = curr_thread_index
      /\ thread_count' = thread_count /\ id' = id /\ inbox' = inbox
      /\ pools' = pools /\ pushes' = pushes
      /\ reached' = reached /\ accepted' = accepted /\ consumed' = consumed
  BY DEF Cancel, history
<1>2. /\ p_pool # 0 /\ at <= thread_count /\ \A i \in Contexts : i < at => ~is_running[i]
      /\ thread_count > 0 /\ curr_thread_index < thread_count
      /\ pools \in 0..MaxPools /\ p_pool <= pools /\ pushes \in 0..MaxPushes
  BY <1>1 DEF IInv, OwnerInv
<1>3. at \in Contexts /\ Contexts' = Contexts /\ at \in Nat
  <2>1. at \in Nat /\ thread_count \in Nat
    BY Numbers
  <2>2. at \in 0..(thread_count - 1)
    BY <1>1, <2>1, InRange
  <2> QED
    BY <1>1, <2>1, <2>2 DEF Contexts
<1>4. at' \in 0..ByteMod /\ at' <= thread_count
  BY <1>1, Numbers
<1>5. /\ is_running' \in [Contexts -> BOOLEAN] /\ ~is_running'[at]
      /\ \A i \in Contexts : i # at => is_running'[i] = is_running[i]
  <2>1. is_running \in [Contexts -> BOOLEAN]
    BY Shapes
  <2>2. CASE is_running[at]
    <3>1. is_running' = [is_running EXCEPT ![at] = FALSE]
      BY <2>2 DEF Cancel
    <3> QED
      BY <1>3, <2>1, <3>1
  <2>3. CASE ~is_running[at]
    <3>1. is_running' = is_running
      BY <2>3 DEF Cancel
    <3> QED
      BY <2>1, <2>3, <3>1
  <2> QED
    BY <2>2, <2>3
<1>6. /\ threads' \in Seq(ThreadType) /\ Len(threads') = Len(threads)
      /\ \A w \in 1..Len(threads) :
           /\ threads'[w].pool = threads[w].pool /\ threads'[w].params = threads[w].params
           /\ threads'[w].state = "runs" => threads[w].state = "runs"
           /\ is_running[at] /\ w = id[at] => threads'[w].state # "runs"
           /\ threads[w].state # "runs" => threads'[w].state # "runs"
  <2>1. threads \in Seq(ThreadType)
    BY Shapes
  <2>2. CASE is_running[at]
    <3> DEFINE w == id[at]
               s == IF threads[w].state = "gone" THEN "gone" ELSE "cancelled"
    <3>1. w \in 1..Len(threads)
      BY <1>2, <1>3, <2>2 DEF IInv, ContextInv, ThreadOf
    <3>2. threads' = [threads EXCEPT ![w].state = s]
      <4>1. threads' = [threads EXCEPT ![id[at]].state = IF @ = "gone" THEN "gone" ELSE "cancelled"]
        BY <2>2 DEF Cancel
      <4> QED
        BY <4>1
    <3>3. s \in {"runs", "cancelled", "gone"} /\ s # "runs"
      OBVIOUS
    <3> HIDE DEF w, s
    <3>4. /\ threads' \in Seq(ThreadType) /\ Len(threads') = Len(threads)
          /\ \A v \in 1..Len(threads) :
               /\ threads'[v].pool = threads[v].pool /\ threads'[v].params = threads[v].params
               /\ threads'[v].state = IF v = w THEN s ELSE threads[v].state
      BY <2>1, <3>1, <3>2, <3>3, ThreadState
    <3> QED
      BY <3>3, <3>4 DEF w
  <2>3. CASE ~is_running[at]
    <3>1. threads' = threads
      BY <2>3 DEF Cancel
    <3> QED
      BY <2>1, <2>3, <3>1
  <2> QED
    BY <2>2, <2>3
<1>7. TypeOK'
  BY <1>1, <1>3, <1>4, <1>5, <1>6, Shapes DEF TypeOK, ThreadType
<1>8. InboxInv'
  BY <1>1 DEF IInv, InboxInv
<1>9. OwnerInv'
  <2>1. \A i \in Contexts : i < at + 1 => ~is_running'[i]
    <3> SUFFICES ASSUME NEW i \in Contexts, i < at + 1 PROVE ~is_running'[i]
      OBVIOUS
    <3>1. i = at \/ i < at
      BY <1>3, ContextIsParams
    <3> QED
      BY <1>2, <1>5, <3>1
  <2> QED
    BY <1>1, <1>2, <1>3, <1>4, <2>1 DEF OwnerInv
<1>10. ContextInv'
  <2>1. \A w \in 1..Len(threads) : threads'[w].pool <= pools
    BY <1>6 DEF IInv, ContextInv
  <2>2. \A i \in Contexts : is_running'[i] => ThreadOf(id[i], i)'
    <3> SUFFICES ASSUME NEW i \in Contexts, is_running'[i] PROVE ThreadOf(id[i], i)'
      OBVIOUS
    <3>1. ThreadOf(id[i], i)
      BY <1>2, <1>5 DEF IInv, ContextInv
    <3> QED
      BY <1>1, <1>6, <3>1 DEF ThreadOf
  <2>3. ASSUME NEW w \in 1..Len(threads), threads'[w].pool = p_pool
        PROVE  LET i == threads'[w].params IN
                 /\ i \in Contexts /\ id[i] = w
                 /\ is_running'[i] \/ (i < at' /\ threads'[w].state # "runs")
    <3> DEFINE i == threads[w].params
    <3>1. /\ i \in Contexts /\ id[i] = w
          /\ is_running[i] \/ (i < at /\ threads[w].state # "runs")
      BY <1>1, <1>2, <1>6, <2>3 DEF IInv, ContextInv
    <3>2. threads'[w].params = i
      BY <1>6
    <3> HIDE DEF i
    <3>3. i \in Nat
      BY <3>1, ContextIsParams
    <3>4. CASE i = at
      <4>1. i < at'
        BY <1>1, <1>3, <3>4
      <4>2. threads'[w].state # "runs"
        BY <1>3, <1>6, <3>1, <3>4
      <4> QED
        BY <3>1, <3>2, <4>1, <4>2
    <3>5. CASE i # at
      <4>1. i < at => i < at'
        BY <1>1, <1>3, <3>3
      <4>2. is_running'[i] = is_running[i]
        BY <1>5, <3>1, <3>5
      <4> QED
        BY <1>6, <3>1, <3>2, <4>1, <4>2
    <3> QED
      BY <3>4, <3>5
  <2> QED
    BY <1>1, <1>3, <1>6, <2>1, <2>2, <2>3 DEF ContextInv
<1>11. OneThreadPerContext' /\ NoneLeftRunning'
  <2>1. DOMAIN threads' = 1..Len(threads) /\ DOMAIN threads = 1..Len(threads)
    BY <1>6, ThreadFacts
  <2> QED
    BY <1>1, <1>6, <2>1 DEF IInv, OneThreadPerContext, NoneLeftRunning
<1> QED
  BY <1>1, <1>7, <1>8, <1>9, <1>10, <1>11, SameTurn DEF IInv

-----------------------------------------------------------------------------
(* A thread takes what is first in its inbox.                              *)
LEMMA ConsumeStep ==
  ASSUME IInv, NEW w, Consume(w)
  PROVE  IInv'
<1> DEFINE i == threads[w].params
<1>1. /\ w \in 1..Len(threads) /\ inbox[i] # <<>>
      /\ inbox' = [inbox EXCEPT ![i] = Tail(@)] /\ consumed' = consumed \cup {Head(inbox[i])}
      /\ p_pool' = p_pool /\ curr_thread_index' = curr_thread_index
      /\ thread_count' = thread_count /\ id' = id /\ is_running' = is_running
      /\ threads' = threads /\ pc' = pc /\ at' = at /\ result' = result
      /\ pools' = pools /\ pushes' = pushes /\ reached' = reached /\ accepted' = accepted
  BY ThreadFacts DEF Consume, Alive, pool, owner
<1>2. i \in Params
  BY <1>1, ThreadFacts
<1> HIDE DEF i
<1>3. inbox \in [Params -> Seq(AllData)] /\ consumed \subseteq accepted
  BY Shapes
<1>4. \A j \in Params : inbox'[j] = IF j = i THEN Tail(inbox[j]) ELSE inbox[j]
  BY <1>1, <1>2, <1>3
<1>5. \A k \in 1..Len(inbox[i]) : inbox[i][k] \in accepted
  BY <1>2 DEF IInv, InboxInv
<1>6. /\ Tail(inbox[i]) \in Seq(AllData) /\ Head(inbox[i]) \in accepted
      /\ \A k \in 1..Len(Tail(inbox[i])) : Tail(inbox[i])[k] \in accepted
  <2>1. inbox[i] \in Seq(AllData) /\ inbox[i] # <<>>
    BY <1>1, <1>2, <1>3
  <2> DEFINE q == inbox[i]
  <2>2. \A k \in 1..Len(q) : q[k] \in accepted
    BY <1>5
  <2> HIDE DEF q
  <2>3. q \in Seq(AllData) /\ q # <<>>
    BY <2>1 DEF q
  <2>4. /\ Tail(q) \in Seq(AllData) /\ Len(q) \in Nat /\ Len(q) > 0 /\ Head(q) = q[1]
        /\ Len(Tail(q)) = Len(q) - 1
        /\ \A k \in 1..Len(Tail(q)) : Tail(q)[k] = q[k + 1]
    BY <2>3
  <2>5. \A k \in 1..Len(Tail(q)) : k + 1 \in 1..Len(q)
    BY <2>4
  <2> QED
    BY <2>2, <2>4, <2>5 DEF q
<1>7. InboxInv'
  <2> SUFFICES ASSUME NEW j \in Params, NEW k \in 1..Len(inbox'[j])
               PROVE  inbox'[j][k] \in accepted
    BY <1>1 DEF InboxInv
  <2>1. CASE j = i
    BY <1>4, <1>6, <2>1
  <2>2. CASE j # i
    BY <1>4, <2>2 DEF IInv, InboxInv
  <2> QED
    BY <2>1, <2>2
<1>8. inbox' \in [Params -> Seq(AllData)] /\ consumed' \subseteq accepted
  BY <1>1, <1>2, <1>3, <1>6
<1>9. TypeOK'
  BY <1>1, <1>8, Shapes DEF TypeOK, ThreadType, Contexts
<1>10. OwnerInv' /\ ContextInv'
  BY <1>1 DEF IInv, OwnerInv, ContextInv, ThreadOf, Contexts
<1> QED
  BY <1>1, <1>7, <1>9, <1>10, SameThreads, SameTurn DEF IInv

(* A thread has returned, of itself or cancelled.                          *)
LEMMA GoneStep ==
  ASSUME IInv, NEW w, Exit(w) \/ Cancelled(w)
  PROVE  IInv'
<1>1. /\ w \in 1..Len(threads) /\ threads' = [threads EXCEPT ![w].state = "gone"]
      /\ p_pool' = p_pool /\ curr_thread_index' = curr_thread_index
      /\ thread_count' = thread_count /\ id' = id /\ is_running' = is_running
      /\ inbox' = inbox /\ pc' = pc /\ at' = at /\ result' = result
      /\ pools' = pools /\ pushes' = pushes /\ reached' = reached
      /\ accepted' = accepted /\ consumed' = consumed
  BY ThreadFacts DEF Exit, Cancelled, Alive, pool, owner, history
<1>2. /\ threads' \in Seq(ThreadType) /\ Len(threads') = Len(threads)
      /\ \A v \in 1..Len(threads) :
           /\ threads'[v].pool = threads[v].pool /\ threads'[v].params = threads[v].params
           /\ threads'[v].state = IF v = w THEN "gone" ELSE threads[v].state
  BY <1>1, Shapes, ThreadState
<1>3. Contexts' = Contexts
  BY <1>1 DEF Contexts
<1>4. TypeOK' /\ InboxInv'
  BY <1>1, <1>2, <1>3, Shapes DEF IInv, TypeOK, ThreadType, InboxInv
<1>5. OwnerInv'
  BY <1>1, <1>3 DEF IInv, OwnerInv
<1>6. ContextInv'
  <2>1. \A v \in 1..Len(threads) : threads'[v].pool <= pools
    BY <1>2 DEF IInv, ContextInv
  <2>2. \A v, i : ThreadOf(v, i) => ThreadOf(v, i)'
    BY <1>1, <1>2 DEF ThreadOf
  <2>3. ASSUME p_pool # 0, NEW v \in 1..Len(threads), threads'[v].pool = p_pool
        PROVE  LET i == threads'[v].params IN
                 /\ i \in Contexts /\ id[i] = v
                 /\ \/ is_running[i]
                    \/ pc = "push new" /\ at = i
                    \/ pc = "cancel" /\ i < at /\ threads'[v].state # "runs"
    <3> DEFINE i == threads[v].params
    <3>1. /\ i \in Contexts /\ id[i] = v
          /\ \/ is_running[i]
             \/ pc = "push new" /\ at = i
             \/ pc = "cancel" /\ i < at /\ threads[v].state # "runs"
      BY <1>2, <2>3 DEF IInv, ContextInv
    <3>2. threads'[v].params = i /\ (threads[v].state # "runs" => threads'[v].state # "runs")
      BY <1>2
    <3> QED
      BY <3>1, <3>2
  <2>4. /\ p_pool # 0 => \A i \in Contexts : is_running[i] => ThreadOf(id[i], i)
        /\ pc = "push new" => ThreadOf(id[at], at)
    BY DEF IInv, ContextInv
  <2>5. /\ p_pool # 0 => \A i \in Contexts : is_running[i] => ThreadOf(id[i], i)'
        /\ pc = "push new" => ThreadOf(id[at], at)'
    BY <1>1, <2>2, <2>4
  <2>6. (\A v \in 1..Len(threads) : threads[v].pool <= pools)'
    BY <1>1, <1>2, <2>1
  <2>7. /\ (p_pool # 0 => \A i \in Contexts : is_running[i] => ThreadOf(id[i], i))'
        /\ (pc = "push new" => ThreadOf(id[at], at))'
    BY <1>1, <1>3, <2>5
  <2>8. (p_pool # 0 =>
           \A v \in 1..Len(threads) :
             threads[v].pool = p_pool =>
               LET i == threads[v].params IN
                 /\ i \in Contexts /\ id[i] = v
                 /\ \/ is_running[i]
                    \/ pc = "push new" /\ at = i
                    \/ pc = "cancel" /\ i < at /\ threads[v].state # "runs")'
    <3>1. /\ Len(threads') = Len(threads) /\ p_pool' = p_pool /\ pc' = pc /\ at' = at
          /\ id' = id /\ is_running' = is_running
      BY <1>1, <1>2
    <3> QED
      BY <1>3, <2>3, <3>1
  <2> QED
    BY <2>6, <2>7, <2>8 DEF ContextInv
<1>7. OneThreadPerContext' /\ NoneLeftRunning'
  <2>1. DOMAIN threads' = 1..Len(threads) /\ DOMAIN threads = 1..Len(threads)
    BY <1>2, ThreadFacts
  <2> QED
    BY <1>1, <1>2, <2>1 DEF IInv, OneThreadPerContext, NoneLeftRunning
<1> QED
  BY <1>1, <1>4, <1>5, <1>6, <1>7, SameTurn DEF IInv

-----------------------------------------------------------------------------
(* Every step of the owner and of the threads preserves the invariant.     *)
LEMMA NextIInv == IInv /\ [Next]_vars => IInv'
<1> SUFFICES ASSUME IInv, [Next]_vars PROVE IInv'
  OBVIOUS
<1>1. CASE \E count \in Counts : create_thread_pool(count) \/ create_thread_pool_fail(count)
  BY <1>1, CreateStep, CreateFailStep
<1>2. CASE thread_pool_push_data
  BY <1>2, PushCallStep, PushNullStep, CreateThreadStep, CreateThreadFailStep, PushStep, PushFailStep
     DEF thread_pool_push_data, push_to_new_thread
<1>3. CASE destroy_thread_pool
  BY <1>3, DestroyCallStep, CancelStep, FreeStep DEF destroy_thread_pool
<1>4. CASE \E w \in 1..MaxThreads : Consume(w) \/ Exit(w) \/ Cancelled(w)
  BY <1>4, ConsumeStep, GoneStep
<1>5. CASE UNCHANGED vars
  BY <1>5 DEF vars, pool, owner, history, IInv, TypeOK, OwnerInv, InboxInv, TurnInv, Turn,
     ContextInv, ThreadOf, Contexts, OneThreadPerContext, NoneLeftRunning
<1> QED
  BY <1>1, <1>2, <1>3, <1>4, <1>5 DEF Next

(***************************************************************************)
(* The inductive invariant of the pool: what the owner, the contexts and   *)
(* the threads agree on in every state, whatever the faults.               *)
(***************************************************************************)
THEOREM Invariance == Spec => []IInv
  BY InitIInv, NextIInv, PTL DEF Spec

(* The types hold: no index leaves the contexts, no id the threads, and    *)
(* what the threads take is what push_cb accepted.                         *)
THEOREM TypeOKTheorem == Spec => []TypeOK
<1>1. IInv => TypeOK
  BY DEF IInv
<1> QED
  BY <1>1, Invariance, PTL

(* A pool starts at most one thread per context, whatever fails.           *)
THEOREM OneThreadPerContextTheorem == Spec => []OneThreadPerContext
<1>1. IInv => OneThreadPerContext
  BY DEF IInv
<1> QED
  BY <1>1, Invariance, PTL

(* destroy_thread_pool leaves no thread of the pool uncancelled.           *)
THEOREM NoneLeftRunningTheorem == Spec => []NoneLeftRunning
<1>1. IInv => NoneLeftRunning
  BY DEF IInv
<1> QED
  BY <1>1, Invariance, PTL

(* The quotient that the turns of the index give.                          *)
LEMMA TurnQuotient ==
  ASSUME NEW n \in Nat, n > 0, NEW r \in Nat, NEW c \in 0..(n - 1), NEW i \in 0..(n - 1)
  PROVE  ((r * n + c) + n - 1 - i) \div n = r + (IF i < c THEN 1 ELSE 0)
<1>1. CASE i < c
  <2>1. (r * n + c) + n - 1 - i = (r + 1) * n + (c - 1 - i)
    OBVIOUS
  <2> QED
    BY <1>1, <2>1, QuotientIs
<1>2. CASE ~(i < c)
  <2>1. (r * n + c) + n - 1 - i = r * n + (c + n - 1 - i)
    OBVIOUS
  <2> QED
    BY <1>2, <2>1, QuotientIs
<1> QED
  BY <1>1, <1>2

(***************************************************************************)
(* The n-th push of a pool is directed to context (n - 1) % thread_count,  *)
(* for every width of the index, every count and any number of pushes.     *)
(***************************************************************************)
THEOREM BalancedTheorem == Spec => []Balanced
<1>1. IInv => Balanced
  <2> SUFFICES ASSUME IInv, p_pool # 0
               PROVE  /\ \A i \in Contexts :
                           reached[i] = (pushes + thread_count - 1 - i) \div thread_count
                      /\ \A i, j \in Contexts : reached[i] <= reached[j] + 1
    BY DEF Balanced
  <2> DEFINE c == curr_thread_index
             n == thread_count
  <2>1. n \in Nat /\ n > 0 /\ c \in Nat /\ c < n
    BY Numbers DEF IInv, OwnerInv
  <2>2. PICK r \in Nat : Turn(r)
    BY DEF IInv, TurnInv
  <2>3. pushes = r * n + c /\ \A i \in Contexts : reached[i] = r + (IF i < c THEN 1 ELSE 0)
    BY <2>2 DEF Turn
  <2>4. \A i \in Contexts : i \in 0..(n - 1)
    BY DEF Contexts
  <2> HIDE DEF c, n
  <2>5. c \in 0..(n - 1)
    BY <2>1
  <2>6. \A i \in Contexts : ((r * n + c) + n - 1 - i) \div n = r + (IF i < c THEN 1 ELSE 0)
    BY <2>1, <2>4, <2>5, TurnQuotient
  <2>7. \A i \in Contexts : reached[i] = (pushes + n - 1 - i) \div n
    BY <2>3, <2>6
  <2>8. \A i \in Contexts : reached[i] = r \/ reached[i] = r + 1
    BY <2>3
  <2>9. \A i, j \in Contexts : reached[i] <= reached[j] + 1
    BY <2>8
  <2> QED
    BY <2>7, <2>9 DEF n
<1> QED
  BY <1>1, Invariance, PTL

=============================================================================
