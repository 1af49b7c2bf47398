-------------------------- MODULE SingletonProofs --------------------------
(***************************************************************************)
(* Proofs about Singleton for any number of processes, starting, dying and *)
(* usurping one another in any order, whatever calls fail.                 *)
(***************************************************************************)
EXTENDS Singleton, TLAPS

(* is_proc_running has answered this process false: it takes itself for    *)
(* the instance.                                                           *)
Told(p) == st[p] \in {"run", "run_nameless", "run_unlocked"}

IInv == TypeOK /\ OneInstance /\ PidFileNamesOwner

-----------------------------------------------------------------------------
(* The invariant holds at first.                                           *)
LEMMA InitIInv == Init => IInv
  BY SingletonAssumption
  DEF Init, IInv, TypeOK, OneInstance, PidFileNamesOwner, Settled

(* Every step keeps the types: a process number is read from the file only *)
(* when there is one, and a signal goes to a process that lives.           *)
LEMMA StepTypeOK ==
  ASSUME TypeOK, [Next]_vars
  PROVE  TypeOK'
<1> USE SingletonAssumption DEF TypeOK, Settled
<1>1. ASSUME NEW p \in Pids, NEW r \in {"check", "usurp", "foreign"}, Start(p, r) PROVE TypeOK'
  BY <1>1 DEF Start, Goto
<1>2. ASSUME NEW p \in Pids, Die(p) PROVE TypeOK'
  BY <1>2 DEF Die
<1>3. ASSUME NEW p \in Pids, Open(p) \/ OpenFail(p) \/ SetLock(p) \/ SetLockFail(p) PROVE TypeOK'
  BY <1>3 DEF Open, OpenFail, SetLock, SetLockFail, Goto
<1>4. ASSUME NEW p \in Pids,
             Truncate(p) \/ TruncateFail(p) \/ WritePid(p) \/ WriteOver(p) \/ WritePidFail(p)
      PROVE  TypeOK'
  BY <1>4 DEF Truncate, TruncateFail, WritePid, WriteOver, WritePidFail, Goto
<1>5. ASSUME NEW p \in Pids, UsurpOpen(p) \/ UsurpOpenFail(p) \/ UsurpRead(p) PROVE TypeOK'
  BY <1>5 DEF UsurpOpen, UsurpOpenFail, UsurpRead, Goto
<1>6. ASSUME NEW p \in Pids, UsurpKill(p) PROVE TypeOK'
  <2>1. CASE buf[p] = p
    BY <1>2, <1>6, <2>1 DEF UsurpKill
  <2>2. CASE buf[p] # p
    <3>1. buf[p] \in Pids
      BY <1>6 DEF UsurpKill
    <3> QED
      BY <1>6, <2>2, <3>1 DEF UsurpKill, Goto
  <2> QED
    BY <2>1, <2>2
<1>7. CASE UNCHANGED vars
  BY <1>7 DEF vars
<1> QED
  BY <1>1, <1>2, <1>3, <1>4, <1>5, <1>6, <1>7 DEF Next, is_proc_running, proc_usurpation

(***************************************************************************)
(* A process gets past SetLock by taking the free lock, and the lock does  *)
(* not change hands before it dies.  So the holder alone empties and       *)
(* writes the file, and the file goes on naming whoever wrote it.          *)
(***************************************************************************)
LEMMA StepOneInstance ==
  ASSUME IInv, [Next]_vars
  PROVE  OneInstance' /\ PidFileNamesOwner'
<1> USE SingletonAssumption DEF IInv, TypeOK, Settled, OneInstance, PidFileNamesOwner
<1>1. ASSUME NEW p \in Pids, NEW r \in {"check", "usurp", "foreign"}, Start(p, r)
      PROVE  OneInstance' /\ PidFileNamesOwner'
  BY <1>1 DEF Start, Goto
<1>2. ASSUME NEW p \in Pids, Die(p) PROVE OneInstance' /\ PidFileNamesOwner'
  BY <1>2 DEF Die
<1>3. ASSUME NEW p \in Pids, Open(p) \/ OpenFail(p) \/ SetLock(p) \/ SetLockFail(p)
      PROVE  OneInstance' /\ PidFileNamesOwner'
  BY <1>3 DEF Open, OpenFail, SetLock, SetLockFail, Goto
<1>4. ASSUME NEW p \in Pids,
             Truncate(p) \/ TruncateFail(p) \/ WritePid(p) \/ WriteOver(p) \/ WritePidFail(p)
      PROVE  OneInstance' /\ PidFileNamesOwner'
  BY <1>4 DEF Truncate, TruncateFail, WritePid, WriteOver, WritePidFail, Goto
<1>5. ASSUME NEW p \in Pids, UsurpOpen(p) \/ UsurpOpenFail(p) \/ UsurpRead(p)
      PROVE  OneInstance' /\ PidFileNamesOwner'
  BY <1>5 DEF UsurpOpen, UsurpOpenFail, UsurpRead, Goto
<1>6. ASSUME NEW p \in Pids, UsurpKill(p) PROVE OneInstance' /\ PidFileNamesOwner'
  BY <1>2, <1>6 DEF UsurpKill, Goto
<1>7. CASE UNCHANGED vars
  BY <1>7 DEF vars
<1> QED
  BY <1>1, <1>2, <1>3, <1>4, <1>5, <1>6, <1>7 DEF Next, is_proc_running, proc_usurpation

(* Every step of a process preserves it.                                   *)
LEMMA NextIInv == IInv /\ [Next]_vars => IInv'
  BY StepTypeOK, StepOneInstance DEF IInv

(***************************************************************************)
(* Through crashes and restarts of any number of processes at most one of  *)
(* them runs with the lock of its pid file, and the file names it when the *)
(* number could be written (utils_singleton.c:32-42).                      *)
(***************************************************************************)
THEOREM Invariance == Spec => []IInv
<1>1. Init => IInv
  BY InitIInv
<1>2. IInv /\ [Next]_vars => IInv'
  BY NextIInv
<1> QED
  BY <1>1, <1>2, PTL DEF Spec

(* The kernel's records of the processes are those of processes.           *)
THEOREM TypeOKTheorem == Spec => []TypeOK
<1>1. IInv => TypeOK
  BY DEF IInv
<1> QED
  BY <1>1, Invariance, PTL

(***************************************************************************)
(* Whoever is_proc_running answered false, with its pid file open, holds   *)
(* the lock until it dies: there is one such process at most.              *)
(***************************************************************************)
THEOREM OneInstanceTheorem == Spec => []OneInstance
<1>1. IInv => OneInstance
  BY DEF IInv
<1> QED
  BY <1>1, Invariance, PTL

(***************************************************************************)
(* Of two processes that is_proc_running answered false, one could not     *)
(* open the pid file (utils_singleton.c:20-24): no other failure, crash or *)
(* usurpation makes two of them.                                           *)
(***************************************************************************)
THEOREM NoTwoInstances ==
  Spec => [](\A p, q \in Pids :
               Told(p) /\ Told(q) /\ p # q => "run_unlocked" \in {st[p], st[q]})
<1>1. OneInstance =>
        \A p, q \in Pids :
          Told(p) /\ Told(q) /\ p # q => "run_unlocked" \in {st[p], st[q]}
  BY DEF OneInstance, Told
<1> QED
  BY <1>1, OneInstanceTheorem, PTL

(* The pid file names the instance that runs and wrote it.                 *)
THEOREM PidFileNamesOwnerTheorem == Spec => []PidFileNamesOwner
<1>1. IInv => PidFileNamesOwner
  BY DEF IInv
<1> QED
  BY <1>1, Invariance, PTL

=============================================================================
