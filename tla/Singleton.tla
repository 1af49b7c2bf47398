----------------------------- MODULE Singleton -----------------------------
(***************************************************************************)
(* common/utils_singleton.c: one running instance per pid file.            *)
(*                                                                         *)
(* Every system call is a step.  The kernel side is modelled from how the  *)
(* code uses it: a write lock has one owner and is released when the owner *)
(* dies, since is_proc_running never closes the descriptor it locked; a    *)
(* SIGKILL is delivered some time after kill(2) returns, and at once when  *)
(* a process sends it to itself; the number of a process that died may be  *)
(* given to another one, of this program or of some other.                 *)
(***************************************************************************)
EXTENDS Naturals

CONSTANTS
  Pids,       \* process numbers
  IOFails,    \* TRUE: open, fcntl, ftruncate and dprintf may fail
  MaxStarts   \* bound: the number of processes started

none == "none"

ASSUME SingletonAssumption ==
  /\ none \notin Pids
  /\ IOFails \in BOOLEAN
  /\ MaxStarts \in Nat

VARIABLES
  st,      \* where each process is in the functions of utils_singleton.c
  role,    \* the function it called: "check" or "usurp"
  buf,     \* the process number proc_usurpation read
  file,    \* the content of the pid file: a process number, or none
  owner,   \* the process that holds the write lock, or none
  doomed,  \* the processes a SIGKILL is on its way to
  starts,  \* how many processes have been started
  reborn   \* history: the usurpers that have sent their signal, and the
           \* number they sent it to is that of a new process since

vars == <<st, role, buf, file, owner, doomed, starts, reborn>>

Goto(p, from, to) ==
  /\ st[p] = from
  /\ st' = [st EXCEPT ![p] = to]

Init ==
  /\ st = [p \in Pids |-> "free"]
  /\ role = [p \in Pids |-> "check"]
  /\ buf = [p \in Pids |-> none]
  /\ file = none
  /\ owner = none
  /\ doomed = {}
  /\ starts = 0
  /\ reborn = {}

(* A process starts: it calls one of the two functions, or is a program    *)
(* that has nothing to do with this one.  Its number may have been that of *)
(* a process that has ended.                                               *)
Start(p, r) ==
  /\ starts < MaxStarts
  /\ starts' = starts + 1
  /\ \/ r = "check" /\ Goto(p, "free", "open")
     \/ r = "usurp" /\ Goto(p, "free", "u_open")
     \/ r = "foreign" /\ Goto(p, "free", "foreign")
  /\ role' = [role EXCEPT ![p] = r]
  /\ reborn' = reborn \cup {q \in Pids : st[q] \in {"open", "setlk"} /\ buf[q] = p}
  /\ UNCHANGED <<buf, file, owner, doomed>>

(* A process ends: of itself, or by the signal.  Its lock is released, and *)
(* its variables are gone.                                                 *)
Die(p) ==
  /\ st[p] # "free"
  /\ st' = [st EXCEPT ![p] = "free"]
  /\ owner' = IF owner = p THEN none ELSE owner
  /\ doomed' = doomed \ {p}
  /\ reborn' = reborn \ {p}
  /\ role' = [role EXCEPT ![p] = "check"]
  /\ buf' = [buf EXCEPT ![p] = none]
  /\ UNCHANGED <<file, starts>>

-----------------------------------------------------------------------------
(* bool is_proc_running(const char *pid_file)                              *)

(* Variant with a fault: the file is emptied by open, before the lock.     *)
OpenTruncating(p) ==
  /\ Goto(p, "open", "setlk")
  /\ file' = none
  /\ UNCHANGED <<role, buf, owner, doomed, starts, reborn>>

Open(p) ==
  /\ Goto(p, "open", "setlk")
  /\ UNCHANGED <<role, buf, file, owner, doomed, starts, reborn>>

(* open failed: false, to whoever asks, as if no other process were        *)
(* running.                                                                *)
OpenFail(p) ==
  /\ IOFails
  /\ Goto(p, "open", "run_unlocked")
  /\ UNCHANGED <<role, buf, file, owner, doomed, starts, reborn>>

SetLock(p) ==
  /\ Goto(p, "setlk", "trunc")
  /\ owner = none
  /\ owner' = p
  /\ UNCHANGED <<role, buf, file, doomed, starts, reborn>>

(* The lock is taken, or fcntl fails for another reason: true.             *)
(* proc_usurpation yields and asks again.                                  *)
SetLockFail(p) ==
  /\ owner # none \/ IOFails
  /\ Goto(p, "setlk", IF role[p] = "usurp" THEN "open" ELSE "told")
  /\ UNCHANGED <<role, buf, file, owner, doomed, starts, reborn>>

Truncate(p) ==
  /\ Goto(p, "trunc", "write")
  /\ file' = none
  /\ UNCHANGED <<role, buf, owner, doomed, starts, reborn>>

(* What the file held before is still there, and nobody looks.             *)
TruncateFail(p) ==
  /\ IOFails
  /\ Goto(p, "trunc", "write_over")
  /\ UNCHANGED <<role, buf, file, owner, doomed, starts, reborn>>

(* Variant with a fault: the descriptor is closed, and the lock is gone.   *)
WritePidClosing(p) ==
  /\ Goto(p, "write", "run")
  /\ file' = p
  /\ owner' = none
  /\ UNCHANGED <<role, buf, doomed, starts, reborn>>

(* The number of the process is written and synced: false.                 *)
WritePid(p) ==
  /\ Goto(p, "write", "run")
  /\ file' = p
  /\ UNCHANGED <<role, buf, owner, doomed, starts, reborn>>

(* The number goes over the old one.  The digits of the old one that are   *)
(* left behind it make it another number, of any process or of none.       *)
WriteOver(p) ==
  \E q \in Pids :
    /\ file = none => q = p
    /\ Goto(p, "write_over", IF q = p THEN "run" ELSE "run_nameless")
    /\ file' = q
    /\ UNCHANGED <<role, buf, owner, doomed, starts, reborn>>

(* Nothing is written, or some of the digits, which are a number as well;  *)
(* the code does not look and answers false all the same.                  *)
WritePidFail(p) ==
  /\ IOFails
  /\ Goto(p, "write", "run_nameless") \/ Goto(p, "write_over", "run_nameless")
  /\ file' \in Pids \cup {file}
  /\ UNCHANGED <<role, buf, owner, doomed, starts, reborn>>

-----------------------------------------------------------------------------
(* bool proc_usurpation(const char *proc_name)                             *)

UsurpOpen(p) ==
  /\ Goto(p, "u_open", "u_read")
  /\ UNCHANGED <<role, buf, file, owner, doomed, starts, reborn>>

UsurpOpenFail(p) ==
  /\ IOFails
  /\ Goto(p, "u_open", "told")
  /\ UNCHANGED <<role, buf, file, owner, doomed, starts, reborn>>

(* Variant with a fault: what was not read is taken for a number.          *)
UsurpReadUnchecked(p) ==
  /\ buf' = [buf EXCEPT ![p] = file]
  /\ Goto(p, "u_read", "u_kill")
  /\ UNCHANGED <<role, file, owner, doomed, starts, reborn>>

(* An empty file: nobody to kill.                                          *)
UsurpRead(p) ==
  /\ buf' = [buf EXCEPT ![p] = file]
  /\ Goto(p, "u_read", IF file = none THEN "open" ELSE "u_kill")
  /\ UNCHANGED <<role, file, owner, doomed, starts, reborn>>

(* Variant with a fault: a signal that the process may ignore.             *)
UsurpKillPolitely(p) ==
  /\ Goto(p, "u_kill", "open")
  /\ UNCHANGED <<role, buf, file, owner, doomed, starts, reborn>>

UsurpKill(p) ==
  /\ st[p] = "u_kill"
  /\ IF buf[p] = p
     THEN Die(p)
     ELSE /\ Goto(p, "u_kill", "open")
          /\ doomed' = IF st[buf[p]] = "free" THEN doomed ELSE doomed \cup {buf[p]}
          /\ UNCHANGED <<role, buf, file, owner, starts, reborn>>

-----------------------------------------------------------------------------
is_proc_running(p) ==
  \/ Open(p) \/ OpenFail(p) \/ SetLock(p) \/ SetLockFail(p)
  \/ Truncate(p) \/ TruncateFail(p)
  \/ WritePid(p) \/ WriteOver(p) \/ WritePidFail(p)

proc_usurpation(p) ==
  UsurpOpen(p) \/ UsurpOpenFail(p) \/ UsurpRead(p) \/ UsurpKill(p)

Next ==
  \E p \in Pids :
    \/ \E r \in {"check", "usurp", "foreign"} : Start(p, r)
    \/ Die(p)
    \/ is_proc_running(p)
    \/ proc_usurpation(p)

Spec == Init /\ [][Next]_vars

(***************************************************************************)
(* The scheduler runs every process, and a SIGKILL arrives.  A process     *)
(* that asks for a lock that is free again and again gets it: fcntl does   *)
(* not fail for ever for other reasons, nor do others always come first.   *)
(* Nothing obliges a process to start, to end by itself or to use these    *)
(* functions.                                                              *)
(***************************************************************************)
Fairness ==
  \A p \in Pids : /\ WF_vars(is_proc_running(p) \/ proc_usurpation(p))
                  /\ SF_vars(SetLock(p))
                  /\ WF_vars(p \in doomed /\ Die(p))

FairSpec == Spec /\ Fairness

-----------------------------------------------------------------------------
(* The function has returned, or the process has ended.                    *)
Settled == {"run", "run_nameless", "run_unlocked", "told", "free"}

(* The states of a process and the kernel's records of it.                 *)
TypeOK ==
  /\ st \in [Pids -> Settled \cup {"foreign", "open", "setlk", "trunc", "write",
                                   "write_over", "u_open", "u_read", "u_kill"}]
  /\ role \in [Pids -> {"check", "usurp", "foreign"}]
  /\ buf \in [Pids -> Pids \cup {none}]
  /\ \A p \in Pids : st[p] = "u_kill" => buf[p] # none
  /\ file \in Pids \cup {none}
  /\ owner \in Pids \cup {none}
  /\ doomed \subseteq {p \in Pids : st[p] # "free"}
  /\ starts \in 0..MaxStarts
  /\ reborn \subseteq Pids

(***************************************************************************)
(* At most one process runs as the instance of a pid file, through crashes *)
(* and restarts: whoever is_proc_running answered false, with its pid file *)
(* open, still holds the lock (utils_singleton.c:32-42).  Whoever could    *)
(* not open it is answered false as well (20-24): of these there may be    *)
(* any number, beside the one.                                             *)
(***************************************************************************)
OneInstance ==
  \A p \in Pids :
    st[p] \in {"trunc", "write", "write_over", "run", "run_nameless"} => owner = p

(***************************************************************************)
(* Once an instance runs that wrote its number, the pid file names it,     *)
(* whatever the processes do that try to start beside it: proc_usurpation  *)
(* finds whom to kill (utils_singleton.c:37-39, 59).                       *)
(***************************************************************************)
PidFileNamesOwner == \A p \in Pids : st[p] = "run" => file = p

(***************************************************************************)
(* What the loop of proc_usurpation (utils_singleton.c:61-67) does achieve *)
(* through kills, deaths, failing calls and numbers that come up again:    *)
(* the usurper returns, unless a process other than the one it sent the    *)
(* signal to gets hold of the lock.                                        *)
(***************************************************************************)
UsurperReturns ==
  \A p \in Pids :
    (st[p] = "u_open") ~>
      \/ st[p] \in Settled
      \/ /\ st[p] = "setlk"
         /\ \/ owner \notin {none, p, buf[p]}
            \/ owner = buf[p] /\ p \in reborn

=============================================================================
