------------------------------- MODULE Daemon -------------------------------
(***************************************************************************)
(* become_daemon of common/utils_daemon.c: two forks with setsid between   *)
(* them, then the standard descriptors are moved to /dev/null.  Process 1  *)
(* makes the call, 2 is its child and 3 its grandchild.  Every system call *)
(* is a step and may fail as the code provides for.                        *)
(*                                                                         *)
(* Sessions and process groups are named after the process that leads      *)
(* them, 0 being the shell.  A hangup of a session's terminal sends SIGHUP *)
(* to the processes in its foreground, and comes at any moment.            *)
(***************************************************************************)
EXTENDS Integers, FiniteSetsExt

VARIABLES
  proc,  \* the processes
  ttys   \* the sessions that have a controlling terminal

vars == <<proc, ttys>>

Procs == 1..3
STDIN_FILENO == 0
STDOUT_FILENO == 1
STDERR_FILENO == 2
Std == {STDIN_FILENO, STDOUT_FILENO, STDERR_FILENO}

(* A process: the next step, the descriptor to close or to open next, its  *)
(* session and group, whether it ignores SIGHUP, what its descriptors are  *)
(* ("caller": what the caller had there), and the locals of become_daemon. *)
Unborn == [pc |-> "unborn", at |-> 0, sid |-> 0, pgrp |-> 0, ignores |-> FALSE,
           fds |-> [f \in Std |-> "closed"], result |-> -1, temp |-> 0]

(* The caller may lead a group or even the session, and may have been      *)
(* started with some of the descriptors closed.                            *)
Init ==
  \E sid, pgrp \in 0..1, fds \in [Std -> {"closed", "caller"}] :
    /\ sid = 1 => pgrp = 1
    /\ proc = [p \in Procs |->
                 IF p = 1 THEN [Unborn EXCEPT !.pc = "fork", !.sid = sid, !.pgrp = pgrp, !.fds = fds]
                 ELSE Unborn]
    /\ ttys \in {{}, {sid}}

At(p, pc) == proc[p].pc = pc

Alive(q) == q.pc \notin {"unborn", "exited", "killed"}

Goto(p, pc) == proc' = [proc EXCEPT ![p].pc = pc]

(* result is still -1.                                                     *)
Fail(p) == Goto(p, "close") /\ UNCHANGED ttys

-----------------------------------------------------------------------------
(* The terminal of session s is hung up when the processes are ps: SIGHUP  *)
(* ends those of the session that do not ignore it, unless they run in the *)
(* background.                                                             *)
Hup(s, ps) ==
  /\ ttys' = ttys \ {s}
  /\ proc' \in {ps, [p \in Procs |->
                    IF Alive(ps[p]) /\ ps[p].sid = s /\ ~ps[p].ignores
                      THEN [ps[p] EXCEPT !.pc = "killed"] ELSE ps[p]]}

Hangup == \E s \in ttys : Hup(s, proc)

(* A process that came back opens a terminal: one that leads a session     *)
(* without a terminal acquires it.                                         *)
OpenTerminal(p) ==
  /\ At(p, "returned") /\ proc[p].sid = p
  /\ ttys' = ttys \cup {p}
  /\ UNCHANGED proc

-----------------------------------------------------------------------------
(* Variant with a fault: it is the child that exits.                       *)
become_child_swapped(p, from, child) ==
  /\ At(p, from)
  /\ proc' = [proc EXCEPT ![p].pc = "close", ![p + 1] = [proc[p] EXCEPT !.pc = "exit"]]
  /\ UNCHANGED ttys

(* The child goes on as a copy of its parent, the parent exits.            *)
become_child(p, from, child) ==
  /\ At(p, from)
  /\ proc' = [proc EXCEPT ![p].pc = "exit", ![p + 1] = child]
  /\ UNCHANGED ttys

become_child_fail(p) == proc[p].pc \in {"fork", "fork again"} /\ Fail(p)

(* Variant with a fault: the parent goes on.                               *)
ExitNot(p) == At(p, "exit") /\ Fail(p)

(* exit(0).  When the leader of a session ends, its terminal is hung up.   *)
Exit(p) ==
  /\ At(p, "exit")
  /\ IF proc[p].sid = p /\ p \in ttys
       THEN Hup(p, [proc EXCEPT ![p].pc = "exited"])
       ELSE Goto(p, "exited") /\ UNCHANGED ttys

(* The leader of a group cannot make a session of its own.                 *)
setsid(p) ==
  /\ At(p, "setsid")
  /\ IF proc[p].pgrp = p THEN Fail(p)
     ELSE /\ proc' = [proc EXCEPT ![p].sid = p, ![p].pgrp = p, ![p].pc = "ignore"]
          /\ UNCHANGED ttys

(* Variant with a fault: no second fork.                                   *)
ignore_signal_last(p) ==
  /\ At(p, "ignore")
  /\ proc' = [proc EXCEPT ![p].ignores = TRUE, ![p].pc = "close", ![p].result = 0]
  /\ UNCHANGED ttys

(* ignore_signal(SIGHUP, false)                                            *)
ignore_signal(p) ==
  /\ At(p, "ignore")
  /\ proc' = [proc EXCEPT ![p].ignores = TRUE, ![p].pc = "fork again"]
  /\ UNCHANGED ttys

ignore_signal_fail(p) == At(p, "ignore") /\ Fail(p)

Fork(p) == become_child(p, "fork", [proc[p] EXCEPT !.pc = "setsid"])

(* The last of the four calls in a row: the result is 0.                   *)
ForkAgain(p) == become_child(p, "fork again", [proc[p] EXCEPT !.pc = "close", !.result = 0])

-----------------------------------------------------------------------------
(* close: an error when nothing is open there; the error of an earlier     *)
(* write may come up, with the descriptor closed all the same.             *)
Close(p) ==
  /\ At(p, "close")
  /\ \E error \in IF proc[p].fds[proc[p].at] = "closed" THEN {-1} ELSE {0, -1} :
       LET q == [proc[p] EXCEPT !.fds[proc[p].at] = "closed", !.temp = IF @ = 0 THEN error ELSE @]
       IN  proc' = [proc EXCEPT ![p] =
                      IF proc[p].at < STDERR_FILENO THEN [q EXCEPT !.at = @ + 1]
                      ELSE IF q.result = 0 /\ q.temp = 0
                        THEN [q EXCEPT !.pc = "open", !.at = STDIN_FILENO]
                        ELSE [q EXCEPT !.pc = "returned", !.result = -1]]
  /\ UNCHANGED ttys

(* open returns the lowest descriptor that is free.                        *)
Lowest(p) == Min({f \in Std : proc[p].fds[f] = "closed"} \cup {3})

Mode(f) == IF f = STDIN_FILENO THEN "null, to read" ELSE "null, to write"

Open(p) ==
  /\ At(p, "open")
  /\ LET f == proc[p].at
         q == [proc[p] EXCEPT !.fds = [g \in Std |-> IF g = Lowest(p) THEN Mode(f) ELSE @[g]]]
     IN  proc' = [proc EXCEPT ![p] =
                    IF Lowest(p) # f THEN [q EXCEPT !.pc = "returned", !.result = -1]
                    ELSE IF f = STDERR_FILENO THEN [q EXCEPT !.pc = "returned"]
                    ELSE [q EXCEPT !.at = @ + 1]]
  /\ UNCHANGED ttys

OpenFail(p) ==
  /\ At(p, "open")
  /\ proc' = [proc EXCEPT ![p].pc = "returned", ![p].result = -1]
  /\ UNCHANGED ttys

-----------------------------------------------------------------------------
become_daemon(p) ==
  \/ Fork(p) \/ ForkAgain(p) \/ become_child_fail(p) \/ Exit(p) \/ setsid(p)
  \/ ignore_signal(p) \/ ignore_signal_fail(p) \/ Close(p) \/ Open(p) \/ OpenFail(p)

Next == Hangup \/ \E p \in Procs : become_daemon(p) \/ OpenTerminal(p)

(* A process that is in the call runs on.                                  *)
Spec == Init /\ [][Next]_vars /\ \A p \in Procs : WF_vars(become_daemon(p))

-----------------------------------------------------------------------------
Returned(p) == proc[p].pc = "returned"

(***************************************************************************)
(* What a process that got 0 can rely on: it leads no session and is in no *)
(* session with a terminal, now or after opening one; it does not hear     *)
(* SIGHUP; and 0, 1 and 2 are /dev/null, opened to read and to write.  A   *)
(* process that got -1 has lost its descriptors all the same.              *)
(***************************************************************************)
Detached ==
  \A p \in Procs : Returned(p) =>
    /\ \A f \in Std : proc[p].fds[f] \in {"closed", Mode(f)}
    /\ proc[p].result = 0 =>
         /\ proc[p].sid \notin ttys \cup {0, 1, p} /\ proc[p].pgrp # p
         /\ proc[p].ignores
         /\ \A f \in Std : proc[p].fds[f] = Mode(f)

(***************************************************************************)
(* One process at most comes back from the call, with 0 or with -1; those  *)
(* before it have ended, or have only to exit.                             *)
(***************************************************************************)
OneReturns ==
  \A p \in Procs : Returned(p) =>
    \A q \in Procs \ {p} : proc[q].pc \in {"unborn", "exit", "exited", "killed"}

(***************************************************************************)
(* Somebody comes back: the youngest process returns, unless a hangup ends *)
(* it while it is still in the session of the caller.                      *)
(***************************************************************************)
SomebodyReturns ==
  <>(LET p == Max({q \in Procs : proc[q].pc # "unborn"})
     IN  Returned(p) \/ (proc[p].pc = "killed" /\ proc[p].sid \in {0, 1}))

=============================================================================
