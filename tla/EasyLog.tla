------------------------------ MODULE EasyLog ------------------------------
(***************************************************************************)
(* The logger of common/easy_log: threads that append to one file through  *)
(* a shared line buffer, a rotation when the file has reached its limit,   *)
(* and a reset that replaces the logger.                                   *)
(*                                                                         *)
(* A message is a number, given in the order of the calls.  What is written*)
(* for it is a sequence of pieces: the head (time, level, module), the body*)
(* and, for a message longer than the buffer, the bytes behind the buffer. *)
(* A file holds pieces and not lines: a write may fail between any two.    *)
(***************************************************************************)
EXTENDS Integers, Sequences, FiniteSets, SequencesExt

CONSTANTS
  Threads,      \* threads that log
  EnableLock,   \* the argument enable_lock of init_easy_log
  Level,        \* its argument level
  UseLimit,     \* LOG_USE_LIMIT, in pieces
  LongMsgs,     \* the messages that do not fit in LOG_LEN_LIMIT bytes
  Faults,       \* what may go wrong: a subset of FaultNames
  MaxMsgs,      \* bound: messages logged
  MaxRaced,     \* bound: messages logged when init or destroy comes between
  MaxInits,     \* bound: calls of init_easy_log
  MaxTime       \* bound: seconds

FaultNames == {"init", "fopen", "rename", "format", "fwrite", "flush", "same_second"}

(* log_level_t, from LOG_LEVEL_FATAL to LOG_LEVEL_TRACE.                   *)
Levels == 1..6
LOG_LEVEL_FATAL == 1

none == "none"

ASSUME EasyLogAssumption ==
  /\ none \notin Threads
  /\ EnableLock \in BOOLEAN /\ Level \in Levels
  /\ UseLimit \in Nat \ {0} /\ MaxTime \in Nat
  /\ MaxMsgs \in Nat /\ MaxRaced \in 0..MaxMsgs /\ MaxInits \in Nat
  /\ Faults \subseteq FaultNames

Msgs == 1..MaxMsgs
Buffers == [head : 0..MaxMsgs, body : 0..MaxMsgs]
Pieces == [part : {"head", "body", "over"}, msg : 0..MaxMsgs]
Piece(p, m) == [part |-> p, msg |-> m]

VARIABLES
  g_log,        \* "NULL" or "live"
  fp,           \* g_log->fp: "open" or "NULL"
  pos,          \* what ftell(g_log->fp) returns
  enable_lock,  \* g_log->enable_lock
  lock,         \* the holder of g_log->lock, or "none"
  log_buf,      \* g_log->log_buf: the messages its head and body are of
  level,        \* g_log->level
  init_pc,      \* where init_easy_log is
  cur,          \* the pieces in the file log_path
  old,          \* the renamed files, by the second in their name
  now,          \* the time, in the seconds utc_format shows
  pc,           \* where each thread is in log_append
  msg,          \* the message it logs
  stale,        \* the threads that have a pointer into a freed logger
  calls,        \* history: who logged each message, and its time
  inits,        \* history: number of calls of init_easy_log
  done,         \* the messages for which log_append returned true
  torn,         \* history: the messages of which fwrite or fflush failed
  lossy,        \* history: a rename or flush failed, or a name came up twice
  raced,        \* history: init or destroy while a thread was logging
  crashed       \* the invalid access the program has died of, or "no"

stream  == <<fp, pos>>
mutex   == <<enable_lock, lock>>
logger  == <<g_log, log_buf, level, init_pc>>
disk    == <<cur, old, now>>
thread  == <<pc, msg, stale>>
history == <<calls, inits, done, torn, lossy, raced>>
vars    == <<stream, mutex, logger, disk, thread, history, crashed>>

NoLine == [head |-> 0, body |-> 0]

Init ==
  /\ g_log = "NULL" /\ log_buf = NoLine /\ level = 0 /\ init_pc = "idle"
  /\ fp = "NULL" /\ pos = 0
  /\ enable_lock = FALSE /\ lock = none
  /\ cur = <<>> /\ old = [s \in {} |-> <<>>] /\ now = 0
  /\ pc = [t \in Threads |-> "idle"]
  /\ msg = [t \in Threads |-> 0]
  /\ stale = {}
  /\ calls = <<>> /\ inits = 0 /\ done = {} /\ torn = {}
  /\ lossy = FALSE /\ raced = FALSE /\ crashed = "no"

Alive == crashed = "no"

Goto(t, from, to) ==
  /\ pc[t] = from
  /\ pc' = [pc EXCEPT ![t] = to]

(* Behind the mutex, and in log_append with a logger in hand.              *)
Inside == {"check", "head", "body", "write", "unlock"}
Busy == Inside \cup {"wait"}

Tick ==
  /\ now < MaxTime
  /\ now' = now + 1
  /\ UNCHANGED <<stream, mutex, logger, cur, old, thread, history, crashed>>

(* The local time to the second: in front of a line, and in a file's name. *)
utc_format == now

-----------------------------------------------------------------------------
(* destroy_easy_log and init_easy_log take no lock.                        *)

(* No thread is logging, unless the bound leaves room for that.            *)
MayReset == Len(calls) <= MaxRaced \/ \A t \in Threads : pc[t] = "idle"

(* Variant with a fault: the stream of the freed logger stays in use.      *)
DiscardDangling ==
  /\ g_log' = "NULL" /\ log_buf' = NoLine /\ level' = 0
  /\ enable_lock' = FALSE /\ lock' = none
  /\ pos' = 0
  /\ raced' = (raced \/ \E t \in Threads : pc[t] \in Busy)
  /\ stale' = stale \cup {t \in Threads : pc[t] \in {"wait", "body", "write"}}
  /\ UNCHANGED <<fp, disk, pc, msg, calls, inits, done, torn, lossy, crashed>>

(* The logger is closed and freed.  A thread that waits for its mutex, or  *)
(* has taken the address of log_buf, is left with a pointer into it.       *)
Discard ==
  /\ g_log' = "NULL" /\ log_buf' = NoLine /\ level' = 0
  /\ enable_lock' = FALSE /\ lock' = none
  /\ fp' = "NULL" /\ pos' = 0
  /\ raced' = (raced \/ \E t \in Threads : pc[t] \in Busy)
  /\ stale' = stale \cup {t \in Threads : pc[t] \in {"wait", "body", "write"}}
  /\ UNCHANGED <<disk, pc, msg, calls, inits, done, torn, lossy, crashed>>

(* Called for itself, and by init_easy_log before all else.                *)
destroy_easy_log ==
  /\ Alive /\ g_log = "live" /\ init_pc = "idle" /\ MayReset
  /\ Discard
  /\ UNCHANGED init_pc

(* calloc, which may fail.  From here on the threads see the new logger.   *)
InitAlloc ==
  /\ Alive /\ g_log = "NULL" /\ init_pc = "idle" /\ inits < MaxInits /\ MayReset
  /\ inits' = inits + 1
  /\ \/ g_log' = "live" /\ init_pc' = (IF EnableLock THEN "enable" ELSE "open")
     \/ "init" \in Faults /\ UNCHANGED <<g_log, init_pc>>
  /\ UNCHANGED <<stream, mutex, log_buf, level, disk, thread, calls, done, torn, lossy, raced, crashed>>

InitEnable ==
  /\ Alive /\ init_pc = "enable"
  /\ enable_lock' = TRUE /\ init_pc' = "mutex"
  /\ UNCHANGED <<stream, lock, g_log, log_buf, level, disk, thread, history, crashed>>

(* pthread_mutex_init: also a mutex that has been taken already is free.   *)
InitMutex ==
  /\ Alive /\ init_pc = "mutex"
  /\ lock' = none /\ init_pc' = "open"
  /\ UNCHANGED <<stream, enable_lock, g_log, log_buf, level, disk, thread, history, crashed>>

(* log_path is opened with "ab+": glibc reports position 0 for such a      *)
(* stream until something is written.                                      *)
InitOpen ==
  /\ Alive /\ init_pc = "open"
  /\ fp' = "open" /\ level' = Level /\ init_pc' = "idle"
  /\ UNCHANGED <<pos, mutex, g_log, log_buf, disk, thread, history, crashed>>

InitOpenFail ==
  /\ Alive /\ init_pc = "open" /\ "init" \in Faults
  /\ Discard
  /\ init_pc' = "idle"

init_easy_log == InitAlloc \/ InitEnable \/ InitMutex \/ InitOpen \/ InitOpenFail

-----------------------------------------------------------------------------
(* bool log_append(level, module, format, ...)                             *)

log_get_level == IF g_log = "live" THEN level ELSE LOG_LEVEL_FATAL

(***************************************************************************)
(* The macros call log_append when log_get_level allows; MODLOG_FATAL does *)
(* not ask.  The time is taken first, before the lock.                     *)
(***************************************************************************)
AppendCall(t, l) ==
  /\ Alive /\ Len(calls) < (IF raced \/ init_pc # "idle" THEN MaxRaced ELSE MaxMsgs)
  /\ l = LOG_LEVEL_FATAL \/ log_get_level >= l
  /\ Goto(t, "idle", "lock")
  /\ calls' = Append(calls, [thread |-> t, time |-> utc_format])
  /\ msg' = [msg EXCEPT ![t] = Len(calls')]
  /\ UNCHANGED <<stream, mutex, logger, disk, stale, inits, done, torn, lossy, raced, crashed>>

Crash(how) ==
  /\ crashed' = how
  /\ UNCHANGED <<stream, mutex, logger, disk, thread, history>>

(* g_log is read again and again; only log_append_check looks for NULL.    *)
UseNull(t) ==
  /\ Alive /\ g_log = "NULL" /\ pc[t] \in {"lock", "head", "write", "unlock"}
  /\ Crash("null log")

(* ftell or fwrite on g_log->fp: before init_easy_log has opened the file, *)
(* or after a rotation that could not.                                     *)
UseNullStream(t) ==
  /\ Alive /\ g_log = "live" /\ fp = "NULL" /\ pc[t] \in {"check", "write"}
  /\ Crash("null stream")

(* The mutex or the buffer of a freed logger is used.  If the program does *)
(* not die of it, the thread goes on with the logger g_log then is.        *)
UseFreed(t) ==
  /\ Alive /\ t \in stale /\ pc[t] \in {"wait", "body", "write"}
  /\ Crash("freed log")

(* Variant with a fault: the mutex is not taken.                           *)
LockTestNot(t) ==
  /\ Alive /\ g_log = "live"
  /\ Goto(t, "lock", "check")
  /\ raced' = (raced \/ init_pc \in {"enable", "mutex"})
  /\ UNCHANGED <<stream, mutex, logger, disk, msg, stale, calls, inits, done, torn, lossy, crashed>>

(* LOG_INTERNAL_LOCK reads enable_lock, also that of a logger which        *)
(* init_easy_log has not given its mutex yet ...                           *)
LockTest(t) ==
  /\ Alive /\ g_log = "live"
  /\ Goto(t, "lock", IF enable_lock THEN "wait" ELSE "check")
  /\ raced' = (raced \/ init_pc \in {"enable", "mutex"})
  /\ UNCHANGED <<stream, mutex, logger, disk, msg, stale, calls, inits, done, torn, lossy, crashed>>

(* ... and takes the mutex.                                                *)
LockTake(t) ==
  /\ Alive /\ lock = none
  /\ Goto(t, "wait", "check")
  /\ lock' = t /\ stale' = stale \ {t}
  /\ UNCHANGED <<stream, enable_lock, logger, disk, msg, history, crashed>>

(* log_append_check without a logger.                                      *)
CheckGone(t) ==
  /\ Alive /\ g_log = "NULL"
  /\ Goto(t, "check", "unlock")
  /\ UNCHANGED <<stream, mutex, logger, disk, msg, stale, history, crashed>>

(* Variant with a fault: the limit is tested with > in place of >=.        *)
CheckLate(t) ==
  /\ Alive /\ fp = "open" /\ pos <= UseLimit
  /\ Goto(t, "check", "head")
  /\ UNCHANGED <<stream, mutex, logger, disk, msg, stale, history, crashed>>

(* log_append_check, below the limit: the line may still lead beyond it.   *)
Check(t) ==
  /\ Alive /\ fp = "open" /\ pos < UseLimit
  /\ Goto(t, "check", "head")
  /\ UNCHANGED <<stream, mutex, logger, disk, msg, stale, history, crashed>>

(* The limit is reached: fclose, rename to log_path_<time>, fopen "w".     *)
(* Unless the same local time may come up again, the time is a new one.    *)
Rotating(t) ==
  /\ Alive /\ fp = "open" /\ pos >= UseLimit
  /\ "same_second" \in Faults \/ now \notin DOMAIN old
  /\ cur' = <<>> /\ pos' = 0
  /\ UNCHANGED <<mutex, logger, now, msg, stale, calls, inits, done, torn, raced, crashed>>

(* The new name is that of the second it is then, utc_format(..., true).   *)
Renamed(s) ==
  /\ old' = [f \in DOMAIN old \cup {s} |-> IF f = s THEN cur ELSE old[f]]
  /\ lossy' = (lossy \/ s \in DOMAIN old)

(* Variant with a fault: no rename before the file is emptied.             *)
RotateInPlace(t) ==
  /\ Rotating(t)
  /\ Goto(t, "check", "head")
  /\ UNCHANGED <<fp, old, lossy>>

(* Variant with a fault: the time taken for the line goes into the name.   *)
RotateStale(t) ==
  /\ Rotating(t)
  /\ Goto(t, "check", "head")
  /\ Renamed(calls[msg[t]].time)
  /\ UNCHANGED fp

Rotate(t) ==
  /\ Rotating(t)
  /\ Goto(t, "check", "head")
  /\ Renamed(utc_format)
  /\ UNCHANGED fp

(* rename failed, unnoticed: "w" empties the file.                         *)
RotateNoRename(t) ==
  /\ Rotating(t) /\ "rename" \in Faults
  /\ Goto(t, "check", "head")
  /\ lossy' = TRUE
  /\ UNCHANGED <<fp, old>>

(* Variant with a fault: the failure returns without LOG_INTERNAL_UNLOCK.  *)
RotateNoOpenReturns(t) ==
  /\ Rotating(t) /\ "fopen" \in Faults
  /\ Goto(t, "check", "idle")
  /\ Renamed(utc_format)
  /\ fp' = "NULL"

(* fopen failed: log_append_check returns false.                           *)
RotateNoOpen(t) ==
  /\ Rotating(t) /\ "fopen" \in Faults
  /\ Goto(t, "check", "unlock")
  /\ Renamed(utc_format)
  /\ fp' = "NULL"

FormatHead(t) ==
  /\ Alive /\ g_log = "live"
  /\ Goto(t, "head", "body")
  /\ log_buf' = [log_buf EXCEPT !.head = msg[t]]
  /\ UNCHANGED <<stream, mutex, g_log, level, init_pc, disk, msg, stale, history, crashed>>

(* Into the buffer found before, which may be that of a freed logger.      *)
FormatBody(t) ==
  /\ Alive
  /\ Goto(t, "body", "write")
  /\ \/ log_buf' = [log_buf EXCEPT !.body = msg[t]]
     \/ t \in stale /\ UNCHANGED log_buf
  /\ UNCHANGED <<stream, mutex, g_log, level, init_pc, disk, msg, stale, history, crashed>>

(* snprintf or vsnprintf failed: false.                                    *)
FormatFail(t) ==
  /\ Alive /\ "format" \in Faults
  /\ pc[t] = "body" \/ (pc[t] = "head" /\ g_log = "live")
  /\ pc' = [pc EXCEPT ![t] = "unlock"]
  /\ UNCHANGED <<stream, mutex, logger, disk, msg, stale, history, crashed>>

(* write_len is the length the message would have, also when vsnprintf cut *)
(* it off at the end of the buffer: what lies behind is written too.       *)
LineLen(m) == IF m \in LongMsgs THEN 3 ELSE 2
Line(b, m) == <<Piece("head", b.head), Piece("body", b.body), Piece("over", m)>>

(* The contents of the buffer t writes from.                               *)
Buf(t) == {log_buf} \cup (IF t \in stale THEN {[head |-> msg[t], body |-> msg[t]]} ELSE {})

(***************************************************************************)
(* fwrite puts the line into the stream, fflush hands it to the system, and*)
(* n pieces of it get to the end of the file.  What fails leaves nothing in*)
(* the stream: the C library drops what it could not write.                *)
(***************************************************************************)
Put(t, n) ==
  /\ Alive /\ g_log = "live" /\ fp = "open"
  /\ \E b \in Buf(t) : cur' = cur \o SubSeq(Line(b, msg[t]), 1, n)
  /\ pos' = Len(cur')
  /\ UNCHANGED <<fp, mutex, logger, old, now, msg, stale, calls, inits, raced, crashed>>

Write(t) ==
  /\ Goto(t, "write", "unlock")
  /\ Put(t, LineLen(msg[t]))
  /\ done' = done \cup {msg[t]}
  /\ UNCHANGED <<torn, lossy>>

(* Only fflush failed, which nobody looks at: true.                        *)
WriteNoFlush(t) ==
  /\ "flush" \in Faults
  /\ Goto(t, "write", "unlock")
  /\ \E n \in 0..(LineLen(msg[t]) - 1) : Put(t, n)
  /\ done' = done \cup {msg[t]} /\ torn' = torn \cup {msg[t]}
  /\ lossy' = TRUE

(* Variant with a fault: it is tried again, without end.                   *)
WriteShortRetries(t) ==
  /\ "fwrite" \in Faults
  /\ Goto(t, "write", "head")
  /\ \E n \in 0..(LineLen(msg[t]) - 1) : Put(t, n)
  /\ torn' = torn \cup {msg[t]}
  /\ UNCHANGED <<done, lossy>>

(* fwrite took only a part of the line: false.                             *)
WriteShort(t) ==
  /\ "fwrite" \in Faults
  /\ Goto(t, "write", "unlock")
  /\ \E n \in 0..(LineLen(msg[t]) - 1) : Put(t, n)
  /\ torn' = torn \cup {msg[t]}
  /\ UNCHANGED <<done, lossy>>

(* LOG_INTERNAL_UNLOCK, of the logger g_log is now.                        *)
Release(t) ==
  /\ Alive /\ g_log = "live"
  /\ Goto(t, "unlock", "idle")
  /\ lock' = IF enable_lock THEN none ELSE lock
  /\ stale' = stale \ {t}
  /\ UNCHANGED <<stream, enable_lock, logger, disk, msg, history, crashed>>

-----------------------------------------------------------------------------
log_append_check(t) ==
  CheckGone(t) \/ Check(t) \/ Rotate(t) \/ RotateNoRename(t) \/ RotateNoOpen(t)

log_append(t) ==
  \/ UseNull(t) \/ UseNullStream(t) \/ UseFreed(t)
  \/ LockTest(t) \/ LockTake(t)
  \/ log_append_check(t)
  \/ FormatHead(t) \/ FormatBody(t) \/ FormatFail(t)
  \/ Write(t) \/ WriteNoFlush(t) \/ WriteShort(t)
  \/ Release(t)

Next ==
  \/ Tick
  \/ init_easy_log \/ destroy_easy_log
  \/ \E t \in Threads : log_append(t) \/ \E l \in Levels : AppendCall(t, l)

Spec == Init /\ [][Next]_vars

(* A thread that is logging is scheduled, the mutex is handed on, and time *)
(* passes.                                                                 *)
Fairness ==
  /\ WF_vars(Tick)
  /\ \A t \in Threads : WF_vars(log_append(t)) /\ SF_vars(LockTake(t))

FairSpec == Spec /\ Fairness

-----------------------------------------------------------------------------
(* The files by their names: those of the renamed ones are the seconds,    *)
(* and the log file comes after them.                                      *)
LogFile == MaxTime + 1
Files == [f \in DOMAIN old \cup {LogFile} |-> IF f = LogFile THEN cur ELSE old[f]]

(* Where the heads of the message m are.                                   *)
Places(m) ==
  {p \in UNION {{f} \X (1..Len(Files[f])) : f \in DOMAIN Files} :
     Files[p[1]][p[2]] = Piece("head", m)}

(* The types of the fields of easy_log_t and of the files.                 *)
TypeOK ==
  /\ g_log \in {"NULL", "live"} /\ fp \in {"open", "NULL"} /\ pos \in Nat
  /\ g_log = "NULL" => fp = "NULL" /\ init_pc = "idle"
  /\ cur \in Seq(Pieces)
  /\ enable_lock \in BOOLEAN /\ lock \in Threads \cup {none}
  /\ log_buf \in Buffers /\ level \in {0, Level}
  /\ init_pc \in {"idle", "enable", "mutex", "open"}
  /\ DOMAIN old \subseteq 0..MaxTime /\ now \in 0..MaxTime
  /\ \A s \in DOMAIN old : old[s] \in Seq(Pieces)
  /\ pc \in [Threads -> Busy \cup {"idle", "lock"}]
  /\ msg \in [Threads -> 0..MaxMsgs] /\ stale \subseteq Threads
  /\ calls \in Seq([thread : Threads, time : 0..MaxTime]) /\ Len(calls) <= MaxMsgs
  /\ inits \in 0..MaxInits
  /\ done \subseteq Msgs /\ torn \subseteq Msgs /\ lossy \in BOOLEAN /\ raced \in BOOLEAN
  /\ crashed \in {"no", "null log", "freed log", "null stream"}

(***************************************************************************)
(* The line of every message is in one piece, nothing between its head and *)
(* its body, and nothing behind the body but what a message longer than    *)
(* LOG_LEN_LIMIT takes along: threads share log_buf, and log_append is     *)
(* `thread-safe, if the lock was enabled' (easy_log.h:28).  Only a message *)
(* whose own fwrite or fflush failed is torn, and none that was logged     *)
(* after it.  Nobody may init or destroy while a thread is logging: the    *)
(* lock does not cover that.                                               *)
(***************************************************************************)
LinesWhole ==
  ~raced =>
    \A f \in DOMAIN Files : \A k \in 1..Len(Files[f]) :
      LET m == Files[f][k].msg IN
        m \notin torn =>
          /\ Files[f][k].part = "head" => k < Len(Files[f]) /\ Files[f][k + 1] = Piece("body", m)
          /\ Files[f][k].part = "body" => k > 1 /\ Files[f][k - 1] = Piece("head", m)
          /\ Files[f][k].part = "over" =>
               m \in LongMsgs /\ k > 1 /\ Files[f][k - 1] = Piece("body", m)

(***************************************************************************)
(* A message for which log_append returned true is in the log file or in a *)
(* file the log was moved to, once, as long as renaming and flushing work: *)
(* `mv xxx to xxx_<time>' (easy_log.c:136) keeps what was logged, through  *)
(* resets, short writes and other failures too.                            *)
(***************************************************************************)
NoLineLost ==
  ~lossy /\ ~raced => \A m \in done : Cardinality(Places(m)) = 1

(* The pieces of the longest line.                                         *)
MaxLine == 3

(***************************************************************************)
(* The log file does not grow past LOG_USE_LIMIT (easy_log.h:7) but for    *)
(* the end of the line that reaches it, as ftell is asked before the line  *)
(* is written, and for a further line per reset: ftell is 0 on a file that *)
(* was just opened, so that a message is written also when it is full.     *)
(***************************************************************************)
FileBounded ==
  ~raced => Len(cur) <= (UseLimit - 1) + MaxLine * inits

(***************************************************************************)
(* The mutex is held only by a thread inside log_append: every way out of  *)
(* it, also those on errors, passes LOG_INTERNAL_UNLOCK.                   *)
(***************************************************************************)
LockHeldInside ==
  (lock # none /\ Alive /\ ~raced) => pc[lock] \in Inside

(***************************************************************************)
(* The log can be read as a chronicle, the renamed files in the order of   *)
(* their names and the log file last: what one thread logged is in the     *)
(* order it logged it, with times that do not go back, and nothing in a    *)
(* renamed file is later than its name.  (Lines of two threads may change  *)
(* places, as the time is taken before the lock: easy_log.c:158.)          *)
(***************************************************************************)
Chronicle ==
  ~raced =>
    /\ \A s \in DOMAIN old : \A k \in 1..Len(old[s]) : calls[old[s][k].msg].time <= s
    /\ \A f, g \in DOMAIN Files : \A k \in 1..Len(Files[f]), l \in 1..Len(Files[g]) :
         LET m == Files[f][k].msg
             n == Files[g][l].msg
         IN  (f < g \/ (f = g /\ k < l)) /\ calls[m].thread = calls[n].thread
               => m <= n /\ calls[m].time <= calls[n].time

(* Every log_append returns, whatever fails on the way.                    *)
AppendReturns ==
  \A t \in Threads : []<>(pc[t] = "idle" \/ crashed # "no" \/ raced)

=============================================================================
