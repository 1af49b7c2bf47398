--------------------------- MODULE EasyLogProofs ---------------------------
(***************************************************************************)
(* Proofs about EasyLog for any threads, any limits, any number of         *)
(* messages, resets and seconds, and whatever fails.                       *)
(***************************************************************************)
EXTENDS EasyLog, FiniteSetTheorems, SequenceTheorems, TLAPS

(***************************************************************************)
(* The messages: a thread that logs has the last one it was called for,    *)
(* and the times of the calls do not go back.                              *)
(***************************************************************************)
CallsInv ==
  /\ \A t \in Threads : pc[t] # "idle" =>
       msg[t] \in 1..Len(calls) /\ calls[msg[t]].thread = t
  /\ \A m \in 1..Len(calls) : m <= msg[calls[m].thread] /\ calls[m].time <= now
  /\ \A m, n \in 1..Len(calls) : m <= n => calls[m].time <= calls[n].time

Base == TypeOK /\ CallsInv

(***************************************************************************)
(* As long as nobody has called init or destroy in between, a thread in    *)
(* log_append has a logger with its mutex in place, and the one behind the *)
(* mutex holds it.                                                         *)
(***************************************************************************)
LockInv ==
  ~raced =>
    /\ stale = {}
    /\ g_log = "live" /\ init_pc # "enable" => enable_lock
    /\ \A t \in Threads : pc[t] \in Busy => g_log = "live" /\ init_pc \in {"idle", "open"}
    /\ \A t \in Threads : pc[t] \in Inside => lock = t
    /\ lock # none => pc[lock] \in Inside

(* log_buf belongs to the message of the thread behind the mutex.          *)
BufferInv ==
  ~raced => \A t \in Threads :
    /\ pc[t] \in {"body", "write"} => log_buf.head = msg[t]
    /\ pc[t] = "write" => log_buf.body = msg[t]

(***************************************************************************)
(* The position is the size of the file, or there is room for a line; and  *)
(* a thread that is past log_append_check has found it below the limit.    *)
(***************************************************************************)
SizeInv ==
  ~raced =>
    /\ Len(cur) <= (UseLimit - 1) + MaxLine * inits
    /\ g_log = "live" =>
         /\ inits >= 1
         /\ pos = Len(cur) \/ Len(cur) <= (UseLimit - 1) + MaxLine * (inits - 1)
    /\ \A t \in Threads : pc[t] \in {"head", "body", "write"} => pos < UseLimit

(* The line of every message in the file c is in one piece, but for those  *)
(* in tn; and the messages are among the first n.                          *)
Whole(c, tn) ==
  \A k \in 1..Len(c) :
    c[k].msg \notin tn =>
      /\ c[k].part = "head" => k < Len(c) /\ c[k + 1] = Piece("body", c[k].msg)
      /\ c[k].part = "body" => k > 1 /\ c[k - 1] = Piece("head", c[k].msg)
      /\ c[k].part = "over" =>
           c[k].msg \in LongMsgs /\ k > 1 /\ c[k - 1] = Piece("body", c[k].msg)

Named(c, n) == \A k \in 1..Len(c) : c[k].msg \in 1..n

LinesInv ==
  /\ \A f \in DOMAIN Files : Whole(Files[f], torn) /\ Named(Files[f], Len(calls))
  /\ done \subseteq 1..Len(calls)

(* A file has a name that is no later than now, nor earlier than its lines.*)
DatesInv ==
  \A s \in DOMAIN old : s <= now /\ \A k \in 1..Len(old[s]) : calls[old[s][k].msg].time <= s

(* What one thread logged is in order.                                     *)
Ordered(files, cs) ==
  \A f, g \in DOMAIN files : \A k \in 1..Len(files[f]), l \in 1..Len(files[g]) :
    /\ f < g \/ (f = g /\ k < l)
    /\ cs[files[f][k].msg].thread = cs[files[g][l].msg].thread
    => files[f][k].msg <= files[g][l].msg

OrderInv == Ordered(Files, calls)

(* A message is in no file before it is written.                           *)
Absent(files, m) ==
  \A f \in DOMAIN files : \A k \in 1..Len(files[f]) : files[f][k].msg # m

Pending == {"lock", "wait", "check", "head", "body", "write"}

FreshInv ==
  \A t \in Threads : pc[t] \in Pending => msg[t] \notin done /\ Absent(Files, msg[t])

(* The files have one head of the message m.                               *)
HeadOnce(files, m) ==
  \E f \in DOMAIN files : \E k \in 1..Len(files[f]) :
    /\ files[f][k] = Piece("head", m)
    /\ \A g \in DOMAIN files : \A l \in 1..Len(files[g]) :
         files[g][l] = Piece("head", m) => g = f /\ l = k

LossInv == ~lossy => \A m \in done : HeadOnce(Files, m)

LogInv == ~raced => LinesInv /\ DatesInv /\ OrderInv /\ FreshInv /\ LossInv

(* The inductive invariant of a logger with the lock enabled.              *)
IInv == Base /\ LockInv /\ BufferInv /\ SizeInv /\ LogInv

-----------------------------------------------------------------------------
(* The constants, as the provers need them.                                *)
LEMMA Constants ==
  /\ MaxMsgs \in Nat /\ MaxInits \in Nat /\ MaxTime \in Nat /\ UseLimit \in Nat /\ UseLimit >= 1
  /\ MaxRaced \in Nat /\ MaxRaced <= MaxMsgs
  /\ none \notin Threads /\ EnableLock \in BOOLEAN /\ Level \in Levels
  BY EasyLogAssumption

(* An empty file.                                                          *)
LEMMA NoPieces == <<>> \in Seq(Pieces) /\ Len(<<>>) = 0
  OBVIOUS

(* The places of the threads, one changed.                                 *)
LEMMA GotoType ==
  ASSUME TypeOK, NEW t \in Threads, NEW from, NEW to \in Busy \cup {"idle", "lock"},
         Goto(t, from, to)
  PROVE  /\ pc' \in [Threads -> Busy \cup {"idle", "lock"}] /\ pc[t] = from /\ pc'[t] = to
         /\ \A u \in Threads : u # t => pc'[u] = pc[u]
<1>1. pc \in [Threads -> Busy \cup {"idle", "lock"}]
  BY DEF TypeOK
<1> QED
  BY <1>1 DEF Goto

(* The part of a line that gets to the file.                               *)
LEMMA LineType ==
  ASSUME NEW b \in Buffers, NEW m \in 0..MaxMsgs, NEW n \in 0..3
  PROVE  /\ SubSeq(Line(b, m), 1, n) \in Seq(Pieces) /\ Len(SubSeq(Line(b, m), 1, n)) = n
         /\ \A k \in 1..n : SubSeq(Line(b, m), 1, n)[k] = Line(b, m)[k]
         /\ Line(b, m)[1] = Piece("head", b.head) /\ Line(b, m)[2] = Piece("body", b.body)
         /\ Line(b, m)[3] = Piece("over", m)
<1>1. Piece("head", b.head) \in Pieces /\ Piece("body", b.body) \in Pieces /\ Piece("over", m) \in Pieces
  BY DEF Piece, Pieces, Buffers
<1>2. Line(b, m) \in Seq(Pieces) /\ Len(Line(b, m)) = 3
  BY <1>1 DEF Line
<1>3. /\ Line(b, m)[1] = Piece("head", b.head) /\ Line(b, m)[2] = Piece("body", b.body)
      /\ Line(b, m)[3] = Piece("over", m)
  BY DEF Line
<1>4. SubSeq(Line(b, m), 1, n) \in Seq(Pieces) /\ Len(SubSeq(Line(b, m), 1, n)) = n
      /\ \A k \in 1..n : SubSeq(Line(b, m), 1, n)[k] = Line(b, m)[k]
  <2>1. \A i \in 1..n : Line(b, m)[i] \in Pieces
    BY <1>2
  <2>2. n \in Int /\ 1 \in Int /\ n - 1 + 1 = n /\ (1 <= n \/ n = 0)
    OBVIOUS
  <2>3. \A k \in 1..n : 1 + k - 1 = k
    OBVIOUS
  <2> HIDE DEF Line
  <2> QED
    BY <2>1, <2>2, <2>3, SubSeqProperties
<1> QED
  BY <1>3, <1>4

(* The length of a line.                                                   *)
LEMMA LineLenType == \A m : LineLen(m) \in 2..3 /\ \A n \in 0..(LineLen(m) - 1) : n \in 0..3
  BY DEF LineLen

(* What a write does, whichever way it ends.                               *)
Wrote(t, n) ==
  /\ n \in 0..3 /\ Put(t, n)
  /\ Goto(t, "write", "unlock")
  /\ \/ n = LineLen(msg[t]) /\ done' = done \cup {msg[t]} /\ torn' = torn /\ lossy' = lossy
     \/ n < LineLen(msg[t]) /\ done' = done \cup {msg[t]} /\ torn' = torn \cup {msg[t]} /\ lossy' = TRUE
     \/ n < LineLen(msg[t]) /\ done' = done /\ torn' = torn \cup {msg[t]} /\ lossy' = lossy

LEMMA WritesPut ==
  ASSUME NEW t, Write(t) \/ WriteNoFlush(t) \/ WriteShort(t)
  PROVE  \E n \in 0..3 : Wrote(t, n)
<1>1. CASE Write(t)
  <2>1. LineLen(msg[t]) \in 0..3
    BY LineLenType
  <2> QED
    BY <1>1, <2>1 DEF Write, Wrote
<1>2. CASE WriteNoFlush(t)
  <2>1. PICK n \in 0..(LineLen(msg[t]) - 1) : Put(t, n)
    BY <1>2 DEF WriteNoFlush
  <2>2. n \in 0..3 /\ n < LineLen(msg[t])
    BY LineLenType
  <2> QED
    BY <1>2, <2>1, <2>2 DEF WriteNoFlush, Wrote
<1>3. CASE WriteShort(t)
  <2>1. PICK n \in 0..(LineLen(msg[t]) - 1) : Put(t, n)
    BY <1>3 DEF WriteShort
  <2>2. n \in 0..3 /\ n < LineLen(msg[t])
    BY LineLenType
  <2> QED
    BY <1>3, <2>1, <2>2 DEF WriteShort, Wrote
<1> QED
  BY <1>1, <1>2, <1>3

(* The buffer a thread writes from.                                        *)
LEMMA BufType ==
  ASSUME TypeOK, NEW t \in Threads, NEW b \in Buf(t)
  PROVE  b \in Buffers
<1>1. log_buf \in Buffers /\ msg[t] \in 0..MaxMsgs
  BY DEF TypeOK
<1> QED
  BY <1>1 DEF Buf, Buffers

(* The file a write leaves.                                                *)
LEMMA PutType ==
  ASSUME TypeOK, NEW t \in Threads, NEW n \in 0..3, Put(t, n)
  PROVE  cur' \in Seq(Pieces) /\ pos' = Len(cur') /\ Len(cur') = Len(cur) + n
<1>1. PICK b \in Buf(t) : cur' = cur \o SubSeq(Line(b, msg[t]), 1, n)
  BY DEF Put
<1>2. b \in Buffers /\ msg[t] \in 0..MaxMsgs /\ cur \in Seq(Pieces)
  BY BufType DEF TypeOK
<1>3. SubSeq(Line(b, msg[t]), 1, n) \in Seq(Pieces) /\ Len(SubSeq(Line(b, msg[t]), 1, n)) = n
  BY <1>2, LineType
<1>4. cur' \in Seq(Pieces) /\ Len(cur') = Len(cur) + n
  BY <1>1, <1>2, <1>3, ConcatProperties
<1> QED
  BY <1>4 DEF Put

-----------------------------------------------------------------------------
(* Every step preserves the types.                                         *)
LEMMA TypeStep ==
  ASSUME Base, [Next]_vars
  PROVE  TypeOK'
<1> USE DEF stream, mutex, logger, disk, thread, history
<1>1. TypeOK
  BY DEF Base
<1>2. CASE Tick
  <2>1. now' \in 0..MaxTime
    <3>1. now \in 0..MaxTime /\ now < MaxTime /\ now' = now + 1
      BY <1>1, <1>2 DEF Tick, TypeOK
    <3> QED
      BY <3>1, Constants
  <2> QED
    BY <1>1, <1>2, <2>1 DEF Tick, TypeOK
<1>3. CASE InitAlloc
  <2>1. inits' \in 0..MaxInits
    <3>1. inits \in 0..MaxInits /\ inits < MaxInits /\ inits' = inits + 1
      BY <1>1, <1>3 DEF TypeOK, InitAlloc
    <3> QED
      BY <3>1, Constants
  <2> QED
    BY <1>1, <1>3, <2>1 DEF InitAlloc, TypeOK
<1>4. CASE InitEnable \/ InitMutex \/ InitOpen
  BY <1>1, <1>4 DEF InitEnable, InitMutex, InitOpen, TypeOK
<1>5. CASE InitOpenFail \/ destroy_easy_log
  <2>1. log_buf' \in Buffers /\ pos' \in Nat
    BY <1>5, Constants DEF InitOpenFail, destroy_easy_log, Discard, NoLine, Buffers
  <2>2. init_pc' = "idle"
    BY <1>5 DEF InitOpenFail, destroy_easy_log
  <2>3. raced' \in BOOLEAN
    BY <1>1, <1>5 DEF InitOpenFail, destroy_easy_log, Discard, TypeOK
  <2>4. stale' \subseteq Threads
    BY <1>1, <1>5 DEF InitOpenFail, destroy_easy_log, Discard, TypeOK
  <2> QED
    BY <1>1, <1>5, <2>1, <2>2, <2>3, <2>4 DEF InitOpenFail, destroy_easy_log, Discard, TypeOK
<1>6. ASSUME NEW t \in Threads, NEW l \in Levels, AppendCall(t, l)
      PROVE  TypeOK'
  <2>1. pc' \in [Threads -> Busy \cup {"idle", "lock"}]
    BY <1>1, <1>6, GotoType DEF AppendCall
  <2>2. /\ calls' \in Seq([thread : Threads, time : 0..MaxTime]) /\ Len(calls') <= MaxMsgs
        /\ Len(calls') \in 0..MaxMsgs
    <3>1. /\ calls \in Seq([thread : Threads, time : 0..MaxTime])
          /\ calls' = Append(calls, [thread |-> t, time |-> now])
          /\ now \in 0..MaxTime /\ (Len(calls) < MaxRaced \/ Len(calls) < MaxMsgs)
      BY <1>1, <1>6 DEF TypeOK, AppendCall, utc_format
    <3>2. [thread |-> t, time |-> now] \in [thread : Threads, time : 0..MaxTime]
      BY <3>1
    <3>3. calls' \in Seq([thread : Threads, time : 0..MaxTime]) /\ Len(calls') = Len(calls) + 1
      BY <3>1, <3>2
    <3>4. Len(calls) \in Nat
      BY <3>1
    <3> QED
      BY <3>1, <3>3, <3>4, Constants
  <2>3. msg' \in [Threads -> 0..MaxMsgs]
    <3>1. msg \in [Threads -> 0..MaxMsgs] /\ msg' = [msg EXCEPT ![t] = Len(calls')]
      BY <1>1, <1>6 DEF TypeOK, AppendCall
    <3> QED
      BY <2>2, <3>1
  <2> QED
    BY <1>1, <1>6, <2>1, <2>2, <2>3 DEF AppendCall, TypeOK
<1>7. ASSUME NEW t \in Threads, UseNull(t) \/ UseNullStream(t) \/ UseFreed(t)
      PROVE  TypeOK'
  BY <1>1, <1>7 DEF UseNull, UseNullStream, UseFreed, Crash, TypeOK
<1>8. ASSUME NEW t \in Threads, LockTest(t)
      PROVE  TypeOK'
  <2>1. pc' \in [Threads -> Busy \cup {"idle", "lock"}]
    BY <1>1, <1>8, GotoType DEF LockTest, Busy, Inside
  <2>2. raced' \in BOOLEAN
    BY <1>1, <1>8 DEF LockTest, TypeOK
  <2> QED
    BY <1>1, <1>8, <2>1, <2>2 DEF LockTest, TypeOK
<1>9. ASSUME NEW t \in Threads, LockTake(t) \/ Release(t)
      PROVE  TypeOK'
  <2>1. pc' \in [Threads -> Busy \cup {"idle", "lock"}]
    BY <1>1, <1>9, GotoType DEF LockTake, Release, Busy, Inside
  <2>2. lock' \in Threads \cup {none} /\ stale' \subseteq Threads
    BY <1>1, <1>9 DEF LockTake, Release, TypeOK
  <2> QED
    BY <1>1, <1>9, <2>1, <2>2 DEF LockTake, Release, TypeOK
<1>10. ASSUME NEW t \in Threads, CheckGone(t) \/ Check(t) \/ FormatFail(t)
       PROVE  TypeOK'
  <2>1. pc' \in [Threads -> Busy \cup {"idle", "lock"}]
    <3>1. CASE CheckGone(t) \/ Check(t)
      BY <1>1, <3>1, GotoType DEF CheckGone, Check, Busy, Inside
    <3>2. CASE FormatFail(t)
      BY <1>1, <3>2 DEF FormatFail, TypeOK, Busy, Inside
    <3> QED
      BY <1>10, <3>1, <3>2
  <2> QED
    BY <1>1, <1>10, <2>1 DEF CheckGone, Check, FormatFail, TypeOK
<1>11. ASSUME NEW t \in Threads, Rotate(t) \/ RotateNoRename(t) \/ RotateNoOpen(t)
       PROVE  TypeOK'
  <2>1. pc' \in [Threads -> Busy \cup {"idle", "lock"}]
    BY <1>1, <1>11, GotoType DEF Rotate, RotateNoRename, RotateNoOpen, Busy, Inside
  <2>2. DOMAIN old' \subseteq 0..MaxTime /\ \A s \in DOMAIN old' : old'[s] \in Seq(Pieces)
    BY <1>1, <1>11 DEF Rotate, RotateNoRename, RotateNoOpen, Renamed, utc_format, TypeOK
  <2>3. lossy' \in BOOLEAN
    BY <1>1, <1>11 DEF TypeOK, Rotate, RotateNoRename, RotateNoOpen, Renamed
  <2>4. fp' \in {"open", "NULL"} /\ (fp' = fp \/ fp' = "NULL")
    BY <1>1, <1>11 DEF TypeOK, Rotate, RotateNoRename, RotateNoOpen
  <2>5. Rotating(t)
    BY <1>11 DEF Rotate, RotateNoRename, RotateNoOpen
  <2> QED
    BY <1>1, <2>1, <2>2, <2>3, <2>4, <2>5, NoPieces DEF Rotating, TypeOK
<1>12. ASSUME NEW t \in Threads, FormatHead(t) \/ FormatBody(t)
       PROVE  TypeOK'
  <2>1. pc' \in [Threads -> Busy \cup {"idle", "lock"}]
    BY <1>1, <1>12, GotoType DEF FormatHead, FormatBody, Busy, Inside
  <2>2. log_buf' \in Buffers
    <3>1. log_buf \in Buffers /\ msg[t] \in 0..MaxMsgs
      BY <1>1 DEF TypeOK
    <3>2. \/ log_buf' = [log_buf EXCEPT !.head = msg[t]]
          \/ log_buf' = [log_buf EXCEPT !.body = msg[t]]
          \/ log_buf' = log_buf
      BY <1>12 DEF FormatHead, FormatBody
    <3> QED
      BY <3>1, <3>2 DEF Buffers
  <2> QED
    BY <1>1, <1>12, <2>1, <2>2 DEF FormatHead, FormatBody, TypeOK
<1>13. ASSUME NEW t \in Threads, NEW n \in 0..3, Wrote(t, n)
       PROVE  TypeOK'
  <2>1. pc' \in [Threads -> Busy \cup {"idle", "lock"}] /\ pc[t] = "write"
    BY <1>1, <1>13, GotoType DEF Wrote, Busy, Inside
  <2>2. cur' \in Seq(Pieces) /\ pos' \in Nat
    <3>1. cur' \in Seq(Pieces) /\ pos' = Len(cur')
      BY <1>1, <1>13, PutType DEF Wrote
    <3> QED
      BY <3>1
  <2>3. done' \subseteq Msgs /\ torn' \subseteq Msgs
    <3>1. msg[t] \in 1..Len(calls) /\ Len(calls) <= MaxMsgs /\ Len(calls) \in Nat
      <4>1. calls \in Seq([thread : Threads, time : 0..MaxTime]) /\ Len(calls) <= MaxMsgs
        BY <1>1 DEF TypeOK
      <4>2. msg[t] \in 1..Len(calls)
        BY <2>1 DEF Base, CallsInv
      <4> QED
        BY <4>1, <4>2
    <3>2. msg[t] \in Msgs
      BY <3>1, Constants DEF Msgs
    <3>3. done' \subseteq done \cup {msg[t]} /\ torn' \subseteq torn \cup {msg[t]}
      BY <1>13 DEF Wrote
    <3> QED
      BY <1>1, <3>2, <3>3 DEF TypeOK
  <2>4. lossy' \in BOOLEAN
    BY <1>1, <1>13 DEF Wrote, TypeOK
  <2> QED
    BY <1>1, <1>13, <2>1, <2>2, <2>3, <2>4 DEF Wrote, Put, TypeOK
<1>14. CASE UNCHANGED vars
  BY <1>1, <1>14 DEF vars, TypeOK
<1> QED
  BY <1>2, <1>3, <1>4, <1>5, <1>6, <1>7, <1>8, <1>9, <1>10, <1>11, <1>12, <1>13, <1>14, WritesPut
     DEF Next, init_easy_log, log_append, log_append_check

-----------------------------------------------------------------------------
(* The kinds of steps, by what they do to the messages and the files.      *)

(* Nothing is logged: threads go on, the clock does, the logger may change.*)
Still ==
  /\ UNCHANGED <<calls, msg, cur, old, done, torn, lossy>>
  /\ now' \in {now, now + 1} /\ now' \in 0..MaxTime
  /\ \A u \in Threads : /\ pc'[u] \in Pending => pc[u] \in Pending
                        /\ pc'[u] # "idle" => pc[u] # "idle"

(* The file is emptied, and moved to the name that is the time, or not.    *)
Turned(keep) ==
  /\ cur' = <<>>
  /\ \/ keep /\ Renamed(now)
     \/ ~keep /\ old' = old /\ lossy' = TRUE
  /\ UNCHANGED <<calls, msg, now, done, torn>>
  /\ \A u \in Threads : /\ pc'[u] \in Pending => pc[u] \in Pending
                        /\ pc'[u] # "idle" => pc[u] # "idle"

(* Every step is of one of these kinds.                                    *)
LEMMA Kinds ==
  ASSUME Base, [Next]_vars
  PROVE  \/ Still
         \/ \E t \in Threads : \E l \in Levels : AppendCall(t, l)
         \/ \E keep \in BOOLEAN : Turned(keep)
         \/ \E t \in Threads : \E n \in 0..3 : Wrote(t, n)
<1> USE DEF stream, mutex, logger, disk, thread, history
<1>1. TypeOK /\ now \in 0..MaxTime /\ TypeOK'
  BY TypeStep DEF Base, TypeOK
<1>2. CASE Tick
  BY <1>1, <1>2 DEF Tick, Still, TypeOK
<1>3. CASE init_easy_log \/ destroy_easy_log \/ UNCHANGED vars
  BY <1>1, <1>3 DEF init_easy_log, InitAlloc, InitEnable, InitMutex, InitOpen, InitOpenFail,
     destroy_easy_log, Discard, vars, Still
<1>4. ASSUME NEW t \in Threads, UseNull(t) \/ UseNullStream(t) \/ UseFreed(t)
      PROVE  Still
  BY <1>1, <1>4 DEF UseNull, UseNullStream, UseFreed, Crash, Still
<1>5. ASSUME NEW t \in Threads, NEW from \in Busy \cup {"lock"}, NEW to \in Busy \cup {"idle"},
             Goto(t, from, to), from \in Pending \/ to \notin Pending
      PROVE  \A u \in Threads : /\ pc'[u] \in Pending => pc[u] \in Pending
                                /\ pc'[u] # "idle" => pc[u] # "idle"
  <2>1. pc[t] = from /\ pc'[t] = to /\ \A u \in Threads : u # t => pc'[u] = pc[u]
    BY <1>1, <1>5, GotoType
  <2>2. from # "idle"
    BY DEF Busy, Inside
  <2> QED
    BY <1>5, <2>1, <2>2
<1>6. ASSUME NEW t \in Threads, LockTest(t) \/ LockTake(t) \/ CheckGone(t) \/ Check(t) \/ Release(t)
      PROVE  Still
  <2>1. \A u \in Threads : /\ pc'[u] \in Pending => pc[u] \in Pending
                           /\ pc'[u] # "idle" => pc[u] # "idle"
    BY <1>5, <1>6 DEF LockTest, LockTake, CheckGone, Check, Release, Pending, Busy, Inside
  <2> QED
    BY <1>1, <1>6, <2>1 DEF LockTest, LockTake, CheckGone, Check, Release, Still
<1>7. ASSUME NEW t \in Threads, FormatHead(t) \/ FormatBody(t) \/ FormatFail(t)
      PROVE  Still
  <2>1. \E from \in {"head", "body"} : \E to \in {"body", "write", "unlock"} : Goto(t, from, to)
    BY <1>7 DEF FormatHead, FormatBody, FormatFail, Goto
  <2>2. \A u \in Threads : /\ pc'[u] \in Pending => pc[u] \in Pending
                           /\ pc'[u] # "idle" => pc[u] # "idle"
    BY <1>5, <2>1 DEF Pending, Busy, Inside
  <2> QED
    BY <1>1, <1>7, <2>2 DEF FormatHead, FormatBody, FormatFail, Still
<1>8. ASSUME NEW t \in Threads, Rotate(t) \/ RotateNoRename(t) \/ RotateNoOpen(t)
      PROVE  \E keep \in BOOLEAN : Turned(keep)
  <2>1. \A u \in Threads : /\ pc'[u] \in Pending => pc[u] \in Pending
                           /\ pc'[u] # "idle" => pc[u] # "idle"
    BY <1>5, <1>8 DEF Rotate, RotateNoRename, RotateNoOpen, Pending, Busy, Inside
  <2>2. Rotating(t)
    BY <1>8 DEF Rotate, RotateNoRename, RotateNoOpen
  <2>3. Renamed(now) \/ (old' = old /\ lossy' = TRUE)
    BY <1>8 DEF Rotate, RotateNoRename, RotateNoOpen, utc_format
  <2>4. CASE Renamed(now)
    <3>1. Turned(TRUE)
      BY <2>1, <2>2, <2>4 DEF Rotating, Turned
    <3> QED
      BY <3>1
  <2>5. CASE old' = old /\ lossy' = TRUE
    <3>1. Turned(FALSE)
      BY <2>1, <2>2, <2>5 DEF Rotating, Turned
    <3> QED
      BY <3>1
  <2> QED
    BY <2>3, <2>4, <2>5
<1> QED
  BY <1>2, <1>3, <1>4, <1>6, <1>7, <1>8, WritesPut DEF Next, log_append, log_append_check

(* A call that was made.                                                   *)
LEMMA CallType ==
  ASSUME TypeOK, NEW m \in 1..Len(calls)
  PROVE  calls[m].thread \in Threads /\ calls[m].time \in 0..MaxTime /\ calls[m].time \in Int
<1> DEFINE C == [thread : Threads, time : 0..MaxTime]
<1>1. calls \in Seq(C)
  BY DEF TypeOK
<1>2. calls[m] \in C
  <2> HIDE DEF C
  <2> QED
    BY <1>1
<1> QED
  BY <1>2

(* The messages and their times after a step that logs none.               *)
LEMMA SameCalls ==
  ASSUME Base, UNCHANGED <<calls, msg>>, now' \in {now, now + 1},
         \A u \in Threads : pc'[u] # "idle" => pc[u] # "idle"
  PROVE  CallsInv'
<1>1. CallsInv /\ calls \in Seq([thread : Threads, time : 0..MaxTime]) /\ now \in 0..MaxTime
  BY DEF Base, TypeOK
<1>2. \A m \in 1..Len(calls) : calls[m].time \in 0..MaxTime
  BY CallType DEF Base
<1>3. \A m \in 1..Len(calls) : calls[m].time <= now'
  <2>1. \A m \in 1..Len(calls) : calls[m].time \in Int /\ calls[m].time <= now /\ now \in Int
    BY <1>1, <1>2 DEF CallsInv
  <2> QED
    BY <2>1
<1> QED
  BY <1>1, <1>3 DEF CallsInv

(* A message is added.                                                     *)
LEMMA CallAdded ==
  ASSUME Base, NEW t \in Threads, NEW l, AppendCall(t, l)
  PROVE  /\ Len(calls') = Len(calls) + 1 /\ Len(calls) \in Nat
         /\ \A m \in 1..Len(calls) : calls'[m] = calls[m] /\ m \in 1..Len(calls')
         /\ calls'[Len(calls) + 1] = [thread |-> t, time |-> now]
         /\ msg'[t] = Len(calls) + 1 /\ \A u \in Threads : u # t => msg'[u] = msg[u]
         /\ pc[t] = "idle" /\ pc'[t] = "lock" /\ \A u \in Threads : u # t => pc'[u] = pc[u]
         /\ UNCHANGED <<cur, old, now, done, torn, lossy, raced>>
<1> USE DEF stream, mutex, logger, disk, thread, history
<1>1. /\ calls \in Seq([thread : Threads, time : 0..MaxTime]) /\ now \in 0..MaxTime
      /\ msg \in [Threads -> 0..MaxMsgs] /\ TypeOK
  BY DEF Base, TypeOK
<1>2. /\ calls' = Append(calls, [thread |-> t, time |-> now]) /\ Goto(t, "idle", "lock")
      /\ msg' = [msg EXCEPT ![t] = Len(calls')]
      /\ UNCHANGED <<cur, old, now, done, torn, lossy, raced>>
  BY DEF AppendCall, utc_format
<1>3. [thread |-> t, time |-> now] \in [thread : Threads, time : 0..MaxTime]
  BY <1>1
<1>4. /\ Len(calls') = Len(calls) + 1 /\ Len(calls) \in Nat
      /\ \A m \in 1..Len(calls) : calls'[m] = calls[m] /\ m \in 1..Len(calls')
      /\ calls'[Len(calls) + 1] = [thread |-> t, time |-> now]
  BY <1>1, <1>2, <1>3
<1>5. pc[t] = "idle" /\ pc'[t] = "lock" /\ \A u \in Threads : u # t => pc'[u] = pc[u]
  BY <1>1, <1>2, GotoType
<1> QED
  BY <1>1, <1>2, <1>4, <1>5

(* Every step keeps the messages and their times in order.                 *)
LEMMA CallsStep ==
  ASSUME Base, [Next]_vars
  PROVE  CallsInv'
<1> USE DEF stream, mutex, logger, disk, thread, history
<1>1. CASE Still
  BY <1>1, SameCalls DEF Still
<1>2. ASSUME NEW keep \in BOOLEAN, Turned(keep)
      PROVE  CallsInv'
  BY <1>2, SameCalls DEF Turned
<1>3. ASSUME NEW t \in Threads, NEW n \in 0..3, Wrote(t, n)
      PROVE  CallsInv'
  <2>1. pc[t] = "write" /\ \A u \in Threads : u # t => pc'[u] = pc[u]
    BY <1>3, GotoType DEF Wrote, Base, Busy, Inside
  <2>2. UNCHANGED <<calls, msg, now>>
    BY <1>3 DEF Wrote, Put
  <2> QED
    BY <2>1, <2>2, SameCalls
<1>4. ASSUME NEW t \in Threads, NEW l \in Levels, AppendCall(t, l)
      PROVE  CallsInv'
  <2>1. CallsInv /\ calls \in Seq([thread : Threads, time : 0..MaxTime]) /\ now \in 0..MaxTime
        /\ msg \in [Threads -> 0..MaxMsgs]
    BY DEF Base, TypeOK
  <2> DEFINE N == Len(calls)
  <2>2. /\ Len(calls') = N + 1 /\ N \in Nat
        /\ \A m \in 1..N : calls'[m] = calls[m] /\ m \in 1..Len(calls')
        /\ calls'[N + 1] = [thread |-> t, time |-> now]
        /\ msg'[t] = N + 1 /\ \A u \in Threads : u # t => msg'[u] = msg[u]
        /\ pc[t] = "idle" /\ \A u \in Threads : u # t => pc'[u] = pc[u]
        /\ now' = now
    BY <1>4, CallAdded
  <2>3. \A m \in 1..N : calls[m].thread \in Threads /\ calls[m].time \in Int
    BY CallType DEF Base
  <2>4. \A m \in 1..Len(calls') : m \in 1..N \/ m = N + 1
    BY <2>2
  <2>5. \A u \in Threads : pc'[u] # "idle" => msg'[u] \in 1..Len(calls') /\ calls'[msg'[u]].thread = u
    <3>1. ASSUME NEW u \in Threads, pc'[u] # "idle", u # t
          PROVE  msg'[u] \in 1..Len(calls') /\ calls'[msg'[u]].thread = u
      <4>1. msg'[u] = msg[u] /\ msg[u] \in 1..N /\ calls[msg[u]].thread = u
        BY <2>1, <2>2, <3>1 DEF CallsInv
      <4> QED
        BY <2>2, <4>1
    <3>2. msg'[t] \in 1..Len(calls') /\ calls'[msg'[t]].thread = t
      BY <2>2
    <3> QED
      BY <3>1, <3>2
  <2>6. \A m \in 1..Len(calls') : m <= msg'[calls'[m].thread] /\ calls'[m].time <= now'
    <3>1. ASSUME NEW m \in 1..N
          PROVE  m <= msg'[calls'[m].thread] /\ calls'[m].time <= now'
      <4>1. m <= msg[calls[m].thread] /\ calls[m].time <= now
        BY <2>1 DEF CallsInv
      <4>2. m <= msg'[calls[m].thread]
        <5>1. m <= N + 1
          BY <2>2
        <5> QED
          BY <2>2, <2>3, <4>1, <5>1
      <4> QED
        BY <2>2, <4>1, <4>2
    <3>2. N + 1 <= msg'[calls'[N + 1].thread] /\ calls'[N + 1].time <= now'
      BY <2>1, <2>2
    <3> QED
      BY <2>4, <3>1, <3>2
  <2>7. \A m, n \in 1..Len(calls') : m <= n => calls'[m].time <= calls'[n].time
    <3> SUFFICES ASSUME NEW m \in 1..Len(calls'), NEW n \in 1..Len(calls'), m <= n
                 PROVE  calls'[m].time <= calls'[n].time
      OBVIOUS
    <3>1. CASE n \in 1..N
      <4>1. m \in 1..N
        BY <2>2, <3>1
      <4> QED
        BY <2>1, <2>2, <3>1, <4>1 DEF CallsInv
    <3>2. CASE n = N + 1 /\ m \in 1..N
      BY <2>1, <2>2, <3>2 DEF CallsInv
    <3>3. CASE n = N + 1 /\ m = N + 1
      BY <2>1, <2>2, <3>3
    <3> QED
      BY <2>4, <3>1, <3>2, <3>3
  <2> QED
    BY <2>5, <2>6, <2>7 DEF CallsInv
<1> QED
  BY <1>1, <1>2, <1>3, <1>4, Kinds

(* The types and the messages are in order at first.                       *)
LEMMA InitBase == Init => Base
<1> SUFFICES ASSUME Init PROVE Base
  OBVIOUS
<1>1. /\ 0 \in 0..MaxInits /\ 0 \in 0..MaxMsgs /\ 0 \in 0..MaxTime /\ 0 <= MaxMsgs
  BY Constants
<1>2. log_buf \in Buffers
  BY <1>1 DEF Init, NoLine, Buffers
<1>3. calls \in Seq([thread : Threads, time : 0..MaxTime]) /\ Len(calls) = 0
  BY DEF Init
<1>4. TypeOK
  <2>1. DOMAIN old = {}
    BY DEF Init
  <2> QED
    BY <1>1, <1>2, <1>3, <2>1, NoPieces DEF Init, TypeOK
<1>5. CallsInv
  <2>1. \A m \in 1..Len(calls) : FALSE
    BY <1>3
  <2>2. \A t \in Threads : pc[t] = "idle"
    BY DEF Init
  <2> QED
    BY <2>1, <2>2 DEF CallsInv
<1> QED
  BY <1>4, <1>5 DEF Base

LEMMA BaseStep == Base /\ [Next]_vars => Base'
  BY TypeStep, CallsStep DEF Base

(* The types of the logger, the files and the threads, races or not.       *)
THEOREM TypeOKTheorem == Spec => []TypeOK
<1>1. Spec => []Base
  BY InitBase, BaseStep, PTL DEF Spec
<1>2. Base => TypeOK
  BY DEF Base
<1> QED
  BY <1>1, <1>2, PTL

-----------------------------------------------------------------------------
(* The mutex, with the lock enabled.                                       *)

(* Behind the mutex a thread moves on and nobody else is there.            *)
LEMMA MovesOn ==
  ASSUME Base, LockInv, ~raced, NEW t \in Threads, NEW from \in Inside, NEW to \in Inside,
         Goto(t, from, to), UNCHANGED <<stale, enable_lock, lock, g_log, init_pc, raced>>
  PROVE  LockInv'
<1>1. pc[t] = from /\ pc'[t] = to /\ \A u \in Threads : u # t => pc'[u] = pc[u]
  BY GotoType DEF Base, Busy
<1>2. \A u \in Threads : /\ pc'[u] \in Inside <=> pc[u] \in Inside
                         /\ pc'[u] \in Busy => pc[u] \in Busy
  BY <1>1 DEF Busy
<1>3. lock # none => lock \in Threads
  BY DEF Base, TypeOK
<1> QED
  BY <1>2, <1>3 DEF LockInv

(* The logger is discarded while no thread is in log_append with it.       *)
LEMMA Undisturbed ==
  ASSUME Base, LockInv, Discard, ~raced'
  PROVE  ~raced /\ stale = {} /\ stale' = {} /\ \A t \in Threads : pc[t] \notin Busy /\ pc'[t] \notin Busy
<1>1. raced' = (raced \/ \E t \in Threads : pc[t] \in Busy) /\ pc' = pc
  BY DEF Discard
<1>2. ~raced /\ \A t \in Threads : pc[t] \notin Busy
  BY <1>1
<1>3. stale = {}
  BY <1>2 DEF LockInv
<1>4. stale' = stale \cup {t \in Threads : pc[t] \in {"wait", "body", "write"}}
  BY DEF Discard
<1>5. {"wait", "body", "write"} \subseteq Busy
  BY DEF Busy, Inside
<1> QED
  BY <1>1, <1>2, <1>3, <1>4, <1>5

(* Nobody reads enable_lock and the mutex before they are set.             *)
LEMMA LockTestWaits ==
  ASSUME Base, LockInv, NEW t \in Threads, LockTest(t), ~raced'
  PROVE  /\ ~raced /\ init_pc \in {"idle", "open"}
         /\ pc[t] = "lock" /\ pc'[t] = "wait" /\ \A u \in Threads : u # t => pc'[u] = pc[u]
<1>1. raced' = (raced \/ init_pc \in {"enable", "mutex"})
  BY DEF LockTest
<1>2. ~raced /\ init_pc \notin {"enable", "mutex"}
  BY <1>1
<1>3. init_pc \in {"idle", "open"}
  BY <1>2 DEF Base, TypeOK
<1>4. enable_lock
  BY <1>2 DEF LockInv, LockTest
<1>5. Goto(t, "lock", "wait")
  BY <1>4 DEF LockTest
<1> QED
  BY <1>2, <1>3, <1>5, GotoType DEF Base, Busy

(* The mutex was free: nobody was behind it.                               *)
LEMMA LockTakeAlone ==
  ASSUME Base, LockInv, ~raced, NEW t \in Threads, LockTake(t)
  PROVE  /\ pc[t] = "wait" /\ pc'[t] = "check" /\ lock' = t
         /\ \A u \in Threads : u # t => pc'[u] = pc[u] /\ pc[u] \notin Inside
<1>1. Goto(t, "wait", "check") /\ lock = none /\ lock' = t
  BY DEF LockTake
<1>2. pc[t] = "wait" /\ pc'[t] = "check" /\ \A u \in Threads : u # t => pc'[u] = pc[u]
  BY <1>1, GotoType DEF Base, Busy, Inside
<1>3. \A u \in Threads : pc[u] \notin Inside
  BY <1>1, Constants DEF LockInv
<1> QED
  BY <1>1, <1>2, <1>3

(* A step of a thread behind the mutex, and who else is there.             *)
LEMMA Alone ==
  ASSUME Base, LockInv, ~raced, NEW t \in Threads, NEW from \in Inside,
         NEW to \in Inside \cup {"idle"}, Goto(t, from, to)
  PROVE  /\ pc[t] = from /\ pc'[t] = to /\ lock = t
         /\ \A u \in Threads : u # t => pc'[u] = pc[u] /\ pc[u] \notin Inside
<1>1. pc[t] = from /\ pc'[t] = to /\ \A u \in Threads : u # t => pc'[u] = pc[u]
  BY GotoType DEF Base, Busy
<1>2. lock = t
  BY <1>1 DEF LockInv
<1> QED
  BY <1>1, <1>2 DEF LockInv

(* Every step keeps the mutex in order, unless it begins a race.           *)
LEMMA LockStep ==
  ASSUME Base, EnableLock, LockInv, [Next]_vars
  PROVE  LockInv'
<1> SUFFICES ASSUME ~raced' PROVE LockInv'
  BY DEF LockInv
<1> USE DEF stream, mutex, logger, disk, thread, history
<1>1. TypeOK
  BY DEF Base
<1>2. CASE Tick \/ UNCHANGED vars
  BY <1>2 DEF Tick, vars, LockInv
<1>3. ASSUME NEW t \in Threads, UseNull(t) \/ UseNullStream(t) \/ UseFreed(t)
      PROVE  LockInv'
  BY <1>3 DEF UseNull, UseNullStream, UseFreed, Crash, LockInv
<1>4. CASE InitAlloc
  <2>1. ~raced /\ g_log = "NULL" /\ pc' = pc /\ lock' = lock /\ stale' = stale
        /\ enable_lock' = enable_lock
    BY <1>4 DEF InitAlloc
  <2>2. \A t \in Threads : pc[t] \notin Busy
    BY <2>1 DEF LockInv
  <2>3. g_log' = "NULL" \/ init_pc' = "enable"
    BY <1>4 DEF InitAlloc
  <2> QED
    BY <2>1, <2>2, <2>3 DEF LockInv
<1>5. CASE InitEnable \/ InitMutex
  <2>1. ~raced /\ init_pc \in {"enable", "mutex"} /\ pc' = pc /\ stale' = stale /\ g_log' = g_log
        /\ init_pc' # "enable" /\ (lock' = lock \/ lock' = none)
    BY <1>5 DEF InitEnable, InitMutex
  <2>2. \A t \in Threads : pc[t] \notin Busy
    BY <2>1 DEF LockInv
  <2>3. enable_lock'
    <3>1. g_log = "live"
      BY <1>1, <2>1 DEF TypeOK
    <3>2. CASE InitEnable
      BY <3>2 DEF InitEnable
    <3>3. CASE InitMutex
      BY <2>1, <3>1, <3>3 DEF InitMutex, LockInv
    <3> QED
      BY <1>5, <3>2, <3>3
  <2>4. Inside \subseteq Busy
    BY DEF Busy
  <2> QED
    BY <2>1, <2>2, <2>3, <2>4 DEF LockInv
<1>6. CASE InitOpen
  <2>1. ~raced /\ init_pc = "open" /\ init_pc' = "idle"
        /\ UNCHANGED <<pc, stale, g_log, lock, enable_lock>>
    BY <1>6 DEF InitOpen
  <2> QED
    BY <2>1 DEF LockInv
<1>7. CASE InitOpenFail \/ destroy_easy_log
  <2>1. Discard
    BY <1>7 DEF InitOpenFail, destroy_easy_log
  <2>2. g_log' = "NULL" /\ lock' = none
    BY <2>1 DEF Discard
  <2>3. stale' = {} /\ \A t \in Threads : pc'[t] \notin Busy
    BY <2>1, Undisturbed
  <2> QED
    BY <2>2, <2>3 DEF LockInv, Busy
<1>8. ASSUME NEW t \in Threads, NEW l \in Levels, AppendCall(t, l)
      PROVE  LockInv'
  <2>1. /\ pc[t] = "idle" /\ pc'[t] = "lock" /\ \A u \in Threads : u # t => pc'[u] = pc[u]
        /\ raced' = raced
    BY <1>8, CallAdded
  <2>2. UNCHANGED <<stale, g_log, init_pc, lock, enable_lock>>
    BY <1>8 DEF AppendCall
  <2>3. \A u \in Threads : (pc'[u] \in Inside <=> pc[u] \in Inside) /\ (pc'[u] \in Busy => pc[u] \in Busy)
    BY <2>1 DEF Inside, Busy
  <2>4. lock # none => lock \in Threads
    BY <1>1 DEF TypeOK
  <2> QED
    BY <2>1, <2>2, <2>3, <2>4 DEF LockInv
<1>9. ASSUME NEW t \in Threads, LockTest(t)
      PROVE  LockInv'
  <2>1. /\ ~raced /\ init_pc \in {"idle", "open"}
        /\ pc[t] = "lock" /\ pc'[t] = "wait" /\ \A u \in Threads : u # t => pc'[u] = pc[u]
    BY <1>9, LockTestWaits
  <2>2. g_log = "live" /\ UNCHANGED <<stale, g_log, init_pc, lock, enable_lock>>
    BY <1>9 DEF LockTest
  <2>3. \A u \in Threads : pc'[u] \in Inside <=> pc[u] \in Inside
    BY <2>1 DEF Inside
  <2>4. lock # none => lock \in Threads
    BY <1>1 DEF TypeOK
  <2> QED
    BY <2>1, <2>2, <2>3, <2>4 DEF LockInv
<1>10. ASSUME NEW t \in Threads, LockTake(t)
       PROVE  LockInv'
  <2>1. ~raced /\ stale' = stale \ {t} /\ UNCHANGED <<g_log, init_pc, enable_lock>>
    BY <1>10 DEF LockTake
  <2>2. /\ pc[t] = "wait" /\ pc'[t] = "check" /\ lock' = t
        /\ \A u \in Threads : u # t => pc'[u] = pc[u] /\ pc[u] \notin Inside
    BY <1>10, <2>1, LockTakeAlone
  <2>3. "wait" \in Busy /\ "check" \in Inside
    BY DEF Busy, Inside
  <2>4. stale' = {}
    BY <2>1 DEF LockInv
  <2>5. \A u \in Threads : pc'[u] \in Busy => pc[u] \in Busy
    BY <2>2, <2>3
  <2>6. g_log = "live" /\ init_pc \in {"idle", "open"}
    BY <2>1, <2>2, <2>3 DEF LockInv
  <2>7. \A u \in Threads : pc'[u] \in Inside => lock' = u
    BY <2>2
  <2> QED
    BY <2>1, <2>2, <2>3, <2>4, <2>6, <2>7 DEF LockInv
<1>11. ASSUME NEW t \in Threads, Release(t)
       PROVE  LockInv'
  <2>1. /\ ~raced /\ stale' = stale \ {t} /\ UNCHANGED <<g_log, init_pc, enable_lock>>
        /\ Goto(t, "unlock", "idle") /\ g_log = "live"
    BY <1>11 DEF Release
  <2>2. /\ pc[t] = "unlock" /\ pc'[t] = "idle"
        /\ \A u \in Threads : u # t => pc'[u] = pc[u] /\ pc[u] \notin Inside
    BY <2>1, Alone DEF Inside
  <2>3. "unlock" \in Busy /\ "idle" \notin Busy /\ Inside \subseteq Busy
    BY DEF Busy, Inside
  <2>4. enable_lock
    BY <2>1, <2>2, <2>3 DEF LockInv
  <2>5. lock' = none
    BY <1>11, <2>4 DEF Release
  <2>6. stale' = {}
    BY <2>1 DEF LockInv
  <2>7. \A u \in Threads : pc'[u] \notin Inside /\ (pc'[u] \in Busy => pc[u] \in Busy)
    BY <2>2, <2>3
  <2> QED
    BY <2>1, <2>4, <2>5, <2>6, <2>7 DEF LockInv
<1>12. ASSUME NEW t \in Threads,
              \/ log_append_check(t)
              \/ FormatHead(t) \/ FormatBody(t) \/ FormatFail(t)
              \/ Write(t) \/ WriteNoFlush(t) \/ WriteShort(t)
       PROVE  LockInv'
  <2>1. UNCHANGED <<stale, enable_lock, lock, g_log, init_pc, raced>>
    BY <1>12 DEF log_append_check, CheckGone, Check, Rotate, RotateNoRename, RotateNoOpen, Rotating,
       FormatHead, FormatBody, FormatFail, Write, WriteNoFlush, WriteShort, Put
  <2>2. \E from \in {"check", "head", "body", "write"} : \E to \in {"head", "body", "write", "unlock"} :
          Goto(t, from, to)
    BY <1>12 DEF log_append_check, CheckGone, Check, Rotate, RotateNoRename, RotateNoOpen,
       FormatHead, FormatBody, FormatFail, Write, WriteNoFlush, WriteShort, Goto
  <2>3. PICK from \in {"check", "head", "body", "write"}, to \in {"head", "body", "write", "unlock"} :
          Goto(t, from, to)
    BY <2>2
  <2>4. from \in Inside /\ to \in Inside
    BY DEF Inside
  <2> QED
    BY <2>1, <2>3, <2>4, MovesOn
<1> QED
  BY <1>2, <1>3, <1>4, <1>5, <1>6, <1>7, <1>8, <1>9, <1>10, <1>11, <1>12
     DEF Next, init_easy_log, log_append

(* Nobody is in log_append at first.                                       *)
LEMMA InitLock == Init => LockInv
  BY DEF Init, LockInv, Busy, Inside

(***************************************************************************)
(* Whoever holds the mutex is inside log_append, with the lock enabled and *)
(* as long as nobody calls init or destroy in between.                     *)
(***************************************************************************)
THEOREM LockHeldInsideTheorem ==
  ASSUME EnableLock
  PROVE  Spec => []LockHeldInside
<1>1. Base /\ LockInv /\ [Next]_vars => Base' /\ LockInv'
  BY BaseStep, LockStep
<1>2. LockInv => LockHeldInside
  BY DEF LockInv, LockHeldInside
<1> QED
  BY <1>1, <1>2, InitBase, InitLock, PTL DEF Spec

-----------------------------------------------------------------------------
(* With the lock enabled, log_buf and the position belong to one thread.   *)

(* Nobody formats: the buffer stays, and nobody gets to the body.          *)
LEMMA BufferKept ==
  ASSUME BufferInv, UNCHANGED <<log_buf, msg>>, ~raced,
         \A u \in Threads : pc'[u] \in {"body", "write"} => pc'[u] = pc[u]
  PROVE  BufferInv'
  BY DEF BufferInv

(* raced stays once it is set.                                             *)
LEMMA RacedStays ==
  ASSUME [Next]_vars, ~raced'
  PROVE  ~raced
<1> USE DEF stream, mutex, logger, disk, thread, history
<1>1. CASE Tick \/ init_easy_log \/ destroy_easy_log \/ UNCHANGED vars
  BY <1>1 DEF Tick, init_easy_log, InitAlloc, InitEnable, InitMutex, InitOpen, InitOpenFail,
     destroy_easy_log, Discard, vars
<1>2. ASSUME NEW t \in Threads, log_append(t) \/ \E l \in Levels : AppendCall(t, l)
      PROVE  ~raced
  BY <1>2 DEF log_append, AppendCall, UseNull, UseNullStream, UseFreed, Crash, LockTest, LockTake,
     log_append_check, CheckGone, Check, Rotate, RotateNoRename, RotateNoOpen, Rotating, FormatHead,
     FormatBody, FormatFail, Write, WriteNoFlush, WriteShort, Put, Release
<1> QED
  BY <1>1, <1>2 DEF Next

(* log_buf after any step.                                                 *)
LEMMA BufferStep ==
  ASSUME Base, LockInv, BufferInv, [Next]_vars
  PROVE  BufferInv'
<1> SUFFICES ASSUME ~raced' PROVE BufferInv'
  BY DEF BufferInv
<1> USE DEF stream, mutex, logger, disk, thread, history
<1>1. TypeOK /\ ~raced
  BY RacedStays DEF Base
<1>2. CASE Tick \/ InitAlloc \/ InitEnable \/ InitMutex \/ InitOpen \/ UNCHANGED vars
  BY <1>1, <1>2, BufferKept DEF Tick, InitAlloc, InitEnable, InitMutex, InitOpen, vars
<1>3. CASE InitOpenFail \/ destroy_easy_log
  <2>1. \A t \in Threads : pc'[t] \notin Busy
    BY <1>3, Undisturbed DEF InitOpenFail, destroy_easy_log
  <2> QED
    BY <2>1 DEF BufferInv, Busy, Inside
<1>4. ASSUME NEW t \in Threads, UseNull(t) \/ UseNullStream(t) \/ UseFreed(t)
      PROVE  BufferInv'
  BY <1>1, <1>4, BufferKept DEF UseNull, UseNullStream, UseFreed, Crash
<1>5. ASSUME NEW t \in Threads, NEW l \in Levels, AppendCall(t, l)
      PROVE  BufferInv'
  <2>1. /\ pc'[t] = "lock" /\ \A u \in Threads : u # t => pc'[u] = pc[u] /\ msg'[u] = msg[u]
    BY <1>5, CallAdded
  <2>2. log_buf' = log_buf
    BY <1>5 DEF AppendCall
  <2> QED
    BY <1>1, <2>1, <2>2 DEF BufferInv
<1>6. ASSUME NEW t \in Threads, NEW from, NEW to \in {"idle", "wait", "check", "head", "unlock"},
             Goto(t, from, to), UNCHANGED <<log_buf, msg>>
      PROVE  BufferInv'
  <2>1. to \in Busy \cup {"idle", "lock"}
    BY DEF Busy, Inside
  <2>2. pc'[t] = to /\ \A u \in Threads : u # t => pc'[u] = pc[u]
    BY <1>1, <1>6, <2>1, GotoType
  <2> QED
    BY <1>1, <1>6, <2>2, BufferKept
<1>7. ASSUME NEW t \in Threads, LockTest(t) \/ LockTake(t) \/ Release(t) \/ log_append_check(t)
      PROVE  BufferInv'
  BY <1>6, <1>7 DEF LockTest, LockTake, Release, log_append_check, CheckGone, Check, Rotate,
     RotateNoRename, RotateNoOpen, Rotating
<1>8. ASSUME NEW t \in Threads, FormatFail(t) \/ Write(t) \/ WriteNoFlush(t) \/ WriteShort(t)
      PROVE  BufferInv'
  <2>1. \E from \in {"head", "body", "write"} : Goto(t, from, "unlock")
    BY <1>8 DEF FormatFail, Write, WriteNoFlush, WriteShort, Goto
  <2> QED
    BY <1>6, <1>8, <2>1 DEF FormatFail, Write, WriteNoFlush, WriteShort, Put
<1>9. ASSUME NEW t \in Threads, FormatHead(t) \/ FormatBody(t)
      PROVE  BufferInv'
  <2>1. log_buf \in Buffers /\ msg' = msg /\ stale = {}
    BY <1>1, <1>9 DEF FormatHead, FormatBody, TypeOK, LockInv
  <2>2. CASE FormatHead(t)
    <3>1. pc'[t] = "body" /\ \A u \in Threads : u # t => pc'[u] \notin Inside
      BY <1>1, <2>2, Alone DEF FormatHead, Inside
    <3>2. log_buf'.head = msg'[t]
      BY <2>1, <2>2 DEF FormatHead, Buffers
    <3> QED
      BY <3>1, <3>2 DEF BufferInv, Inside
  <2>3. CASE FormatBody(t)
    <3>1. pc[t] = "body" /\ \A u \in Threads : u # t => pc'[u] \notin Inside
      BY <1>1, <2>3, Alone DEF FormatBody, Inside
    <3>2. log_buf' = [log_buf EXCEPT !.body = msg[t]]
      BY <2>1, <2>3 DEF FormatBody
    <3>3. log_buf.head = msg[t]
      BY <1>1, <3>1 DEF BufferInv
    <3>4. log_buf'.head = msg'[t] /\ log_buf'.body = msg'[t]
      BY <2>1, <3>2, <3>3 DEF Buffers
    <3> QED
      BY <3>1, <3>4 DEF BufferInv, Inside
  <2> QED
    BY <1>9, <2>2, <2>3
<1> QED
  BY <1>2, <1>3, <1>4, <1>5, <1>7, <1>8, <1>9 DEF Next, init_easy_log, log_append

-----------------------------------------------------------------------------
(* The size of the log file.                                               *)

(* The numbers the bound on the file is made of.                           *)
LEMMA Sizes ==
  ASSUME TypeOK
  PROVE  Len(cur) \in Nat /\ pos \in Nat /\ inits \in Nat
<1>1. cur \in Seq(Pieces) /\ pos \in Nat /\ inits \in 0..MaxInits
  BY DEF TypeOK
<1> QED
  BY <1>1, Constants

(* What the size depends on stays, and nobody gets past the check.         *)
LEMMA SizeKept ==
  ASSUME SizeInv, UNCHANGED <<cur, pos, inits, g_log>>, ~raced,
         \A u \in Threads : pc'[u] \in {"head", "body", "write"} =>
                              pc[u] \in {"head", "body", "write"} \/ pos < UseLimit
  PROVE  SizeInv'
  BY DEF SizeInv

(* A line is added: the position was tested below the limit, or is that of *)
(* a file that has grown by a line per reset so far.                       *)
LEMMA OneMore ==
  ASSUME NEW n \in 0..3, NEW len \in Nat, NEW q \in Nat, NEW i \in Nat, i >= 1, NEW lim \in Nat,
         q < lim, q = len \/ len <= (lim - 1) + 3 * (i - 1)
  PROVE  len + n <= (lim - 1) + 3 * i
  OBVIOUS

(* Every step keeps the file within its bound.                             *)
LEMMA SizeStep ==
  ASSUME Base, LockInv, SizeInv, [Next]_vars
  PROVE  SizeInv'
<1> SUFFICES ASSUME ~raced' PROVE SizeInv'
  BY DEF SizeInv
<1> USE DEF stream, mutex, logger, disk, thread, history
<1>1. TypeOK /\ ~raced
  BY RacedStays DEF Base
<1>2. Len(cur) \in Nat /\ pos \in Nat /\ inits \in Nat /\ UseLimit \in Nat /\ UseLimit >= 1
  BY <1>1, Sizes, Constants
<1>3. CASE Tick \/ InitEnable \/ InitMutex \/ InitOpen \/ UNCHANGED vars
  BY <1>1, <1>3, SizeKept DEF Tick, InitEnable, InitMutex, InitOpen, vars
<1>4. ASSUME NEW t \in Threads, UseNull(t) \/ UseNullStream(t) \/ UseFreed(t)
      PROVE  SizeInv'
  BY <1>1, <1>4, SizeKept DEF UseNull, UseNullStream, UseFreed, Crash
<1>5. CASE InitAlloc
  <2>1. g_log = "NULL" /\ inits' = inits + 1 /\ pc' = pc /\ cur' = cur /\ pos' = pos
    BY <1>5 DEF InitAlloc
  <2>2. \A t \in Threads : pc[t] \notin Busy
    BY <1>1, <2>1 DEF LockInv
  <2>3. Len(cur) <= (UseLimit - 1) + 3 * inits
    BY <1>1 DEF SizeInv, MaxLine
  <2>4. /\ Len(cur) <= (UseLimit - 1) + 3 * (inits + 1) /\ inits + 1 >= 1
        /\ Len(cur) <= (UseLimit - 1) + 3 * ((inits + 1) - 1)
    BY <1>2, <2>3
  <2> QED
    BY <2>1, <2>2, <2>4 DEF SizeInv, MaxLine, Busy, Inside
<1>6. CASE InitOpenFail \/ destroy_easy_log
  <2>1. Discard
    BY <1>6 DEF InitOpenFail, destroy_easy_log
  <2>2. \A t \in Threads : pc'[t] \notin Busy
    BY <2>1, Undisturbed
  <2>3. g_log' = "NULL" /\ cur' = cur /\ inits' = inits
    BY <2>1 DEF Discard
  <2> QED
    BY <1>1, <2>2, <2>3 DEF SizeInv, Busy, Inside
<1>7. ASSUME NEW t \in Threads, NEW l \in Levels, AppendCall(t, l)
      PROVE  SizeInv'
  <2>1. pc'[t] = "lock" /\ \A u \in Threads : u # t => pc'[u] = pc[u]
    BY <1>7, CallAdded
  <2>2. UNCHANGED <<cur, pos, inits, g_log>>
    BY <1>7 DEF AppendCall
  <2> QED
    BY <1>1, <2>1, <2>2, SizeKept
<1>8. ASSUME NEW t \in Threads, NEW from, NEW to \in Busy \cup {"idle"}, Goto(t, from, to),
             \/ to \notin {"head", "body", "write"}
             \/ from \in {"head", "body", "write"}
             \/ pos < UseLimit,
             UNCHANGED <<cur, pos, inits, g_log>>
      PROVE  SizeInv'
  <2>1. pc[t] = from /\ pc'[t] = to /\ \A u \in Threads : u # t => pc'[u] = pc[u]
    BY <1>1, <1>8, GotoType
  <2> QED
    BY <1>1, <1>8, <2>1, SizeKept
<1>9. ASSUME NEW t \in Threads, LockTest(t) \/ LockTake(t) \/ Release(t) \/ CheckGone(t) \/ Check(t)
      PROVE  SizeInv'
  BY <1>8, <1>9 DEF LockTest, LockTake, Release, CheckGone, Check, Busy, Inside
<1>10. ASSUME NEW t \in Threads, FormatHead(t) \/ FormatBody(t) \/ FormatFail(t)
       PROVE  SizeInv'
  <2>1. \E from \in {"head", "body"} : \E to \in {"body", "write", "unlock"} : Goto(t, from, to)
    BY <1>10 DEF FormatHead, FormatBody, FormatFail, Goto
  <2>2. UNCHANGED <<cur, pos, inits, g_log>>
    BY <1>10 DEF FormatHead, FormatBody, FormatFail
  <2> QED
    BY <1>8, <2>1, <2>2 DEF Busy, Inside
<1>11. ASSUME NEW t \in Threads, Rotate(t) \/ RotateNoRename(t) \/ RotateNoOpen(t)
       PROVE  SizeInv'
  <2>1. Rotating(t)
    BY <1>11 DEF Rotate, RotateNoRename, RotateNoOpen
  <2>2. cur' = <<>> /\ Len(cur') = 0 /\ pos' = 0 /\ UNCHANGED <<inits, g_log>>
    BY <2>1, NoPieces DEF Rotating
  <2>3. g_log = "live" => inits >= 1
    BY <1>1 DEF SizeInv
  <2>4. 0 <= (UseLimit - 1) + 3 * inits /\ 0 < UseLimit
    BY <1>2
  <2> QED
    BY <2>2, <2>3, <2>4 DEF SizeInv, MaxLine
<1>12. ASSUME NEW t \in Threads, NEW n \in 0..3, Wrote(t, n)
       PROVE  SizeInv'
  <2>1. /\ pc[t] = "write" /\ pc'[t] = "unlock"
        /\ \A u \in Threads : u # t => pc'[u] = pc[u] /\ pc[u] \notin Inside
    BY <1>1, <1>12, Alone DEF Wrote, Inside
  <2>2. pos' = Len(cur') /\ Len(cur') = Len(cur) + n /\ UNCHANGED <<inits, g_log>> /\ g_log = "live"
    BY <1>1, <1>12, PutType DEF Wrote, Put
  <2>3. /\ pos < UseLimit /\ inits >= 1
        /\ pos = Len(cur) \/ Len(cur) <= (UseLimit - 1) + 3 * (inits - 1)
    BY <1>1, <2>1, <2>2 DEF SizeInv, MaxLine
  <2>4. Len(cur') <= (UseLimit - 1) + 3 * inits
    BY <1>2, <2>2, <2>3, OneMore
  <2>5. \A u \in Threads : pc'[u] \notin {"head", "body", "write"}
    BY <2>1 DEF Inside
  <2> QED
    BY <2>2, <2>3, <2>4, <2>5 DEF SizeInv, MaxLine
<1> QED
  BY <1>3, <1>4, <1>5, <1>6, <1>7, <1>9, <1>10, <1>11, <1>12, WritesPut
     DEF Next, init_easy_log, log_append, log_append_check

-----------------------------------------------------------------------------
(* What is in the files.                                                   *)

(* The files, by name: the renamed ones o, and c, which is being written.  *)
LEMMA FilesFacts ==
  ASSUME NEW o, DOMAIN o \subseteq 0..MaxTime, \A s \in DOMAIN o : o[s] \in Seq(Pieces),
         NEW c \in Seq(Pieces),
         NEW files, files = [f \in DOMAIN o \cup {LogFile} |-> IF f = LogFile THEN c ELSE o[f]]
  PROVE  /\ DOMAIN files = DOMAIN o \cup {LogFile} /\ LogFile \notin DOMAIN o
         /\ files[LogFile] = c /\ LogFile \in Int
         /\ \A s \in DOMAIN o : files[s] = o[s] /\ s \in Int /\ s < LogFile
         /\ \A f \in DOMAIN files : files[f] \in Seq(Pieces) /\ f \in Int /\ Len(files[f]) \in Nat
<1>1. LogFile \in Int /\ \A s \in DOMAIN o : s \in Int /\ s < LogFile /\ s # LogFile
  BY Constants DEF LogFile
<1>2. LogFile \notin DOMAIN o
  BY <1>1
<1>3. DOMAIN files = DOMAIN o \cup {LogFile}
  OBVIOUS
<1>4. files[LogFile] = c
  BY <1>3
<1>5. \A s \in DOMAIN o : files[s] = o[s]
  BY <1>2, <1>3
<1>6. \A f \in DOMAIN files : files[f] \in Seq(Pieces) /\ f \in Int
  BY <1>1, <1>3, <1>4, <1>5
<1>7. \A f \in DOMAIN files : Len(files[f]) \in Nat
  BY <1>6
<1> QED
  BY <1>1, <1>2, <1>3, <1>4, <1>5, <1>6, <1>7

(* All files are sequences of pieces, before and after a step.             *)
LEMMA FilesType ==
  ASSUME TypeOK
  PROVE  /\ DOMAIN Files = DOMAIN old \cup {LogFile} /\ LogFile \notin DOMAIN old
         /\ Files[LogFile] = cur /\ LogFile \in Int
         /\ \A s \in DOMAIN old : Files[s] = old[s] /\ s \in Int /\ s < LogFile
         /\ \A f \in DOMAIN Files : Files[f] \in Seq(Pieces) /\ f \in Int /\ Len(Files[f]) \in Nat
<1>1. DOMAIN old \subseteq 0..MaxTime /\ cur \in Seq(Pieces) /\ \A s \in DOMAIN old : old[s] \in Seq(Pieces)
  BY DEF TypeOK
<1>2. Files = [f \in DOMAIN old \cup {LogFile} |-> IF f = LogFile THEN cur ELSE old[f]]
  BY DEF Files
<1> QED
  BY <1>1, <1>2, FilesFacts

LEMMA FilesNext ==
  ASSUME TypeOK'
  PROVE  /\ DOMAIN Files' = DOMAIN old' \cup {LogFile} /\ LogFile \notin DOMAIN old'
         /\ Files'[LogFile] = cur' /\ LogFile \in Int
         /\ \A s \in DOMAIN old' : Files'[s] = old'[s] /\ s \in Int /\ s < LogFile
         /\ \A f \in DOMAIN Files' : Files'[f] \in Seq(Pieces) /\ f \in Int /\ Len(Files'[f]) \in Nat
<1>1. /\ DOMAIN old' \subseteq 0..MaxTime /\ cur' \in Seq(Pieces)
      /\ \A s \in DOMAIN old' : old'[s] \in Seq(Pieces)
  BY DEF TypeOK
<1>2. Files' = [f \in DOMAIN old' \cup {LogFile} |-> IF f = LogFile THEN cur' ELSE old'[f]]
  BY DEF Files
<1> QED
  BY <1>1, <1>2, FilesFacts

(* A line that is added, whole or torn, leaves the others whole.           *)
LEMMA WholeAdded ==
  ASSUME NEW c \in Seq(Pieces), NEW x \in Seq(Pieces), NEW m, NEW tn, NEW tn2, tn \subseteq tn2,
         Whole(c, tn), \A k \in 1..Len(x) : x[k].msg = m,
         \/ m \in tn2
         \/ Whole(x, tn2)
  PROVE  Whole(c \o x, tn2)
<1> DEFINE d == c \o x
<1>1. /\ Len(c) \in Nat /\ Len(x) \in Nat /\ Len(d) = Len(c) + Len(x)
      /\ \A k \in 1..Len(c) : d[k] = c[k]
      /\ \A k \in 1..Len(x) : d[Len(c) + k] = x[k]
  BY ConcatProperties
<1> HIDE DEF d
<1>2. ASSUME NEW k \in 1..Len(c), d[k].msg \notin tn2
      PROVE  /\ d[k].part = "head" => k < Len(d) /\ d[k + 1] = Piece("body", d[k].msg)
             /\ d[k].part = "body" => k > 1 /\ d[k - 1] = Piece("head", d[k].msg)
             /\ d[k].part = "over" =>
                  d[k].msg \in LongMsgs /\ k > 1 /\ d[k - 1] = Piece("body", d[k].msg)
  <2>1. d[k] = c[k] /\ c[k].msg \notin tn
    BY <1>1, <1>2
  <2>2. /\ c[k].part = "head" => k < Len(c) /\ c[k + 1] = Piece("body", c[k].msg)
        /\ c[k].part = "body" => k > 1 /\ c[k - 1] = Piece("head", c[k].msg)
        /\ c[k].part = "over" =>
             c[k].msg \in LongMsgs /\ k > 1 /\ c[k - 1] = Piece("body", c[k].msg)
    BY <2>1 DEF Whole
  <2>3. k < Len(c) => k < Len(d) /\ d[k + 1] = c[k + 1]
    BY <1>1
  <2>4. k > 1 => d[k - 1] = c[k - 1]
    BY <1>1
  <2> QED
    BY <2>1, <2>2, <2>3, <2>4
<1>3. ASSUME NEW j \in 1..Len(x), d[Len(c) + j].msg \notin tn2, NEW k, k = Len(c) + j
      PROVE  /\ d[k].part = "head" => k < Len(d) /\ d[k + 1] = Piece("body", d[k].msg)
             /\ d[k].part = "body" => k > 1 /\ d[k - 1] = Piece("head", d[k].msg)
             /\ d[k].part = "over" =>
                  d[k].msg \in LongMsgs /\ k > 1 /\ d[k - 1] = Piece("body", d[k].msg)
  <2>1. d[k] = x[j] /\ x[j].msg \notin tn2
    BY <1>1, <1>3
  <2>2. Whole(x, tn2)
    BY <2>1
  <2>3. /\ x[j].part = "head" => j < Len(x) /\ x[j + 1] = Piece("body", x[j].msg)
        /\ x[j].part = "body" => j > 1 /\ x[j - 1] = Piece("head", x[j].msg)
        /\ x[j].part = "over" =>
             x[j].msg \in LongMsgs /\ j > 1 /\ x[j - 1] = Piece("body", x[j].msg)
    BY <2>1, <2>2 DEF Whole
  <2>4. j < Len(x) => k < Len(d) /\ d[k + 1] = x[j + 1]
    <3>1. j < Len(x) => j + 1 \in 1..Len(x) /\ k + 1 = Len(c) + (j + 1) /\ k < Len(d)
      BY <1>1, <1>3
    <3> QED
      BY <1>1, <3>1
  <2>5. j > 1 => k > 1 /\ d[k - 1] = x[j - 1]
    <3>1. j > 1 => j - 1 \in 1..Len(x)
      BY <1>1
    <3>2. j \in Int /\ Len(c) \in Nat /\ k = Len(c) + j
      BY <1>1, <1>3
    <3>3. j > 1 => k - 1 = Len(c) + (j - 1) /\ k > 1
      BY <3>2
    <3> QED
      BY <1>1, <3>1, <3>3
  <2> QED
    BY <2>1, <2>3, <2>4, <2>5
<1>4. \A k \in 1..Len(d) : k \in 1..Len(c) \/ \E j \in 1..Len(x) : k = Len(c) + j
  <2> SUFFICES ASSUME NEW k \in 1..Len(d), k \notin 1..Len(c)
               PROVE  \E j \in 1..Len(x) : k = Len(c) + j
    OBVIOUS
  <2>1. k - Len(c) \in 1..Len(x) /\ k = Len(c) + (k - Len(c))
    BY <1>1
  <2> QED
    BY <2>1
<1>5. Whole(d, tn2)
  BY <1>2, <1>3, <1>4 DEF Whole
<1> QED
  BY <1>5 DEF d

(* What a message puts into the file: all of its line, or a part.          *)
LEMMA LineWhole ==
  ASSUME NEW m \in 0..MaxMsgs, NEW n \in 0..3, NEW tn, NEW x \in Seq(Pieces), Len(x) = n,
         n >= 1 => x[1] = Piece("head", m),
         n >= 2 => x[2] = Piece("body", m),
         n >= 3 => x[3] = Piece("over", m)
  PROVE  /\ \A k \in 1..Len(x) : x[k].msg = m
         /\ n = LineLen(m) => Whole(x, tn) /\ x[1] = Piece("head", m)
         /\ \A k \in 1..Len(x) : x[k] = Piece("head", m) => k = 1
<1>1. x \in Seq(Pieces) /\ Len(x) = n
  OBVIOUS
<1>2. /\ Piece("head", m).msg = m /\ Piece("body", m).msg = m /\ Piece("over", m).msg = m
      /\ Piece("head", m).part = "head" /\ Piece("body", m).part = "body"
      /\ Piece("over", m).part = "over"
  BY DEF Piece
<1>3. \A k \in 1..n : k = 1 \/ k = 2 \/ k = 3
  OBVIOUS
<1>4. /\ n >= 1 => x[1] = Piece("head", m)
      /\ n >= 2 => x[2] = Piece("body", m)
      /\ n >= 3 => x[3] = Piece("over", m)
  OBVIOUS
<1>5. \A k \in 1..n : \/ k = 1 /\ x[k] = Piece("head", m)
                      \/ k = 2 /\ x[k] = Piece("body", m)
                      \/ k = 3 /\ x[k] = Piece("over", m)
  BY <1>3, <1>4
<1>6. \A k \in 1..Len(x) : x[k].msg = m
  BY <1>1, <1>2, <1>5
<1>7. \A k \in 1..Len(x) : x[k] = Piece("head", m) => k = 1
  BY <1>1, <1>2, <1>5
<1>8. ASSUME n = LineLen(m) PROVE Whole(x, tn)
  <2>1. n >= 2 /\ (n = 3 => m \in LongMsgs)
    BY <1>8 DEF LineLen
  <2>2. ASSUME NEW k \in 1..n
        PROVE  /\ x[k].part = "head" => k < n /\ x[k + 1] = Piece("body", x[k].msg)
               /\ x[k].part = "body" => k > 1 /\ x[k - 1] = Piece("head", x[k].msg)
               /\ x[k].part = "over" =>
                    x[k].msg \in LongMsgs /\ k > 1 /\ x[k - 1] = Piece("body", x[k].msg)
    <3>1. CASE k = 1
      BY <1>2, <1>4, <2>1, <3>1
    <3>2. CASE k = 2
      BY <1>2, <1>4, <2>1, <3>2
    <3>3. CASE k = 3
      <4>1. n = 3
        BY <3>3
      <4> QED
        BY <1>2, <1>4, <2>1, <3>3, <4>1
    <3> QED
      BY <1>3, <3>1, <3>2, <3>3
  <2> QED
    BY <1>1, <2>2 DEF Whole
<1>9. n = LineLen(m) => x[1] = Piece("head", m)
  BY <1>4 DEF LineLen
<1> QED
  BY <1>1, <1>6, <1>7, <1>8, <1>9

(* A piece of a file.                                                      *)
LEMMA PieceType ==
  ASSUME NEW c \in Seq(Pieces), NEW k \in 1..Len(c)
  PROVE  c[k] \in Pieces /\ c[k].msg \in Int
<1>1. c[k] \in Pieces
  OBVIOUS
<1>2. c[k].msg \in 0..MaxMsgs
  BY <1>1 DEF Pieces
<1> QED
  BY <1>1, <1>2

(* Nothing is logged, and the clock may go on.                             *)
LEMMA StillLog ==
  ASSUME Base, ~raced, LogInv, Still
  PROVE  LogInv'
<1>1. UNCHANGED <<calls, msg, cur, old, done, torn, lossy>>
  BY DEF Still
<1>2. Files' = Files
  BY <1>1 DEF Files
<1>3. LinesInv' /\ OrderInv' /\ LossInv'
  BY <1>1, <1>2 DEF LogInv, LinesInv, OrderInv, LossInv
<1>4. DatesInv'
  <2>1. DOMAIN old \subseteq 0..MaxTime /\ now \in 0..MaxTime
    BY DEF Base, TypeOK
  <2>2. \A s \in DOMAIN old : s <= now /\ s \in Int
    BY <2>1 DEF LogInv, DatesInv
  <2>3. \A s \in DOMAIN old : s <= now'
    BY <2>1, <2>2 DEF Still
  <2> QED
    BY <1>1, <2>3 DEF LogInv, DatesInv
<1>5. FreshInv'
  BY <1>1, <1>2 DEF LogInv, FreshInv, Still
<1> QED
  BY <1>3, <1>4, <1>5 DEF LogInv

(* A call begins: its message has a number that no file has.               *)
LEMMA CallLog ==
  ASSUME Base, ~raced, LogInv, NEW t \in Threads, NEW l, AppendCall(t, l)
  PROVE  LogInv'
<1>1. TypeOK /\ LinesInv /\ DatesInv /\ OrderInv /\ FreshInv /\ LossInv
  BY DEF LogInv, Base
<1> DEFINE N == Len(calls)
<1>2. /\ Len(calls') = N + 1 /\ N \in Nat
      /\ \A m \in 1..N : calls'[m] = calls[m] /\ m \in 1..Len(calls')
      /\ msg'[t] = N + 1 /\ \A u \in Threads : u # t => msg'[u] = msg[u]
      /\ pc[t] = "idle" /\ pc'[t] = "lock" /\ \A u \in Threads : u # t => pc'[u] = pc[u]
      /\ UNCHANGED <<cur, old, now, done, torn, lossy, raced>>
  BY CallAdded
<1>3. Files' = Files
  BY <1>2 DEF Files
<1>4. \A f \in DOMAIN Files : \A k \in 1..Len(Files[f]) : Files[f][k].msg \in 1..N
  BY <1>1 DEF LinesInv, Named
<1>5. \A f \in DOMAIN Files : \A k \in 1..Len(Files[f]) :
        /\ calls'[Files[f][k].msg] = calls[Files[f][k].msg]
        /\ Files[f][k].msg \in 1..Len(calls') /\ Files[f][k].msg # N + 1
  <2>1. N + 1 \notin 1..N
    BY <1>2
  <2> QED
    BY <1>2, <1>4, <2>1
<1>6. LinesInv'
  <2>1. done' \subseteq 1..Len(calls')
    BY <1>1, <1>2 DEF LinesInv
  <2> QED
    BY <1>1, <1>2, <1>3, <1>5, <2>1 DEF LinesInv, Named
<1>7. DatesInv'
  <2>1. \A s \in DOMAIN old : s \in DOMAIN Files /\ Files[s] = old[s]
    BY <1>1, FilesType
  <2>2. \A s \in DOMAIN old : \A k \in 1..Len(old[s]) : calls'[old[s][k].msg] = calls[old[s][k].msg]
    BY <1>5, <2>1
  <2> QED
    BY <1>1, <1>2, <2>2 DEF DatesInv
<1>8. OrderInv'
  <2>1. Ordered(Files, calls')
    BY <1>1, <1>5 DEF OrderInv, Ordered
  <2> QED
    BY <1>3, <2>1 DEF OrderInv
<1>9. FreshInv'
  <2>1. msg'[t] \notin done' /\ Absent(Files', msg'[t])
    <3>1. N + 1 \notin 1..N
      BY <1>2
    <3> QED
      BY <1>1, <1>2, <1>3, <1>5, <3>1 DEF LinesInv, Absent
  <2>2. \A u \in Threads : u # t /\ pc'[u] \in Pending => msg'[u] \notin done' /\ Absent(Files', msg'[u])
    BY <1>1, <1>2, <1>3 DEF FreshInv
  <2> QED
    BY <2>1, <2>2 DEF FreshInv
<1>10. LossInv'
  BY <1>1, <1>2, <1>3 DEF LossInv
<1> QED
  BY <1>6, <1>7, <1>8, <1>9, <1>10 DEF LogInv

(* Where the contents of a file were before a rotation.                    *)
Origin(f, keep) == IF f = now /\ keep THEN LogFile ELSE f

LEMMA Origins ==
  ASSUME TypeOK, TypeOK', NEW keep \in BOOLEAN, Turned(keep)
  PROVE  /\ \A f \in DOMAIN Files' : \A k \in 1..Len(Files'[f]) :
              f # LogFile /\ Origin(f, keep) \in DOMAIN Files /\ Files'[f] = Files[Origin(f, keep)]
         /\ DOMAIN old' \subseteq DOMAIN old \cup {now}
         /\ ~keep => old' = old
<1>1. /\ DOMAIN Files' = DOMAIN old' \cup {LogFile} /\ LogFile \notin DOMAIN old'
      /\ Files'[LogFile] = <<>> /\ \A s \in DOMAIN old' : Files'[s] = old'[s]
  BY FilesNext DEF Turned
<1>2. /\ DOMAIN Files = DOMAIN old \cup {LogFile} /\ LogFile \notin DOMAIN old
      /\ Files[LogFile] = cur /\ \A s \in DOMAIN old : Files[s] = old[s]
  BY FilesType
<1>3. CASE keep
  <2>1. old' = [f \in DOMAIN old \cup {now} |-> IF f = now THEN cur ELSE old[f]]
    BY <1>3 DEF Turned, Renamed
  <2>2. DOMAIN old' = DOMAIN old \cup {now}
    BY <2>1
  <2>3. ASSUME NEW f \in DOMAIN Files', NEW k \in 1..Len(Files'[f])
        PROVE  f # LogFile /\ Origin(f, keep) \in DOMAIN Files /\ Files'[f] = Files[Origin(f, keep)]
    <3>1. f # LogFile
      BY <1>1, <2>3, NoPieces
    <3>2. f \in DOMAIN old' /\ Files'[f] = old'[f]
      BY <1>1, <3>1
    <3>3. CASE f = now
      BY <1>2, <1>3, <2>1, <3>1, <3>2, <3>3 DEF Origin
    <3>4. CASE f # now
      BY <1>2, <2>1, <2>2, <3>1, <3>2, <3>4 DEF Origin
    <3> QED
      BY <3>3, <3>4
  <2> QED
    BY <1>3, <2>2, <2>3
<1>4. CASE ~keep
  <2>1. old' = old
    BY <1>4 DEF Turned
  <2>2. ASSUME NEW f \in DOMAIN Files', NEW k \in 1..Len(Files'[f])
        PROVE  f # LogFile /\ Origin(f, keep) \in DOMAIN Files /\ Files'[f] = Files[Origin(f, keep)]
    <3>1. f # LogFile
      BY <1>1, <2>2, NoPieces
    <3> QED
      BY <1>1, <1>2, <1>4, <2>1, <3>1 DEF Origin
  <2> QED
    BY <2>1, <2>2
<1> QED
  BY <1>3, <1>4

(* A rotation moves the lines as they are, to the end of the row of files. *)
LEMMA TurnedLog ==
  ASSUME Base, TypeOK', ~raced, LogInv, NEW keep \in BOOLEAN, Turned(keep)
  PROVE  LogInv'
<1>1. TypeOK /\ CallsInv /\ LinesInv /\ DatesInv /\ OrderInv /\ FreshInv /\ LossInv
  BY DEF LogInv, Base
<1>2. UNCHANGED <<calls, msg, now, done, torn>>
  BY DEF Turned
<1>3. /\ \A f \in DOMAIN Files' : \A k \in 1..Len(Files'[f]) :
           f # LogFile /\ Origin(f, keep) \in DOMAIN Files /\ Files'[f] = Files[Origin(f, keep)]
      /\ DOMAIN old' \subseteq DOMAIN old \cup {now}
      /\ ~keep => old' = old
  BY <1>1, Origins
<1>4. /\ DOMAIN Files' = DOMAIN old' \cup {LogFile}
      /\ \A s \in DOMAIN old' : Files'[s] = old'[s] /\ s \in Int /\ s < LogFile
      /\ LogFile \notin DOMAIN old' /\ LogFile \in Int
  BY FilesNext
<1>5. /\ DOMAIN Files = DOMAIN old \cup {LogFile} /\ LogFile \notin DOMAIN old /\ Files[LogFile] = cur
      /\ \A s \in DOMAIN old : Files[s] = old[s] /\ s \in Int /\ s < LogFile
  BY <1>1, FilesType
<1>6. now \in Int
  <2>1. now \in 0..MaxTime
    BY <1>1 DEF TypeOK
  <2> QED
    BY <2>1
<1>7. LinesInv'
  <2>1. ASSUME NEW f \in DOMAIN Files'
        PROVE  Whole(Files'[f], torn) /\ Named(Files'[f], Len(calls))
    <3>1. CASE \E k : k \in 1..Len(Files'[f])
      BY <1>1, <1>3, <3>1 DEF LinesInv
    <3>2. CASE ~ \E k : k \in 1..Len(Files'[f])
      BY <3>2 DEF Whole, Named
    <3> QED
      BY <3>1, <3>2
  <2> QED
    BY <1>1, <1>2, <2>1 DEF LinesInv
<1>8. DatesInv'
  <2> SUFFICES ASSUME NEW s \in DOMAIN old'
               PROVE  s <= now /\ \A k \in 1..Len(old'[s]) : calls[old'[s][k].msg].time <= s
    BY <1>2 DEF DatesInv
  <2>1. s <= now
    BY <1>1, <1>3, <1>6 DEF DatesInv
  <2>2. ASSUME NEW k \in 1..Len(old'[s]) PROVE calls[old'[s][k].msg].time <= s
    <3>1. Files'[s] = old'[s] /\ s \in DOMAIN Files' /\ s # LogFile
      BY <1>4
    <3>2. Origin(s, keep) \in DOMAIN Files /\ old'[s] = Files[Origin(s, keep)]
      BY <1>3, <2>2, <3>1
    <3>3. CASE s = now /\ keep
      <4>1. old'[s][k].msg \in 1..Len(calls)
        BY <1>1, <2>2, <3>2 DEF LinesInv, Named
      <4> QED
        BY <1>1, <3>3, <4>1 DEF CallsInv
    <3>4. CASE ~(s = now /\ keep)
      <4>1. s \in DOMAIN old /\ old'[s] = old[s]
        BY <1>5, <3>1, <3>2, <3>4 DEF Origin
      <4> QED
        BY <1>1, <2>2, <4>1 DEF DatesInv
    <3> QED
      BY <3>3, <3>4
  <2> QED
    BY <2>1, <2>2
<1>9. OrderInv'
  <2> SUFFICES ASSUME NEW f \in DOMAIN Files', NEW g \in DOMAIN Files',
                      NEW k \in 1..Len(Files'[f]), NEW l \in 1..Len(Files'[g]),
                      f < g \/ (f = g /\ k < l),
                      calls[Files'[f][k].msg].thread = calls[Files'[g][l].msg].thread
               PROVE  Files'[f][k].msg <= Files'[g][l].msg
    BY <1>2 DEF OrderInv, Ordered
  <2> DEFINE F == Origin(f, keep)
             G == Origin(g, keep)
  <2>1. /\ F \in DOMAIN Files /\ Files'[f] = Files[F] /\ f # LogFile
        /\ G \in DOMAIN Files /\ Files'[g] = Files[G] /\ g # LogFile
    BY <1>3
  <2>2. f \in DOMAIN old' /\ g \in DOMAIN old'
    BY <1>4, <2>1
  <2>3. f \in Int /\ g \in Int /\ f < LogFile /\ g < LogFile /\ f <= now /\ g <= now
    BY <1>2, <1>4, <1>8, <2>2 DEF DatesInv
  <2>4. F < G \/ (F = G /\ k < l)
    <3>1. CASE f = g
      BY <2>3, <3>1
    <3>2. CASE f < g
      BY <1>6, <2>3, <3>2 DEF Origin
    <3> QED
      BY <3>1, <3>2
  <2> HIDE DEF F, G
  <2> QED
    BY <1>1, <2>1, <2>4 DEF OrderInv, Ordered
<1>10. FreshInv'
  <2> SUFFICES ASSUME NEW u \in Threads, pc'[u] \in Pending
               PROVE  msg[u] \notin done /\ Absent(Files', msg[u])
    BY <1>2 DEF FreshInv
  <2>1. msg[u] \notin done /\ Absent(Files, msg[u])
    BY <1>1 DEF FreshInv, Turned
  <2> QED
    BY <1>3, <2>1 DEF Absent
<1>11. LossInv'
  <2> SUFFICES ASSUME ~lossy', NEW m \in done
               PROVE  HeadOnce(Files', m)
    BY <1>2 DEF LossInv
  <2>1. keep /\ ~lossy /\ now \notin DOMAIN old
    BY DEF Turned, Renamed
  <2>2. old' = [f \in DOMAIN old \cup {now} |-> IF f = now THEN cur ELSE old[f]]
    BY <2>1 DEF Turned, Renamed
  <2>3. HeadOnce(Files, m)
    BY <1>1, <2>1 DEF LossInv
  <2>4. PICK f \in DOMAIN Files : \E k \in 1..Len(Files[f]) :
          /\ Files[f][k] = Piece("head", m)
          /\ \A g \in DOMAIN Files : \A l \in 1..Len(Files[g]) :
               Files[g][l] = Piece("head", m) => g = f /\ l = k
    BY <2>3 DEF HeadOnce
  <2>5. PICK k \in 1..Len(Files[f]) :
          /\ Files[f][k] = Piece("head", m)
          /\ \A g \in DOMAIN Files : \A l \in 1..Len(Files[g]) :
               Files[g][l] = Piece("head", m) => g = f /\ l = k
    BY <2>4
  <2> DEFINE h == IF f = LogFile THEN now ELSE f
  <2>6. h \in DOMAIN Files' /\ Files'[h] = Files[f]
    <3>1. h \in DOMAIN old'
      BY <1>5, <2>2
    <3>2. old'[h] = Files[f]
      BY <1>5, <2>1, <2>2
    <3> QED
      BY <1>4, <3>1, <3>2
  <2>7. ASSUME NEW g \in DOMAIN Files', NEW l \in 1..Len(Files'[g]), Files'[g][l] = Piece("head", m)
        PROVE  g = h /\ l = k
    <3>1. g # LogFile /\ Origin(g, keep) \in DOMAIN Files /\ Files'[g] = Files[Origin(g, keep)]
      BY <1>3, <2>7
    <3>2. Origin(g, keep) = f /\ l = k
      BY <2>5, <2>7, <3>1
    <3>3. now # LogFile
      <4>1. now \in DOMAIN old'
        BY <2>2
      <4> QED
        BY <1>4, <4>1
    <3> QED
      BY <1>5, <2>1, <3>1, <3>2, <3>3 DEF Origin
  <2> QED
    BY <2>5, <2>6, <2>7 DEF HeadOnce
<1> QED
  BY <1>7, <1>8, <1>9, <1>10, <1>11 DEF LogInv

(* What a write adds, and where.                                           *)
LEMMA Added ==
  ASSUME Base, TypeOK', LockInv, BufferInv, ~raced, NEW t \in Threads, NEW n \in 0..3, Wrote(t, n)
  PROVE  \E x \in Seq(Pieces) :
           /\ cur' = cur \o x
           /\ Len(x) = n /\ \A j \in 1..Len(x) : x[j].msg = msg[t]
           /\ n = LineLen(msg[t]) => Whole(x, torn) /\ x[1] = Piece("head", msg[t])
           /\ \A j \in 1..Len(x) : x[j] = Piece("head", msg[t]) => j = 1
<1> DEFINE m == msg[t]
           x == SubSeq(Line(log_buf, m), 1, n)
<1>1. pc[t] = "write"
  BY DEF Wrote, Goto
<1>2. log_buf \in Buffers /\ m \in 0..MaxMsgs /\ log_buf.head = m /\ log_buf.body = m
  BY <1>1 DEF Base, TypeOK, BufferInv
<1>3. Buf(t) = {log_buf}
  BY DEF Buf, LockInv
<1>4. cur' = cur \o x
  BY <1>3 DEF Wrote, Put
<1>5. /\ x \in Seq(Pieces) /\ Len(x) = n /\ \A j \in 1..Len(x) : x[j].msg = m
      /\ n = LineLen(m) => Whole(x, torn) /\ x[1] = Piece("head", m)
      /\ \A j \in 1..Len(x) : x[j] = Piece("head", m) => j = 1
  <2>1. /\ x \in Seq(Pieces) /\ Len(x) = n /\ \A k \in 1..n : x[k] = Line(log_buf, m)[k]
        /\ Line(log_buf, m)[1] = Piece("head", m) /\ Line(log_buf, m)[2] = Piece("body", m)
        /\ Line(log_buf, m)[3] = Piece("over", m)
    BY <1>2, LineType
  <2> HIDE DEF m, x
  <2>2. /\ n >= 1 => x[1] = Piece("head", m)
        /\ n >= 2 => x[2] = Piece("body", m)
        /\ n >= 3 => x[3] = Piece("over", m)
    BY <2>1
  <2>3. m \in 0..MaxMsgs /\ x \in Seq(Pieces) /\ Len(x) = n
    BY <1>2, <2>1
  <2>4. \A k \in 1..Len(x) : x[k].msg = m
    BY <2>2, <2>3, LineWhole
  <2>5. \A k \in 1..Len(x) : x[k] = Piece("head", m) => k = 1
    BY <2>2, <2>3, LineWhole
  <2>6. n = LineLen(m) => Whole(x, torn)
    BY <2>2, <2>3, LineWhole
  <2>7. n = LineLen(m) => x[1] = Piece("head", m)
    BY <2>2, <2>3, LineWhole
  <2> QED
    BY <2>3, <2>4, <2>5, <2>6, <2>7
<1> HIDE DEF x
<1> QED
  BY <1>4, <1>5

(* The pieces of the files after a write: those that were there, and the   *)
(* new ones at the end of the log file.                                    *)
LEMMA AddedPieces ==
  ASSUME TypeOK, TypeOK', old' = old, NEW x \in Seq(Pieces), cur' = cur \o x
  PROVE  /\ DOMAIN Files' = DOMAIN Files /\ Len(cur) \in Nat /\ Len(x) \in Nat
         /\ \A f \in DOMAIN Files : \A k \in 1..Len(Files[f]) :
              k \in 1..Len(Files'[f]) /\ Files'[f][k] = Files[f][k]
         /\ \A j \in 1..Len(x) :
              Len(cur) + j \in 1..Len(Files'[LogFile]) /\ Files'[LogFile][Len(cur) + j] = x[j]
         /\ \A f \in DOMAIN Files' : \A k \in 1..Len(Files'[f]) :
              \/ k \in 1..Len(Files[f])
              \/ f = LogFile /\ \E j \in 1..Len(x) : k = Len(cur) + j
<1>1. /\ DOMAIN Files' = DOMAIN old' \cup {LogFile} /\ Files'[LogFile] = cur'
      /\ \A s \in DOMAIN old' : Files'[s] = old'[s]
  BY FilesNext
<1>2. /\ DOMAIN Files = DOMAIN old \cup {LogFile} /\ LogFile \notin DOMAIN old /\ Files[LogFile] = cur
      /\ \A s \in DOMAIN old : Files[s] = old[s]
  BY FilesType
<1>3. cur \in Seq(Pieces)
  BY DEF TypeOK
<1>4. /\ Len(cur) \in Nat /\ Len(x) \in Nat /\ Len(cur') = Len(cur) + Len(x)
      /\ \A k \in 1..Len(cur) : cur'[k] = cur[k]
      /\ \A j \in 1..Len(x) : cur'[Len(cur) + j] = x[j]
  BY <1>3, ConcatProperties
<1>5. DOMAIN Files' = DOMAIN Files
  BY <1>1, <1>2
<1>6. ASSUME NEW f \in DOMAIN Files, NEW k \in 1..Len(Files[f])
      PROVE  k \in 1..Len(Files'[f]) /\ Files'[f][k] = Files[f][k]
  <2>1. CASE f = LogFile
    <3>1. k \in 1..Len(cur) /\ k \in 1..Len(cur')
      BY <1>2, <1>4, <1>6, <2>1
    <3> QED
      BY <1>1, <1>2, <1>4, <2>1, <3>1
  <2>2. CASE f # LogFile
    BY <1>1, <1>2, <1>6, <2>2
  <2> QED
    BY <2>1, <2>2
<1>7. ASSUME NEW j \in 1..Len(x)
      PROVE  Len(cur) + j \in 1..Len(Files'[LogFile]) /\ Files'[LogFile][Len(cur) + j] = x[j]
  <2>1. Len(cur) + j \in 1..Len(cur')
    BY <1>4
  <2> QED
    BY <1>1, <1>4, <2>1
<1>8. ASSUME NEW f \in DOMAIN Files', NEW k \in 1..Len(Files'[f]), k \notin 1..Len(Files[f])
      PROVE  f = LogFile /\ \E j \in 1..Len(x) : k = Len(cur) + j
  <2>1. f = LogFile
    BY <1>1, <1>2, <1>8
  <2>2. k \in 1..Len(cur') /\ k \notin 1..Len(cur)
    BY <1>1, <1>2, <1>8, <2>1
  <2>3. k - Len(cur) \in 1..Len(x) /\ k = Len(cur) + (k - Len(cur))
    BY <1>4, <2>2
  <2> QED
    BY <2>1, <2>3
<1> QED
  BY <1>4, <1>5, <1>6, <1>7, <1>8

(* A write adds its own message, which comes last.                         *)
LEMMA WroteLog ==
  ASSUME Base, TypeOK', LockInv, BufferInv, ~raced, LogInv, NEW t \in Threads, NEW n \in 0..3, Wrote(t, n)
  PROVE  LogInv'
<1> USE DEF mutex, logger
<1> DEFINE m == msg[t]
<1>1. TypeOK /\ CallsInv /\ LinesInv /\ DatesInv /\ OrderInv /\ FreshInv /\ LossInv
  BY DEF LogInv, Base
<1>2. /\ UNCHANGED <<calls, msg, now, old>>
      /\ pc[t] = "write" /\ pc'[t] = "unlock" /\ \A u \in Threads : u # t => pc'[u] = pc[u]
  BY GotoType DEF Wrote, Put, Base, Busy, Inside
<1>3. PICK x \in Seq(Pieces) :
        /\ cur' = cur \o x
        /\ Len(x) = n /\ \A j \in 1..Len(x) : x[j].msg = m
        /\ n = LineLen(m) => Whole(x, torn) /\ x[1] = Piece("head", m)
        /\ \A j \in 1..Len(x) : x[j] = Piece("head", m) => j = 1
  BY Added
<1>4. /\ DOMAIN Files' = DOMAIN Files /\ Len(cur) \in Nat /\ Len(x) \in Nat
      /\ \A f \in DOMAIN Files : \A k \in 1..Len(Files[f]) :
           k \in 1..Len(Files'[f]) /\ Files'[f][k] = Files[f][k]
      /\ \A j \in 1..Len(x) :
           Len(cur) + j \in 1..Len(Files'[LogFile]) /\ Files'[LogFile][Len(cur) + j] = x[j]
      /\ \A f \in DOMAIN Files' : \A k \in 1..Len(Files'[f]) :
           \/ k \in 1..Len(Files[f])
           \/ f = LogFile /\ \E j \in 1..Len(x) : k = Len(cur) + j
  BY <1>1, <1>2, <1>3, AddedPieces
<1>5. /\ m \in 1..Len(calls) /\ calls[m].thread = t
      /\ \A i \in 1..Len(calls) : calls[i].thread = t => i <= m
  BY <1>1, <1>2 DEF CallsInv
<1>6. m \notin done /\ Absent(Files, m)
  BY <1>1, <1>2 DEF FreshInv, Pending
<1>7. \A f \in DOMAIN Files' : \A k \in 1..Len(Files'[f]) :
        \/ k \in 1..Len(Files[f]) /\ Files'[f][k] = Files[f][k]
        \/ f = LogFile /\ k \notin 1..Len(Files[f]) /\ Files'[f][k].msg = m
           /\ \E j \in 1..Len(x) : k = Len(cur) + j /\ Files'[f][k] = x[j]
  <2> SUFFICES ASSUME NEW f \in DOMAIN Files', NEW k \in 1..Len(Files'[f]), k \notin 1..Len(Files[f])
               PROVE  /\ f = LogFile /\ Files'[f][k].msg = m
                      /\ \E j \in 1..Len(x) : k = Len(cur) + j /\ Files'[f][k] = x[j]
    BY <1>4
  <2>1. f = LogFile /\ \E j \in 1..Len(x) : k = Len(cur) + j
    BY <1>4
  <2>2. PICK j \in 1..Len(x) : k = Len(cur) + j
    BY <2>1
  <2>3. Files'[f][k] = x[j]
    BY <1>4, <2>1, <2>2
  <2> QED
    BY <1>3, <2>1, <2>2, <2>3
<1>8. /\ DOMAIN Files = DOMAIN old \cup {LogFile} /\ Files[LogFile] = cur /\ LogFile \notin DOMAIN old
      /\ \A s \in DOMAIN old : Files[s] = old[s] /\ s \in Int /\ s < LogFile
      /\ \A f \in DOMAIN Files : Files[f] \in Seq(Pieces) /\ f \in Int
      /\ LogFile \in Int
  BY <1>1, FilesType
<1>9. /\ Files'[LogFile] = cur' /\ \A s \in DOMAIN old : Files'[s] = old[s]
      /\ \A f \in DOMAIN Files' : Len(Files'[f]) \in Nat
  BY <1>2, FilesNext
<1>10. torn \subseteq torn' /\ done \subseteq done' /\ done' \subseteq done \cup {m}
       /\ ((n = LineLen(m) /\ torn' = torn) \/ m \in torn')
  BY DEF Wrote
<1>11. LinesInv'
  <2>1. ASSUME NEW s \in DOMAIN old PROVE Whole(Files'[s], torn')
    <3>1. Files'[s] = Files[s] /\ Whole(Files[s], torn)
      BY <1>1, <1>8, <1>9 DEF LinesInv
    <3> QED
      BY <1>10, <3>1 DEF Whole
  <2>2. Whole(Files'[LogFile], torn')
    <3>1. cur \in Seq(Pieces) /\ Whole(cur, torn)
      BY <1>1, <1>8 DEF LinesInv, TypeOK
    <3>2. m \in torn' \/ Whole(x, torn')
      BY <1>3, <1>10
    <3>3. Whole(cur \o x, torn')
      BY <1>3, <1>10, <3>1, <3>2, WholeAdded
    <3> QED
      BY <1>3, <1>9, <3>3
  <2>3. ASSUME NEW f \in DOMAIN Files' PROVE Named(Files'[f], Len(calls))
    <3> SUFFICES ASSUME NEW k \in 1..Len(Files'[f])
                 PROVE  Files'[f][k].msg \in 1..Len(calls)
      BY DEF Named
    <3>1. CASE k \in 1..Len(Files[f])
      <4>1. Files'[f][k] = Files[f][k] /\ Named(Files[f], Len(calls))
        BY <1>1, <1>4, <3>1 DEF LinesInv
      <4> QED
        BY <3>1, <4>1 DEF Named
    <3>2. CASE k \notin 1..Len(Files[f])
      BY <1>5, <1>7, <3>2
    <3> QED
      BY <3>1, <3>2
  <2>4. done' \subseteq 1..Len(calls)
    BY <1>1, <1>5, <1>10 DEF LinesInv
  <2> QED
    BY <1>2, <1>4, <1>8, <2>1, <2>2, <2>3, <2>4 DEF LinesInv
<1>12. DatesInv'
  BY <1>1, <1>2 DEF DatesInv
<1>13. OrderInv'
  <2> SUFFICES ASSUME NEW f \in DOMAIN Files', NEW g \in DOMAIN Files',
                      NEW k \in 1..Len(Files'[f]), NEW l \in 1..Len(Files'[g]),
                      f < g \/ (f = g /\ k < l),
                      calls[Files'[f][k].msg].thread = calls[Files'[g][l].msg].thread
               PROVE  Files'[f][k].msg <= Files'[g][l].msg
    BY <1>2 DEF OrderInv, Ordered
  <2>1. f \in DOMAIN Files /\ g \in DOMAIN Files /\ f \in Int /\ g \in Int
    BY <1>4, <1>8
  <2>2. CASE k \in 1..Len(Files[f]) /\ l \in 1..Len(Files[g])
    <3>1. Files'[f][k] = Files[f][k] /\ Files'[g][l] = Files[g][l]
      BY <1>4, <2>1, <2>2
    <3> QED
      BY <1>1, <2>1, <2>2, <3>1 DEF OrderInv, Ordered
  <2>3. CASE k \in 1..Len(Files[f]) /\ l \notin 1..Len(Files[g])
    <3>1. Files'[g][l].msg = m /\ Files'[f][k] = Files[f][k]
      BY <1>4, <1>7, <2>1, <2>3
    <3>2. Files[f][k].msg \in 1..Len(calls)
      BY <1>1, <2>1, <2>3 DEF LinesInv, Named
    <3> QED
      BY <1>5, <3>1, <3>2
  <2>4. CASE k \notin 1..Len(Files[f])
    <3>1. f = LogFile /\ Files'[f][k].msg = m
      BY <1>7, <2>4
    <3>2. g = LogFile
      BY <1>8, <2>1, <3>1
    <3>3. f = g /\ k < l
      BY <1>8, <3>1, <3>2
    <3>4. l \notin 1..Len(Files[g])
      <4>1. Len(Files[g]) \in Nat /\ k \in Int /\ k >= 1 /\ l \in Int
        BY <1>4, <1>8, <3>2
      <4> QED
        BY <2>4, <3>3, <4>1
    <3>5. Files'[g][l].msg = m
      BY <1>7, <3>4
    <3>6. m \in Int
      BY <1>5
    <3> QED
      BY <3>1, <3>5, <3>6
  <2> QED
    BY <2>2, <2>3, <2>4
<1>14. FreshInv'
  <2> SUFFICES ASSUME NEW u \in Threads, pc'[u] \in Pending
               PROVE  msg[u] \notin done' /\ Absent(Files', msg[u])
    BY <1>2 DEF FreshInv
  <2>1. u # t /\ pc[u] \in Pending /\ pc[u] # "idle"
    BY <1>2 DEF Pending
  <2>2. msg[u] # m
    BY <1>1, <1>5, <2>1 DEF CallsInv
  <2>3. msg[u] \notin done /\ Absent(Files, msg[u])
    BY <1>1, <2>1 DEF FreshInv
  <2> QED
    BY <1>4, <1>7, <1>10, <2>2, <2>3 DEF Absent
<1>15. LossInv'
  <2> SUFFICES ASSUME ~lossy', NEW i \in done' PROVE HeadOnce(Files', i)
    BY DEF LossInv
  <2>1. ~lossy /\ (n = LineLen(m) \/ done' = done)
    BY DEF Wrote
  <2>2. Piece("head", i).msg = i /\ Piece("head", m).msg = m
    BY DEF Piece
  <2>3. CASE i = m
    <3>1. n = LineLen(m) /\ n >= 1
      <4>1. LineLen(m) >= 1
        BY DEF LineLen
      <4> QED
        BY <1>6, <2>1, <2>3, <4>1
    <3>2. 1 \in 1..Len(x) /\ x[1] = Piece("head", m)
      BY <1>3, <3>1
    <3>3. Len(cur) + 1 \in 1..Len(Files'[LogFile]) /\ Files'[LogFile][Len(cur) + 1] = Piece("head", m)
      BY <1>4, <3>2
    <3>4. ASSUME NEW g \in DOMAIN Files', NEW l \in 1..Len(Files'[g]), Files'[g][l] = Piece("head", m)
          PROVE  g = LogFile /\ l = Len(cur) + 1
      <4>1. l \notin 1..Len(Files[g])
        BY <1>4, <1>6, <2>2, <3>4 DEF Absent
      <4>2. g = LogFile /\ \E j \in 1..Len(x) : l = Len(cur) + j /\ Files'[g][l] = x[j]
        BY <1>7, <3>4, <4>1
      <4>3. PICK j \in 1..Len(x) : l = Len(cur) + j /\ Files'[g][l] = x[j]
        BY <4>2
      <4>4. j = 1
        BY <1>3, <3>4, <4>3
      <4> QED
        BY <4>2, <4>3, <4>4
    <3>5. LogFile \in DOMAIN Files'
      BY <1>4, <1>8
    <3> QED
      BY <2>3, <3>3, <3>4, <3>5 DEF HeadOnce
  <2>4. CASE i # m
    <3>1. i \in done
      BY <1>10, <2>4
    <3>2. HeadOnce(Files, i)
      BY <1>1, <2>1, <3>1 DEF LossInv
    <3>3. PICK f \in DOMAIN Files : \E k \in 1..Len(Files[f]) :
            /\ Files[f][k] = Piece("head", i)
            /\ \A g \in DOMAIN Files : \A l \in 1..Len(Files[g]) :
                 Files[g][l] = Piece("head", i) => g = f /\ l = k
      BY <3>2 DEF HeadOnce
    <3>4. PICK k \in 1..Len(Files[f]) :
            /\ Files[f][k] = Piece("head", i)
            /\ \A g \in DOMAIN Files : \A l \in 1..Len(Files[g]) :
                 Files[g][l] = Piece("head", i) => g = f /\ l = k
      BY <3>3
    <3>5. f \in DOMAIN Files' /\ k \in 1..Len(Files'[f]) /\ Files'[f][k] = Piece("head", i)
      BY <1>4, <3>4
    <3>6. ASSUME NEW g \in DOMAIN Files', NEW l \in 1..Len(Files'[g]), Files'[g][l] = Piece("head", i)
          PROVE  g = f /\ l = k
      <4>1. l \in 1..Len(Files[g]) /\ Files'[g][l] = Files[g][l]
        BY <1>7, <2>2, <2>4, <3>6
      <4> QED
        BY <1>4, <3>4, <3>6, <4>1
    <3> QED
      BY <3>5, <3>6 DEF HeadOnce
  <2> QED
    BY <2>3, <2>4
<1> QED
  BY <1>11, <1>12, <1>13, <1>14, <1>15 DEF LogInv

(* Every step keeps what the files promise, unless it begins a race.       *)
LEMMA LogStep ==
  ASSUME Base, LockInv, BufferInv, LogInv, [Next]_vars
  PROVE  LogInv'
<1> SUFFICES ASSUME ~raced' PROVE LogInv'
  BY DEF LogInv
<1>1. ~raced /\ TypeOK'
  BY RacedStays, TypeStep
<1> QED
  BY <1>1, Kinds, StillLog, CallLog, TurnedLog, WroteLog

(* The files are empty at first.                                           *)
LEMMA InitIInv == Init => IInv
<1> SUFFICES ASSUME Init PROVE IInv
  OBVIOUS
<1>1. Base /\ LockInv
  BY InitBase, InitLock
<1>2. BufferInv
  BY DEF Init, BufferInv
<1>3. SizeInv
  <2>1. Len(cur) = 0 /\ inits = 0 /\ UseLimit \in Nat /\ UseLimit >= 1
    BY Constants, NoPieces DEF Init
  <2>2. Len(cur) <= (UseLimit - 1) + 3 * inits
    BY <2>1
  <2> QED
    BY <2>2 DEF Init, SizeInv, MaxLine
<1>4. DOMAIN old = {} /\ cur = <<>> /\ done = {} /\ Len(cur) = 0
  BY NoPieces DEF Init
<1>5. DOMAIN Files = {LogFile} /\ Files[LogFile] = cur
  BY <1>4 DEF Files
<1>6. \A f \in DOMAIN Files : \A k \in 1..Len(Files[f]) : FALSE
  BY <1>4, <1>5
<1>7. LinesInv
  BY <1>4, <1>6 DEF LinesInv, Whole, Named
<1>8. OrderInv
  BY <1>6 DEF OrderInv, Ordered
<1>9. DatesInv /\ LossInv
  BY <1>4 DEF DatesInv, LossInv
<1>10. FreshInv
  BY DEF Init, FreshInv, Pending
<1> QED
  BY <1>1, <1>2, <1>3, <1>7, <1>8, <1>9, <1>10 DEF IInv, LogInv

(***************************************************************************)
(* The inductive invariant of a logger with its lock enabled.              *)
(***************************************************************************)
THEOREM Invariance ==
  ASSUME EnableLock
  PROVE  Spec => []IInv
<1>1. IInv /\ [Next]_vars => IInv'
  <2> SUFFICES ASSUME IInv, [Next]_vars PROVE IInv'
    OBVIOUS
  <2>1. Base /\ LockInv /\ BufferInv /\ SizeInv /\ LogInv
    BY DEF IInv
  <2> QED
    BY <2>1, BaseStep, LockStep, BufferStep, SizeStep, LogStep DEF IInv
<1> QED
  BY <1>1, InitIInv, PTL DEF Spec

(***************************************************************************)
(* The line of a message whose own write did not fail is in one piece,     *)
(* whoever else is logging, whatever else has failed, and also behind a    *)
(* line that was torn.                                                     *)
(***************************************************************************)
THEOREM LinesWholeTheorem ==
  ASSUME EnableLock
  PROVE  Spec => []LinesWhole
<1>1. IInv => LinesWhole
  BY DEF IInv, LogInv, LinesInv, Whole, LinesWhole
<1> QED
  BY <1>1, Invariance, PTL

(***************************************************************************)
(* The log file passes its limit by the end of one line, and by a further  *)
(* line per reset, at most.                                                *)
(***************************************************************************)
THEOREM FileBoundedTheorem ==
  ASSUME EnableLock
  PROVE  Spec => []FileBounded
<1>1. IInv => FileBounded
  BY DEF IInv, SizeInv, FileBounded
<1> QED
  BY <1>1, Invariance, PTL

(***************************************************************************)
(* The files read as a chronicle of every thread, in the order of their    *)
(* names, whatever failed.                                                 *)
(***************************************************************************)
THEOREM ChronicleTheorem ==
  ASSUME EnableLock
  PROVE  Spec => []Chronicle
<1>1. IInv => Chronicle
  <2> SUFFICES ASSUME IInv, ~raced PROVE Chronicle
    BY DEF Chronicle
  <2>1. TypeOK /\ CallsInv /\ LinesInv /\ DatesInv /\ OrderInv
    BY DEF IInv, Base, LogInv
  <2>2. ASSUME NEW f \in DOMAIN Files, NEW g \in DOMAIN Files,
               NEW k \in 1..Len(Files[f]), NEW l \in 1..Len(Files[g]),
               f < g \/ (f = g /\ k < l),
               calls[Files[f][k].msg].thread = calls[Files[g][l].msg].thread
        PROVE  /\ Files[f][k].msg <= Files[g][l].msg
               /\ calls[Files[f][k].msg].time <= calls[Files[g][l].msg].time
    <3>1. Files[f][k].msg \in 1..Len(calls) /\ Files[g][l].msg \in 1..Len(calls)
      BY <2>1 DEF LinesInv, Named
    <3>2. Files[f][k].msg <= Files[g][l].msg
      BY <2>1, <2>2 DEF OrderInv, Ordered
    <3> QED
      BY <2>1, <3>1, <3>2 DEF CallsInv
  <2> QED
    BY <2>1, <2>2 DEF Chronicle, DatesInv
<1> QED
  BY <1>1, Invariance, PTL

(* One head is one place.                                                  *)
LEMMA OnePlace ==
  ASSUME NEW m, HeadOnce(Files, m)
  PROVE  Cardinality(Places(m)) = 1
<1>1. PICK f \in DOMAIN Files : \E k \in 1..Len(Files[f]) :
        /\ Files[f][k] = Piece("head", m)
        /\ \A g \in DOMAIN Files : \A l \in 1..Len(Files[g]) :
             Files[g][l] = Piece("head", m) => g = f /\ l = k
  BY DEF HeadOnce
<1>2. PICK k \in 1..Len(Files[f]) :
        /\ Files[f][k] = Piece("head", m)
        /\ \A g \in DOMAIN Files : \A l \in 1..Len(Files[g]) :
             Files[g][l] = Piece("head", m) => g = f /\ l = k
  BY <1>1
<1>3. <<f, k>> \in Places(m)
  BY <1>2 DEF Places
<1>4. ASSUME NEW p \in Places(m) PROVE p = <<f, k>>
  <2>1. PICK g \in DOMAIN Files : p \in {g} \X (1..Len(Files[g]))
    BY DEF Places
  <2>2. p = <<p[1], p[2]>> /\ p[1] = g /\ p[2] \in 1..Len(Files[g]) /\ Files[p[1]][p[2]] = Piece("head", m)
    BY <2>1 DEF Places
  <2> QED
    BY <1>2, <2>2
<1>5. Places(m) = {<<f, k>>}
  BY <1>3, <1>4
<1> QED
  BY <1>5, FS_Singleton

(***************************************************************************)
(* What log_append returned true for is in exactly one place, unless a     *)
(* rename or a flush failed or a file's name came up twice.                *)
(***************************************************************************)
THEOREM NoLineLostTheorem ==
  ASSUME EnableLock
  PROVE  Spec => []NoLineLost
<1>1. IInv => NoLineLost
  <2> SUFFICES ASSUME IInv, ~lossy, ~raced, NEW m \in done
               PROVE  Cardinality(Places(m)) = 1
    BY DEF NoLineLost
  <2>1. HeadOnce(Files, m)
    BY DEF IInv, LogInv, LossInv
  <2> QED
    BY <2>1, OnePlace
<1> QED
  BY <1>1, Invariance, PTL

=============================================================================
