# A TLA+ development of armory

armory is a collection of small libraries and tools in C, C++, Go and shell. Each is a program of its own;
they share no state, so the modules here are one family per component rather than one composed system. What they have in common is the queue:
`CasQueue` and `SnailQueue` are both shown to implement the same abstract `FifoQueue`.

Paths below are relative to `src/`.

## Inventory

| Component | State | Operations | What is hard about it | What makes it correct |
|---|---|---|---|---|
| `common/cas_queue.hpp` | ring of slots, four atomic counters | constructor, `enqueue`, `dequeue`, `size`, `empty` | threads between any two atomic accesses; plain copies of elements; indices that wrap | FIFO order, elements whole and once, no overrun, truthful answers *full* and *empty*, calls return |
| `common/snail_queue` | ring, `head`, `tail`, `size` in `uint16` | create, `Enqueue`, `Dequeue`, two traversals with callbacks | arithmetic at the edge of `uint16`; callbacks that call the queue | FIFO order, capacity as asked for, traversals visit the queue |
| `common/easy_log` | global logger: stream, buffer, mutex; files | init/reset, destroy, `log_get_level`, `log_append` with rotation | a buffer shared by threads; times taken outside the lock; failures in the middle of a rotation or of a line; a reset beside logging, which takes no lock | whole lines, none lost, in order, bounded file, mutex released |
| `common/utils_singleton` | pid file, its lock, processes | `is_proc_running`, `proc_usurpation` | processes at once, crashes, SIGKILL under way, reused process numbers | one instance among those that can open the pid file, the file names it, the usurper takes over |
| `common/thread_pool` | contexts, round-robin index, threads | create, push, destroy | threads that exit or are cancelled beside the owner, calls that fail half-way | one thread per context, none left behind, fair turns, accepted data is consumed |
| `classic_sort` | an array | six sorting algorithms | aliasing in an XOR exchange, reads past a run | sorted permutation |
| `formatted_text` | lines in memory; file, backup, output | check, format | a crash after the file was emptied; unchecked writes; state kept between calls | text kept, lines set off as asked, backup usable |
| `common/utils_daemon` | three processes, their sessions and descriptors | `become_daemon` | each step may fail; a hangup at any moment, also by the exit of the caller | one process comes back, and with 0 only when it is detached for good |
| `common/http_peek` | a buffer, a position, the output kept between calls | `peek_http_request`, `peek_http_response` | a message cut off at any byte; bounds of every read | stays within the buffer, accepts when complete and not before, reports what was sent |
| `dictionary` | SQLite cache, web page | look up a word | two processes, page contents | cached entry is right, no duplicates |
| `boring_tools` | arguments | traffic control, loops, converters | integer arithmetic | documented sums and formats |
| `common/utils_library`, `debug_print.h`, small scripts | none | wrappers | nothing | nothing of their own |

The components do not interact, with two exceptions inside components: the callbacks of `snail_queue` and `thread_pool` are
the caller's code and may call back or run beside it, and `easy_log`, `utils_singleton` and `utils_daemon` meet the file system and the kernel. These outsides are
modelled from how the code uses them.

## Modules

| Module | What it is |
|---|---|
| `FifoQueue` | abstract bounded FIFO queue |
| `CasQueue` | the lock-free ring, one step per atomic access and per word copied |
| `CasQueueSize` | the constructor: from the size asked for to the number of slots |
| `CasQueueWindows` | `CasQueue` with history: was the queue empty, or full, during the call? |
| `CasQueueSP` | one producer, and when its indices may wrap: the inductive invariant |
| `RingArith`, `CasQueueProofs` | arithmetic of indices modulo a size; the proofs |
| `SnailQueue`, `SnailQueueProofs` | the sequential ring; the proofs |
| `EasyLog`, `EasyLogProofs` | the logger, its threads, files and failures; the proofs |
| `Singleton`, `SingletonProofs` | processes, the pid file and its lock; the proofs |
| `ThreadPool`, `ThreadPoolProofs` | the owner of the pool and its threads; the proofs |
| `ClassicSort` | the algorithms as operators |
| `TextLine`, `FormattedText`, `FormattedTextProofs` | functions on a line; the work on files, whatever these functions are; its proofs |
| `HttpPeek`, `HttpGrammar`, `HttpPeekProofs` | the parser, byte by byte; what it has to find in a message, as a grammar; the proofs |
| `Daemon` | the double fork |
| `MCCasQueueSP`, `MCFormattedText`, `MCHttpPeek` | for TLC: a symmetry set, the input files with `TextLine` as the formatter, the messages |

Conventions. Variables and actions have the names of the fields and functions they model; where a function takes several steps,
the steps are actions of their own and the function is their disjunction (`enqueue`, `log_append`, `is_proc_running`).
Definitions marked *Variant with a fault* precede the definition they alter. They are used by nothing in the
specifications: each stands for a plausible mistake in the code, and replacing the definition by it makes a property fail.
`Faults` constants list what the environment may do wrong in a run.

### How state and actions correspond to the code

* **CasQueue.** `read_idx`, `write_idx`, `last_write_idx`, `length` are the atomics, modulo `IdxMod` (2^32 in the code). A thread's `pc`
  says which atomic access is next. An element is two words and is copied one word per step, so that overlapping copies show. A weak
  compare-and-swap may fail although the values agree, and stores the value found into `curr_write_idx` or `curr_read_idx`; in the publishing
  loop (`cas_queue.hpp:97`) that is the value the next attempt expects. `claimed` and `delivered` are histories.
  `CasQueueSize` computes `Size` as the constructor does, with shifts modulo `IdxMod`, and shows that every result meets `CasQueueAssumption`.
* **SnailQueue.** The struct's fields, modulo `Width` (2^16). A traversal is a loop of steps; between two of them its callback may call `Enqueue` and
  `Dequeue` any number of times, in any order (`MayCall`). A panic is the status `"panic"`.
* **EasyLog.** What is written for a message is a sequence of pieces: its head, its body and, for a message longer than the buffer (`LongMsgs`), what lies behind the buffer. `cur` is the
  file, in pieces, `old` the renamed ones by the second in their name; sizes and the limit are counted in pieces too, so that a line reaches beyond the limit. A write that fails may leave any part of its line in the file (`torn`); nothing stays in the
  stream, as the C libraries drop what a failed `fflush` could not write. `init_easy_log` is a step for every assignment that other threads see: `g_log` (67), `enable_lock` (76), the mutex (77), file and level (81, 90). `g_log` is read anew wherever the code reads it, so that
  a thread goes on with the logger a reset has put in place, with its lock or without; `raced` records that this has happened, `stale` who still has a pointer into the freed one (its mutex, or `log_buf`). Using it may end the program or not (`UseFreed` beside the ordinary steps). `lossy` records that a rename or a flush
  failed, or that two rotations took the same name. The time in the head is taken when the call begins, before the lock. `ftell` is 0 after `fopen("ab+")` until something is written, as glibc does.
* **Singleton.** `st[p]` is the system call process `p` is at. A lock has one owner and dies with it. `doomed` are processes with a SIGKILL on its way. `open`, `fcntl`, `ftruncate` and `dprintf` may each
  fail (`IOFails`); a number written over another, or in part, may come out as that of any process. The number of a process that ended may be given to another, also to one of some other program (`foreign`).
* **ThreadPool.** `pc` and `at` say where the owner is in a call; `threads` are all threads ever created, with their state. `inbox` belongs to the
  parameters, as `push_cb` and `thread_cb` are the program's.
* **ClassicSort.** Arrays are functions on `0..n-1`. A search loop is given by where it stops, a counting loop by a fold. `swap_value` zeroes
  an element exchanged with itself. `merger` keeps the stale part of its buffer, since it reads one element of it.
* **TextLine, FormattedText.** Characters are of five kinds: those `IS_CH` holds of, parentheses, others, spaces and tabs. Opening a stream for writing empties the file; the lines
  reach it at the close, or in parts when the file is larger than the stream's buffer (fault `"large"`). `excused` records the events after which the
  program promises nothing: overwriting without `-b`, formatting a file that a crash cut off, an error that ended the reading (`getline` returns it as the end of the file), and writes that did not reach the disk.
  A failure inside `file_is_elf` ends the program (`ElfTestExit`).
  `FormattedText` has what is done to one line as constants, `FormatLine` and `CheckLine`, of which it assumes that only blanks come and go (`FormatterAssumption`); `MCFormattedText` gives them the definitions of
  `TextLine`, and TLC evaluates the assumption for every line of the run.
* **HttpPeek.** `sent` is the message, `len` what has arrived of it; after every byte the caller peeks again with the same `p_head`, zeroed at
  first. Every byte looked at is a step, also the row that `get_token_to_eol` reads without asking for the end (`unread`; 8 in the code, `Unroll` here). Bytes are of the kinds that
  the macros and `token_char_map` tell apart; texts in `p_head` are pairs of position and length.
* **Daemon.** Processes 1 to 3 are the caller, child and grandchild, each a record with the call it is at, session, group, disposition of SIGHUP,
  descriptors and the locals of `become_daemon`. `fork` copies the record. Sessions have a terminal or not (`ttys`); the exit of a leader, or the user, hangs it up. The kernel's rules (who
  may call `setsid`, which descriptor `open` returns, who acquires a terminal) are modelled as POSIX states them.

## Runs that pass

| Run | What it checks, and the bounds |
|---|---|
| `CasQueue_spmc` | One producer, two consumers, 4 slots, 6 elements, so once and a half round the ring: `Fifo`, `NoOverrun`, `PublishedIsWritten`; and `RoundsUp` for all sizes to half of a `uint32_t` of 10 bits, in which all shifts but the last have bits to move. The consumers are interchangeable and no property is temporal, so symmetry is sound. |
| `CasQueue_wrap` | One producer, one consumer, indices modulo 8 and 11 elements, so that every index wraps: the queue implements `FifoQueue`; a call that answers *empty* or *full* ran while the queue was (`RefusalsWereReal`). |
| `CasQueue_mpmc` | Two producers, two consumers, 4 slots, 2 elements: `LengthAccounting`, also while `_length` is below zero; `CallsReturn`. With 4 slots both producers hold a reserved slot at once, so that each of the three compare-and-swaps is lost to another thread, the publishing one (97) too; how often they are lost is bounded by the two elements, and by `Fairness`. |
| `SnailQueue_walk` | `uint16` as modulo 6, capacities 0 (the default), 1, 3, 4 and the wrapping 5, limits 0 and 2, callbacks that make any number of calls, 5 elements taken, so that head and tail pass slot 0 and a callback may empty the ring and fill it again: `SizeIsDistance`, `FullAtCapacity`, `VisitsQueued` (while the callback has dequeued no more than it was given), `TraversalComplete` (unless the tail comes round to the index), implements `FifoQueue`. |
| `Singleton_lock` | Three process numbers and four starts, so that one number is used again; deaths, programs that have nothing to do with this one, and every call that fails: `OneInstance`, `PidFileNamesOwner`, `UsurperReturns`. Three are needed for a usurper, its victim and one that comes between. |
| `EasyLog_append` | Two threads, three messages, one of them short and two longer than the buffer, a limit of two pieces, so that every line reaches or passes it, two seconds, two initialisations and a destruction at any time, every failure, also inside a line: `LinesWhole`, `NoLineLost` (unless `lossy`), `Chronicle`, `FileBounded`, `LockHeldInside`, `AppendReturns` (unless the program has crashed). All but the types are claimed until a reset comes under a thread that is logging (`raced`). The third message is logged only in behaviours without that (`MaxRaced = 2`): a reset that comes under one or two messages shows what it can do. |
| `ThreadPool_pool` | Two pools in turn, three pushes each, up to two contexts, the largest count of an index modulo 3, every failure: `OneThreadPerContext`, `NoneLeftRunning`, `Balanced` (the n-th push goes to context n - 1 modulo their number), `AcceptedIsConsumed`. |
| `ClassicSort_bounded` | All arrays of up to 6 of 4 values, enough for several gaps of shell sort and three levels of merging: `Sorts`. |
| `FormattedText_files` | Every line of up to 3 characters of 5 kinds as a file, some longer ones, and files of two lines, with and without final newline; three calls with five sets of flags; crashes, failing opens and reads, full disks and files written in parts: `SavesTheLines`, `SavedIsFormatted`, `FailureHarmless`, `Recoverable`. |
| `HttpPeek_bytes` | 2548 messages put together from parts (`MCHttpPeek`), in each at most one part malformed, responses with and without a reason phrase or with text glued to the status code, and rows of 4 bytes, so that tokens are shorter than, as long as and longer than a row: `StaysInside`, `ParsesWhatWasSent`. First lines and headers vary in turn, since `parse_header` keeps nothing of the line before it. TLC also evaluates `MessagesAgreed`: the grammar of `HttpGrammar` finds in each message the parts it was put together from. |
| `Daemon_detach` | The caller leads its session, its group or neither, with or without a terminal and with any of its descriptors closed; every call fails or not: `Detached`, `OneReturns`, `SomebodyReturns`. The model has no bound. |

Deadlock is checked for the queue of threads, where a consumer can always begin another call. The other configurations turn it off because calls, process numbers or inputs are bounded, and
the program stops when they are used up.

### Fairness

* `CasQueue!FairSpec`: a call that has begun is scheduled; a compare-and-swap that could succeed again and again does so at last: it neither fails spuriously nor is overtaken for ever
  (strong fairness of the succeeding step). A lock-free queue does not guarantee the latter; it is assumed, and what `CallsReturn` shows is that no sequence of lost attempts leaves a thread waiting for what can never come. No thread need begin a call.
* `Singleton!FairSpec`: processes are scheduled and signals arrive; a process that asks again and again for a lock that is free gets it (strong fairness of `SetLock`), as `fcntl` does not fail for ever. Nobody need start or end.
* `EasyLog!FairSpec`: a logging thread is scheduled, the mutex is handed on (strong fairness of taking it), time passes.
* `Daemon!Spec`: a process inside the call is scheduled. No terminal need be hung up or opened.
* `ThreadPool!FairSpec`: threads are scheduled, and so is the owner inside a call; a `thread_cb` keeps taking from its inbox until it returns (then `Deserted` excuses what is left in it) or is cancelled.

## What the code does otherwise than it says

The first is a run whose property states a comment of the code, and which TLC refutes: in `CasQueue_v_published`, with two producers, a failed
publish replaces the expected index (`cas_queue.hpp:97`), and a slot is published unwritten.

The models show more of the kind. Each line gives the invariant or property to check and the constants that differ from the run of the component.

| Component | Check | Behaviour |
|---|---|---|
| `CasQueue` | `NoOverrun`, two producers, `MaxOps = 4` | a stale `_read_idx` lets the ring be overrun: the compare-and-swap protects `_write_idx` only |
| `CasQueue` | `size <= Size - 1` | `size()` wraps below zero when a consumer counts before the producer |
| `CasQueue` | `Fifo`, two consumers, `Size = 2`, `IdxMod = 4`, `MaxOps = 6` | a consumer that sleeps while the index goes once through all its values delivers a stale copy |
| `CasQueueSize` | `cas_queue_t(0)`, `cas_queue_t(IdxMod \div 2 + 1)` | half the range, and no slot at all |
| `CasQueueWindows` | `RefusalsWereReal`, two consumers, `MaxOps = 5` | *empty* on a queue that was not, a whole turn after `_read_idx` was loaded |
| `SnailQueue` | `status # "panic"` | capacity 65535 becomes 0 and `Enqueue` divides by it; `ReverseTraversal` does not test for a nil queue |
| `SnailQueue` | `VisitsQueued` without `Gone <= Len(seen)` | a callback that dequeues more elements than it was given is handed elements that are no longer queued (`snail_queue.go:88`) |
| `SnailQueue` | `TraversalComplete` without `~Lapped`, and without `added = <<>>` | a callback that dequeues and enqueues until the tail comes round to the index ends the traversal early; one that enqueues under a reverse traversal writes over elements still to come |
| `Singleton` | `[][\A p \in Pids : UsurpKill(p) => buf[p] # p /\ st[buf[p]] # "foreign"]_vars` | a number that is out of date, or that old digits are left behind: another program, or the usurper itself, is killed (`utils_singleton.c:61`), where the header says `kill the existing process, then replace it` |
| `Singleton` | `{st[p], st[q]} \subseteq {"run", "run_nameless", "run_unlocked"} => p = q` for all `p`, `q` | whoever cannot open the pid file is told that no other process runs (`utils_singleton.c:20-24`): any number of instances |
| `Singleton` | `UsurperReturns` without `reborn` | the number it sent the signal to is given to a new process, which gets the lock: the usurper does not kill again and waits for it |
| `Singleton` | `\A p \in Pids : (st[p] = "u_open") ~> (st[p] \in Settled)` | `proc_usurpation` reads the pid file once, before it waits (`utils_singleton.c:59`); when the new owner has not written it yet nobody is killed, and the usurper waits for ever, where the header says `kill the existing process, then replace it` |
| `EasyLog` | `LinesWhole`, `NoLineLost`, `FileBounded`, `LockHeldInside`, `AppendReturns`, each without `raced`; `crashed # "freed log"` | a reset frees and replaces the logger under a thread that is logging, and shows the new one before its mutex is made (`easy_log.c:65-77`): lines mix or are lost, a thread waits for ever, or the program uses freed memory, where the header says `thread-safe, if the lock was enabled` (`easy_log.h:28`) |
| `EasyLog` | `~raced /\ inits = 1 => Len(cur) <= UseLimit` | `ftell` is asked before the line is written (`easy_log.c:126`): the file passes `LOG_USE_LIMIT` by the end of a line with no reset at all, and by a line more with each, as `ftell` is 0 on a file that was just opened |
| `EasyLog` | no piece has the part `"over"` | a message above `LOG_LEN_LIMIT` writes what lies behind the buffer (`easy_log.c:188`) |
| `EasyLog` | `LinesWhole` without `torn`; `NoLineLost` without `~lossy` | `fwrite` or `fflush` fails in the middle of a line, which stays in the file, and of `fflush` nobody is told (`easy_log.c:190-196`); a rename that fails goes unnoticed and the file is emptied; so do two rotations in one second |
| `EasyLog` | `Chronicle` for the times of two threads | lines change places, as the time is taken before the lock |
| `EasyLog` | `crashed # "null log"`, `crashed = "null stream" => raced` | null pointers used in front of the tests for them: before `init_easy_log` (`easy_log.c:160`) and before it has opened the file, or after a rotation that could not (126) |
| `ThreadPool` | `result \in {0, -1}` | a positive error number of `pthread_create` where the header documents -1 |
| `FormattedText` | with `-i`, in every line `l` that is saved, `((l[k] \in {"c", "p"}) # (l[k+1] \in {"c", "p"})) => "s" \in {l[k], l[k+1]}` for all `k` | the repository's `README.md:33` says that spaces are added to the ASCII characters 32 to 127 in a text: the code lets the first two characters of a line touch (`formatted_text.cpp:231`, 237) and takes parentheses for neither sort (22). `Separated`, which `SavedIsFormatted` uses, says what it does do |
| `FormattedText` | `Succeeded => ~CheckLine(l, flags)` for the saved lines | `-i` adds a space at the end of a line; with `-i -e` the check is never satisfied |
| `FormattedText` | `SavesTheLines` without the excuse `"read"` | an error while reading counts as the end of the file (`formatted_text.cpp:119-125`): the rest is cut off, and the call succeeds |
| `FormattedText` | `Succeeded /\ "b" \in flags => file["bak"] = start` | the backup gains a final newline |
| `FormattedText` | `Recoverable` without the excuses `"backup"` and `"cut"` | a full disk loses file and backup; so does a second run on a file that a crash cut off |
| `FormattedText` | `SavesTheLines`, `Reuse = TRUE` | a second call with one officer saves the first file's lines as well |
| `HttpPeek` | `StaysInside` without `LoneEmptyLine` | a request of which only an empty line has arrived: `parse_token` reads the byte behind it (`http_peek.c:232`), where its comment says `within [buf, buf_end)` |
| `HttpPeek` | `pc = "idle" /\ result => p_head = sent.fields` | the reason phrase goes to `value`, and the header after it takes its place: `msg` and `msg_len` (`http_peek.h:27-28`) are never assigned, where the comment says `get message including preceding space` (`http_peek.c:291`). `ParsesWhatWasSent` says so with `Reported` |
| `HttpPeek` | `pc = "idle" /\ result /\ sent.call = "response" => ByteOf(sent, StatusAt(sent) + 3) \in {"sp", "cr", "lf"}` | `msg_len` is tested and never assigned (`http_peek.c:296`): text glued to the status code is accepted, where the comment says `garbage found after status code` (305) |
| `Daemon` | `<>(\E p \in Procs : Returned(p))` | the exit of a caller that leads its session hangs up the terminal and ends the child before its `setsid` |

Observed and outside the models: `become_child` calls `exit`, which writes out text the caller had buffered in `stdout`, in the parent and once more in the first child (`utils_daemon.c:28`); a
message without headers is never accepted by `http_peek`, as an empty line in place of the first header gives false; `MODLOG_ERROR` drops its module (`easy_log.h:89`), and `create_thread_pool` leaks when one of its two allocations fails.

## What is proved

All proofs are checked by TLAPS, for every value of the constants that satisfies the named assumptions, so for any number of threads, processes, calls and elements, and every size.
TLC has checked each inductive invariant on the instance of the component's run (`FormattedText`'s with two calls and fewer input files; for `ThreadPool` the rounds of `TurnInv` bounded by the pushes).

**CasQueue with any number of threads** (`CasQueueProofs`; `CasQueueAssumption`). `TypeOKTheorem`; and `LengthAccountingTheorem`, for finitely many producers and consumers and with indices that wrap: the
counter is the distance of the indices less the enqueues, plus the dequeues, that have moved an index and not yet the counter, modulo `IdxMod`. It is inductive with the types; each of the four steps that touch one side of the equation is
`BalanceMoves`, arithmetic modulo `IdxMod` (`ReduceFirst` of `RingArith`).

**CasQueue with one producer** (`CasQueueProofs`; the hypothesis `SingleProducer` of each theorem: one producer, and either `MaxOps < IdxMod` or one consumer; any `Size` dividing `IdxMod`). So indices may wrap with one
consumer, any number of times; with several they may not, as then a consumer that sleeps for a whole turn of the index delivers a stale copy (see above). `Fifo` alone is not inductive: that a consumer's successful compare-and-swap delivers the right element depends on what it copied before.
`IInv` is about how many elements were delivered, published (`Published`) and claimed, and adds:

* `CountInv`: these numbers are in that order, and a slot stays free; `IndexInv`: the indices are these numbers modulo `IdxMod`;
* `ProducerInv`: where the producer is determines which words of its slot are written; its `curr_read_idx` may be stale, but it was once the index of an element less than a ring away, which makes the test for *full* err on the safe side;
* `ConsumerInv`: as long as `_read_idx` is still what a consumer loaded, the words it copied are those of the element at that index;
* `SlotInv`: every published element that was not delivered is whole in its slot.

`Invariance` gives `Spec => []IInv`; `FifoTheorem`, `NoOverrunTheorem` and `PublishedIsWrittenTheorem` follow. `Refinement` shows `Spec => ImplementsFifo`:
publishing maps to `Enqueue`, the consumer's compare-and-swap to `Dequeue`, everything else to a stutter. `RingArith` holds what is needed of `%`:
two indices less than a turn apart share a slot only when they are equal. With two producers `Fifo`, `NoOverrun` and `PublishedIsWritten` are false (see above).

What a refusal means is proved of `CasQueueWindows`: `FullRefusalsTheorem`, an enqueue that answers *full* ran while the queue was full, for any number of consumers; `RefusalsWereRealTheorem`, the same of *full* and *empty*, has one consumer (with two, *empty* may be wrong, see above). `WindowInv` adds
to `IInv` that a call under way has noticed whether the queue was empty, and that a producer whose copies of the indices are `Size - 1` apart has noticed that it was full: it was full when the producer loaded `_read_idx`, since only the producer itself moves `_write_idx`.

**SnailQueue** (`SnailQueueProofs`; `SnailQueueAssumption`). `IInv` is `TypeOK`, `SizeIsDistance`, `SlotsHold` (slots from head to tail hold enqueued values), `RingInv` (a ring has
one slot more than asked for, or is the wrapped one of capacity 0) and `WalkInv` (the index of a traversal stays in the ring). From `Invariance`:
`SizeIsDistanceTheorem`, `FullAtCapacityTheorem` and `Refinement` to `FifoQueue`, for every width, capacity, limit and callback. What a traversal visits needs what it has still to do (`WalkInvariance`). `ForwardInv`: of the elements it found and was given since, `Left` are yet to be seen, queued or not, and
the tail is that far from the index, modulo the ring; until they fill the ring (`Lapped`) their slots hold them, since only `Enqueue` writes a slot, at the tail. `ReverseInv`: as long as the callback adds nothing, the slots still to be visited hold the oldest elements of the call, also those that were dequeued since. From these
`TraversalCompleteTheorem`, and `VisitsQueuedTheorem`: while the callback has dequeued no more than it was given, the elements yet to be seen are among those queued. Both conditions are needed (see above).

**Singleton** (`SingletonProofs`; `SingletonAssumption`), for any number of processes, with numbers that are used again and every failure. `OneInstance` and `PidFileNamesOwner` are inductive together with the types: a process between the lock and its end owns the lock, and only the owner writes the file. `TypeOKTheorem`, `OneInstanceTheorem`, `PidFileNamesOwnerTheorem`, and
`NoTwoInstances`: of two processes that were answered false, one could not open the pid file. Without that exception it is false (see above).

**ThreadPool** (`ThreadPoolProofs`; `ThreadPoolAssumption`). `IInv` relates the place the owner is at in a call (`OwnerInv`), the ids in the contexts to the threads that exist (`ContextInv`: a context that is marked running has the id of
its thread, and a thread of the pool is the one its context has the id of, and is marked, about to be marked, or cancelled), the inboxes (`InboxInv`) and the turn (`TurnInv`: there is a number of whole rounds such that the contexts before the index are one push ahead). `OneThreadPerContextTheorem`,
`NoneLeftRunningTheorem`, and `BalancedTheorem`, whose `\div` comes from the round number by `QuotientIs`.

**EasyLog** (`EasyLogProofs`; `EasyLogAssumption`), for any number of threads, messages of either length, resets, seconds and failures. Without further hypothesis `Base`, the types and the numbering of the messages (`CallsInv`), through races and crashes too: `TypeOKTheorem`.
With the hypothesis `EnableLock`, and as long as no reset has come under a thread that is logging,

* `LockInv`: a thread in `log_append` has a logger whose mutex is in place, and the one behind the mutex holds it: `LockHeldInsideTheorem`;
* `BufferInv`: what the shared buffer holds is what the thread behind the mutex put there;
* `SizeInv`: the position `ftell` gives is the size of the file, or the resets that hid the size have left room for a line: `FileBoundedTheorem`;
* `LogInv`, about all files together: the pieces of a line are side by side but for the messages in `torn` (`LinesInv`), no line is later than the name of its file (`DatesInv`), what a thread logged is in the order of its calls (`OrderInv`), nothing of a message is in a file before it is written (`FreshInv`), and
  every message logged has one head in the files unless `lossy` (`LossInv`).

`Invariance` proves them together. For the files there are four kinds of steps: those that leave them alone, a call that numbers a new message, a rotation that moves the log file to its new name or empties it (`Turned`), and a write that adds the beginning of a line at the end (`Wrote`). `LinesWholeTheorem`,
`ChronicleTheorem` and `NoLineLostTheorem` follow.

**HttpPeek** (`HttpPeekProofs`; `HttpPeekAssumption`), for every message, cut off anywhere, and every `Unroll`. `IInv` says at each place of the parser what lies between the start of the token and the byte looked at. `StaysInsideTheorem`: no byte behind what has arrived is
looked at, but for the known case `LoneEmptyLine`. `ReportsTheorem`: when a call accepts, the parts in `p_head` are where the message has them: a method of token characters ended by a space, a path without blanks or control characters ended by a space, a name of token characters ended by a colon (or none, in a continued line), a value that does not end in a blank and has only blanks between it and the line end.
`HttpGrammar` defines, without a parser, where in a message method, path, version, status, name and value begin and end, whether it is `WellFormed`, and the last byte of its first header, `Whole`. `ParsesTheGrammarTheorem`, without further hypothesis: a call answers true exactly when the message is well-formed and has arrived up to `Whole`, and `p_head` is then
`FieldsOf` the message but for the reason phrase (`Reported`), whatever the calls before left in it. Its invariant `Follows` says at every place of the parser which mark of the grammar it has reached, which bytes lie between that mark and the byte looked at, and which of the fields are in `p_head` already; each early return then is a run of bytes that ends wrongly, or ends behind what has arrived. `ParsesWhatWasSentTheorem`
has the hypothesis that the sender and the grammar agree on the messages, `Agreed`; TLC evaluates it for the messages of the run.

**FormattedText** (`FormattedTextProofs`; `FormattedTextAssumption`, `FormatterAssumption`), for every formatter of lines that keeps their text, every set of faults and any number of calls. `Base` (the file is what the call was given, until the save opens it) gives `FailureHarmlessTheorem`, also for an
officer that is reused. With the hypothesis `~Reuse`, `IInv` adds `LinesInv` (the lines held have the text of the file the call was given, unless an error ended the reading) and `BackupInv` (while the backup is written the file has the text, while the file is written the backup has it, and what is backed up
is never empty): `SavesTheLinesTheorem` and `RecoverableTheorem`, through a crash at any step of any call. `SavedIsFormattedTheorem` has the hypothesis `FormatsLines`, that the function on one line returns it as the flags ask; what is proved is that every line goes through it, with the flags of this call, before it is saved, also when lines of an earlier call are held (`FormattedInv`).
That `TextLine` meets `FormatsLines` TLC has evaluated for all lines of up to 6 characters.

### Only model-checked

* Liveness under fairness (`CallsReturn`, `UsurperReturns`, `AppendReturns`, `AcceptedIsConsumed`, `SomebodyReturns`), which TLAPS does not support.
* `Sorts`, which says what recursive operators compute (`ClassicSort`), and that the recursive functions of `TextLine` meet `FormatterAssumption` and `FormatsLines`: induction over data. `RoundsUp`, which is about bits.
* `Daemon`: it has no parameter, so its run is complete as it stands.

## Not modelled

Every component with state of its own is modelled. Not modelled are

* `dictionary`: one lookup per process, whose state is a database and a web page outside the repository. What could go wrong (a word with an apostrophe in a statement, a page laid out otherwise)
  is in the grammar of SQL and HTML, which a model at this level would assume rather than check.
* `traffic_control.sh`: it prints `tc` commands from its arguments; the tree of classes is the kernel's. Read, not checked: with `-a` the level is not translated to a class, and for rates below 3 the sum of
  the subclasses exceeds their parent, against its comment.
* `commands_loop.sh`, the converters, the small scripts: straight-line text around system tools.
* `utils_library` (three library calls), `debug_print.h` (macros that print), demonstrations and benchmark drivers (`main.go`, `thread_pool/main.c`, `classic_sort/src/main_test.c`), and everything that is only displayed.
* clocks that are set back, and the hour that summer time repeats: `EasyLog` has time go forward.
