# FiberServer in TLA+

A verification project for FiberServer, a C++ web server built on stackful
fibers, an M:N scheduler with per-thread run queues, an epoll reactor, hooked
system calls and a fiber-aware database connection pool, with an artifact
storage service on top.  The modules are translated from `src/FiberServer`;
`PROJECT.json` maps each definition to the lines it models.

## 1. The system

| Part | State | Operations | Correct when |
|---|---|---|---|
| Scheduler (`scheduler.*`) | global queue, one queue per Processor, `m_activeThreadCount`, `m_stopping`, `m_autoStop` | `schedule`, `scheduleGlobal`, `run` (local, global batch, steal, idle), `stopping`, `start`, `stop` | a scheduled fiber runs, once at a time, on the right thread; `stop()` neither stops early nor hangs |
| Fiber (`fiber.*`) | state INIT/HOLD/EXEC/READY/TERM/EXCEPT, context | `swapIn`, `swapOut`, `YieldToReady`, `YieldToHold`, `MainFunc`, `call`, `back` | never resumed while it executes |
| IOManager (`iomanager.*`) | fd contexts, pending event count, epoll set | `addEvent`, `delEvent`, `cancelEvent`, `cancelAll`, `idle`, `stopping` | an event wakes its fiber once; the counter is the number of registered events |
| Timers (`time.*`) | ordered set of timers, last clock value | `addTimer`, `addConditionTimer`, `cancel`, `refresh`, `reset`, `listExpiredCb` | a timer fires once, not after a cancel, not early |
| Hooks and fd table (`hook.cpp`, `fd_manager.*`) | `FdCtx` per descriptor, `timer_info` per call | `do_io`, `connect_with_timeout`, `sleep`, `close`, `fcntl`, `setsockopt` | a call ends with readiness or ETIMEDOUT, not both; no use of a reused descriptor |
| Connection pool (`db/soci_db.*`) | idle list, waiter list, `totalCount`, waiters' `linked`/`done`/`db` | `get`, the timeout callback, `freeSoci` | a connection has one owner, slots are exact, a wait is completed once and is completed |
| DbExecutor (`db/db_executor.*`) | its own IOManager, a result per job | `submit` | the caller is resumed once, after the result is stored |
| Artifact storage (`servlets/*`, `my/mysqlop*`) | `file_shared` reference counts, `file_info`, `artifact_info`, blobs in FastDFS | upload, precheck, delete, query | a blob lives as long as a row names it |
| Chunked upload (`servlets/chunkupload_*`, `my/chunkManager.*`) | chunk files of a task | save chunk, merge, clean | one merge, of all chunks |
| HTTP parser and session (`net/http/*`) | the automaton's state, the offsets of the token being read, the request under construction | `http_parser_execute`, the callbacks, `recvRequest`, the keep-alive loop | a callback gets the whole token; the stream stays in step with the requests |
| ByteArray (`net/bytearray.*`) | a list of blocks, the cursor's block, position, size, capacity | typed reads and writes, `setPosition`, `clear`, iovec calls, `writeToFile` | the blocks act as one sequence of bytes |
| TCP server, application | listening sockets | accept loop, start, stop | orderly shutdown |
| Hashing, JSON, logging, configuration, address and socket wrappers | data | conversions, system calls | round trips |

How they interact.  Every worker thread of an IOManager loops in
`Scheduler::run()`.  A fiber that would block registers a wake-up (an epoll
event, a timer, a pool waiter, a job on the database scheduler) and yields; the
wake-up is a call of `schedule()` made later by any thread: the worker that
polls, another fiber, a timer callback, or a thread of another scheduler.  All
of these may happen before the yield has completed.  The hard behaviours are
these races, the several critical sections of one scheduling decision,
termination detection in `stopping()`, timeouts against completions, and
database rows against blobs.  `PROJECT.json` lists them as hazards, each at the
line where it bites.

## 2. Modules

| Module | Models |
|---|---|
| `Scheduler` | `scheduler.*`, the fiber state machine, `IOManager::stopping()` and what `idle()` does to the queues |
| `SociPool`, `Lending` | one pool of `SociManager`; the abstract promise of a pool: exclusive, bounded lending |
| `IOManager` | `do_io` and `close` (`hook.cpp`), event contexts, epoll, the loop of `idle()`, condition timers |
| `Timers` | `TimerManager` and the sleeping threads of `idle()` |
| `ArtifactStore` | the tables, FastDFS and the requests that upload, publish and delete |
| `ChunkUpload` | the chunked upload and the cleaner, composed with `ArtifactStore` into one specification |
| `Http11Parser` | the Ragel automaton as a table of edges |
| `HttpSession` | `http_parser_execute`, the callbacks, `recvRequest()` and the request loop, on `Http11Parser` |
| `ByteArray`, `FlatBytes` | the block list and its codes; the abstract sequence of bytes it implements |
| `MCScheduler`, `MCSociPool`, `MCIOManager`, `MCTimers`, `MCChunkUpload`, `MCByteArray` | instances for TLC (`HttpSession` needs none) |
| `SchedulerProofs`, `SociPoolProofs`, `IOManagerProofs`, `TimersProofs`, `ChunkUploadProofs`, `StoreBalanceProofs`, `ByteArrayProofs`, `HttpSessionProofs` | theorems and proofs |

`Scheduler` is where a wake-up ends; the modules that make wake-ups (`SociPool`,
`IOManager`) count the calls of `schedule()` and promise no more than those:
`gmp_lost_wakeup` shows that the fiber need not run again.  `IOManager` leaves open when a timer expires; `Timers`
says when, and leaves open what a callback does.

Operators commented "Mutant of X" are plausible slips in the code of X.  The
specifications never use them; they show that a property would notice.

### Scheduler

A step is one critical section (of `m_mutex` or of one Processor's mutex), one
atomic counter update with the thread-local code next to it, or one context
switch.

| Variable | Code |
|---|---|
| `global`, `local[w]` | `m_fibers`, `Processor::run_queue`; entries are `FiberAndThread` |
| `fstate[f]` | `Fiber::m_state`, "NONE" before the fiber is made |
| `parked[f]` | the registered wake-up: `"io"` if `IOManager::stopping()` counts it (timer or pending event), `"ext"` if a foreign scheduler owns it (`DbExecutor::submit`) |
| `hand[w]` | the local `ft`, followed by `batch`/`stolen` until it is spliced |
| `pc[w]` | where the thread is in `run()`, in `idle()` or in `stopping()`; index 0 is the thread in `stop()` |
| `scan[p]` | the processors still to visit in `stealTask()` or `processorQueuesEmpty()` |
| `idleTerm` | workers whose idle fiber is TERM |
| `active`, `autoStop`, `stopFlag`, `stage` | `m_activeThreadCount`, `m_autoStop`, `m_stopping`, progress of `start()`/`stop()` |

Decisions taken in the translation:

- A worker and the Processor that `bindProcessor()` gives it are one index:
  there are as many of one as of the other and each is handed out once.
- `tickle()` and the idle counter are left out.  They shorten an `epoll_wait`
  that is bounded by `MAX_TIMEOUT` (3 s), so an idle worker may come back at any
  time without them.
- A callback task is treated as a fiber: `run()` wraps it in `cb_fiber` and
  handles its end in the same three ways.
- The task is counted in `active` by `Dispatch`, after the queue's mutex has
  been released; between the two the worker is at `"got"` (or `"splice"`).
- `Park` registers the wake-up and `YieldToHold` swaps out later, so the wake-up
  can arrive in between, and between the swap and `Settle`, which sets HOLD.
- The start of a theft is arbitrary (`m_nextStealProcessor` is shared by all
  workers), the order from there is the code's.
- A timer that expires goes through a queued callback in the code; here
  `PollWake` and `FiberWake` wake the fiber in one step, and `CheckPending`
  reads timers and pending events in one step.
- `start()` and `stop()` are each called once and clients outside the scheduler
  submit nothing after `stop()` was called; running fibers still may.

### SociPool and Lending

A step is a critical section of `PoolState::mutex` or the code between two of
them.  A `Waiter` is named by its caller, who has one at a time.  The scheduler
enters as `wakes`, the calls of `schedule()` for a caller, also those made before
its yield: a caller goes on only after one, and no fairness says that it does.  Time is abstract:
an armed timer may expire whenever it is armed; `timer` goes from `"armed"` to
`"queued"` (`listExpiredCb()` took the callback out; `cancel()` is too late) to
`"waking"` (after the unlock, before `schedule()`).  When `get()` returns, its
`Waiter` dies and a callback still queued finds the `weak_ptr` expired.  Left
out: the lookup of pools and configuration by name, the destructor, SQL.

`SociPool` is shown to implement `Lending` under `lent <- raw`: callers see a
connection lent to one of them at a time, at most `MaxConn` at once.

### IOManager

One descriptor, and one fiber for each of its events, as `addEvent()` requires.
A step of a fiber is one system call or one critical section: it tries the call
(`Try`), arms its timer, registers the event and yields; a thread in `idle()`
takes a report off epoll's ready list and handles it later, so that cancels,
registrations and the close happen in between.

| Variable | Code |
|---|---|
| `events`, `ctx`, `pending` | `FdContext::events`, its `EventContext`s, `m_pendingEventCount` |
| `interest`, `level`, `listed` | the kernel: what epoll polls for, what holds, whether the descriptor is on the ready list (external, edge triggered) |
| `fetched[t]` | the `epoll_event` a thread has not handled yet |
| `pc[f]`, `timer`, `queued`, `cancelled`, `cancelling` | a fiber in `do_io`, its timer, expired callbacks, `timer_info::cancelled`, callbacks between their check and `cancelEvent()` |
| `wakes[f]` | calls of `schedule()` for the fiber |
| `open`, `closing` | the descriptor and a `close()` between `cancelAll()` and `close_f` |
| `misfires` | history: how often an event was triggered that was not registered |
| `NDEBUG`, `aborted` | whether the build leaves assertions out; if not, one has failed and the program has ended |
| `raced` | the descriptor was closed while an event was registered |

What the model made visible and the properties are careful about:

- A report of two events, one of which was cancelled after the report was
  fetched, reaches `triggerEvent()` for an event that is not registered: `idle()`
  does not mask `real_events` with what is registered (`iomanager.cpp:389`).  A
  Debug build fails the assertion at line 77 (`aborted`).  The builds the
  repository describes are Release builds (`docker-compose.dev.yml:13`,
  `scripts/docker_test.sh:6`, `docs/WSL2_DOCKER.md:52`), in which
  `FIBER_ASSERT` is empty: nobody is scheduled, and `m_pendingEventCount` goes
  down once too often.  `PendingExact` says that this, counted by `misfires`, is
  the only thing that moves the count away from the registered events.  A count
  one too low lets `stopping()` end the threads under a fiber that waits; with
  nothing registered it is 2^64 - 1, and they do not end.  The run is the Release
  build; the theorems hold for both.
- A fiber that registers between another's `cancelAll()` and `close_f` leaves a
  context for a descriptor epoll no longer has (`raced`); nothing will report
  it, and `NoLostWait` excepts it.
- A timer callback that runs before `addEvent()` finds nothing to cancel
  (`hook.cpp:112`): the timeout is used up, the wait goes on without one, and
  when the event comes the call returns ETIMEDOUT all the same.  No property says
  that a call with a timeout ends by it.  A late callback of an
  earlier round of the same call cancels the next round's wait.

### Timers

`TimerManager` as the threads of `idle()` drive it.  `m_timers` is a set ordered
by `m_next` and the address; `addTimer()` is two steps because it tickles after
it has released the lock (`call[t] = "front"` in between).  A thread computes its
sleep (`getNextTimer`, the minimum with `MAX_TIMEOUT`, the cast to `int`), sleeps,
and takes the expired callbacks.  `clock` is the wall clock, which may be set
back; the time asleep is `left[th]`, which the wall clock does not move.  A tickle
is an edge of the pipe that one sleeping thread gets, and reading the pipe
removes an edge that came in between.

- A timer more than 2^31 - 1 ms away makes the cast negative: the thread sleeps
  without end, though `iomanager.cpp:332` says the sleep never exceeds
  `MAX_TIMEOUT`.  `NoOversleep` names this exception: the history variable
  `endless` says that some thread was given such a timer.  The sleep goes on past
  timers added behind that one, so the exception cannot be read off the timers
  there are now.
- `refresh()` after the clock was set back moves a timer forward and tickles
  nobody; `MAX_TIMEOUT` bounds what this costs.
- `m_previouseTime` is not updated while there are no timers, so that a rollover
  in that time is noticed late or not at all; `NotEarly` allows for it.
- An occurrence of a recurring timer that was taken before `cancel()` may run
  after `cancel()` returned true.  For a one-shot timer `cancel()` and the
  callback exclude each other, which is what `CancelIsFinal` counts.
- The restart of `epoll_wait()` after a signal is left out (signals come at
  shutdown only), and reading the clock and taking the lock are one step.

### ArtifactStore and ChunkUpload

Every statement outside a transaction, every call of FastDFS and every file
operation is a step; a handler (`req[h]`) runs one request.  `artifact_info`,
`file_info` and `file_shared` are the tables, `blobs` is FastDFS in upload order,
`dir` the task directories with their files from the oldest to the youngest.  A
fault is a statement, a query or an upload that fails, or a crash of the server
in which all requests end where they are.

- **Transactions.**  `EnsureArtifactTable()` sends `CREATE TABLE IF NOT EXISTS`
  before each statement on `artifact_info`, and MySQL commits the open
  transaction there and goes on in autocommit mode.  A later `rollback()` undoes
  nothing, against the comment that the rows are committed together
  (`upload_servlet.cpp:115`).  The model commits where MySQL does.
- `GetFileIdByMd5()` is read before the transaction starts, and a failing
  `SELECT` is read as "no row" (`QueryFails`).
- `BuildStorageName()` drops the build number when the version is empty.
- `FastDFSUtil::deleteFile()` without a connection follows a null pointer: the
  model has a crash there.
- `disturbed` is a history variable: the checksums that a fault, two requests at
  once on one coordinate or checksum (two merges of a task, a delete and an
  upload), a second artifact or storage name of a project, a delete that removes
  the row of another coordinate, or the cleaner in the middle of an upload
  touched.  The code gives up the balance of the counts and
  the wholeness of a merge in these cases; `Balanced` and `WholeBlobs` are about
  the other checksums.  `SharedAlive` and `CoordinateImmutable` hold for all;
  `SharedAlive` is about the rows of `file_shared`, and an instant upload that read
  the `file_id` before a delete erased the file may still publish it
  (`upload_servlet.cpp:113`).
- `DeleteFileRecordByUserAndFilename()` removes rows by storage name
  (`mysqlop_soci.cpp:332`).  A delete of an artifact that has no row of its own
  (an instant upload of a checksum the project owns) takes the row of another
  coordinate whose storage name is the same, and the count of that checksum stays
  too high.  This takes four requests on three coordinates (`v/1/lib`, `/1/lib`
  and `/2/lib` of one owner), more than the `store` run has; the proof of
  `Balanced` found it.
- `GetIndices()` is given by its result: `InOrder` places each number by how many
  are below it, and the number a merged file's name spells comes in at its place.
- `Modes` are the values of `artifact_mode`.  The older mode (FALSE) is
  exercised in `chunk_leftover`.  The check of tokens is left out.

### Http11Parser and HttpSession

The generated parser is 6,700 lines of `goto`; its automaton is a table of edges
`<<state, bytes, next state, actions>>` with the state numbers of the generated
code.  Bytes no state tells apart are one symbol.  The part for an authority
occurs twice in the automaton, 175 states apart, and is written once with the
offset as parameter.  `Deterministic`, an assumption TLC evaluates, says that no
byte has two edges.

`HttpSession` feeds it any bytes, in reads that end anywhere.  Offsets are
distances back from the current byte.  `lex` is not code: it reads the tokens off
their delimiters, independently of the automaton, so that `SlicesWhole` can
compare what a callback is given with what was sent.  The client sends nothing
after the body before it has the answer, so that the branch for more bytes than
the body has (`http_session.cpp:50`) is left out; lengths are small numbers, and
the conversion of Content-Length from `uint64_t` to `int64_t` is left out too.  A
read that begins inside the name or the value of Content-Length still gives the
whole length here, where the code would store a piece of the name or of the value
(`http_parser.cpp:141`): the code loses the length in more cases than
`http_split` has.

- `uri_relaxed` and `query_start` are never initialised: the first is any Boolean,
  the second an offset into nowhere until it is set.
- Some rules of the grammar mean something else to Ragel: `6( h16 ":" )` wants a
  byte 6, `("0"-"4")` is only "0", `(0 - 31)` is byte 0, so that control bytes are
  allowed in field names, and `{6,}` has no upper bound, while
  `http11_parser.rl:127` claims the description of RFC 3986.  The table is that
  of the generated code.

### ByteArray and FlatBytes

`blocks` is the list from `m_root`, `m_cur` the index of the cursor's block.
Cells are found from `m_cur`, as in the code, so that a cursor on the wrong block
shows in the contents.  The widths are parameters: a varint byte carries
`GroupBits` bits and a number has `Width`.  The loop that writes a varint is given
by its turns: what is left after n of them (`Shifted`) and which is the last
(`LastTurn`).  New memory holds any byte of
`Garbage`.  Reads that throw have consumed what they read until then.
`Receive` and `Send` are `SocketStream`'s use of the iovec calls.

`ByteArray` is shown to implement `FlatBytes` (`content` is read off the blocks).

- `read()` of no bytes with the cursor behind the last block follows a null
  pointer (`bytearray.cpp:418`): `Crash`.
- `writeToFile()` from a position inside a block with less than a block unread
  writes too little or follows a null block; `FileWhole` states exactly when the
  file is whole.
- `writeStringF16()` writes a length modulo 2^16; nothing uses it for more.

## 3. Runs

| Run | Instance | States | Shows |
|---|---|---|---|
| `gmp_safety` | a worker and the `use_caller` thread, 4 fibers parking on events, pins to worker 1 or none | 886 k | `TypeOK`, `PinRespected`, `NoDoubleRun`, `OneResumption`, `StopDrains` |
| `gmp_liveness` | the same threads, 2 fibers parking on other schedulers, pins to either thread or none, fair | 72 k | `NoTaskLost`, `EveryTaskFinishes`, `StopReturns` |
| `gmp_lost_wakeup` | 2 workers, 2 fibers parking on epoll | | **violated** `NoTaskLost` |
| `pool` | 3 callers, 2 slots, 3 connections, every timeout, connects may fail, fair | 88 k | `TypeOK`, `OneOwner`, `SlotsExact`, `WokenOnce`, `OneSideCompletes`, `NoIdleWhileWaiting`, `LendingSpec`, `BoundedWaitScheduled` |
| `reactor` | Release build, a reader with a timeout, a writer, 2 threads, 3 edges, a hang-up, a close, fair | 222 k | `TypeOK`, `PendingExact`, `WokenOnce`, `NoLostWait`, `Delivery` |
| `timers` | a one-shot and a recurring timer, 2 threads, delays of zero, near and far, the clock set back | 3.80 M | `TypeOK`, `ArmedExact`, `CancelIsFinal`, `NoOversleep`, `NotEarly` |
| `store` | 2 handlers, 2 projects, 2 checksums, 3 requests, 2 chunks, 1 fault, 1 expired file | 1.08 M | `TypeOK`, `SharedAlive`, `Balanced`, `WholeBlobs`, `CoordinateImmutable` |
| `store_dangling` | one handler, two builds of one project, one checksum, no faults | | **violated** `NoDangling` |
| `chunk_leftover` | one handler, 2 chunks, a checksum that starts with 1, both modes | | **violated** `WholeBlobs` |
| `http_session` | any bytes, the head in one read, bodies up to 2, 2 requests | 411 k | `TypeOK`, `SlicesWhole`, `CallbackOrder`, `InSync` |
| `http_split` | any bytes, the head in two reads, one request | | **violated** `InSync` |
| `bytearray` | blocks of 2 bytes, up to 4 bytes, 2-bit groups, 3-bit numbers | 198 k | `TypeOK`, `CursorRight`, `ReadsBack`, `FileWhole`, `FlatSpec` |

Why the bounds are enough.

- Scheduler: two threads give every pair of threads in a race over one fiber or
  one queue; `MaxYields = 1` gives every fiber a first run, a park and a second
  run; four fibers make batches and thefts of two.  A race between two thieves
  and one victim would need a third worker; the theorems, which are for any
  number of workers, cover it.
- Pool: more callers than slots make a waiter, whose timeout, hand-over and late
  callback race; a spare connection would show a pool that made too many.
- Reactor: the two events of a descriptor are the two fibers; two threads hold
  two reports at once; three edges give one for each event and one more during
  the handling of the first.  One call of a fiber is several rounds of `do_io`.
- Timers: a delay of 0 is due at once; `IntMax = 15` and a delay of 20 reach the cast; `Rollover = 4` with
  jumps of 1 and 5 is on both sides of the hour; `MAX_TIMEOUT = 2` is longer than
  the near delay and shorter than the far one.  One call of `refresh()` or
  `reset()`, one jump and two ticks come in every order with additions, cancels,
  expiries and tickles.
- Store: three requests allow an upload, an instant upload and a delete, any two
  of them at once; two chunks have an order and can each be missing.
- HTTP: the automaton's states and the classes of bytes are all there; lengths
  are counted to nine, longer than the longest fixed token, and then only "at
  least nine"; two requests show what one leaves to the next.
- ByteArray: two blocks of two bytes have every alignment of a value of one to
  three bytes; three groups of two bits do not divide three bits, so the last
  group of a varint is cut as that of 32 and 64 bits is by groups of seven.

Symmetry is used for fibers (`gmp_safety`), for threads (`timers`) and for handlers and
checksums (`store`), which are interchangeable there, and only in runs without
liveness.  Scheduler workers are visited in index order and are not
interchangeable.  Deadlock is not checked where the bounds end the behaviour
(`reactor`, `store`, HTTP, `bytearray`).

### What the violations say

- **A wake-up can be lost** (`gmp_lost_wakeup`, `scheduler.cpp:226`).
  `YieldToHold()` keeps EXEC until `run()` has the thread back.  If another
  worker polls the event in that window, it puts the fiber into its *own* queue,
  pops it next, finds EXEC, takes the entry for an old one and drops it.  The
  fiber then sits in HOLD for ever.  The global queue and thefts leave such
  entries in place, which is why fibers woken by a foreign scheduler are safe
  (`gmp_liveness`).
- **An artifact can lose its file** (`store_dangling`, `upload_servlet.cpp:101`).
  A second build with content the project already has is published without a
  reference of its own; the delete of the first build takes the last reference
  and erases the file both rows name.
- **A blob can miss a chunk** (`chunk_leftover`, `base/util.cpp:179`).
  `std::stoi` reads a number from the front of a merged file's name, a checksum;
  the leftover stands in for a chunk that expired, and a chunk is merged twice.
- **A head in two reads loses fields** (`http_split`, `http11_parser.cpp:95`).
  Offsets are reset at the start of every buffer while the automaton stays in the
  middle of the token.  If the field is Content-Length, the body stays on the
  stream and the next request begins inside it.

What the passing runs leave open, because their properties name it as an
exception:

- **`stop()` can hang** (`gmp_liveness`, `scheduler.cpp:451`).  `stopping()` looks
  at the counter and the queues, and a popped task is in neither until
  `++m_activeThreadCount`.  The root worker pops the last task; worker 1 asks
  `stopping()`, which is true, and leaves `run()`; the task then schedules one
  pinned to worker 1.  Nobody may take it, `stopping()` stays false, and `stop()`
  does not return, which `AGENT.md:101` excludes.  `StopReturns` says that a task
  left in this way (`Stranded`) is the only reason for which `stop()` hangs;
  without that disjunct TLC gives the behaviour above.  A task pinned to the
  `use_caller` thread waits for `stop()`, where that thread runs tasks;
  `EveryTaskFinishes` excepts it.
- **A pool wait without a timeout** (`db/soci_db.cpp:195`).  A failed connect gives
  its slot back and wakes nobody: a `get()` with a negative timeout, which by
  `soci_db.h:71` a release or the timer ends, may wait for ever.  Callers in the
  repository pass the default timeout, for which `BoundedWaitScheduled` holds.
- **A hand-over can be lost with its fiber.**  `BoundedWaitScheduled` and `Delivery`
  end at `schedule()`.  If `freeSoci()` on another worker schedules the waiter
  before `run()` has set it to HOLD, the entry may be dropped as in
  `gmp_lost_wakeup`; `done` is set, so the timer does nothing, and the connection
  stays with a fiber that never runs.

### Fairness

- Scheduler: weak fairness for the code of each thread (`FindTask`, `RunTask`,
  `StoppingCall`, `LeaveIdle`, `StopStep`): the kernel runs runnable threads and
  `epoll_wait` is bounded.  `GiveUp`: a fiber's body yields or ends; nothing
  pre-empts it.  `ExternalWake`: a job given to another scheduler ends.  Strong
  fairness of `PollWake` for each fiber: an event or timer becomes due and some
  worker that keeps returning to `idle()` delivers it; a particular poll may miss
  it.
- Pool: a caller's code up to its yield goes on, timers expire and their callbacks
  run, and `freeSoci()` reaches its `schedule()`.  Nothing is assumed of a connect
  that was started, of a caller that holds a connection, or of the resumption of
  a scheduled fiber, which `gmp_lost_wakeup` refutes.
- Reactor: the threads of `idle()` go on.  None is assumed of the fibers (again
  because a resumption can be lost), of the descriptor (edges, hang-ups, close) or
  of timers and their callbacks.
- The other modules state safety only.  That a due timer is served is given by
  `NoOversleep`, a state property, because the fair version of `timers` is too
  large.

## 4. Proofs

TLAPS proves the following for every value of the constants that the modules'
assumptions allow.  The assumptions are the code's: there is a worker, the root
worker is one of them or -1, and pins name workers or none (`Scheduler`);
finitely many callers and `maxConn` at least 1, which `getPool()` ensures
(`SociPool`); each fiber waits for an event of its own and the build is Debug or
Release (`IOManager`); timers are numbered in the order of their addresses, delays
are natural numbers (`sleep(0)` makes one of zero), jumps are positive, there is a
thread, and `MAX_TIMEOUT` fits an `int` (`Timers`); finitely many handlers
(`ArtifactStore`); block, group and number have at least one byte or bit, values
fit their types and the length of a text fits the number before it
(`ByteArray`); the counted length exceeds every fixed token (`HttpSession`).
`None` is assumed to differ from the values it stands beside.

| Theorem | States | Inductive invariant |
|---|---|---|
| `SchedulerProofs!TypeCorrect`, `PinningCorrect` | `TypeOK`, `PinRespected` | `IInv` |
| `NeverRunTwice`, `ResumedOnce` | `NoDoubleRun`, `OneResumption` | `IInv`, `ResInv` |
| `TasksKept` | `NoTaskLost`, if no fiber waits for an event or timer | `IInv`, `ResInv`, `StageInv`, `KeptInv` |
| `StopLeavesNothing` | `StopDrains`, if no fiber waits for another scheduler | and `StopInv` |
| `SociPoolProofs!PoolTypeCorrect`, `PoolOneOwner`, `PoolSlotsExact` | `TypeOK`, `OneOwner`, `SlotsExact` | `IInv` with `Slots` |
| `PoolImplementsLending` | `LendingSpec` | the same |
| `PoolWokenOnce`, `PoolOneSideCompletes`, `PoolNoIdleWhileWaiting` | `WokenOnce`, `OneSideCompletes`, `NoIdleWhileWaiting` | `IInv`, `WaitInv` |
| `IOManagerProofs!ReactorTypeCorrect`, `ReactorPendingExact`, `ReactorWokenOnce`, `ReactorNoLostWait` | `TypeOK`, `PendingExact`, `WokenOnce`, `NoLostWait` | `IInv` |
| `TimersProofs!TimersArmedExact`, `TimersCancelIsFinal` | `ArmedExact`, `CancelIsFinal` | `LifeInv` |
| `TimersTypeCorrect`, `TimersNoOversleep`, `TimersNotEarly` | `TypeOK`, `NoOversleep`, the action property `NotEarly` | `LifeInv`, `ClockInv`, `SleepInv`, `WatchInv` |
| `ChunkUploadProofs!StoreTypeCorrect`, `StoreSharedAlive`, `StoreCoordinateImmutable` | `TypeOK`, `SharedAlive`, the action property `CoordinateImmutable` | `IInv` |
| `StoreBalanceProofs!StoreBalanced` | `Balanced` | and `BalanceInv` |
| `StoreWholeBlobs` | `WholeBlobs`, if no merged file is taken for a chunk | and `WholeInv` |
| `ByteArrayProofs!ByteArrayTypeCorrect`, `ByteArrayCursorRight`, `ByteArrayReadsBack`, `ByteArrayFileWhole` | `TypeOK`, `CursorRight`, `ReadsBack`, `FileWhole` | `Inv` |
| `ByteArrayImplementsFlatBytes` | `FlatSpec` | `Inv` |
| `HttpSessionProofs!HttpTypeCorrect`, `HttpCallbackOrder` | `TypeOK`, `CallbackOrder` | `TypeOK`, `OrderInv` |
| `HttpSlicesWhole`, `HttpInSync` | `SlicesWhole`, `InSync`, if a head arrives in one read | and `WholeInv` |

Why the properties need more than themselves:

- **Scheduler.**  `Splice` moves the tail of `hand[w]` into a queue and must know
  that a worker about to splice or run holds something (`HandHeld`), and
  `PinInv` says which entries may be where.  `OneResumption` is kept because a
  fiber's entry is in one place only (`EntriesOnce`, `PlacesApart`), because a
  fiber whose wake-up is to come is in none (`WakeApart`), and because a fiber
  between its dispatch and `Settle` is some worker's alone (`InsideInv`,
  `InsideApart`).  For `StopDrains`, a worker that leaves `run()` left its queue
  empty behind (`Emptied`), and as long as an unpinned task is in the global queue some
  worker is bound to look there (`FreeServed`, `StageInv`); the hypothesis on
  `Holds` is needed, since a foreign scheduler may queue a fiber after the last
  worker has looked.  For `NoTaskLost`, an entry is dropped only when its fiber
  executes; `KeptInv` says that a Processor's queue lists no such fiber, that a
  worker about to dispatch holds one entry, and that every fiber that is due, and
  every one between the registration of its wake-up and `Settle`, has a
  resumption.  Events put a fiber that still executes into a Processor's queue,
  which is how `gmp_lost_wakeup` loses one, so the hypothesis on `Holds` is
  needed; jobs of other schedulers go through the global queue.
- **Pool.**  Connections in the pool are in `live`, exactly the callers in
  `"use"` have one, a listed waiter is linked, listed once and has none yet
  (`LiveConns`, `Placed`, `WaitList`); the count follows from `Slots`, with one
  lemma for what each kind of step does to the cardinalities.  That `totalCount`
  never goes below zero follows from `Slots` too: the invariant itself only has it
  among the integers (`Typed`).  `WaitInv` follows
  a wait: one not completed is listed and nothing is idle, a completed one was
  completed by one side and has one wake-up under way.  In the refinement each
  step is a `Take`, a `GiveBack` or a stutter.
- **IOManager.**  The bits of the events are tied to the contexts (`CtxInv`), the
  contexts to what the fibers do (`WaitInv`) and to the kernel (`ReadyInv`): as
  long as nothing was added under a close, epoll polls for exactly the registered
  events and each that holds is on the ready list or in a report.
- **Timers.**  `OneShotLife` says where a timer stands in its life.  `NoOversleep`
  is about `m_tickled`: when it is set somebody will look at the timers again
  (`Alert`), and if nobody will, one sleeping thread is in time for all of them
  (`WatchInv`).  `ClockInv` bounds what `detectClockRollover()` can have seen.
- **Store.**  A delete erases the blob its artifact row named long after it read
  the row.  Whoever holds an identifier holds it for the checksum it was uploaded
  for (`IdInv`), so the shared record that is dropped is the only one that names
  the blob (`EraseInv`), and a new record names a blob only its uploader knows
  (`FreshInv`).  `RefInv` bounds the counts by the requests.  For `Balanced`,
  `BalanceInv` says of an undisturbed checksum what holds in the middle of its one
  request: what was read is still so, and a delete that removed its row owes one
  reference.  For `WholeBlobs`, `WholeInv` follows the content from the chunks to
  the blob: names in a directory are unique; an undisturbed chunk's file holds the
  chunk unless its one request has opened and not yet written it; a list of
  indices of the right length that names chunks only is 0 to `TotalChunks - 1` in
  order; a merged file about to be uploaded is whole.  With a merged file whose
  name spells a chunk's number the third part fails, as `chunk_leftover` shows.
- **ByteArray.**  `ReadsBack` speaks of what a read returned; `ItemInv` adds that
  every value not overwritten is in the blocks with its code at its place.  A
  read then finds the code ahead, and codes are undone by their reads:
  `UnvarintVarint` (for any width, whether or not the groups divide it),
  `ZigzagBack`, `FixedBack`.  `FilledPuts` says that a write through the cursor
  changes the cells of its bytes and no other, which the refinement needs too.
  `WrittenFileWhole` follows the loop of `writeToFile()` turn by turn.
- **HTTP.**  The table enters through one lemma, `RowsOK`: by the token its state
  is in, an edge ends the token at one of its delimiters with the actions that
  report it, or stays in the token without any.  It is shown group by group of the
  table's rows; the rest never looks at a row.  `OrderInv` then says which
  callbacks a state has behind it, and `LinkInv` (in `WholeInv`) how far back the
  marks of the parser lie, against the tokens `lex` reads off the delimiters.
  `CallbackOrder` holds for heads in any number of reads; the other two need one
  read, since `http_split` breaks them with two.

The recursive functions (`Pow2`, the sum of `Unvarint`, the turns of
`WrittenFile`, the concatenation of the chunks) are reasoned about by the least
counterexample: lemma `LeastNat`, from the well-foundedness of `<` on the
naturals, replaces induction.

The invariants were checked with TLC before they were proved.  Two proofs that
did not go through were findings about the model: `NoOversleep` had read its
exception for endless sleeps off the present timers, which is false in general, and
`disturbed` missed the delete described under `ArtifactStore`, of which TLC shows
the counterexample on an instance larger than the run's.

Only model-checked:

- Liveness under fairness, which the prover does not do: `EveryTaskFinishes`,
  `StopReturns`, `BoundedWaitScheduled`, `Delivery`.
- The five properties proved under a condition on the constants (see the table)
  are false without it: `NoTaskLost`, `WholeBlobs` and `InSync` by the runs
  `gmp_lost_wakeup`, `chunk_leftover` and `http_split`, `SlicesWhole` on the
  instance of `http_split` too, `StopDrains` as said above.

Every safety property of a passing run is a theorem.

## 5. Plan

The modules and proofs above are the ones planned.  Left to model: several
descriptors and the growth of the context table, and the hand-over of a result in
`DbExecutor`.

## 6. Not modelled

- `HttpResponseParser` and its generated automaton (`httpclient_parser.cpp`): no
  part of the repository uses them.  Message objects, their text form and the
  dispatch of servlets are data code.
- The servlets that only query, users and tokens: they change none of the
  modelled state.
- `TcpServer` and the application: configuration and system calls around
  `Scheduler`'s start and stop.
- `delEvent()`, which nothing calls; `connect_with_timeout()`, which follows the
  protocol of `do_io`; `sleep`, `fcntl`, `ioctl` and the socket options.
- The table of contexts: `addEvent()` releases the read lock and resizes the
  table to one and a half times its descriptor without looking at the size again
  (`iomanager.cpp:150`), so that it may shrink.
- Logging, configuration, pthread wrappers, addresses, hashing, JSON: I/O or pure
  data without a protocol of their own.  The scheduler's statistics do not
  influence it.  `Scheduler::switchTo` is declared and never defined.
- A crash ends the program where a module has one (`ArtifactStore`, `IOManager`,
  `ByteArray`); only the store keeps anything across it.
