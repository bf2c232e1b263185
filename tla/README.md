# A TLA+ verification of mylog

mylog is a C++20 logging library. Its core is `EffectiveSink`: it compresses and
encrypts every message, appends it to a memory-mapped cache file, and lets a
background thread move full caches to log files, so that a crash loses nothing.
This directory models that core, the way of a message through it, and the task
framework under it.

Paths are those of the repository (`src/` is its root here): the library is in
`src/src/logger` and `src/include/logger`.

## 1. Inventory

| Part | State | Operations | Hard behaviour | What makes it correct |
|---|---|---|---|---|
| `EffectiveSink` (`effective_sink.cpp`) | `master_`, `slave_`, `slave_free_`, `mtx_`, keys | constructor with recovery, `Log`, `Flush`, `CacheToFile_`, `SetForMatter` | `slave_free_` is tested and set in two steps; the worker uses `slave_` without `mtx_`; crashes anywhere | nothing accepted is lost; a returned `Flush` has written; order; items not torn apart |
| log files (`UpdateFilePath_`, `ElimateFiles_`) | `log_file_path_`, the directory | name by second, rotate, append, delete the oldest | names and file times have a coarse resolution; restarts; outside removals | files bounded, quota restored, current file kept, a name is found |
| `MMapAux` (`mmap.cpp`, `filestream_linux.cc`) | mapped file with header | open, `Push`, `Resize`, `Clear`, `Ratio`, growth | survives the process; growth unmaps, truncates, maps, and each can throw; `Ratio` is called without the lock | a `Push` is all or nothing; data changes by nothing but an operation; copies stay inside the mapping |
| `ThreadPool` (`threadpool.cpp`) | task queue, two flags, workers | `Start`, `Stop`, `RunTask`, `RunRetTask` | flags outside the lock, condition variable | FIFO with one worker, nothing lost or run twice, `Stop` returns |
| `ExecutorTimer` (`executor_timer.cpp`) | priority queue, set of repeated ids, a `ThreadPool` of one worker | delayed and repeated tasks, cancel, `Stop` | set without a lock, time, two notifications without a lock | counts kept, cancellation works, the destructor returns |
| `Executor`, `ExecutorContext`, `Context` | dictionary of runners | `NEW_TASK_RUNNER`, `POST_TASK`, `WAIT_TASK_IDLE`, `POST_REPEATED_TASK` | tag collisions | tags distinct |
| `LogHandle`, `ConsoleSink`, formatters | level, sinks, a `thread_local` buffer | filter and forward, format, print, `SetForMatter` | buffer shared by the sinks of a thread, formatter freed in use, an exception ends the loop, two writes per line | each accepted message once, in order, and read back as it was logged |
| compression, encryption | stream, output buffer, keys | reset, compress, encrypt | failures leave input and output behind; key per process | round trip |
| `tools/log_parser.cpp` | none | parse a file | incomplete chunks | prints what was written |
| `space.hpp` | none | unit casts | width | no overflow for the sizes used |
| `effective_msg.pb.*` | the fields of a message | size, serialize, parse | fields with default values; strings that are not UTF-8 | size and serialization agree; the numbers survive |
| `third_party/` | | fmt | | not modelled |

How they interact: `LogHandle` filters a message and hands it to its sinks one
after the other, in the caller's thread. That thread runs `Log` and `Flush` of an
`EffectiveSink`; both post
`CacheToFile_` to a *task runner*, a `ThreadPool` with one worker, and `Flush`
waits for an empty task behind it (`WAIT_TASK_IDLE`). The timer posts
`ElimateFiles_` to the same runner every `interval`, so it never runs at the same
time as `CacheToFile_`. The two cache files and the log files are the only state
that outlives a process.

## 2. Modules

| Module | Models | Source |
|---|---|---|
| `MMapBuffer` | the values of a cache: `Open`, `Push`, `Clear`, `Reserve`, `RatioAbove80` | `mmap.cpp` |
| `CacheFile` (extends `MMapBuffer`) | abstract: a file that those operations change, each at once and only when it was called | |
| `MMapAux` (implements `CacheFile`) | the operations in steps, with failing calls, crashes and unlocked readers | `mmap.cpp`, `filestream_linux.cc` |
| `DurableLog` | abstract: what a sink promises | |
| `EffectiveSink` (extends `MMapBuffer`, implements `DurableLog`) | constructor, `Log`, `Flush`, `CacheToFile_`, crash | `effective_sink.cpp` |
| `LogParser` (extends `EffectiveSink`) | `ParseFile` of the parser, on the file the sink writes | `tools/log_parser.cpp` |
| `LogFiles` | `UpdateFilePath_`, `ElimateFiles_`, the unit casts | `effective_sink.cpp`, `space.hpp` |
| `EffectiveMsg` | operators: formatters, the generated message class, compression, encryption, `ParseOne` | `effective_formatter.cpp`, `formatter.cpp`, `logger_config.hpp`, `effective_msg.pb.*`, `zstd_compress.cpp`, `aes_crypt.cpp`, `log_parser.cpp` |
| `LogPipeline` (extends `EffectiveMsg`) | `LogHandle` with its sinks, `ConsoleSink`, the encoding part of `EffectiveSink::Log`, `SetForMatter` | `logger_handle.cpp`, `sink.cpp`, `effective_sink.cpp` |
| `ThreadPool` | the pool | `threadpool.cpp`, `entry.hpp` |
| `ExecutorTimer` | the timer, with the `Executor` functions that reach it and the worker and `Stop` of its pool | `executor_timer.cpp`, `executor.cpp`, `threadpool.cpp` |
| `ExecutorContext` | the dictionary of runners and the choice of tags | `executor_context.cpp` |
| `EffectiveSinkProofs`, `LogParserProofs` (extends the former), `MMapAuxProofs`, `LogFilesProofs`, `LogPipelineProofs`, `ThreadPoolProofs`, `ExecutorTimerProofs`, `ExecutorContextProofs` | theorems about the module they are named for | |
| `MC...` | instances for TLC | |

How they fit: `EffectiveSink` uses caches with atomic operations, which `MMapAux` is
shown to provide; a FIFO queue with one worker, which `ThreadPool` provides
(`WaitCoversEarlier`); a file name, which `LogFiles` finds; and items, which
`LogPipeline` makes.

### EffectiveSink

Every thread has a program counter `pc`; `op` says whether it runs `Log`, `Flush`
or the constructor, because the three share the sequence *load `slave_free_`, store
it, swap, post* (lines 62-68, 96-102, 119-123). That sequence is four actions
(`LoadSlaveFree`, `StoreSlaveFree`, `SwapCache`, `PrepareToFile`), since no lock
holds it together. A critical section of `mtx_` is one step where nobody else can
look inside it; `WriteToCache_` is two (`PushHeader`, `PushBody`) with `mtx` held,
because a crash can fall between the two pushes and the swap must not.
The worker has the program counter `rpc`; each of its steps uses whatever cache
`slave` is *now*, as the code does. `queue` is the runner's queue: `ThreadPool`
justifies that it is a FIFO served by one worker, and `LogFiles` what
`UpdateFilePath_` does (here it takes one step, or hangs when `NameMayClash`).

Data: an item is a header token and a body token, numbered in the order of `mtx_`
and labelled with the key of the process that encrypted it. Sizes count pushes.
A chunk is a header (key, size) and the data that followed. The stream that writes
it is buffered, so a crash may leave any prefix; the model tells apart *nothing*,
*header only* and *all*, where *header only* stands for every incomplete chunk: an
item that is in part of a chunk only is not counted as written.
`Crash` can follow any step after the constructor has begun. It also stands for the
undefined behaviour of `NeedCacheToFile_` (line 128), which dereferences `master_`
without the lock while another thread swaps or remaps: a null or unmapped pointer
ends the process. `IOMayFail` lets one write fail: the code does not look at the
stream and goes on to `Clear`.

`raced` is a history variable. It becomes true when the window between *load* and
*swap* is overlapped: a second thread enters it, or the worker passes its own check
of `slave_free_` while a thread is in it. Nothing in the code prevents this. What
holds while `raced` is false is what the code's discipline achieves; what breaks
afterwards is the subject of `SinkFlushLosesRace`.

`DurableLog` says the same without caches, worker and file: an accepted item is
pending until it is written, no crash removes it, and `Flush` returns only when all
that was accepted before the call is written. `ImplementsDurableLog` is the
refinement: pending is what is in a cache and not in the file, `base` what had been
accepted when `Flush` was called. The abstract log is `broken` once the window was
overlapped or a write failed, and promises nothing from then on.

### MMapAux and CacheFile

The file has a length, a header (`magic`, `data_size`) and cells, one per `Push`,
which stay in the file behind the logical size. The object has `mapped` (0 when
`mmap_` is null) and `capacity`. Every system call is a step that can also `Throw`:
a constructor leaves no object then, any other operation one without a mapping. The
copy of a `Push` and the store of the size are two steps, and `Crash` can fall
between any two. Readers are the threads in `NeedCacheToFile_`: `RatioLoad` takes the
pointer, `RatioRead` follows it, and `Reserve` makes it stale in between. `segv`
records the use of a null or unmapped pointer, after which the process is gone.

`ImplementsCacheFile` maps this to `CacheFile`, in which an operation is asked for
(`Begin`), takes effect at most once (`TakeEffect`) and is over (`End`), without effect
when it throws or its process dies. A `Push` appends the value asked for, a `Resize`
gives the size asked for and may uncover old cells, only a `Clear` that was called
empties the file, and an operation that needs room may change its length in whole
pages. Hence a crash, a failing call and the process that opens the file next
leave the data of the last finished operation, which the recovery of `EffectiveSink`
relies on. `Pending` is the operation in progress; a call that threw is over although
the object keeps its `op`. A file without the magic number counts as empty, so that
`Init_` changes nothing when it makes it so; an `Init_` that emptied every file is
one of the mutants.
`SafeUntilOutgrown` marks the limit of the code: with a capacity that is never
exceeded the unlocked `Ratio` is safe; after that it is not.
A file that another program wrote, with another magic number, is left out.

### LogFiles

`dir` maps the names of `.log` files to size and time of last write. The limits are
in megabytes, as in the configuration, and `SpaceCast` turns them into bytes modulo
`Word`; the properties compare with the exact product. Time is counted
in ticks, `TicksPerSecond` to the second, since names have seconds and file times
are finer. `Rankings` are the orders `std::sort` can produce when times are equal.
The index loop is two actions: `NextIndex` (the test and the increment) and
`UseIndex`. `RemoveFile` is somebody who deletes a log file, the only way out of
that loop.

### EffectiveMsg and LogPipeline

`EffectiveMsg` follows a message into an item and back. A buffer is a sequence of
cells: an encoded field, a formatted line, or what else a buffer may hold, so sizes
count cells, and a buffer that is resized to the wrong size shows old or zero cells.
Strings are sequences of pieces, one of which is not UTF-8; this is where parsing
stops. A ciphertext is the sequence of frames that were encrypted into one string,
because `StringSink` appends.

In `LogPipeline` threads log through one handle. Reading the pointer to the formatter
and calling it are two steps, between which `SetForMatter` may free it: such a call
does its work or leaves something else in the buffer, and is marked `raced`. The
buffer belongs to the thread and is shared by all its `EffectiveSink`s. What happens
under the sink's `mtx_` is one step, since only that part touches the stream and
`encryped_buf_`. Compression may fail, which drops the item and leaves its input in
the stream; encryption or the push may throw, which leaves `Log`. After a throwing
push the real sink may be unusable (see `MMapAux`); here it goes on, which allows
more behaviours. `accepted` is the history of the calls at or above the level.

### ThreadPool

The worker's `wait` is split where the code can be overtaken: take the lock,
evaluate the predicate, block (which releases the lock), be notified or wake
spuriously. `Start`, `Stop` and `EnqueueTask_` read and write the flags one at a
time. One owner starts and stops; clients post, and wait when they called
`RunRetTask`. `thread_count` is any number of workers up to the bound, so that one run
covers the task runner, with one worker, and pools with more.

### LogParser

`ParseFile` reads and prints; it has no state of its own, so it is a function from
the bytes of the file to what is printed and the exit code, with the two loops as
recursive functions of the position. The unit is the token of `EffectiveSink`, and a
`ChunkHeader` takes two, so that the file can end inside one. `ParserReadsLog`
compares it with what the chunks contain for every place at which the last chunk may
end. A chunk that is cut short in the middle of the file (a write that failed, or a
crash and a new process in the same second) makes the parser take the following
chunk for its data: `TornChunkContained` says what still holds. Items behind the cut
can be lost, even with exit code 0. `FlushedIsPrinted` joins sink and parser: what a
returned `Flush` promised is among the lines printed, whatever is written meanwhile and
also after a crash. It speaks of a log the first process writes (`key = 1`), since a
second one may append to a chunk that a crash cut short, and its recovered items
cannot be decrypted (`SinkRecoveredKey`).

### ExecutorTimer

A caller first runs `Start` (load and store of `running_` are two steps), then
inserts the id, and runs the first round of a repeated task itself; later rounds run
on the timer thread: `Find`, `RunTask`, `Push`. An entry keeps the time *left* until
its time point, which `Tick` decrements. The `unordered_set` of ids is used without
a lock: an insert or erase is two steps, an operation that overlaps another sets
`raced`, and from then on an insert or erase may be lost and a search may give
either answer. `ToInt` is the conversion of `repeat_num` from `uint64_t` to `int`.

The timer thread is the worker of a `ThreadPool` of one thread, and the destructor
stops both: `Stop` and `NotifyAll` end `Run_`, then `thread_pool_.reset()` runs
`ThreadPool::Stop`, with a store (`PoolStop`), a `notify_all` (`PoolNotifyAll`) and a
join (`Join`) of its own. `wpc` is where the worker is in the loop of the pool: it is
`"run"` as long as `Run_` runs, and a worker that comes back from it evaluates the
predicate of the pool (`TestTasks`) and waits (`PoolSleep`). Neither `notify_all` takes
the mutex of its wait, so each can fall between predicate and wait, and then the
destructor hangs; `missed` records either. The pool is here as far as this one
worker needs it: the push and the notification of `RunTask` are one step
(`StartRun`), which `ThreadPool` takes apart.

### ExecutorContext

`NewTaskRunner` asks for a tag; the search of `AddTaskRunner` is one action per
iteration, under `mtx`. A runner is named by the call that made it.

## 3. Runs

| Run | Checks | Shows |
|---|---|---|
| `SinkCrash` | `SinkInv`, `NothingLost`, `WrittenInOrder`, `ItemFraming`, `ParserReadsLog`, `TornChunkContained`, `FlushedIsPrinted`, `ImplementsDurableLog` | two crashes at any step, a failing write, a worker that may hang: no accepted item is in neither file nor cache; items reach the file once and in order, except what a recovery repeats, also when a write fails; header and body stay together; the parser prints every sound chunk before an incomplete one, also when the file ends anywhere, and all that a returned `Flush` promised; the sink implements `DurableLog` |
| `SinkLiveness` | `FlushDurable`, `AnswerComes`, `FlushReturns`, `SlaveDrains`, `RecoveryWrites` | every `Flush` returns, and has then written what was accepted before it was called; the slave is always handed back, also after an overlap; whoever waits has its answer under way; what the constructor finds in the caches reaches the log file, also after a crash of the recovery |
| `LogFilesSafety` | `TypeOK`, `CurrentIsNewest`, `OvershootOneChunk`, `QuotaRestored`, `CurrentFileKept` | rotation and elimination |
| `CacheMapping` | `TypeOK`, `InBounds`, `SafeUntilOutgrown`, `ImplementsCacheFile` | three processes, two failing system calls, two unlocked readers: copies stay inside the mapping and the file; no bad pointer is used before a cache outgrows its capacity; the file changes only by operations that were called, each at once, and by no crash, failure or open |
| `Pipeline` | `TypeOK`, `ItemsReadBack`, `Delivered`, `LinesMixBounded` | two threads, a console between two `EffectiveSink`s: the parser reads back what was logged whatever earlier calls left behind; a name that is not UTF-8 costs strings, not numbers; every sink gets every accepted message once and in order, up to one per failure; lines mix only between threads |
| `Pool` | `TypeOK`, `WaitCoversEarlier`, `TasksConserved`, `NoWakeUpLost`, `PostedRuns`, `StopReturns` | one or two workers: with one, a wait that ended covers all that was posted before; a posted task is in one place only; no lost notification for tasks; no worker waits while it is joined, and `Stop` returns, unless its notification is missed |
| `TimerCounts` | `TypeOK`, `RunsAtMost`, `CancelStops`, `TimerIsThere` | two callers: counts are kept, cancellation leaves one round at most; the timer thread does not sleep beside an entry, nor, in either of its loops, while it is joined, unless a notification is missed |
| `TimerLiveness` | `RunsAll`, `TimerStops` | tasks run as often as asked for; `Stop` returns, the `Stop` of the pool with it, unless one of the two notifications is missed |
| `ContextTags` | `RunnerOfItsOwn`, `AddReturns` | tags are never shared and the search ends |

Three runs show where code and documentation disagree:

* `SinkFlushLosesRace` (`FlushWritesAll`). One caller is enough. `Log` posts
  `CacheToFile_` whenever the cache is over 80%, also when it did not swap, so tasks
  pile up. A later `Log` or `Flush` stores `slave_free_ = false` and is about to
  swap; a task left in the queue finds the flag false and the slave empty, and sets
  the flag back to true. After the swap the full cache counts as free. The next swap
  makes it the master again: `Flush` returns and the items are not in the file.
  The comments of `Flush` (lines 114 and 118) say that both caches are written.
  Setting the flag and swapping under `mtx_`, with the check of `CacheToFile_` under
  it too, would close the window.
* `SinkRecoveredKey` (`ChunkKeyDecrypts`). Line 155 writes the key of the running
  process into the chunk header also for items a dead process encrypted. README.md
  (111 and 211) promises crash recovery and a header key that decrypts the chunk.
* `LogFilesSameSecond` (`IndexFound`). The loop of lines 194-196 increments `index`
  but never changes `candidate`. A rotation in the second in which the current file
  was named never ends, nor does any later `Flush`.

Documentation that differs from the code in passing: `ChunkHeader` is 144 bytes, not
64 (`README.md:211`); the key is the 32-byte shared secret, so AES is not AES-128
(`README.md:17`).

### Bounds

Every bound is a constant named `Max...`.

* *Caches.* `PageSize = 2`, `HeaderSize = 2`, `DefaultCapacity` 4 or 6: the first
  item already fills a cache of 4 over 80%, so swaps happen with three items, and
  the second makes it grow; with 6 an item fits without a swap, so that a crash finds
  both caches in use.
* *Items and flushes.* Three items put one each in the file, the slave and the
  master. `MaxRuns = 3` is a crash of the recovery after a crash. `SinkCrash` has one
  `Flush`, beside whatever else runs; in `SinkLiveness` two of two threads overlap.
  `SinkCrash` also passes with `MaxFlushes = 2` and `MaxRuns = 2` (8.4 million
  states), which takes too long to repeat every time.
* *Mapped files.* A capacity of 3 in pages of 2 is rounded to 4, so two pushes fit
  and the third grows the file; `Resize` reaches a size above and below. Two failures
  allow a second one while the first is being recovered from.
* *Pipeline.* A message with all fields at their defaults that can be, one with all
  set, and one that is not UTF-8. Two calls show what the first leaves for the second,
  in one thread or between two; two failures, a change of level and one formatter
  replaced.
* *Files.* A chunk below and one above the limit, four chunks, two old files;
  a quota less than what they amount to. `Mega = 2` and `Word = 16`: the products fit,
  as those of any realistic configuration do in 64 bits.
* *Pool.* Two clients, one or two workers, two tasks; two `Start`s, so that tasks left
  by `Stop` meet a restarted pool.
* *Timer.* `IntHalf = 4`, `Forever = 63` (a 3-bit int, a 6-bit unsigned) have all
  classes of the conversion: 1 stays, 8 becomes 0, 63 becomes -1. `MaxLate` bounds
  how far the timer thread is behind; time waits for it then. It must not saturate
  instead: the order of overdue entries is what keeps a repeated task from starving
  another.
* *Tags.* Callers ask for 0, 1 and 2 while the counter gives 1, 2, 3...

`CHECK_DEADLOCK FALSE`: a run ends when the bounded callers have nothing left to
call, and a program that stops logging is no deadlock. That nobody waits for ever is
what the liveness runs check. Symmetry is used in safety runs only.

### Fairness

Weak fairness of a call that has begun, of the worker and of the timer thread: these
are threads the operating system schedules, and the runners are never stopped
(`Context::GetInstance` leaks its object). Nobody has to call anything, nothing has
to crash, a waiting thread need not wake by itself. Strong fairness where a thread
competes for a mutex another takes again and again (`Lock` and `Emplace` of the
pool, `Push` and `StartRun` of the timer, `Lock` of the context): `std::mutex` does not promise it,
but a thread in the futex queue gets the lock some time. In `EffectiveSink` weak
fairness is enough. `wait_for` times out and time passes.

## 4. Proofs

Every invariant and action property the passing runs check and both refinements are
theorems: they hold for every value of the constants, so for any
number of threads, items, crashes and failures and any sizes. The assumptions on the
constants are those of the modules that declare them (`BufferAssumption`,
`SinkAssumption`, `AuxAssumption`, `FilesAssumption`, `PipelineAssumption`,
`PoolAssumption`, `TimerAssumption`, `ContextAssumption`). They give types and
ranges: a page has a size, a clock ticks, the files found at the start are finitely
many and have names the sink would choose, message levels are the seven of
`LogLevel`. Two theorems have a hypothesis of their own, named below.

| Theorem | States | Inductive invariant |
|---|---|---|
| `TypeCorrect`, `SinkInvariant`, `NothingIsLost` | `SinkInv`, `NothingLost` | `SinkInv` |
| `FlushIsDurable` | `FlushDurable` | `SinkInv`, `CallInv`, `FlushInv` |
| `ItemsStayWhole` | `ItemFraming` | `SinkInv`, `CallInv`, `RecoveryInv`, `FramingInv` |
| `ItemsStayInOrder` | `WrittenInOrder` | `SinkInv`, `CallInv`, `OrderInv` |
| `NobodyWaitsForNothing` | `AnswerComes` | `SinkInv`, `CallInv`, `AnswerComes` |
| `SinkImplementsDurableLog` | `ImplementsDurableLog` | those of `FlushIsDurable` |
| `LogIsReadable` | `ParserReadsLog` | those of `ItemsStayWhole`, `LogInv` |
| `TornChunkDoesNoHarm` | `TornChunkContained` | those and `OrderInv` |
| `FlushedReachesReader` | `FlushedIsPrinted` | those of `LogIsReadable`, `FlushInv`, `WholeInv` |
| `AuxTypes`, `CopiesInBounds`, `PointersSafe` | `TypeOK`, `InBounds`, `SafeUntilOutgrown` | `AuxInv` |
| `AuxImplementsCacheFile` | `ImplementsCacheFile` | `AuxInv` |
| `FilesTypes`, `CurrentFileNewest` | `TypeOK`, `CurrentIsNewest` | `FilesInv` |
| `OneChunkOver` | `OvershootOneChunk` | `FilesInv`, `OvershootInv` |
| `QuotaIsRestored`, `KeepsCurrentFile` | `QuotaRestored`, `CurrentFileKept` (action properties) | `FilesInv`, `OvershootInv` |
| `PipelineTypes`, `LinesShareStdout` | `TypeOK`, `LinesMixBounded` | `TypesInv`, `LinesInv` |
| `SinksGetMessages` | `Delivered` | `TypesInv`, `OrderInv`, `LostInv` |
| `ParserReadsItems` | `ItemsReadBack` | `TypesInv`, `ReadInv` |
| `PoolTypes`, `NoTaskLost` | `TypeOK`, `TasksConserved` | `PoolInv`, `TasksInv` |
| `WaitCovers` | `WaitCoversEarlier` | those and `FifoInv`, `CoveredInv` |
| `WakeUpsSuffice` | `NoWakeUpLost` | `PoolInv`, `WakeInv`, `StopInv` |
| `TimerTypes`, `NeverMoreOften`, `CancelEndsTask` | `TypeOK`, `RunsAtMost`, `CancelStops` | `TimerInv` |
| `EntriesAreLookedAfter` | `TimerIsThere` | `TimerInv`, `LoopInv` |
| `RunnersApart`, `ContextInvariant` | `RunnerOfItsOwn` | `ContextInv` |

### The sink

`NothingLost` is not inductive: a step of `Clear` keeps it only if the slave's items
are in the file. `SinkInv` adds why they are. Read as a protocol, `slave_free_` is a
lock on the slave:

* `BusyWhileActive`: the worker is past its check only while the flag is false;
* `WindowHoldsSlave`: a thread in the window is alone, the slave is empty when it is
  about to swap, and the worker is not active;
* `FreeIsEmpty`: a free slave is empty, once the constructor has seen to it
  (`RecoveryStart` and `CtorFirst` cover the time before);
* `ChunkIsSlave`: the slave does not change between reading its size and writing it;
* `WrittenBeforeClear`: what is about to be cleared is in the file.

All of this holds while `raced` is false; the step that sets `raced` is the one the
proof cannot do without. The proof goes action by action: most steps change neither
caches nor file (`QuietStep`), pushes only add to the master, swaps exchange roles,
and the writing steps are done one by one.

What the callers get needs the queue too. `CallInv` says
what a call may rely on: only it has its empty task in the queue, whoever pushes
holds `mtx_`, tokens are of accepted items and `base` has only those. `FlushInv`
follows an accepted item through a `Flush`, from the master over the slave to the
file, and says at each point which step will move it on: a `CacheToFile_` that is in
the queue *before* the empty task that the caller waits for, or a swap ahead
of it. The last case is the file. `RecoveryInv` follows the
constructor, which waits until the slave is free again. `FramingInv` allows an item without body
only at the end of the master, while its thread holds `mtx_`, or in a master a crash
left. `OrderInv` compares the contents of file, slave and master: each is in order,
and all of one comes before all of the next, up to what a later process repeats.

The refinement takes each action to `Accept`, `Write`, a step of `Flush`, a crash or
a stutter of `DurableLog`. The return of `Flush` is the step that needs `FlushInv`:
the abstract log only lets it return when its items are written.

`AnswerComes` is the safety half of `FlushReturns` and `SlaveDrains`: a caller in
`WAIT_TASK_IDLE` has its empty task in the queue or its future ready, and while
`slave_free_` is false the worker is in `CacheToFile_` or has one to come. It needs no
discipline of the window and no working file system, and so holds without the
provisos `raced` and `ioFailed`: nothing a lost race can do makes anybody wait in vain.

### The parser

The model of `ParseFile` is a recursive function of the position, and what it is
compared with is `FlattenSeq`, a recursive function of the number of chunks. First
each is shown to exist and to satisfy its equation (`ItemsExist`, `ChunksExist`,
`FlattenExists`): of the numbers for which it would not, there is a least one
(`Forward`, `Backward`). Then the position is followed through the file: reading a
sound chunk at its beginning prints its `Entries` and leaves the position at the
beginning of the next (`ChunkRead`, `ChunkPosition`, `Chain`), and within a chunk the
alternation of headers and bodies, which is `FramingInv`, takes the inner loop over
all of its items (`FramedItems`). `LogInv` adds what the chunks themselves have to
say: each has the size and a key that its header names.

Behind a chunk that was cut short the parser is out of step, and nothing is known of
where it is. The proof of the order asks for less: whatever it prints is drawn from
the bytes ahead of it in their order (`Drawn...`), and these ascend by
`WrittenInOrder` while only one process has written (`WrittenAscends`).

`FlushedReachesReader` joins `FlushDurable` with this. `WholeInv` says that in the
log of the first process only the last chunk can be incomplete, and only while the
worker is between header and data or after a crash there; what a `Flush` promised
is in a chunk before it, so it is printed.

### Mapped files

The parts of `AuxInv` say what every system call leaves behind, also when it fails:
the header and data fit in `capacity_`, which a failed remapping leaves at its old
value (`CapacityOK`); the size asked for is the one the operation needs
(`ReserveOK`); what was copied is behind the data (`CopiedOK`); and only a call that
needs more than the capacity takes the mapping away (`OutgrownOK`), which is why
readers without the lock are safe until then. The refinement shows each step to be
one of `CacheFile` or a stutter: the copy of a `Push` changes cells behind the data,
the store of the size is where it takes effect, and what comes in between, a crash
too, ends the operation with the data as it was (`GoneEnds`, `ThrowEnds`).

### Log files

`CurrentIsNewest` needs that no file time is after the clock (`FilesInv`).
`OvershootInv` adds what the worker knows when it appends: the file was
within the limit, since the loop of lines 194-196 never ends in a process that was
the first one and lost no file, so that no name is used twice.
`QuotaRestored` is about a sum in the order `CHOOSE` takes the elements. That
the sum exists, does not depend on the order and grows with the set
(`SumsExist`, `SumsAgree`, `SumTakeOut`, `SumMonotonic`) is proved first; then the
oldest file that stays has had all others that stay counted before it. The
conversion `SpaceCast` can only make the quota smaller, so the theorem needs no
bound. `KeepsCurrentFile` does, `TotalSize * Mega < Word`: with a quota that
overflows `uint64_t` the current file may be deleted.

### Messages

`LinesInv` counts newlines and texts. `OrderInv` says of every sink that
it has got accepted messages only, those of a thread in order of its calls, and that
of the call under way only if the call is past that sink; `LostInv` charges
every other message to a failure. The hypothesis of
`SinksGetMessages`, `SinksApart`, is that the handle names no sink twice and
at most one console, since two consoles share one stdout and the model could not
tell whose line it is.

`ReadInv` says that every item is one frame and, unless the formatter
was replaced under its thread, holds what `InternalSerialize` makes of its message,
whatever the buffer and the stream held before. Then the round trip is a lemma
about the operators: the sizes `ByteSizeLong` adds up are the length of what is
written (`Carries`, `Serialized`), and the parser finds each field at the place
where it was put (`ParsedField`, `ReadBack`), up to the first string that is not
UTF-8, which comes after all numbers (`Carries`).

### Tasks

`TasksInv` puts every posted task into one place: the queue, a hand, or done.
With one worker `FifoInv` says that what is done, what is in hand and what is queued
are the posted tasks in their order, so that a wait for one covers all before it.
The first part of `NoWakeUpLost` is the safety half of `PostedRuns`, a count: with a worker waiting,
there are as many workers up and notifications to come as tasks in the queue. A
notification moves one from the second to the first, a push adds a task and a
notification, and the worker that goes to sleep has seen an empty queue under the
lock it still holds (`WakeInv`). This is where the clients have to be finitely many
(`PoolAssumption`). The second part, with `StopInv`, is the one of `StopReturns`: when `Stop` joins,
`is_shutdown_` is set, so that a predicate evaluated from now on is true.
`TimerInv`: a task has one entry, in the queue or with one thread (`OneEntry`); the
rounds it still allows and those done are at most those asked for (`CountsOK`, for
counts that fit in an `int`, `Fits`); and after a cancellation its id is not in the
set and at most one round was past its check (`CancelOK`, while the set is
not used from two threads at a time). `LoopInv` says why the timer thread is there
for an entry: `mtx_` keeps a push out between predicate and wait; a caller is only
past `Start` once `running_` is set; and from then on the worker is in the loop, is
awake in its pool with a `Run_` queued, or a caller is about to queue one, although
several callers may store `running_` before. `WorkerOK`, a part of it, is the worker
of the pool: it is in `Run_` or in its own loop, waits there only without a `Run_`, and
ends only once the pool is shut down. `ContextInv`: whoever searches holds `mtx_`,
a tag found free is free at the emplace, and calls have numbers of their own.

### How

Invariants go action by action, then by conjunct. Induction over data is out of
reach, since the library's induction theorems take an operator; where a proof needs
it, it takes a least counterexample, which is a set instead: of a nonempty set of
numbers there is a least (`LeastNat`, from the well-foundedness of `<` on `Nat`),
of sets of files one with no other below it (`MinimalSet`).

### Only model-checked

* Liveness, which TLAPS does not do: `FlushReturns`, `SlaveDrains`, `RecoveryWrites`,
  `PostedRuns`, `StopReturns`, `RunsAll`, `TimerStops`, `AddReturns`.
* The three disagreements, of which TLC gives the behaviours.

## 5. Not modelled

* Destruction of a sink with tasks queued: they captured `this`, and what a use of a
  destroyed object does cannot be stated usefully. A sink lives as long as its process.
* `ZlibCompress`, which only a unit test uses, and the arithmetic operators of
  `space.hpp`, which the library does not call.
* The generated Protobuf code the library does not call: merging, swapping, arenas,
  mutable access.
* The bytes of compression and encryption and the generation of keys, which are
  libraries' work; the layout of a printed line; the arguments of `main`.
* Third-party code.

## 6. What could follow

No invariant or action property of the runs is left without a theorem. The liveness
properties stay with TLC. Their safety halves are proved where they say more than the
liveness does on a small instance (`AnswerComes`, `NoWakeUpLost`, `TimerIsThere`).
For `RecoveryWrites` the refinement of `DurableLog` already says what it may not do,
which is to drop an item; `AddReturns` is a search in a finite dictionary and has no
such half.

`FlushedIsPrinted` could be carried over a second process for log files with another
name, if `LogFiles` and `EffectiveSink` were one specification.
