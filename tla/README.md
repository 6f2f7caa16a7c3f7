# io_scheduler in TLA+

A verification project for `io_scheduler`, a C++ coroutine scheduler with an
epoll loop, timers, hooked system calls, a memory pool and an asynchronous
logger. TLC checks the modules on small instances; TLAPS proves the safety
and action properties of all of them, and that the scheduler implements an abstract
pool, for every number of threads, tasks, timers, registrations, objects, files, log
statements and patterns, under hypotheses that section 6 names. File and line
references are to the repository's `src/` directory.

Contents: [1 The system](#1-the-system) · [2 Modules](#2-modules-and-their-code) ·
[3 Runs](#3-runs) · [4 Bounds](#4-bounds) · [5 Fairness](#5-fairness) ·
[6 Proofs](#6-proofs) · [7 What the code does not do](#7-where-the-code-departs-from-its-intent) ·
[8 Not modelled](#8-what-is-not-modelled) · [9 Plan](#9-plan)

## 1 The system

### Components

| component | source | state | operations |
|---|---|---|---|
| scheduler core | `concurrent/schedule.cpp`, `schedule.h` | `m_coroutines` (queue), `m_mutex`, `m_activethreadnum`, `m_freethreadnum`, `m_autostop`, `m_running` | `run`, `dispatch`, `batch_dispatch`, `start`, `stop`, virtual `notify`, `idle`, `can_stop` |
| coroutine | `concurrent/coroutine.cpp`, `coroutine.h` | `m_state`, `m_context`, `m_stack`; thread-local `cur_fiber`, `init_fiber` | constructor, `swap_enter`, `swap_out`, `yieldtoready`, `yieldtopause`, `call`, `back`, entry functions |
| thread pool | `concurrent/thread.cpp`, `thread.h` | per thread its id, semaphore and `m_started` | constructor, `run`, `join`; `Semaphore::wait`, `release` |
| timers | `concurrent/timer.cpp`, `timer.h` | ordered set `m_timers`, `m_previous`, a rwlock | `AddTimer`, `DeleteTimer`, `GetExpiredList`, `GetNextTime`, `DetectClockAdjust` |
| I/O scheduler | `io/io.cpp`, `io.h` | the pipe, the epoll instance, `m_waitingevents`, `m_fds` | `notify`, `idle`, `can_stop`, `AddTimer`, `DelteTimer`, destructor |
| event table | `concurrent/event.cpp`, `io/io.cpp` | per descriptor `m_current` and two contexts | `RegisterEvent`, `CancelEvent`, `DeleteEvent`, `TriggerEvent`, `resize` |
| hooks | `manager/hook.cpp` | whether hooks are on | `sleep`, `usleep`, `read`, `write` |
| descriptor table | `manager/handle.cpp` | `m_fds` | `AddFd`, `CancelFd`, `GetFd` |
| memory pool | `manager/memory_pool.cpp`, `memory_pool.h` | `m_begin`, `m_end`, free lists, `m_freememory` | `new_object`, `delete_object`, `recycle_memory`, `allocate`, `fill` |
| log format | `manager/logger.cpp` (`logger_format`) | the parser's positions, `m_items` | `explain`, `log` |
| log events | `logger.h`, `manager/logger.cpp` | one `logevent_wrap` per process, the appenders | the logging macros, `ConsoleLog`, `updata`, `add_appender`, ... |
| local time | `manager/times.cpp` | `m_local_date`, `m_mutex` | `update` and the getters |
| file manager | `manager/file.cpp`, `file.h` | `m_catalogue`, `m_files` with a shared stream and `opened` each | `add_file`, `open_file`, `close_file`, `rw_file`, `delete_file`, `get_stream` |
| sockets | `net/socket.cpp` | `m_socket`, `m_isconnected` | `Bind`, `Listen`, `Accept`, `Connect`, `close`, the destructor |
| addresses | `net/address.cpp` | none | conversions |
| daemon, command line | `boot/*.cpp` | none | two forks, then `Accept` and `close` in a loop |

`PROJECT.json` lists the same components with what is modelled of each.

### How they interact

* `start()` makes the threads; each executes `schedule::run`. `run` takes the
  first eligible entry of the queue under `m_mutex`, switches into its coroutine,
  and looks at the coroutine's `m_state` after it has switched out. An empty scan
  enters the thread's idle coroutine, which is `io_schedule::idle`.
* `idle` sleeps in `epoll_wait`, for at most three seconds, collects expired
  timers and dispatches their functions, drains the pipe, handles the events of
  descriptors, and leaves with state `init` or `terminate`; the second makes
  `run` return.
* `dispatch` appends under `m_mutex` and calls `notify` if the queue was empty;
  `notify` writes to the pipe with `m_mutex` held, through the hooked `write`.
* `RegisterEvent` stores a callback, or the current coroutine, in a context and
  tells epoll; `idle` hands it to the scheduler the context names.
* `sleep` pauses the current coroutine and adds a timer.
* `stop` sets `m_autostop`, notifies, and joins the threads.
* `command::implement` binds and listens on a `Socket`, starts an `io_schedule`, and
  accepts for ever; `Accept` enters what it gets into the descriptor table.
* A file appender takes its stream from the file manager once and writes to it from
  then on, while others open and close it.
* Every component logs, through the one `logevent_wrap`; the logger asks `Time`
  for the date and the memory pool for its objects.

### What is hard, and what makes each component correct

The hard parts are the interleavings around `m_state` (written before the context
is stored, read by the scan of every thread), the unlocked counters that
`notify` and `can_stop` decide by, lost wake-ups, stale epoll events, the
semaphore that counts without its lock, timers whose ordering is not an
ordering, memory that is handed out by one computation and taken back by
another, a log event that is shared by everyone, and file streams and descriptor
numbers that several parts use at once. They are listed one by one,
each at its line, under "hazards" in `PROJECT.json`. The components are correct if

* **scheduler**: a coroutine executes on one thread at a time; a task is in one
  place; none is entered after its end or destroyed before it; every queued task
  gets its turn while a thread that may take it is left in `run`; seen from outside,
  it is the simple pool of `TaskPool`;
* **thread pool**: no thread is in its loop before the pool is complete, `start`
  returns unless it misses a notification, and `stop` returns only when every thread
  is out, and then does;
* **timers**: what is due is collected, once, and nothing else;
* **I/O scheduler**: the counters are right, the pool does not die out while there is a
  cyclic timer, a dispatched task runs and `stop` returns, except in the ways that section 3
  lists;
* **event table**: a registration is handed over at most once, and the table, the
  contexts, the kernel and the counter agree;
* **memory pool**: live objects do not overlap and fit into their memory;
* **log**: a line has what its own statement and the pattern put into it, statements
  are logged once and in order, the parser of patterns ends and reads everything;
* **files**: a file has one slot and one stream; `rw_file` is complete if no other
  thread uses the stream meanwhile, and then returns, unless it finds the stream open
  with `opened` false;
* **sockets**: a connection that a call has reported has one owner and is not lost,
  but for numbers that are used after `close`; a descriptor that is accepted is in the
  table; and every client is served, with the exceptions of section 3;
* **time**: a getter's answer is the date at some moment of its call, within a month
  and if no `update` is under way while it reads.

## 2 Modules and their code

State variables and actions bear the names of the members and functions they
model; `PROJECT.json` maps every definition to its lines.

| module | models | its actions |
|---|---|---|
| `TaskPool` | the abstract pool: what `dispatch()` promises | `Submit`, `Start`, `Leave`, `Resume` |
| `Schedule` | `schedule::run`, `dispatch`, the coroutine and its swaps | `Take`, `RunCoroutine`, `RunFunction`, `SettleCoroutine`, `SettleFunction`, `Yield`, `Finish`, `SwapOut`, ... |
| `ThreadPool` | `Thread`, `Semaphore`, `start`, `stop`, the destructor | `Create`, `Check`, `Block`, `Record`, `Count`, `Notify`, `Join`, `Destroy`, ... |
| `TimerManager` | `Timer_manager` on a `std::set` with its comparator | `AddTimer`, `DeleteTimer`, `Look`, `Collect`, `Dispatch`, `Tick`, `SetBack` |
| `IoSchedule` | `io_schedule` without descriptors' events: `idle`, `notify`, the pipe, `stop` | `Scan`, `TopOfLoop`, `Poll`, `Expire`, `PutBack`, `Hand`, `Drain`, `Close`, `Stop`, `StopNotify`, `Join`, ... |
| `EventTable` | the event table and the branch of `idle` that handles events | `RegisterEvent`, `CancelCheck`, `CancelEvent`, `Poll`, `PassOver`, `Handle`, ... |
| `MemoryPool` | `memory_manager`, `memory_block` | `NewSmall`, `NewBig`, `Back`, `PopBack`, `delete_object`, ... |
| `LogFormat` | `logger_format::explain`, a step per turn of its loops | `Outer`, `OpenGroup`, `Separator`, `Character`, `InParentheses`, ... |
| `LogEvents` | the macros, `logevent_wrap`, `ConsoleLog`, the appenders | `Begin`, `FindWrap`, `Wrap`, `updata`, `Write`, `ConsoleLog`, `delete_appender`, ... |
| `Logger` | the root logger: `LogFormat` and then `LogEvents`, whose lines the items write | `Explain`, `Log` |
| `FileManager` | the file manager, its streams, and the file appenders | `add_file`, `open_file`, `rw_file`, `OpenForBoth`, `Getline`, `WriteBuffer`, `Return`, `delete_file`, `AppenderOpen`, `log`, ... |
| `Sockets` | `Socket`, `handle::AddFd` and the daemon's loop, over the kernel's descriptors | `Make`, `ConnectCall`, `Kernel`, `ConnectReturn`, `Connected`, `close`, `Destroy`, `AcceptCall`, `MakeAccepted`, `Accepted`, `CloseAccepted`, `Restart`, ... |
| `LocalTime` | `Time::update` and the getters | `Lock`, `SetDate`, `Carry`, `Read`, `Tick` |
| `ScheduleProofs`, `TimerManagerProofs`, `IoScheduleProofs`, `EventTableProofs`, `MemoryPoolProofs`, `FileManagerProofs`, `SocketsProofs`, `LoggerProofs` | the theorems of the module each is named for, and the lemmas they rest on; `ScheduleProofs` has those of `ThreadPool` as well, `TimerManagerProofs` those of `LocalTime`, and `LoggerProofs` those of `LogEvents` and `LogFormat` | |
| `MC*` | the constants of the runs | |

How they fit together. `Schedule` is the core, with the virtual members left
open: `notify` does nothing and a pass of `idle` ends in any state of
`IdleEnds`. `IoSchedule` gives them their bodies and treats coroutines as
callbacks that run to their end, because what coroutines may do is the subject of
`Schedule`. `ThreadPool` shows that the threads `Schedule` starts with are all
there; it and `IoSchedule` each model the half of `stop` they need. `IoSchedule`
uses timers as a set of which any member may be due, which is sound because
`TimerManager` shows that what is due is collected and nothing else; from there it
also takes that `DeleteTimer` never finds a timer. `EventTable` has the events
that `IoSchedule` leaves out.
`Logger` composes `LogEvents` (EXTENDS) with `LogFormat` (INSTANCE): the second
has ended, or has stopped the program, before the first begins, and the properties
of a line speak of both. `FileManager` has the file appenders because all they do
is to use its streams; the lines they write come from `Logger`. `Sockets` counts
the descriptors of an `io_schedule` and does not look into it.
`Schedule` instantiates `TaskPool` with a refinement mapping (`Pool`).

The names of specifications differ where two modules are extended by one:
`LoggerSpec` beside the `Spec` of `LogEvents`, `PoolSpec` (with `PoolInit`, `PoolNext`,
`poolvars`) of `ThreadPool` beside that of `Schedule`, `TimeSpec` of `LocalTime` beside
that of `TimerManager`. In `LocalTime` the place of a thread is `at`, for the same reason.

Decisions a reader should know:

* **Atomic steps.** What happens under one lock from beginning to end is one
  step; where the code looks, lets go and looks again there are as many steps.
  `Semaphore::release`, `notify`, `allocate_memory`, `epoll_wait` and the swaps
  are split where another thread can get in between.
* **Two views of a coroutine.** `Schedule` keeps `m_state`, which the code
  decides by, apart from `m_context`, which says where the execution really is
  (running, saved, foreign, done, lost, freed). Its properties relate the two.
* **Client habits.** `run` is not safe for every client. `Client` names four uses
  of the public interface that the code accepts: dispatching a suspended
  coroutine before its thread is through with it (`eager`), ending while somebody
  holds the coroutine (`leak`), pausing while nobody does, as `sleep` does
  (`anonymous`), and constructing coroutines inside of bodies (`construct`). The
  runs say which are on.
* **Undefined behaviour** is a choice: the uninitialised `epoll_event` of
  `idle` may monitor anything under any data word (`Handle` of `EventTable`), and
  the data word of the pipe, which is read from `m_pipefds` before `pipe()` fills
  it, is null or happens to be right (`Tags`). Where execution goes on with no
  meaning left, a thread is at "undefined" and takes no more steps.
* **The kernel** is modelled as the code uses it: an edge-triggered interest per
  descriptor, `EEXIST`, `ENOENT`, `EFAULT`, a pipe of bounded size, the lowest free
  number for every new descriptor, an address that may be in use after a crash, and
  connections that are made or refused in the kernel's own time: a `connect` that waits
  is told, also when another call on the same socket has begun it, one that does not wait
  has failed by then, and one on a udp socket succeeds as often as it is made.
* **`std::fstream`** is modelled as the standard defines what `file.cpp` relies on:
  opening an open stream and closing a closed one fail and set failbit, only a
  successful `open` or `clear` takes it away, `ios::out` alone truncates. `rw_file`
  has a step for each call, since it holds no lock. Each line of a file has its end of line,
  so the loop of `rw_file` makes one turn more than there are lines.
* **A crash** is in `Sockets` (`Restart`): the process loses its descriptors and
  objects, and the kernel keeps the clients that wait and, possibly, the address.

## 3 Runs

| run | question | properties | states |
|---|---|---|---|
| `ScheduleAny` | Two threads, three tasks that are bound to none, every client but the eager one, idle ending either way: where are the tasks? | `TypeOK`, `ExclusiveRun`, `Placement`, `TerminatedIsFinal` | 1,441,000 up to symmetry |
| `ScheduleTurns` | With disciplined clients and fair threads, does the scheduler implement the abstract pool, and does everyone get a turn, though idle may terminate at any time? | `NoDeadResume`, `NoLostTask`, `ImplementsPool`, `EveryTurnComes` | 167,000 |
| `ScheduleEager` | What if a suspended coroutine is dispatched at once by whoever holds it? *(violation)* | `ExclusiveRun` | |
| `ThreadPoolLive` | Four threads: is the pool complete before it works, and does `stop` wait for all? | `PoolInv`, `PoolComplete`, `StopWaitsForAll`, `PoolRunsAndStops` | 841 |
| `TimerClock` | Three timers, two collecting threads, deletions, and a clock that is set back | `SortedOnce`, `OnceOrCyclic`, `CollectsExactlyDue`, `EveryTimerFires` | 147,000 |
| `IoPool` | Two workers, a task bound to one, a cyclic and a one-shot timer, a pipe that fills up: does the pool survive, does the task run, does `stop` return? | `CountersAgree`, `SomebodyStays`, `TaskRuns`, `StopReturns` | 885,000 |
| `EventSafe` | Three threads with stale events of one descriptor, three registrations, cancellation at any moment | `HandedOnce`, `WaitingIsCurrent`, `SchedulerIsThere`, `KnownToKernel`, `WaitingEventsCount` | 95,000 |
| `MemSafe` | Two threads make and release small and large objects in every way there is | `OwnRegion`, `FitsItsPiece` | 128,000 |
| `Logger` | Every pattern up to five characters and longer plain ones is explained; with one of them three statements are logged over the ends of days and of a month, some suppressed, with the appenders changing in between | `ItemsInOrder`, `LinesAsWritten`, `LoggedOnce`, `RunsOfOneMonthDay`, `Terminates` | 405,000 |
| `FileLog` | Two threads with two files in a table of one, appenders and `delete_file` in between: is a file one stream, is `rw_file` complete, does it return? | `OneSlotPerFile`, `RwIsWhole`, `RwReturns` | 854,000 |
| `Sockets` | The daemon, which may crash at any time, and two users of sockets share six descriptors: who owns a connection, is one lost, and is every client served? | `ConnectedIsOwn`, `NoReportedLost`, `AcceptedIsRegistered`, `EveryClientServed` | 849,000 |
| `LocalTwo` | Two threads ask for the time at once | `ReadsTheTime` | 17,000 |

What they show beyond "it holds":

* **ScheduleAny / ScheduleTurns.** The queue and the hands of the threads are
  all that mutual exclusion needs; the scan's own test of `m_state` only matters
  for an eager client, and there it does not suffice (`ScheduleEager`):
  `yieldtopause` gives up the state `running` before `swapcontext` has stored the
  context, and the scan of another thread enters the coroutine on a stack that is
  in use. A thread whose idle has terminated leaves `run` when it finds nothing; a
  task that is queued behind the last of them is never run, and `EveryTurnComes` says
  that this is the only way to wait for ever.
* **ThreadPoolLive.** Once `start` has returned every thread gets into `run`, and `stop`
  returns if all of them leave it, which is up to `IoPool`. `start` itself
  returns in every way but one: `release()` may fall between the test and the sleep of
  `wait()` (`Missed`), and then `start` sleeps with the scheduler's mutex in its
  hands until it is woken without a reason.
* **TimerClock.** `<=` makes equal elements less than each other. `insert` and
  `lower_bound` survive this, so timers are collected correctly, also under a
  clock that goes back; `find` never finds, so no timer can be deleted.
* **IoPool.** The wake-up by the pipe is unreliable (`notify` may see no idle
  thread, the event buffer is gone after a worker's first pass, the data word may be
  wrong) and yet every task runs, because `epoll_wait` times out, *unless* every
  thread that may take the task is lost for good. `OutOfService` and `Jammed` list the
  three ways there are: the worker has left `run`, because there was no timer; it
  sits in the blocking read of the pipe; or a thread blocks or has crashed in
  `write` with `m_mutex` held. `TaskRuns` and `StopReturns` say that there is no
  other, and for `stop` that only a cyclic timer keeps it from returning besides. The
  notifications of `stop`, one for each thread, are among the writes that may jam.
* **EventSafe.** Whatever is delivered late, a registration is handed over at most
  once and what waits is believed to be monitored. That a scheduler is there to
  take it holds only where every registration of the event was made outside the
  pool's threads, that the counter is right only where no descriptor is registered
  twice, and that the kernel monitors what the table says only until the first
  `CancelEvent`; the properties are stated under these conditions.
* **MemSafe.** `allocate` is written to carve a large region up and never does,
  because it asks `malloc` for exactly what it hands out. This is what keeps the
  logger's `shared_ptr`s, which call `operator delete` on pointers from the pool,
  from freeing other objects (`OwnRegion`).
* **Logger.** The parser ends, or reads behind the end of a pattern whose last
  group something follows; a plain pattern is read completely. With one thread the
  shared current event does no harm, suppressed statements only repeat an old
  line, and changing the appenders between two statements costs no other appender
  a line. The list of the day is a run of what was logged on one day of a month: the
  change of the month empties what is recorded and not this list, so that it goes on
  if the next statement comes on the same day of another month.
* **FileLog.** `opened` is set once and never reset, so `rw_file` closes a closed
  stream before it opens it, which does no harm, and once more at the end. What is
  not so harmless is a stream that is open with `opened` false, and that is how
  `add_file` leaves every file that exists: then `rw_file` does not close it, the
  open fails, and so does every read, and the loop waits for an end that does not
  come, appending an empty line in every turn. `RwReturns` says that this is the only way. For the same reason a file
  appender has a stream that has failed: its constructor opens it for reading
  although it is open, and its lines are refused until somebody else has opened
  the file for writing. Two threads in `rw_file` disturb each other, as do a thread and an
  appender; `RwIsWhole` and `RwReturns` are about those nobody disturbs. What has been read
  then stands behind what the caller's string held before, with an empty line after it.
* **Sockets.** Every `Accept` loses the descriptor its new `Socket` was made with.
  Nevertheless the daemon alone never runs out: if `socket` finds none free,
  the connection itself is the last one, and its `close` gives it back. If the process does not crash again and again, clients wait for ever
  in three cases: the address was in use when the process tried to bind, `start` of the
  `io_schedule` hangs as in `ThreadPoolLive`, or users have, or have lost, descriptors
  until none is left. `close` leaves the number in the object. A
  `Connect` of such an object goes to whatever has the number by then; if that is another's
  connection, or a socket another waits with, both believe to be connected and one closes the connection
  of the other. `reused` has these numbers, and `ConnectedIsOwn` and `NoReportedLost` say that
  no other connection has two owners or none. "Reported" is the other condition: a connection
  that the kernel makes after a `connect` that did not wait is reported by no call, no object
  believes in it, and it is lost unless `Connect` is called once more.

Each property is also run against a mutated module ("mutants" in
`PROJECT.json`): a definition is replaced by a form with a plausible mistake, and
the property must fail. The mutated forms stand in the modules just before what
they replace, marked "Mutant" or "Faulty".

`CHECK_DEADLOCK FALSE` stands where the system really may stop: a stopped pool, a
crashed or stopped set of threads, a parser that is done, a client with nothing left to do.

## 4 Bounds

| run | bounds | why they are enough |
|---|---|---|
| `ScheduleAny` | 2 threads, 3 tasks | two threads are enough for every race on one coroutine, the third task for one that a body constructs while the others are queued and in hand; the theorems of section 6 cover all numbers |
| `ScheduleTurns` | 2 threads, 2 tasks, one may be bound, idle ending either way | overtaking needs one task that yields forever and one that waits; with idle terminating one thread, or both, leave while the other task waits |
| `ThreadPoolLive` | 4 threads | each thread interacts with the client only; the theorems cover all numbers |
| `TimerClock` | 3 timers with delays 2, 2, 1, times 0..3, an "hour" of 1 | two that fall due together, one that overtakes them and is cyclic; the clock can go back and forth once |
| `IoPool` | 2 workers, 1 task, `PipeSize`, `QueueSize` and `TimersAlive` 1 | the pipe must be able to fill up; `QueueSize` keeps a cyclic timer from flooding the queue, which no fair schedule of the code excludes; a one-shot timer is added only while no other timer waits, so that the pool is seen both with a timer that stays and with timers that come and go |
| `EventSafe` | descriptor 1, 3 registrations (reading by callback and by coroutine, writing by callback), 3 workers, `UintMod` 8, `HandedBound` 2 | both orders of replacement, a coroutine and a callback in one context, two threads with the same stale event and a third that gets a new one |
| `MemSafe` | nodes of 2 bytes, 2 at a time, 4 lists, blocks of 10, `MaxRegions` 4; objects of 2, 3 and 9 | the code's 8, 20, 16 and 1024 scaled down with their order kept: pointer <= node, `max_size` < block; one thread makes large objects, because two race for a vector |
| `Logger` | patterns of 5 characters of any kind and 7 of plain groups, one of them logged with; 3 statements, 4 days: the last two of a month and the first of each of the two that follow, 2 changes of appenders, one thread that logs | two groups and an error around them, an open parenthesis at the end; two events of one day and one of another, with the list of a day recorded and dropped, days without an event, and the first of both months without one in between; the message in the second group, so that what the parser does with the last group matters |
| `FileLog` | 2 threads with 3 and 2 calls, 2 files of which one may exist (`Present`), a table of 1 (`m_maxnum`, 64 in the code), strings that are empty or have a line | `add_file` and two uses of one stream by a thread with two uses by another between any two of its steps, every access mode, and one file too many |
| `Sockets` | 6 descriptors, 3 of a scheduler, a table of 5, 2 users of whom one makes sockets that do not wait and udp ones, the other sockets that wait (`Kinds`), 1 client, any number of restarts | the listening socket and a scheduler leave two numbers, which two users, an accepted connection and what `Accept` loses contend for, so that every number is given out again; by a number of the other, each user comes to call `connect` on sockets of every kind, and both wait for one connection; the client may come again and again; the last number is just the size of the table. The theorems cover all kinds and numbers |
| `LocalTwo` | days of 3 hours, an offset of 2, `FirstHour` 0 to `LastHour` 6 | every carry within a month; at the month's end the code computes dates that do not exist |

## 5 Fairness

Safety runs need none. The others assume what an operating system gives:

* every thread that can take a step takes one in the end (weak fairness per
  worker and for the client's calls that are under way). Nobody is obliged to
  dispatch, to add a timer or to call `stop`;
* nothing obliges a thread to leave `run` (`LeaveRun` of `ThreadPool`): a cyclic timer keeps
  it there, and so does the read of the pipe. What `PoolRunsAndStops` says of `stop` is
  therefore what happens when all have left;
* a pass of the idle coroutine ends (`LeaveIdle` of `Schedule`). That of `schedule` does at
  once; that of `io_schedule` may stay in the read of its pipe, which is the subject of
  `IoSchedule`, where the worker is then counted as lost. With which state it ends is left
  open: no thread is assumed to stay in `run`;
* `start` may hang in `Sockets` without end (`StartScheduler`): nothing wakes it;
* bodies of tasks end or yield in the end: the scheduler is cooperative and does
  not promise anything against one that does not. A body may yield forever;
* `epoll_wait` returns: it is always given a time-out of at most 3000 ms
  (`io.cpp:191-197`). That is the weak fairness of `Poll`;
* a thread inside of `rw_file` goes on (`InFile` of `FileManager`); nobody has to
  call it. A turn of the read loop on a failed stream changes nothing but the caller's
  string, which grows by an empty line; it is no step of the model, and such a
  thread stays in the loop, which is what the code does;
* the process of `Sockets` may crash at any time, and `EveryClientServed` is only claimed for behaviours
  in which it does not for ever; the daemon's loop goes on (`Daemon`): it blocks in `accept` only while
  no client waits or no descriptor is free. Nobody has to connect, or to close;
* the clock advances (`TimerClock`), and the conclusion is only claimed for
  behaviours in which it is not set back for ever;
* a one-shot timer comes due (`IoPool`): strong fairness of "somebody collects it",
  because time stands still in no behaviour, and whoever calls `GetExpiredList`
  after the due time takes it (`CollectsExactlyDue` of `TimerManager`). It is
  strong because workers go in and out of `GetExpiredList`.

No fairness is assumed of locks beyond that: weak fairness of a worker lets it
wait forever for a mutex that others take again and again, and the liveness
properties hold all the same.

## 6 Proofs

Eight modules of proofs are checked by TLAPS to the last leaf. The named
assumptions of each component's module are used throughout; what a theorem
assumes beyond them stands in its statement and in this table. Sets of threads,
tasks, timers and so on may be infinite unless finiteness is mentioned.

| theorem | states | assumes |
|---|---|---|
| `ScheduleProofs!TypeCorrect` | `[]TypeOK` | nothing |
| `PlacementHolds`, `Exclusive`, `TerminatedFinal` | `[]Placement`, `[]ExclusiveRun`, `TerminatedIsFinal` | no eager client |
| `DeadAreNotResumed`, `TasksAreKept`, `PoolImplemented` | `[]NoDeadResume`, `[]NoLostTask`, `ImplementsPool` | disciplined clients (`Client = {}`) |
| `ScheduleProofs!PoolInvHolds`, `PoolTypeCorrect`, `CompleteBeforeRun`, `AllExitedAfterStop` | of `ThreadPool`: `[]PoolInv`, types, `[]PoolComplete`, `[]StopWaitsForAll` | nothing |
| `TimerManagerProofs!TimerInvHolds`, `SetStaysSorted`, `EachHandsInOnce` | the invariant, `[]SortedOnce`, `[]OnceOrCyclic` | nothing |
| `CollectsDue` | `CollectsExactlyDue` | no cyclic timer has a delay of zero |
| `IoScheduleProofs!CountersAreRight` | `[]CountersAgree` | finitely many workers |
| `PoolStays` | `[]SomebodyStays` | there is a worker |
| `EventTableProofs!TypeCorrect`, `OneHandOver`, `WaitingStaysCurrent`, `HandOverHasScheduler`, `CurrentMatchesKernel` | types, `[]HandedOnce`, `[]WaitingIsCurrent`, `[]SchedulerIsThere`, `[]KnownToKernel` | nothing |
| `CounterCounts` | `[]WaitingEventsCount` | finitely many registrations, fewer than `UintMod` |
| `MemoryPoolProofs!ObjectsOwnTheirRegions` | `[]OwnRegion` | one thread makes the large objects |
| `ObjectsFit` | `[]FitsItsPiece` | that, and no object is larger than a block |
| `FileManagerProofs!FilesHaveOneSlot`, `RwFileIsWhole` | `[]OneSlotPerFile`, `[]RwIsWhole` | nothing |
| `SocketsProofs!ConnectionsAreOwn`, `ConnectionsHaveSockets`, `TableHasAccepted` | `[]ConnectedIsOwn`, `[]NoReportedLost`, `[]AcceptedIsRegistered` | nothing |
| `TimerManagerProofs!GettersReadTheTime` | of `LocalTime`: `ReadsTheTime` | `SameMonthAndWeek`: no month and no week ends between a moment here and the same moment in the other time zone |
| `LoggerProofs!LogsEvents` | `LoggerSpec` implements the `Spec` of `LogEvents` | nothing |
| `PatternsExplained` | `[]ItemsInOrder` | nothing |
| `EventInvHolds`, `LogTypeCorrect`, `EachLoggedOnce`, `LinesOfOneStatement` | the invariant of the log statements, types, `[]LoggedOnce`, `[]LinesAsWritten` | one thread logs |
| `ListsAreRuns` | `[]RunsOfOneMonthDay` | one thread logs |

Where the assumptions come from. The habits of clients are those of section 2;
`ScheduleEager` shows that the first is needed; with "anonymous" and "leak" a
coroutine is lost or entered after its end, as section 7 says, and so the second is. One thread makes the large
objects because `allocate_memory` reads and removes the last block without a lock
(`memory_pool.cpp:30`); the bound on objects is one the code does not check: every
large request gets one block of `block_size` (`memory_pool.cpp:26`). A counter of
`UintMod` values cannot count more events than that. A cyclic timer with a delay of
zero is due again when it has just been put back, so that "nothing due is left"
cannot hold of it; the code accepts such a timer. `TimerAssumption` has the start of the clock
within the bound on it, and `SocketAssumption` the names of users different from
those of the daemon's two sockets.

One thread logs because two race for the vectors of the shared `logevent_wrap`, whose
outcomes the model leaves out. Of the calendar `ListsAreRuns` assumes nothing: two days of different months are one to
`updata()`, which compares the day of the month (`logger.cpp:74`), and the property is stated so. `SameMonthAndWeek` excludes
exactly the hours at which `update()` computes a date that does not exist: it increments the day
of the month and of the week and carries neither further (`times.cpp:63`). `LocalTwo`
satisfies it. `LoggerAssumption` has the letters of patterns different from the signs
of the format, as in the code, where `isalpha` tells letters
(`logger.cpp:486`).

The arguments, by module. Each has an inductive invariant, which TLC has checked
on the instance of the module's run before it was proved, and one lemma per
action or kind of action.

* **Schedule.** Types alone are not inductive, since actions index `m_state` by
  what `temp` and `cur_fiber` hold: `Typed == TypeOK /\ HandsFull` adds that past
  the scan a thread has a task in its hands. `Placed` adds `Placement` with
  `OnePlace` (queued once, in one hand, never both) and `NewIsNowhere` (before it is
  dispatched nothing refers to a task: what makes the push of a new task keep
  `OnePlace`). For `TerminatedIsFinal` it needs `FunctionIsNew`: a callback in the
  queue has a coroutine that never ran. With disciplined clients `Lifecycle` ties
  the two views of a coroutine together: where it is (queue, hand, body) determines
  `m_state` and `m_context`. Then no thread enters a context that is
  done, lost or freed, and what is let go of has ended or is held. The refinement
  mapping `Pool` is a function of the same places, so `PoolImplemented` goes through
  the actions once more: entering a task is `Start`, settling it is `Leave`, a
  dispatch is `Submit` or `Resume`, and the scan, the idle coroutine and what happens
  inside of a body stutter.
* **ThreadPool.** `PoolInv`: `start` holds the mutex from its first step to its last
  and the threads there are the ones it made (`StartHoldsMutex`), a semaphore
  counts only after its thread has stored its id (`IdBeforeCount`), ids are
  recorded in order and complete but for the thread whose constructor is under way
  (`Recorded`), and no thread is past the first lock of `run` before `start` is over
  (`RunsBehindStart`).
* **TimerManager.** The lemmas are about the operators: `InsertFacts` and
  `LowerBoundFacts` say what insertion and search do in a sorted set,
  `FindsNothing` that `find` cannot find under `<=`, `PutBackUnfolds` and `PutBackFacts`
  what the loop over the expired timers leaves. `TimerInv` adds to
  `SortedOnce` that a one-shot timer is in one place: in the set, with one worker,
  or handed in.
* **IoSchedule.** `Counted` says where a worker is counted and as what, over every
  label of `run` and `idle`; the induction needs that the sets the counters stand
  for are finite. `Owed` bounds the notifications that `stop` has still to make. `Staying` says which workers have decided to leave, and that not
  all have while a cyclic timer is in the set or in the hands of a worker that is
  putting it back (`CyclicWasThere`): the one that holds it will see it, whatever the others saw.
* **EventTable.** `HandedInv`: what waits was registered and not handed over,
  and nothing is handed over before it is registered. `CurrentInv`: what waits is
  current. `CountInv`: where no descriptor is registered twice, whatever the table, the kernel
  or a thread's stale event is about was registered, and waits or is not
  current any more (`Accurate`), and the counter is the number of what waits.
* **MemoryPool.** `PoolInv`: regions in lists, blocks, hands and objects are
  different, a piece begins where `malloc` put it and is at least a node large, only
  the first list is ever used, and the one thread that makes large objects finds the
  block it has just put there.
* **FileManager.** `FileInv`: catalogue and table are inverse to each other
  (`Tables`), a stream that is open although its slot does not say so is as `add_file`
  left it (`Streams`), and for each label of `rw_file` what an undisturbed thread has already read or written (`Whereabouts`,
  `Undisturbed`): turn by turn of the loop, what it was given and the lines before the stream's place. The steps on streams are proved once (`OpenTouch`, `PutTouch`, ...).
* **Sockets.** `maker` remembers for which object the kernel has given out a number, until it is free again.
  `SocketInv`: for numbers that are not reused, an object that believes to be connected, or whose `connect` has returned, is
  the maker of its number, which is a reported connection (`Holds`); likewise for a `connect` that waits (`Waits`),
  and what `Accept` has just got is nobody else's (`Got`); who waits with a number that was
  closed meanwhile waits with a reused one. Only who has a `Socket` is connected or in `connect` (`Lives`), nothing is
  connected while the daemon starts (`Unconnected`), and the table has room for
  what it holds (`Fits`). What `close` frees is then its own or a reused number (`CloseKeeps`).
* **LogEvents.** `EventInv`, for one thread that logs: there is one wrap (`OneWrap`), a
  statement is begun once and the one under way was begun last (`LastBegun`), it has a date
  from `updata()` on (`Dates`), the current event is its own from `wrap()` on and
  otherwise that of the last statement which was not left out (`CurrentEvent`). From there:
  a message is in its own event (`Contents`), lines are whole events in the order
  of their statements (`Logged`), a steady appender has all but the one under way
  (`AllLogged`), and every list is of one day of the month (`Lists`). `NothingMissing` adds for `ListsAreRuns` that
  all that was logged after an event of the list of the day is in it or about to be, so that what is recorded
  is whole. `LoggerSpec`
  implements `Spec` step by step, so that all of this holds of the root logger.
* **LogFormat.** `OrderInv` for every pattern: at each label of the two loops, where the
  group under way begins and ends, what has been kept of it in `temp_str` and `effect_str`
  (`Kept`), and that the items so far are found in the pattern from left to right
  (`Found`). `PlainInv` for patterns of groups of letters: the loops meet nothing else,
  and the items so far are those of all letters read so far, in their order
  (`NothingElse`, `Spelled`). That nothing is logged before `explain()` is done
  (`FormatFirst`) joins the two: `LinesOfOneStatement`.
  "In order" is stated by positions (there is a map of items into the pattern that goes
  from left to right), and not by filtering the pattern: the two say the same, TLC has compared
  them on every pattern of the run, and the first can be proved from one turn of a loop to the next.
* **LocalTime.** The lemmas are Euclid's (what adding at most a day makes of quotient and rest:
  `DivisionFacts`, `Shifted`), and that the months are apart (`DaysBeforeFacts`, `MonthsApart`), so that
  a date has one month (`DateIs`); `UpdateIsRight` is then that `update()`, undisturbed, computes the date
  `Offset` hours later. `ClockInv`: who is in `update()` has the mutex and a date of its
  own call, which was not before the calls of those who still have to read (`InUpdate`), and
  outside of it the date is that of an hour after all these calls (`DateIsNew`).

**Induction over data.** The theorems of the library that are for it have an operator
for a parameter and cannot be used. `WFMin` has none (a nonempty subset of a well-founded
set has a minimal element), and is enough where it is needed: a least position in a
sequence (`LeastOf`, `MinIsIn`), the existence of the function that a recursive
definition chooses, and the induction over the turns of a loop or the months of a
calendar, all by a least counterexample (`PutBackUnfolds`, `PutBackFacts`, `DaysBeforeFacts`,
`MonthsApart`). For that reason `PutBack` of `TimerManager` and `DaysBefore` of
`LocalTime` are recursive functions. No module uses `RECURSIVE`.

**Only model-checked**: everything under fairness (`EveryTurnComes`,
`PoolRunsAndStops`, `EveryTimerFires`, `TaskRuns`, `StopReturns`, `Terminates`,
`RwReturns`, `EveryClientServed`), which is out of the prover's reach. Every other
property that the passing runs check is a theorem.

## 7 Where the code departs from its intent

One disagreement has a run of its own, under "findings" in `PROJECT.json`:
`ScheduleEager`. While the modules were written others came to light. The models contain them, since they model what the code does, and the
properties are stated so that they hold nevertheless:

* a terminated coroutine that ran as a callback is set to pause and could be entered
  again if somebody still holds it: the test is against `error | terminate`, which is 5 | 4
  and so `error` alone (`schedule.cpp:143`; excluded from `ScheduleTurns`, whose clients do not "leak");
* `sleep` leaves nothing that resumes the coroutine, and it is destroyed
  (`hook.cpp:46`; excluded there as "anonymous");
* a bound task loses its thread after its first turn (`schedule.cpp:115`), and a coroutine's constructor makes it the current one
  (`coroutine.cpp:32`; hence `MistakenFor`);
* `start` never sets `m_running`, so the destructor never stops (`schedule.cpp:37`)
  and workers leave as soon as there is no timer (`io.cpp:249`);
* `DetectClockAdjust` is called twice and says no the second time (`timer.cpp:99`);
  no timer can be deleted (`timer.h:39`);
* `can_stop` asks for the opposite of what it should (`io.cpp:150`); the pipe is not
  non-blocking (`io.cpp:25`) and registered under an uninitialised word;
* `CancelEvent` leaves `m_current` and the contexts (`io.cpp:126`), after which a
  registration is refused silently (`io.cpp:93`); `DeleteEvent` never deletes
  (`io.cpp:138`); `m_waitingevents` is decremented for events nobody waits for
  (`io.cpp:232`);
* what `delete_object` returns goes to the list of the smallest objects, whatever its size
  (`memory_pool.h:131`), large blocks never come back (`memory_pool.cpp:36`), and
  the nodes behind the first that `fill` makes are lost;
* `release` of the semaphore counts and notifies without the mutex, so that `wait` may miss
  it and `start` with it (`thread.cpp:27`; `Missed`);
* `opened` is never reset (`file.cpp:100`); `rw_file` does not end on a stream that
  was open when it came with `opened` false, but appends an empty line to the caller's string for ever (`file.cpp:120`);
  it appends one such line behind every file, to a string it does not empty (`file.cpp:122`), and reads and writes without the
  lock; `add_file` does not ask whether the table is full (`file.cpp:36`); a file
  appender spoils its stream when it is made (`logger.cpp:227`);
* `Accept` loses the descriptor of the socket it makes (`socket.cpp:76, 157`), and a
  socket that does not know it is connected is never closed (`socket.cpp:168`), also when the kernel
  completes what a `connect` that did not wait has begun (`socket.cpp:131`); `close` does not forget
  the number, which `Connect` uses again (`socket.cpp:170`, `reused`); `start` may hang in the daemon
  as well (`command.cpp:65`);
  `fd_context::close` calls `fcntl` with `FD_CLOEXEC` for a command and closes nothing
  (`handle.cpp:50`), which is why replacing an entry of the table does no harm;
  `CancelFd` compares the size with the type (`handle.cpp:99`); `GetRemoteAddress`
  returns the local address the second time (`socket.cpp:53`); `Bind` makes a second
  owner of an address (`socket.cpp:112`); the daemon does not look at what `Bind`
  returns (`command.cpp:62`);
* days are told apart by the day of the month and only the first is kept, and a list may go
  on in another month (`logger.cpp:69-77`); a date is carried over the end of no month (`times.cpp:63`).

## 8 What is not modelled

* The main coroutine of a scheduler made with `use_caller`, `coroutine::call` and
  `back`: no code of the repository uses them.
* Data races on containers (two threads in `allocate_memory` or `wrap`,
  `GetNextTime` during an erase, `m_fds` during `resize`): their outcomes are no
  finite choice. The steps are there; the runs let one thread do it.
* `timer::refresh` and `reset`, which nothing calls; `malloc_memory`, which does not
  compile when used; the mutex wrappers nothing uses.
* Descriptor 0 in the event table, for which `resize(0)` makes no room.
* Values written into memory, texts and formats: the items of `LogFormat` and the
  lines of `LogEvents` are names. So are the lines of files, which are of one length.
* Addresses: conversions of strings and byte orders without a state, by whose
  result nothing else is decided.
* Of sockets, what is sent and received, their addresses, `Bind` with a string, and
  an `Accept` that does not wait; of the descriptor table, `CancelFd`, `GetFd` on its own and the
  time-outs, which nothing uses; of the daemon, forks, signals and the command line.
* Two names for one file, two threads inside of one call of a stream, and the
  look-up in the catalogue of files while it grows: the last two have no outcomes to
  choose from.
* The catalogue of `logger_manager`, and the levels of appenders, which nothing sets.

## 9 Plan

Done, in the order of importance: `Schedule` with `TaskPool`, `ThreadPool`,
`TimerManager`, `IoSchedule`, `EventTable`, `MemoryPool`, `LogEvents` and `LogFormat`
composed in `Logger`, `LocalTime`, `FileManager`, `Sockets`; and the theorems of
section 6, which are all the invariants, action properties and refinements of the runs.

What no theorem speaks of is two threads that log, or that make large objects, at once: the
code has no lock there, and the invariants rest on there being one.

What is left to model is small and decides nothing: the masks of `address.cpp`
against a reference definition, and the catalogue of `logger_manager`.
