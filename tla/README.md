# A verification project for ReServer

ReServer is a small TCP server in C++: a reactor (one accepting event loop, several I/O event
loops, `epoll` underneath), a pool of worker threads, and an echo service on top. This directory
holds TLA+ models of its concurrent core, TLC configurations that check them on small instances,
and TLAPS proofs for instances of any size.

## 1. The system

### Threads

* The **main thread** runs the main loop: it accepts clients and constructs their connections.
* **I/O threads**, one per sub-loop (3 in `echo.cpp`), are threads of a `ThreadPool` whose only
  task is `EventLoop::runLoop`. A connection belongs to the sub-loop `fd % threadsnum`.
* **Workers** (2 in `echo.cpp`, possibly none) are threads of a second `ThreadPool`; they compute
  the replies and post them to the loop of the connection.

### Components

| component | state | operations | talks to |
|---|---|---|---|
| `ThreadPool` | `m_taskqueue` under `m_mutex`, `m_cv`, atomic `m_stop`, the threads | worker loop, `addTask`, `stop` | callers of `addTask`; runs their tasks |
| `EventLoop` | atomic `m_stop`, `m_taskqueue` under `m_mutex`, the eventfd, the timerfd, `m_conns` (`m_connmutex`) | `runLoop`, `stopLoop`, `addTasktoqueue`/`wakeUp`, `handleWakeup`, `handleTimer`, `newConnection` | `Epoll` (calls), `Channel::handleEvent` (callbacks), `TcpServer::removeConn` |
| `Epoll`, `Channel` | the kernel's interest list; `m_inepoll`, `m_events`, `m_revents` per channel | `updataChannel`, `removeChannel`, `loop`; enable/disable, `remove`, `handleEvent` | the kernel; callbacks into `Connection`, `Acceptor`, `EventLoop` |
| `Connection` | `m_disconnected`, two `Buffer`s, `m_lasttime`, four callbacks | `onMessage`, `writeCallback`, `closeCallback`, `send`, `sendinLoop`, `timeOut` | its loop's queue, its channel, `TcpServer` |
| `Buffer` | a string | `readFd`, `appendWithsep`, `pickMessage`, `erase` | — |
| `TcpServer` | `m_conns` under `m_mutex`, the loops, the I/O pool | `handleNewConnection`, `handleCloseConnection`, `removeConn`, `start`, `stop` | shared maps between main thread and loops |
| `EchoServer` | the worker pool | `handleMessage`, `onMessage`, `stop` | pool, `Connection::send` |
| `Acceptor`, `Socket`, `InetAddress`, `Timestamp` | a descriptor, an address, a time | thin wrappers of system calls | — |
| `echo.cpp` | the global `server` | signal handler `Stop` | `EchoServer::stop` inside the interrupted thread |
| `log.{h,cpp}` | appenders, formats | not used by any other part | — |

A request goes: socket → loop thread (`onMessage`, `pickMessage`) → worker queue → worker
(`EchoServer::onMessage`, `Connection::send`) → task queue of the loop + eventfd → loop thread
(`sendinLoop`: output buffer, `enablewriting`) → writable event → `writeCallback` → socket.

### What is hard, and what makes each part correct

* *Queues and wakeups.* A push and the wakeup that announces it are two steps, on both queues; the
  flag of `stop` is written outside the mutex. Correct means: no task lost, doubled or overtaken,
  nobody asleep while there is work, and stopping that ends.
* *Edge-triggered I/O.* An event that is consumed and not fully handled never comes back. Correct
  means: no input or output is left without something that will bring the loop back to it.
* *State checked on one thread and used on another.* `m_disconnected` is read by a worker, the
  reply is used later by the loop; callbacks are set by the main thread after the loop may already
  call them.
* *Lifetime.* `shared_ptr`s are held by two maps and by tasks, while the batch of `epoll_wait` and
  posted replies hold raw pointers; descriptors are reused. Correct means: nothing dangles, nothing
  leaks, no map entry refers to the wrong client.
* *Shutdown.* The signal handler stops two pools and the loops, deletes the server and exits, all of
  it on top of whatever the interrupted thread was doing, and a second signal may come on top.
  Correct means: nothing is destroyed under a running thread, and the handler gets to `exit`.
* *A parser with three positions.* `LogFormatter::init` computes with unsigned differences of them
  and advances only in some of its branches. Correct means: no call of `substr` out of range, and an
  end.

`PROJECT.json` lists each hazard with the line where it bites and the properties that watch it.

## 2. The modules

| module | models | abstract counterpart |
|---|---|---|
| `TaskQueue` | the promise of a task queue: FIFO, at most once | — |
| `ThreadPool`, `MCThreadPool`, `ThreadPoolProofs` | `ThreadPool.{h,cpp}` | implements `TaskQueue` |
| `EventLoop`, `EventLoopProofs` | `EventLoop.{h,cpp}`, `Epoll::loop` | implements `TaskQueue` |
| `EchoService` | the promise to one client: an answer per request at most, in order if `Ordered` | — |
| `Connection`, `MCConnection`, `ConnectionProofs`, `ConnectionLedger` | one connection end to end: `Connection`, `Channel`, `Epoll`, `Buffer`, `EchoServer`, with the two queues as FIFOs | implements `EchoService` |
| `ConnTable`, `MCConnTable`, `ConnTableProofs` | the two maps, ownership and descriptors: `TcpServer`, the sweep of `EventLoop::handleTimer`, `~Socket` | — |
| `Shutdown`, `ShutdownProofs` | `echo.cpp` and the composition that it ends: `EchoServer::stop`, `TcpServer::stop`, both pools, the loops, the locks the main thread may hold | — |
| `LogFormatter`, `MCLogFormatter`, `LogFormatterProofs` | `LogFormatter::init` of `log.cpp` | — |

`Connection` uses the two queues as plain sequences: that is what `ThreadPool` and `EventLoop` are
shown to implement. `ConnTable` looks at the same connections from the side of their owners.
`Shutdown` puts both pools and the loops together, each in less detail than in its own module.
Definitions marked `Fault:` model a plausible bug of the definition that follows them. They are
part of no specification; putting one of them in the place of its definition makes a property
fail, which shows that the property depends on that line of the code.

### ThreadPool

Each worker has a program counter (`wpc`): `test` (line 21), `lock` (24), `pred` (26, mutex
held), `sleep` (26, predicate false, mutex held, not blocked yet), `asleep`, `pop` (31, the front
task moved out and not popped yet, mutex held), `run` (34), `exited`. Taking a task is two steps,
`TakeFront` and `Pop`, so that it is the mutex that keeps a second worker from the same task: with
a `Lock` that locks nothing (`LockNothing`) `RunOnce` fails.
`addTask` is `AddTask` (the push under the mutex) and `NotifyOne` (line 53, without it); `stop()`
is `SetStop`, `NotifyAll`, `JoinAll` (lines 59-63). Spurious wakeups may happen and need not.
One caller calls `stop()`; the second call, from the destructor, returns at once (line 57).
`taken` and `done` are history variables. Not modelled: exceptions out of a task.

### EventLoop

One loop thread (`pc`), posting threads, one caller of `stopLoop`. `Post`/`WakeUp` are the two
steps of `addTasktoqueue`; `HandleWakeup` (line 92, the read), `Lock` (95), `RunTask`* and
`Unlock` are those of the handler, which keeps `m_mutex` while it calls tasks. `EpollWait` reports
any `MaxEvents` of the ready channels, or all if there are fewer. The eventfd counter is exact; its
overflow at 2^64 - 1 is out of reach. Handlers of sockets are opaque here, and so is the sweep
inside `handleTimer`, which is the subject of `ConnTable`. A task that posts to its own loop would
deadlock on `m_mutex`; no task of the program does (`Connection::send` tests `isinLoopthread`).

### Connection

A request is a number and arrives in `Units` segments; a reply is one unit. `registered` and
`edge` are the kernel's side of an edge-triggered descriptor: an event of a watched kind, ADD and
MOD set `edge`, `epoll_wait` clears it and reports what a poll finds (`Level`). `SendSpace` is how
many replies the kernel takes before the client reads. `Construct` and the `SetCallback`s are lines
50-54 of `TcpServer::handleNewConnection`. `Construct` takes `EPOLL_CTL_ADD` (`Epoll.cpp:31`) and
`setInepoll` (36) as one step. If the loop thread sees the end of the stream between the two,
`disableAll` does a second ADD and the process exits with "event add error"; that too is an event
before the callbacks are set, which the model shows to end the process anyway. The loop thread is
cut between `epoll_wait` and the handler, between two reads and between two messages. `ReadEof` is
`closeCallback`; `m_inepoll` stays set, as in the code. `crash` records an `exit(-1)` of
`updataChannel` (`mod_error`) or a call of an empty callback (`no_callback`), after which nothing
happens. Not modelled: resets, errors of
`read`/`send`, the bytes of the header (`Units > 1` gives an incomplete message, not a short
header), timeouts.

### ConnTable

`Held(c)` says that some `shared_ptr` points to `c`: an entry of `server` or `loop`, the local
variable of `handleNewConnection` (`fresh`) or a task (`tasks`). A connection that is not held has
been destroyed and its descriptor may be given to a new one. Not counted are the raw references:
`batch` (the `Channel*`s of `epoll_wait`) and `posted` (the `this` in a posted reply); using one of
a destroyed connection sets `crash` to `use_after_free`. `silent` abstracts `timeOut`: the
connections without a message for `m_timeout` seconds; time may pass for any connection at any
moment. The sweep visits keys in ascending order as the `std::map` does and is cut between the
erase and `removeConn`. Inserting during the iteration is a data race: the model lets it work or
end the process (`map_race`): `m_connmutex` is called the mutex of `m_conns` (`EventLoop.h:54`), but
the iteration does not take it. One sub-loop is modelled: a descriptor always belongs to the same
sub-loop, so loops never meet in an entry of `server`. Not modelled here: the callbacks (see
`Connection`), a failing `accept`, a server without workers.

### Shutdown

The main thread constructs the server (`AddLoop` is one turn of the loop `TcpServer.cpp:14-20`),
assigns the global pointer and accepts clients; `held` is the lock it has, in the order of
`handleNewConnection`: `m_mutex` of `TcpServer`, `m_connmutex` of a loop, and the lock of `stdout`.
Each thread of a pool has a counter `tpc`: the states of the worker loop, and for an I/O thread `loop`
(`EventLoop.cpp:37`) and `epoll`; `path` is what the handler of a channel still has to lock. A pool
thread takes and leaves a lock in one step, and waits while the main thread holds it.

A handler `h` has a `host`, the thread it interrupted, which does nothing more: `Stop` never returns.
Its counter `hpc` goes through `print` (echo.cpp:8-10), then `test`, `set`, `notify`, `join` of
`ThreadPool::stop` for the worker pool, `loops` (`TcpServer.cpp:40-45`), the same four for the I/O
pool, `delete`, the destructors and `exit`. The kernel gives a first signal to the main thread. A
second one of the same kind is blocked there and interrupts a pool thread (`SecondSignal`), one of
the other kind nests (`NestedSignal`); what the buried handler was doing is forgotten, because it
never goes on. `server` is the global pointer, null until main assigns it and never null again.

`delete server` is unconditional and destroys members in reverse order of their declaration:
`EchoServer`'s worker pool (`EchoServer.h:16`), then `TcpServer` (`TcpServer.h:17-47`): its callbacks,
`m_conns` and `m_mutex`, its I/O pool, its loops. Of a pool `m_cv`, `m_mutex` and `m_taskqueue` go
before `m_threads` (`ThreadPool.h:24-28`). `gone` collects the parts that were destroyed
(`DestroyPool` puts a pool there before `DestroyThreads` looks at its threads). After one signal every thread has
ended by then. After a second one `stop()` may have returned early (`ThreadPool.cpp:57`), so members
of a pool do go while its threads run; the destructor of a joinable `std::thread` then ends the
process. Until it does, a step of a thread or a handler that uses a destroyed part is undefined: it
may end the process (`UseDestroyed`, `HandlerUsesDestroyed`), and it may also go on as if the part
were there, since its action stays enabled. The destructor of `m_cv` may wait for a sleeper, so the
steps of a second handler are not fair.

`outcome` says how the process ended: `exited`, `null_server` (a call through the null pointer),
`use_after_free`, or `terminate` (a joinable `std::thread` destroyed, or a `join` that throws).
`missed` is a history variable: some flag was set between a predicate and its wait, the window that
`ThreadPool` examines. Not modelled: the allocator's lock and other functions that are not
async-signal-safe, spurious wakeups, the timer, the constructor of a loop.

### LogFormatter

One action per branch of the two loops. Characters are `percent`, `lbrace`, `rbrace`, `space` and
letters; positions start at 1. `Spin` is a turn of the inner loop that changes nothing, which is what
the code does at any character but a brace in the right state. An item of the result is a text, an
item of the table, or the text `<<error_format %...>>`. Two more things the model shows and no
property is about: of `%%` only the first character is consumed, so the second one may start an item;
and `nstr` is not cleared when it has become an entry, so text is repeated.

## 3. What TLC checks

| run | bounds | result |
|---|---|---|
| `threadpool` | 2 workers, 3 tasks, fair | pass: `TypeOK`, `RunOnce`, `NoIdleSleeper`, `StopWaitsForTasks`, `ImplementsTaskQueue`, `EveryTaskRuns`, `StopReturnsOutsideWindow` |
| `threadpool_drain` | 2 workers, 3 tasks, symmetry | **violated**: `ExitOnlyWhenDrained` |
| `eventloop` | 1 socket, 2 tasks, batches of 2, finite timeout, fair | pass: `TypeOK`, `NoLostWakeup`, `StopInterruptsWait`, `ImplementsTaskQueue`, `PostedRuns`, `StopEndsLoop`, `TimerKeepsFiring`, `WakeupsSubside` |
| `connection` | 3 requests, 2 workers, kernel takes 1 reply, fair | pass: `TypeOK`, `NoLostInput`, `NoLostOutput`, `NoRequestLost`, `ImplementsEchoService`, `RepliesKeepOrder`, `RequestAnswered`, `CloseNoticed` |
| `connection_inline` | 4 requests, no workers, kernel takes 2 replies | pass: `NoLostOutput`, `ModFindsChannel`, `ImplementsEchoService` with `Ordered` |
| `connection_late_reply` | 2 requests, 2 workers, symmetry | **violated**: `ModFindsChannel` |
| `connection_setup` | 2 requests, 2 workers, symmetry | **violated**: `CallbacksInstalled` |
| `connection_fragment` | 2 requests of 2 segments, 1 worker | **violated**: `PickConsumes` |
| `conntable` | 2 connections, 2 descriptors, 1 unfinished reply each, fair | pass: `TypeOK`, `InsertReplacesNothing`, `ServerEntriesSweepable`, `OnlySweepFrees`, `ClosedReleased` |
| `conntable_reuse` | 2 connections, 1 descriptor, symmetry | **violated**: `RemovesTimedOut` |
| `shutdown` | 2 workers, 1 I/O thread, 1 loop, 1 task waiting, 2 signals, fair | pass: `TypeOK`, `DeletedAlone`, `JoinedBeforeFreed`, `OneSignalIsClean`, `LoopsOutliveWorkers`, `StopCompletes` |
| `log_formatter` | all patterns of up to 5 characters, 1 letter | pass: `TypeOK`, `SubstrInRange`, `TrivialReturns` |

`CHECK_DEADLOCK FALSE` is set where the system may rest: after `stop()`, when no client has
anything more to send, when the process has ended, or when a pattern was parsed. Symmetry is used only where
no liveness is checked. `EventLoop` and `Shutdown` are checked as they are; the other modules through an `MC` module that adds the symmetry
sets or, for `LogFormatter`, the patterns.

**Why the bounds are enough to be interesting.** Two workers and three tasks give a sleeper next to
a worker that runs, with a task to spare, and a `stop()` in between. Batches of 2 with up to three
ready channels leave the wakeup or the timer out. A kernel that takes one or two replies is full
with requests left, so short writes and lost writable edges happen. Two workers overtake each
other. Two connections on two descriptors are served and swept side by side, and the second may
also get the descriptor of the first after it is gone. In `shutdown` a worker can be
asleep, running or with a task in the queue next to another one, while the I/O thread is anywhere
between the test of its loop and the lock of a handler; a second signal may interrupt the main
thread, a worker or the I/O thread (`Targets`; the second worker is like the first). `MaxQueued`
stops reading while a task waits: a longer queue only gives a worker more to do before it sees the
flag. One loop is enough because a loop meets the others only in locks, and each of these is there
with one loop too. Five characters hold a `%{}` with one on each side or two more behind it.
Every safety property of the passing runs, the refinements included, is also proved without bounds
(section 5); what TLC alone shows is liveness and the five violations.

**Fairness.** All fairness is scheduling of threads that can run (weak), plus strong fairness where
a thread competes for something that is free again and again: a worker for `m_mutex`, and the loop
for a ready channel. The latter is justified by `epoll`: level-triggered descriptors that were
reported go to the tail of the ready list, so none is left out for ever. An armed timer expires and
tasks return. The client of `Connection` reads its replies but need not send or close. In
`Shutdown` a thread that waits for a mutex is strongly fair and everything else a thread or the first
handler does weakly; signals, clients and the second handler are not fair at all. `LogFormatter` only needs its thread to run. Nobody has
to add a task, to stop anything, or to connect; spurious wakeups and timeouts of `epoll_wait` are
never required.

## 4. Where code and comments disagree

1. `ThreadPool.cpp:27` says a thread exits only when the queue is empty; the loop condition at line
   21 lets it exit with tasks queued (`threadpool_drain`).
2. `Epoll.cpp:23` takes `m_inepoll` for "is in the epoll tree"; after `remove` it is not, and a late
   reply makes `EPOLL_CTL_MOD` fail, which ends the whole process (`connection_late_reply`). Without
   workers this cannot happen (`connection_inline`, and proved).
3. The callbacks of `Connection.h:28-34` may be called before they are set (`connection_setup`).
4. `pickMessage` "reads the body of a message" (`Buffer.h:31`), but for an incomplete one it returns
   true and leaves everything as it was, so `onMessage` never ends (`connection_fragment`).
5. The timeout callback "deletes the connection that timed out" (`EventLoop.h:56`), but deletes by
   descriptor, which may have a new owner (`conntable_reuse`).
6. `log.cpp:286-294` lists the directives `%m` to `%l`, `log.cpp:256-270` has an item for each, and
   `log.h:69` gives `//%t    %threadid %m%n` as a pattern. The inner loop of `init` does not advance at
   a letter (line 214-235), so `init` returns for no pattern with one of them, and the table is
   searched with the format of an entry instead of its string (276), so no item is ever found. There
   is no run for this one: it is proved, for patterns of any length (`ReturnsCorrect`,
   `NoItemCorrect` in `LogFormatterProofs`).

Properties that hold also mark where the code is at its limit, without a statement in the repository
that they would contradict: `StopReturnsOutsideWindow` and `StopCompletes` name the window in which
`m_stop`, set outside the mutex, is missed by a worker; `StopCompletes` also excepts a main thread
that was interrupted with a lock, because an I/O thread that needs it is then joined for ever;
`OneSignalIsClean` excepts a signal during construction; `DeletedAlone` speaks of one signal only,
because a second one makes the deletion begin under running threads, and `JoinedBeforeFreed` says
what these can still lose: the members of their pool, and for I/O threads those of `TcpServer`, but
not the loops or the memory; `OnlySweepFrees` leaves the sweep as the one way to a dangling channel;
`ImplementsEchoService` asks for ordered answers only where there are no two workers, which may
overtake each other before they post.

## 5. What is proved

All proofs hold for every value of the constants. Assumptions are the named `ASSUME`s of the
modules: finite sets of threads, tasks and connections, positive bounds, distinct channels.

* **ThreadPoolProofs.** The inductive invariant adds to the types the ownership of tasks (each task
  is in the queue, with one worker, or done; the task of a worker at `pop` is still the front of the
  queue), the mutual exclusion of `pred`, `sleep` and `pop` (`LockInv`), the count
  behind `NoIdleSleeper`, and what each state of `stop()` knows. `NoIdleSleeper` is not inductive
  alone: a worker that takes a task must be known to hold the mutex alone, and the count needs
  `Awake` and `adding` to be finite. Proved: `TypeOK`, `RunOnce`, `NoIdleSleeper`,
  `StopWaitsForTasks`, and that every step is a step of `TaskQueue` or a stutter.
* **EventLoopProofs.** The invariant adds where the wakeup of `stopLoop` may be: raised, or already
  consumed by a handler that is not back at the test of `m_stop`. Proved: `TypeOK`, `NoLostWakeup`,
  `StopInterruptsWait`, and the refinement of `TaskQueue`.
* **ConnectionProofs.** `NoLostOutput` needs to know that a loop thread that is reading has
  something to answer, hence that a report of input is still true when it is handled (`Reported`),
  hence that nobody else reads and a registered channel is always watched for reading (`Watched`).
  Proved: `NoLostInput`, `NoLostOutput`; `ModFindsChannel` if there are no workers; `TypeOK` if
  requests are not split (`Units = 1`), an assumption that `connection_fragment` shows to be needed.
* **ConnectionLedger.** Where the requests of a connection are. The queues form two rows: the
  *stream* (`inbuf \o rcv`, what the client sent and `pickMessage` has not taken) and the *posted*
  replies (`received \o snd \o outbuf \o loopq`). Reading, writing, receiving and `sendinLoop` from
  the task queue move elements along a row and leave the row as it is, so every step that does not
  end the process is one of a few moves (lemma `Moves`), and the invariants are proved of moves.
  - `Ledger`: the stream and the workers' queue hold the last requests that were sent, in order and
    without a gap; each other request is with one worker, or posted once, or dropped after the
    client closed; if there are no two workers, the k-th reply posted is to request k. This holds
    until the loop thread meets an incomplete message (`Stalled`). Then `pickMessage` hands on what
    it did not take, again and again, but the loop thread never comes to writing any more
    (`StalledStep`), so what the kernel has accepted stays right (`Delivered`).
  - From it, every step of `Connection` is a step of `EchoService` or a stutter (`EchoRefinement`),
    for any `Units`. `Ordered` holds of the instance when `Cardinality(Workers) <= 1`.
  - `RepliesKeepOrder`: a move leaves the posted replies alone or appends one, and so does a step
    that ends the process (`LastStep`).
  - `NoRequestLost` is proved for any `Units`, from `Kept`: whole requests leave the stream, so what
    has left it is a multiple of `Units` segments, and each of these requests is found in the queue,
    with a worker or among the posted replies until `m_disconnected` is set. It says nothing of what
    is dropped afterwards: `onMessage` discards what it has read, `send` what was computed.
  - `CrashCauses`: `mod_error` needs a worker and a client that has closed, `no_callback` a
    connection under construction. So `ModFindsChannel` and `CallbacksInstalled`, which
    `connection_late_reply` and `connection_setup` refute, fail in no other way.
* **ConnTableProofs.** The parts are `Keys` (an entry is under its own descriptor), `Own` (living
  connections have different descriptors), `Entering` (the new connection is in no map yet) and
  `Tracked` (from insertion to sweep a connection is in the loop's map). From `Own` and `Keys` an
  insertion finds its place free; from `Tracked` only a sweep frees. Most actions change neither map
  (`Quiet`, lemma `Effects`), so each part is proved for seven actions instead of twenty. Proved:
  `TypeOK`, `InsertReplacesNothing`, `ServerEntriesSweepable`, `OnlySweepFrees`.

* **ShutdownProofs.** `JoinedEnded` (a thread that has ended stays ended, so the threads of a pool
  that was joined have ended) and `DestroyedEnded` (a handler that got past the `m_threads` of a pool
  found it joined, and so did the one that destroyed what comes after) give `JoinedBeforeFreed` for
  both signals. What needs one signal, `DeletedAlone`, `OneSignalIsClean` and `LoopsOutliveWorkers`,
  rests on `OneHandler`: what the flags and joins are at each place of the only handler; without it
  the early return of `ThreadPool::stop` could skip a join. Undefined behaviour is out of the way
  early: with one signal nothing that was destroyed is used (`NothingUsed`). Proved: `TypeOK`,
  `DeletedAlone`, `JoinedBeforeFreed`, `OneSignalIsClean`, `LoopsOutliveWorkers`.
* **LogFormatterProofs.** `SubstrInRange` is inductive on its own types. The other two theorems say how
  far the code is from the documented directives (section 4). `NoItemFound` rests on `EmptyFormat`:
  behind a `{` the inner loop stands still at anything but `}`, so the format between the two is
  empty. `ReturnsOnlyIfTrivial` speaks of `Met`, a function defined by recursion over the positions.
  That such a function exists is proved from the least position up to which there is none
  (`MetExists`); `Unfold` then gives its equation. The
  invariant `Scanned` says that the outer loop stands at a position of `Met`, that each `%` of `Met`
  behind it was trivial, and how far behind it the inner loop is (1, 2 or 3 characters, as
  `fmt_status` tells). Proved for patterns of any length: `TypeOK`, `SubstrInRange`, `NoItemFound`,
  `ReturnsOnlyIfTrivial`.

**Only model-checked.** Liveness (all `~>` properties, `TimerKeepsFiring`, `WakeupsSubside`), which
is out of the prover's reach because it needs `ENABLED` under fairness.

## 6. What is not modelled

| part | why |
|---|---|
| `Buffer::appendWithsep` and `pickMessage` byte by byte, separators 0 and 2 | `echo.cpp` uses separator 1; `Connection` has its framing at the granularity of segments, which is what its hazards need |
| a failing `accept`, more than one sub-loop in `ConnTable`, a server without workers there | a descriptor always belongs to the same loop; a failing `accept` leaves the program with the index `-1 % m_threadsnum`, outside any state the model has |
| resets, errors of `read` and `send`, `errorCallback` | their first effect is a default signal action (`SIGPIPE`) |
| `Logger`, its appenders, `LogFormatter::format` | nothing in the program constructs them; two of their hazards are listed in `PROJECT.json` |

Left out for good: printing, address formatting, socket options, `Timestamp::tostring`, and the
test client as a program (the clients of the models do whatever a client may do).
