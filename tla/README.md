# GGO in TLA+

GGO is a C++ network library: stackful fibers on `ucontext`, an N-M scheduler
that runs them on a pool of threads, an IO scheduler that adds epoll and timers,
hooks that turn blocking system calls into waits, and sockets, streams and HTTP
on top. This directory models its concurrent core, from the scheduler up to an
HTTP exchange, in TLA+, checks it with TLC and proves part of it with TLAPS.
Paths are relative to `src/GGo`.

## 1. Inventory

| component | state | operations | hard behaviour | what makes it correct |
|---|---|---|---|---|
| Fiber (`src/fiber.cpp`) | `m_state`, context and stack, callback | construct, `reset`, `swapIn`, `swapOut`, `yieldToReady`, `yieldToHold`, return, throw | the state is written by one thread and read by others while the stack is still in use | one thread per stack; assertions hold |
| Scheduler (`src/scheduler.cpp`) | list of missions, active and idle counts, stop flags, one `run()` per thread | `start`, `schedule`, `run`, `idle`, `stop`, root fiber of the caller's thread | interleaving of workers, jobs, event sources and `stop` | nothing lost or run twice; `stop` drains and returns; counters exact |
| IOScheduler events (`src/ioScheduler.cpp`) | an FdContext per descriptor, epoll set, pending count | `addEvent`, `delEvent`, `cancelEvent`, `cancelAll`, dispatch in `idle` | stale epoll snapshots, edge-triggered events, close and reuse | no lost wake-up; contexts, epoll and waiting fibers agree |
| IOScheduler descriptor table | `m_fdContexts` | look-up, `contextResize` | growth between two locks | a registered context stays findable |
| IOScheduler tickle / `canStopNow` | pipe, idle count | `tickle`, `idle`, `canStopNow` | tickle against a thread going idle, three reads that are not atomic | work is noticed; no early stop |
| TimerManager (`src/timer.cpp`) | `std::set` of timers, `m_tickled`, last time | `addTimer`, `cancel`, `refresh`, `reset`, `getNextTimer`, `listExpriedCb` | a wrong comparator, clock set back, wake-ups suppressed | never early, never twice, not after cancel, in time |
| Hook (`src/hook.cpp`) | condition of a timeout | `do_io`, `connect_with_timeout`, sleeps, `close`, `fcntl`, `ioctl` | timeout against event, close against wait | each call returns; a timeout wakes |
| FdManager (`src/fdManager.cpp`) | an FdCtx per descriptor | `get`, `del`, flags and timeouts | creation between two locks, reuse of numbers | one FdCtx per open descriptor |
| Thread, mutexes, semaphore | thread-local names, lock words | start, join, lock, unlock | start-up hand-shake | the constructor returns after the thread runs |
| Socket, TCPSever | socket state; list of listeners, stop flag | connect, accept, close; bind, start, stop | accept loop against stop | after stop no listener is left |
| Stream, SocketStream, ZlibStream | - | fixed-size loops | partial reads and writes | all bytes once, in order |
| ByteArray | position, size, capacity, chain of blocks | fixed and variable-length reads and writes | block boundaries, 64-bit varints | reads return what was written |
| HTTP session, connection, server, servlets | buffer and offset; servlet maps | receive, dispatch | partial messages, chunks | exactly one message is taken |
| config, log, address, URI, util, generated parsers | - | - | mostly conversion and output | - |

Interactions: a worker's `run()` takes missions and switches to fibers; a fiber
that calls a hooked function registers an event (or a timer) with the IO
scheduler and yields; the idle fiber of some worker collects events and expired
timers and schedules the fibers again; `schedule` and an earlier timer write to
the tickle pipe, which wakes an idle thread. TCPSever, streams and HTTP are
users of these calls. `PROJECT.json` lists every component with its status, and
under `hazards` what in this code is hard to test.

## 2. Plan

Order of the work, the core first. `A -> B` says that A is shown to implement B.

1. **done** `Fiber`, `Scheduler -> TaskPool`, `SchedulerProofs`, the refinement
   included.
2. **done** `FdEvents`, `FdEventsProofs`: events, epoll and dispatch.
3. **done** `FdTable`, `FdTableProofs`: growth of the descriptor table.
4. **done** `TimerManager`, `TimerProofs`: timers and the sleep of idle threads.
5. **done** `IOScheduler -> TaskPool`, `IOSchedulerProofs`: `run`, `idle`,
   `tickle` and `canStopNow` composed; the refinement is proved, too.
6. **done** `Hook` (with FdManager) and, on top of it, `TcpSever`, `TcpSeverProofs`.
7. **done** `ByteArray -> ByteSeq`, `ByteArrayProofs`, the refinement included.
8. **done** `HttpParser` and, on top of it, `HttpExchange`, `HttpProofs`.

Left, in this order: sleeps,
`fcntl` and `ioctl` in Hook; the start-up of threads; servlet dispatch and the
listeners of configuration values, which have little control of their own.

## 3. Modules

### Fiber and Scheduler

`Fiber` holds what a fiber is to the scheduler: `fstate` (`m_state`), `fcb` (the
callback, a job), `stack` (which fiber's stack a thread executes on) and `fault`.
`swapIn`, `swapOut`, the yields and the end of the main function are operators
on these; a thread entering a stack that is in use or a context that was not
saved is the fault `"stack"`, a failed `GGO_ASSERT` the fault `"assert"`, and
after a fault nothing happens.

`Scheduler` has the mission list and, per worker, a program counter through
`run()`: `take` (under `m_mutex`), `dispatch`, `enter`, `run`, `leave`, `back`
(after `swapIn` returned: the active count), `requeue`, `recycle`, `idle`.
One label is one step that other threads can observe, so the decrement of
`m_activeThreadCount` (scheduler.cpp:169), the re-queueing (:172) and the
read of the state between them are separate. The owner thread goes through
`start`, `stop` and `join`, with the root fiber when `use_caller` is set
(`Root`). Jobs may yield, throw, submit another job (`Spawned`) or hold
(`Holding`): a holding job is queued again by an event source from the moment
it is registered, which is before it has left its stack, as with `addEvent`
followed by `yieldToHold`.

Abstractions: `m_state`, `m_isStopping` and `m_autoStop` are plain variables in
the code and are read and written atomically here; the check and the assignment
at the start of `swapIn` are one step; the base class's `tickle` only logs;
reference counts are represented by who still knows a fiber (`Referenced`).
`MaxYields` bounds the number of suspensions of a job.

`TaskPool` is the promise: a job handed in is run in slices by one worker at a
time and ends once, and when `stop` has returned nothing is left. `Scheduler`
instantiates it with a mapping (`jobState` from the job's place, `worker` from
the stacks); `ImplementsTaskPool` is checked by TLC, and proved for programs
without holding jobs (section 5).

### FdEvents

Each FdContext is three functions of the descriptor, `events`, `waiter` and
`scheduler`; `pending` is `m_pendingEventCount`. Handlers hold the context's
mutex from the first read to the last write, so each is one action with the
early returns and assertions of the code as disjuncts. `Trigger` is
`tiggerEvent`. What `epoll_wait` returned to an idle thread is `snap[p]`, dispatched
later. The kernel is external: `interest` (the watch), `ready` (the state of the
descriptor) and `armed` (the edge that `epoll_wait` will report); `epoll_ctl`
fails as EEXIST and ENOENT do, and reports a new watch at once. `KernelClose`
is `close_f`, after which the number may be another descriptor. A client is a
fiber (or callback) that waits for one event at a time; when `delEvent` drops its
event (`Forget`) a callback is gone, but a fiber is left asleep, for nobody
schedules it. `Wanted` and `Ops` say which events and operations a program uses.

### FdTable

The table's size, the context in each slot with its generation, and threads
between the two locks of `addEvent`, with the size they saw under the first.
Contexts are only registered or not. A resize that comes late may shrink the
table; which contexts were dropped by one is kept in the history variable `cut`.
`MaxMade` bounds the contexts made for a descriptor.

### TimerManager

`set` is `m_timers` in iteration order. A timer is its address. The comparator
is translated as it is: the second test compares `rhs` with itself, so it says
"less" whenever the due time *or* the address is smaller. That is no strict weak
order, and what `insert`, `find` and `lower_bound` do then depends on the shape
of the tree. A search that ends between two neighbours has passed both, and for
any two neighbours there is a tree in which it passes nothing else; `Ends` is
the set of places where a search may end, exact up to the shape of trees of two
elements, which is why the run has two timers. Idle threads go through
`getNextTimer`, `epoll_wait` with its limit, `listExpriedCb`; whoever adds an
earlier timer sets `m_tickled` under the lock and tickles after it (`telling`).
`MaxTime` and `MaxTelling` bound the clock and the number of threads that tickle at
one moment. `nowMs` and `until` are reset when they are dead. The run contains
every history, those in which the comparator answers wrongly and those in which
the clock is set back. The history variable `misled` says whether an insertion has
ever brought timers together whose addresses disagree with their due times
(`Agree`), or a refresh has brought a timer forward, which it can only after the
clock was set back and tells nobody; properties that rest on the order of the set
name it as their exception, the others hold in spite of it.

### IOScheduler

What the four modules above leave apart, together: a job is in one `place` (the
mission list, a worker, registered for an event or a timer, in the hands of an
idle fiber), and `m_activeThreadCount`, `m_idleThreadCount` and
`m_pendingEventCount` are what Scheduler and FdEvents show them to be, counts of
places. A worker goes through `run()` and, when the list has nothing for it,
through its idle fiber: `getNextTimer`, the pending count and the mission list
(the three reads of `canStopNow`, at three labels, since others run in between),
`epoll_wait`, `listExpriedCb`, the dispatch of events one by one and the count
that is lowered after each. `tell` are the threads between the unlocking of the
list and `tickle()`; after every mission it took `run()` tickles, too
(scheduler.cpp:158 and 162). `tickle()` does nothing when no thread is idle at that
moment. `bytes` and `edge` are the pipe and epoll's report of it: the thread
that is woken empties the pipe for all. The owner schedules, then stops, tickling
once per worker, and joins.

`FarTimers` says that timers are between 2^31 and 2^32 ms away:
`next_timeout` is cast to `int` before it is capped at 3 s (ioScheduler.cpp:301),
so `epoll_wait` gets a negative timeout. Abstractions: what a fiber's stack and
state are at any moment is Scheduler's subject, which event or timer comes is
any order; `use_caller` is in Scheduler.

### Hook and TcpSever

`Hook` is what a fiber meets below a hooked call. `call[f]` is one call and where
in the code it is: `lookup` (`FdMgr::get`), `try` (the system call), `arm` (the
timer, if there is one), `add` (`addEvent`), `wait` (held), `woken` (the timer is
cancelled, its condition read), and `made`, `del` and `close_f` for `socket`, `accept` and
`close`. Every label is a place where fibers on other threads run. The state
beside the call is three tables indexed by descriptor number that the code keeps
under different locks: the kernel's (`file`, `blocking`, `watched`; external),
FdManager's (`ctx`: no FdCtx, one, one with a receive timeout) and the
IOScheduler's (`waiter`, a fiber per number and event; epoll watches a number for
the events that are waited for, until its socket is closed). Numbers are reused, the lowest free one first, as the
kernel does. A timeout can only set `cancelled`, because `cancelEvent` does
nothing for a descriptor's only event (run FdEventsCancelWakes); it counts once
the fiber is woken by something else. `connect` is modelled without its timeout
(`tcp.connect.timeout` = -1); it ends by asking for SO_ERROR, which says 0 while
the connection is still being made.

`TcpSever` composes it with the programs that make the calls: `startAccept`'s
loop, one fiber per connection that receives and closes as `handleCilent` does, a
fiber of the same process that connects, receives and closes again and again, and
`stop()`
with the callback it schedules (`cancelAll`, `close`). `OneAcceptThread` says
that the accept worker has one thread: then the accept fiber and the callback
interleave only where a fiber gives up its thread.

Abstractions: `send` takes the same way through `do_io` as `recv`, and has no
action of its own; each socket has a number (`TcpSeverAssumption`); a connection
has one handler; sleeps, `fcntl` and `ioctl` are left out.

### ByteSeq and ByteArray

`ByteArray` is the chain of blocks (`blocks`), the current block (`cur`, an index
or null), `position` and `size`. `Write`, `Read`, `SetPosition`, `Clear`, the
variable-length integers, and the pairs of calls by which a stream receives into
the blocks and sends from them (`Receive` with `getWriteBuffers`, `Deliver` with
`getReadBuffers`) are translated with the block arithmetic of each: growth in
whole blocks, where the copying loop leaves a block, when the current block moves
on. Fixed-size values and strings are such writes and reads. An integer is a
sequence of digits of base `Radix` (128 in the code), of which a read takes at most
`Groups` (5 in both `readUint32` and `readUint64`); it is decoded by a recursive
function whose inverse `Encode` is. Integers have `Width` (32) or `Wide` (64) bits;
those of 64 bits may have more digits than a read takes, and are written whole.
Zigzag is modelled for both widths. A null block that is dereferenced is a
`fault`. What `new char[]` holds is `Unwritten`.

`ByteSeq` is the promise: a sequence of bytes and a position.

Left out: the reads at a given position and `toString`, which change no state
(the former compute the offset by `position & m_blockSize`, bytearray.cpp:514,
which is wrong in most blocks), files, hex text and byte order.

### HttpParser and HttpExchange

`HttpParser` is how `excute` treats its input; a head is a sequence of tokens of
two bytes, of which the second ends the token. `excute` consumes everything
unless the head ends, and moves what is left to the front of the buffer, but the
parser's marks point to where a token began in the buffer that was moved: of a
token that is split between two reads only the tail is seen (`Torn`). A field
whose name ended in the previous read is error 1002, a split name is stored as
its tail. The chunk header is parsed by an automaton that is initialised anew in
each call, so a split size is read as its tail.

`HttpExchange` is one end of a connection, `recvRequest`, the loop of
`handleCilent` and `sendResponse`, or `recvResponse`. Each action is one read or
write on the socket and what the code does with its result; a read returns any
part of what has arrived, and the peer may leave at any moment. Two lines are
modelled as they are although they look unintended. `len` is 0 when it is compared
with `offset` (httpSession.cpp:51), so that of a body that came in part with its
head `content_length` bytes are copied from the buffer, what has not arrived
included; the body has its full length at once, and what is still missing on the
wire is read behind its end (`Overruns`). The code goes on with such a request, and
so does the model; a copy that reads beyond the buffer (`Beyond`), and the writes
behind the end, may also end the process (`crashed`). And `getContentLength` of a
response asks for "content_length" (httpParser.cpp:145), so a plain response's body
is never read.

Content can look like anything. Where the parser is given bytes of a body in place
of a head or a chunk header (`Foreign`: after a split chunk size, or when a plain
response's body is left on the wire), it may fail or take them for one
(`Mistakable`); from then on anything may happen (`astray`, `Stray`), also that the
connection waits for bytes that never come.

`Handed` is what is put into the message that is handed on: `recvResponse` sets the
body, `recvRequest` receives it into a variable of its own and drops it. The
library's own client also writes "connection-length" and "keep_alive"
(http.cpp:201 and 190), which its server does not understand; the model's peer is a
correct one.

## 4. Runs

Passing runs:

| run | shows |
|---|---|
| SchedulerPool | 2 workers (one the caller's), a pinned job and one submitted by a job, two yields each, exceptions: no fault, no job lost or doubled; `stop` drains and returns, every job ends; the scheduler implements TaskPool |
| SchedulerHoldPool | 2 workers, a holding job: the active and idle counts are exact up to a fault, also where a mission of an ended fiber is dropped |
| FdEventsDuplex | 2 descriptors, 1 idle thread, both events: contexts, epoll and waiting fibers agree, no assertion fails, no edge is lost |
| FdEventsMixed | 2 idle threads, every operation, both events, close against addEvent: what still holds is the exact pending count and that no scheduler pointer of a registered event is null |
| FdTableGrows | 3 threads, 4 descriptors of which some are more than twice others: resizes do shrink the table, and contexts are lost by a resize that came late and by nothing else |
| Timers | 2 one-shot timers at any addresses, 2 idle threads, a clock that may be set back: no callback is handed out twice or after cancel; unless the threads were misled no needed tickle is suppressed and every due timer is handed out |
| IOSchedulerPool | 2 workers, a pinned job that waits for an event or timer and one that it may spawn: every mission is taken, `stop` returns and leaves nothing, and the whole implements TaskPool |
| TcpSever | accept loop, connection, client, timeouts and stop on 3 numbers: no stale FdCtx or FdContext behind a free number, no thread blocks, nobody calls on or closes another's number, requests are served, `stop` closes the listener |
| ByteArray | 2 blocks of 2 bytes, all operations in any order: the current block is the position's, no null block is met but by an empty read, integers of 32 bits come back, ByteSeq is implemented |
| HttpExchange | requests on a kept connection, plain and chunked responses, any division into reads, contents that look like anything: no read goes beyond its message, a request's body is complete or was overrun, chunks are joined exactly, nobody waits for bytes it has; a split header name or chunk size is the exception |

Runs that end in a violation, each a disagreement between the code and what its
comments say (`findings` in `PROJECT.json`):

| run | finding |
|---|---|
| FdEventsCancelWakes | `cancelEvent` of the only event of a descriptor does nothing, so no timeout wakes its fiber |
| TcpSeverStop | after `stop()` the accept fiber, woken by `cancelAll`, gets EBADF and calls `accept` again for ever inside `do_io`; it never looks at `m_isStop`, and keeps its worker |

The same models reach other consequences of the code, with the named definition as
the only property of a run or with other constants. Several contradict what a
comment says, and the properties of the passing runs name them as exceptions; the
others are why the passing runs are bounded as they are. Each was found with TLC:

* SchedulerHoldPool with `NoStackShared` or `NoAssertFails` as invariant (three
  fibers, one holding job): a held fiber is resumed on a second worker while the
  first is still on its stack, since the state says HOLD before the switch. Both
  workers may then read READY behind `swapIn`, queue the fiber twice, and the
  assertion of `swapIn` (fiber.cpp:137) fails. With `Threads = {t1}` and
  `Root = t1` the hand-over is safe.
* A pinned job that has yielded goes on on any thread, because `schedule(fiber)`
  (scheduler.cpp:172) forgets the thread; `PinHonoured` therefore speaks of jobs
  that have not been suspended yet.
* SchedulerPool with the *spawned* job pinned to a pool thread: a worker leaves
  `run` between the decrement of the active count and the re-queueing of a READY
  fiber; the job is then taken by nobody and `StopReturns` fails.
* FdEventsDuplex with two idle threads: a snapshot of both events dispatched
  after another thread dispatched one of them fails the assertion of
  `tiggerEvent` (ioScheduler.cpp:34), since line 343 only tests for an overlap.
  With one kind of event (`Wanted = {"READ"}`) two idle threads are safe, which is
  the theorem `ServerSafe`.
* `Ops = {"del"}` and both events: `delEvent` keeps the deleted event registered
  and forgets the other one, whose fiber sleeps (`ContextMatches` fails).
* FdTableGrows with `Findable`: the late resize for one descriptor shrinks the table
  that another thread has grown for a larger one, and drops its context with the
  registered events. `cancelAll`, which is to trigger all events of the descriptor
  (ioScheduler.h:109-112), finds none, and their fibers sleep on. `FoundUnlessCut` is
  `Findable` but for such contexts.
* Timers with `BeginEarliest` or `SetHasCallbacks`: the first of the set is not the
  timer due first, to which `getNextTimer` is to give the time (timer.h:93), and
  `cancel` (timer.h:26) misses a timer that is in the set and leaves it there, so
  that `hasTimer` stays true, for ever if it loops. With `ClockBack = FALSE`,
  `MaxTime = 2`, `Hour = 9` and `NeverEarly`: a timer is handed out before its time
  (timer.h:53) together with one that is due. All three are line 211's.
* ByteArray with `LongsReturn`: an integer of 64 bits that needs more than five bytes
  (2^35 and more) is cut by `readUint64`, whose loop ends at 32 bits
  (bytearray.cpp:346), and the rest of its bytes is what is read next; the writer
  takes up to ten (bytearray.h:120), and reading is to move the position by what the
  value occupies (bytearray.h:216-220).
* HttpExchange with `ReadFits`: the ordinary division of a request, part of the body
  with the head, makes `readFixSize` write behind the end of the body, although its
  length is to be that of the memory it is given (stream.h:44). `SessionFramed` shows
  that the bytes are counted right all the same, so the next request is read from its
  beginning.
* HttpExchange with `BodyHanded`: every request with a body goes to the servlets
  without it, for nothing sets it; `getBody` (http.h:241) gives the empty string.
* IOSchedulerPool with one job that waits twice (`Jobs = {j1}`, `Spawned = {}`,
  `Waits <- MCTwice`): a worker whose idle fiber has returned still takes
  missions; what such a mission waits for may be missed by the other worker's
  three reads, and `stop` returns with a fiber left behind (`NothingLeft`).
* IOSchedulerPool with `FarTimers = TRUE`: a tickle that finds no idle thread is
  made up for only by the 3 s cap of `epoll_wait`. Without the cap `MissonTaken`
  and `StopReturns` fail, up to a deadlock.
* TcpSever without the exception in `FreeIsClean`: with several accept threads
  the accept fiber may have found EAGAIN when another thread closes the socket, and
  call `addEvent` on the number afterwards. Before `close_f` its FdContext stays
  behind when the kernel forgets the descriptor, after it the number may be another
  socket's; either way one of two `addEvent`s for the number fails its assertion
  (ioScheduler.cpp:127). With `OneAcceptThread = TRUE` the exception is empty and
  nothing fails, which is the theorem `OneThreadNoFault`.
* TcpSever with fewer numbers than sockets (against `TcpSeverAssumption`) and one
  accept thread: `accept` fails with EMFILE, is repeated at once, and the callback
  of `stop` never runs.
* HttpExchange with `Pipelining = TRUE`: what a client sent ahead of its next
  request is dropped with the buffer of the last; `SessionFramed` and `Answered`
  fail.

**Why the bounds are enough.** The races of the scheduler need two workers, one
fiber that moves between them and one more mission to keep the other worker
busy; a third thread repeats what the second does. Fibers exceed jobs by one so
that a worker can recycle one while another is still held (`MaxYields` = 2
suspensions per job). Two clients and one descriptor let both events of a context
be used; the second descriptor of FdEventsDuplex shows that they do not disturb
each other. FdTable needs a thread between its two locks and another that grows the
table meanwhile, by less or by more: descriptors 1, 2, 3 and 5 with a first table of
2 have both, and `MaxMade` = 2 contexts for a descriptor let a dropped one be
replaced. Two timers are the fewest with an order, and the trees of two elements are
those for which `Ends` is exact. Durations 1 and 2 make due times that agree and
disagree with the addresses and meet the limit of the wait (`MaxWait` = 2); the
clock (`MaxTime` = 1) can pass a due time and be set back behind it, and `Hour` = 0
makes every step back one of more than an hour. `MaxTelling` = 1 thread tickles at
one moment. The three safety properties also hold with `MaxTime` = 2 and
`Hour` = 1 (4,800,000 states), and all four with looping timers, or with
`MaxTime` = 2, while the clock is not set back. IOScheduler needs two workers, one
that sleeps or decides while the other works. TcpSever has as many numbers as
sockets (listener, connection, client), so every number is reused by every kind
of socket. In ByteArray two blocks (`MaxBlocks`) of two bytes have every kind of
boundary, and integers of up to two bytes (`Groups` = 2, `Radix` = 2, `Width` = 2)
cross one, those of `Wide` = 3 bits need a byte more than a read takes; `MaxWrite` = 2
bytes fill a block; for larger blocks there is the theorem. In HttpExchange a buffer of eight bytes is shorter than a request, and chunks end
inside it, with it and beyond its end; a chunk size has two
digits (base `Radix` = 3), so that it can be split; a body is empty, fits behind its
head, or is longer than the buffer (`Lengths` = 0, 2, 9); an answer takes up to
`Answer` = 2 writes. A second request (`MaxRequests` = 2) meets what the first left
behind. The same properties hold with `Buffer` 6 and with `Buffer` 11 and three
requests. All passing
runs explore their state space completely.

**Fairness.** Each thread's next step is weakly fair: the operating system runs
every thread. In Scheduler, `Resume` is weakly fair too, an event that is waited
for arrives (no run that checks liveness has held jobs), and so are the events
and timers of IOScheduler. `EpollWait` of a descriptor is strongly fair in
FdEvents, because epoll hands out its ready list in order, 256 at a time, so a
descriptor on it is not passed over for ever. In TimerManager the clock goes on,
unless it is set back again and again, and `epoll_wait` returns when its time has
come or for the tickle; that the clock is set back, and a return for another event,
is not fair. In TcpSever each fiber's and each program's next step
and the delivery of events are weakly fair; no client, peer, timer, start or stop
is. In HttpExchange the reads of what has arrived, the writes and the handling
are fair, and that a read fails once the peer has left; no timeout, nothing of the
peer and no step of a connection that has gone astray is. No fairness is assumed of callers of `schedule`, `addEvent` and the
timer operations.

**Deadlock** is checked in all runs but two (HttpExchange and TcpSeverStop): where a system has stopped (stop
returned, or a fault) a stuttering disjunct says so. In HttpExchange a
connection that is closed simply ends, and TcpSeverStop asks one question only.

## 5. Proofs

`SchedulerProofs`

* `TypesAndCounters`: `Spec => [](TypeOK /\ ActiveCount)`. The two counters are
  the numbers of workers at the labels of their counted sections. The inductive
  invariant adds `Shape`: at which labels a worker holds which local variables,
  and that workers do not run before `start`; it is needed because the
  sections' ends depend on which branch of `run()` a worker took.
* `HandOverSafe`: `Holding = {}` implies `Spec => [](NoStackShared /\
  NoAssertFails)`. The invariant `Safe` says who owns a fiber: an entry of the
  list owns a READY or INIT fiber that nobody else has (`ListOwned`), a worker
  owns the fiber it runs, the one it is about to put back and its `cbFiber`
  (`WorkersOwn`), and what a worker believes about the state is true
  (`WorkerKnows`). Without holding, ownership passes only through the list.
  Section 4 shows that the assumption is needed.

and on top of `Safe`, for programs without holding jobs (`Holding = {}`)

* `JobsInPlace`: `Spec => [](OneWaker /\ JobInOnePlace /\ PinHonoured)`. The
  invariant `JobsInv` says where jobs are: no job is in two of the list's
  entries, the workers' missions and the live fibers (`JobsApart`), what is there
  has been submitted and is not over (`JobsOpen`), what has been submitted and is
  not over is there (`JobsKept`), a callback's mission has no fiber (`CbAlone`), a
  fiber that has something to do is in the list or with a worker (`FibersKept`),
  and the thread of a mission is the one the job was scheduled for until it is
  suspended (`PinKept`).
* `StopLeavesNothing`: if jobs that jobs submit are not pinned (`Unpinned`),
  `Spec => []StopDrains`. `Leaving` says that once a worker's idle fiber has
  returned, `stop()` has been called and every entry of the list is for any
  worker, and that while the list is not empty some worker, or the root fiber to
  come, will look at it: the last worker to leave finds it empty. Section 4 says
  what a pinned one does.
* `RefinesTaskPool`: under the same conditions `Spec => ImplementsTaskPool`. By
  `JobsInv` a job has one stage of TaskPool (`StageIs`). `schedule()` is its Accept,
  switching to a fiber its Begin, leaving it its End, the return of `stop()` its
  last step, which needs `StopDrains`; every other step of the scheduler is a
  stutter.

`FdEventsProofs`

* `ServerSafe`: if all fibers wait for the same event (`Wanted = {k}`) and
  `delEvent` and a close during `addEvent` do not happen, then no assertion fails,
  and `ContextMatches`, `EpollMatches` and `SchedulerSet` hold, for any number of
  descriptors, idle threads and fibers. The invariant adds that snapshots and
  registrations contain nothing but k, so a snapshot that overlaps the registered
  events equals them. Section 4 says why two events do not work.
* `AlwaysCounted`: `Spec => [](PendingCount /\ SchedulerSet)` without any condition:
  both events, every operation, stale snapshots and a close during `addEvent`. The
  invariant is the two properties and the types they need. Every handler changes
  the events of one descriptor and counts what it changed; the lemmas
  `Unregistered` and `Counted` say what that does to the set of all registrations.
  Although `delEvent` keeps the wrong event, it drops exactly one, because it
  returns early unless another event is registered.

`FdTableProofs`

* `TableKeeps`: `Spec => [](TypeOK /\ FoundUnlessCut /\ HeldUnlessCut) /\
  DropsOnlyLate`, for any threads and any numbers the kernel gives to descriptors,
  shrinking resizes included. The first says that a registered context is in the
  table and that a looked-up one is the table's, unless a resize dropped it, the
  second that only a thread whose look at the size another resize has overtaken
  drops one. The invariant says whose slot a context is in (`OwnSlot`), that a thread
  that is about to resize needs the room (`GrowsBeyond`), and that contexts that are
  registered or held were made and are in the table or in `cut` (`RegInUse`,
  `HeldInUse`).

`TimerProofs`

* `OnceAndSilent`: `Spec => []OneShotOnce /\ CancelledSilent`, for any timers,
  addresses, durations and idle threads, whatever the comparator does to the set
  and however the clock is set back. The argument does not use the order of the
  set at all: a timer's callback is non-null only between being added and being
  handed out or cancelled, and handing out a one-shot timer resets it.
* `AwakeInTime`: `Spec => []OnTime`, for any timers, looping ones too, addresses,
  durations, idle threads and any clock. There are two parts. `Untickled` holds in every
  history: `m_tickled` is clear when all threads sleep and no tickle is under way.
  `OrderInv` holds until the threads are misled: the set is in the order of addresses
  and of due times (`Queue`); `m_next - m_ms` is a moment that has been (`Starts`),
  without which `reset(ms, false)` would have no due time; and when nobody is awake
  each timer has a thread that wakes up in time and `m_tickled` is clear (`Covered`),
  so that the next `addTimer` at the front does tickle, and one elsewhere is due no
  earlier than the first. `SlotLine` and `EraseLine` say that insert and erase keep the order
  wherever the search ends, as long as addresses and due times agree, `FindsIn` that
  find then does not miss, `CountExpired` that a front part of the set is taken out.
  Nothing is assumed of the addresses: the first insertion that is misled ends this
  part. A refresh that brings a timer forward is the other exception,
  because `refresh` tickles nobody.

`IOSchedulerProofs`

* `StopLeavesNothing`: if jobs wait at most once and those that jobs spawn do not
  wait and are for any worker (`Modest`), `Spec => []NothingLeft`. A worker leaves
  on three reads made at three moments, so what they saw is not true at any one
  moment. The invariant (`Seen`) says that for each job that waits somebody has
  still to read the place where it is: whoever moves a job to another place has
  not begun its own reads, because it runs or dispatches. `Spent` says that once a
  worker has decided to leave no job can wait again; it needs `Modest`, because a
  worker that has decided still takes missions. Section 4 has the counterexample
  with a job that waits twice.
* `RefinesTaskPool`: `Modest` implies `Spec => ImplementsTaskPool`. A job's stage
  follows from its place: taking a mission is TaskPool's Begin, and waiting,
  yielding or ending is its End. Moving a job between events, timers, idle fibers
  and the list is a stutter; the return of `stop` is allowed by `NothingLeft`.

`TcpSeverProofs`

* `NumbersClean`: `Spec => [](FreeIsClean /\ NoThreadBlocks)`, for any number of
  connections and of descriptors, one accept thread or several, with and without a
  timeout. The argument is ownership of numbers. A socket is behind one number and
  is one fiber's business (`Own`); that fiber makes its calls on this number alone
  and closes it once, in the order cancel, delete, give back (`Calling`); so a
  number without a socket has no FdCtx (`Numbers`), and a number that is handed
  out gets a new one and does not block. `Waits` says that FdContext and the fibers
  agree on who waits. The accept fiber is the one that uses a number that another
  fiber closes: `Stopping` says how far the callback of `stop` is, `OneThread` that
  on one thread its `cancelAll` finds the accept fiber held and wakes it. `Peers`
  keeps the name of a connection from being accepted twice. That there is a lowest
  free number is the pigeonhole principle and the order of the naturals
  (`NumberLeft`); it needs a number for each socket.
* `CallsOnOwnSocket`: `Spec => []OnOwnSocket`, from the same invariant.
* `OneThreadNoFault`: `OneAcceptThread` implies `Spec => [](fault = "none")`.
  Section 4 says what happens with several accept threads.

`ByteArrayProofs`

* `BlockFollowsPosition`: `Spec => [](BlockMatches /\ NoNullBlock)`, for every
  block size, write size and number of blocks. The inductive invariant is
  `TypeOK /\ BlockMatches /\ NoNullBlock`. The lemmas are the block arithmetic:
  a position splits into block and offset in one way, a copying loop that starts
  in the position's block ends in the block of the new position, growth makes room
  for what is written. There is one lemma per operation. Of `Encode` this
  proof uses only that it is a string of bytes.
* `ChainIsSequence`: `Spec => ImplementsByteSeq`, for every block size. The bytes
  of the chain are numbered (`Cell`), so that growth and filling blocks are
  functions on cells: growth keeps the cells below the old capacity, a copying
  loop overwrites exactly those of the bytes it copies. From this a write is
  ByteSeq's Put, a read its Get and `setPosition` its Seek.
* `GivenIsWritten`: `Spec => [][Puts]_vars`. ByteSeq lets a step put any bytes, so
  the refinement alone would allow the wrong ones; a write or a receive puts
  exactly those it was given.
* `IntegersReturn`: `Spec => []VarintsReturn`, for every radix, block size and
  width that the groups of one read hold (`Wide` may be more), and for both widths in
  zigzag. `Encode`, `Decoded` and `Power` are recursive functions,
  and nothing says beforehand that a function with such an equation exists. The
  lemmas up to `Recursion` show it for a recursion that descends along a rank in
  the naturals: two partial solutions agree, for otherwise there is a least
  argument where they differ (`Agree`), and solutions reach every rank, for
  otherwise there is a least one they do not reach (`Reaches`). The library's
  well-founded minimum takes the place of its induction rule, which has an
  operator as a parameter. With the equations (`PowerStep`, `EncodeStep`,
  `DecodedStep`) another least counterexample shows that the bytes of an integer
  have no last one before their end, decode to the integer and are at most as
  many as its groups (`EncodeCodes`); `UsedAll` adds that what follows them does
  not matter, and `ZigzagReturns` is arithmetic. The model writes powers as
  `Power`, since the provers know nothing of `^`.

`HttpProofs`

* `RequestsFramed`: if clients ask again only when they are answered
  (`~Pipelining`), `Spec => []SessionFramed`, for every buffer size, any body
  lengths and every division of the bytes into reads. It is about framing, not about
  what the servlets get (`BodyHanded` is false): when a request is handed on, its
  body has been read to its end and nothing beyond it, and what was read is what the
  client sent or was written beyond its end. A request is described byte
  by byte (`At`), so that what is on the wire is always an end of one request
  (`Seg`), and reads and `excute` only cut it (`SegParts`, `ExcuteEats`). The
  invariant says where: before a request is begun nothing is on the wire (`Idle`), in
  `recvRequest` the rest of the head and the whole body is, the buffer is empty
  and the content length is what its part of the head said (`Asking`), in
  `readFixSize` exactly the missing bytes are on the wire, also when the body has
  its length already and they go behind it (`Fixed`), and then none
  (`Whole`). `LengthSeen` says that the parser cannot miss the length: a call of
  `excute` that begins inside the header's name is the exception of
  `SessionFramed`, one that begins behind the name is error 1002, and all others
  see name and value together. Section 4 says what happens to clients that do not
  wait.
* `ResponsesDecoded`: `Spec => []ChunksDecoded`, for every buffer size, any chunks
  and every division of the bytes into reads. Two parts. First, what the operators
  are: the community modules define `FoldFunctionOnSet` and `FlattenSeq` by
  recursion, so the same lemmas as above give their equations (`FoldExists`,
  `HeadsExist`, `TailsExist`), from which the total of the sizes is a running sum
  (`BeforeStep`) and the bytes of a response are those of its head followed by
  those of chunk 1, of chunk 2 and so on (`ChunksRemain`). Then the invariant,
  `ConnectionInv`: what has been read into the buffer and not used, followed by
  what is on the wire, is the rest of the response from one place on. That place is
  in the head (`InHead`), at the beginning of a chunk, with the body holding the
  chunks before it (`AtChunk`), or inside a chunk's content or line end, with as
  many bytes missing as `left` says (`InContent`). `Cut` is the exception: a chunk
  header was split, and the next call of `excute` either is an error or splits the
  digits, which `ChunksDecoded` excepts. `HeaderParsed` and `CutParsed` say what
  `excute` does in the two cases; a piece of the head is never taken for something
  else. A plain response may go astray, of which `ChunksDecoded` says nothing, and
  stays so (`StrayKeeps`). An assumption on the chunks is used: a size has two
  digits, and only the last chunk is of size 0.

The proofs assume only the named assumptions on constants, which TLC evaluates
in the runs, and the conditions stated in the theorems.

Only model-checked: everything under fairness (StopReturns, JobsFinish,
ReadyWakes, DueFires, MissonTaken, RequestsServed, StopCloses, Answered), which is
out of the prover's reach, and the claims that section 4 refutes. Every
invariant, action property and refinement of the passing runs is a theorem, under
the conditions named above.

## 6. Not modelled

* **Generated parsers** (`*.rl.cpp`, about 20,600 of the 33,500 lines of
  implementation): tables that Ragel makes from the `.rl` files. HttpParser has
  what the library needs of them.
* **Conversion and output**: logging, addresses, URIs, YAML, the tables of HTTP
  names and the text of messages, `util`. They change no state that another
  component waits for. With the generated parsers they are most of the code, so
  the modules stand for a small share of its lines, although for most of its
  control.
* **Configuration listeners and servlet dispatch**: maps behind one lock, with
  calls made one after the other.
* **Thread, mutexes, semaphore**: wrappers of pthread. The models use a locked
  section as one step. `CASLock::unlock` stores with relaxed order, which is a
  matter of the memory model.
* **In modelled components**: sleeps, `fcntl` and `ioctl` of Hook. `fcntl(F_SETFL)`
  without O_NONBLOCK clears the flag the hooks rely on (hook.cpp:411); no caller in
  the repository does that. Growth of FdManager's table, which has the same shape
  as FdTable's. Most of Socket, which hands arguments to system calls (`close` sets
  `m_isConnected`, socket.cpp:62). Files and hex text of ByteArray, compression,
  and setting up an HTTP connection.
* **The C++ memory model**: plain flags read without a lock (`m_isStop`,
  `m_isStopping`, `m_state`) are read atomically.
