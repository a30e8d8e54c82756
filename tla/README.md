# TLA+ models of the muduo network library

Formal models of this repository: the reactor (event loop, pollers, timers, threads),
TCP connections with their server and their client, the byte buffer, the thread pool
and the blocking queues, the asynchronous log with its calendars, the HTTP server with
the Inspector, and remote calls over the protobuf codec. The models are checked with TLC
on small instances; the theorems are checked with TLAPS for every value of the constants.

## The system

muduo runs one `EventLoop` per thread. A loop waits in a `Poller` (epoll or poll),
calls the handlers of the active `Channel`s, then runs the functors other threads
queued. A `TimerQueue` is one more channel of the loop, over a timerfd; `wakeup()`
writes to an eventfd that is another. A `TcpServer` accepts in its base loop
(`Acceptor`) and hands each connection to a loop of an `EventLoopThreadPool`; a
`TcpClient` makes one with a `Connector`. A `TcpConnection` is shared by pointer,
its channel is tied to it by a weak pointer, and it buffers in two `Buffer`s. On top
lie HTTP, a protobuf codec and RPC; below lies `base/`: threads, mutexes,
queues, a thread pool and the asynchronous log.

| Part | Sources | Module |
|---|---|---|
| Event loop | `net/EventLoop.*` | `EventLoop`, abstract: `Executor`, proofs: `EventLoopProofs` |
| Loop in a thread | `net/EventLoopThread.*` | `EventLoopThread` (extends `EventLoop`), proofs: `EventLoopProofs` |
| Buffer, byte order | `net/Buffer.*`, `net/Endian.h` | `Buffer`, abstract: `ByteQueue`, proofs: `BufferProofs`; TLC: `MCBuffer` |
| Pollers and channels | `net/Poller.*`, `net/poller/*`, `net/Channel.*` | `Poller`, proofs: `PollerProofs` |
| Timers | `net/TimerQueue.*`, `net/Timer.*` | `TimerQueue`, proofs: `TimerQueueProofs` |
| One connection, its channel and epoll's view of it | `net/TcpConnection.*`, `net/Channel.*`, `net/poller/EPollPoller.*` | `TcpConnection`, proofs: `TcpConnectionProofs` |
| Server, acceptor, loop pool | `net/TcpServer.*`, `net/Acceptor.*`, `net/EventLoopThreadPool.*` | `TcpServer`, proofs: `TcpServerProofs` |
| Client and its connector | `net/TcpClient.*`, `net/Connector.*` | `TcpClient` over `Connector`, proofs: `TcpClientProofs` |
| Thread pool, queues, latch, threads | `base/ThreadPool.*`, `base/*BlockingQueue.h`, `base/CountDownLatch.*`, `base/Thread.*` | `ThreadPool`, proofs: `ThreadPoolProofs` |
| Asynchronous log | `base/AsyncLogging.*`, `base/LogFile.*`, `base/Logging.*`, `base/LogStream.*`, `base/FileUtil.*` | `AsyncLogging` over `LogFile`, `Logger`, `Quantities`; TLC: `MCLogging` |
| Dates and zones | `base/Date.*`, `base/TimeZone.*` | `TimeZone` |
| HTTP and Inspector | `net/http/*`, `net/inspect/Inspector.*` | `HttpServer`; TLC: `MCHttpServer` |
| Codec and RPC | `net/protobuf/*`, `net/protorpc/*` | `RpcChannel` over `ProtobufCodecLite` |

`PROJECT.json` lists every part, the lines behind each definition (`map`), the
hazards and the properties that cover them. A definition whose name says what it does
wrong (`appendOver`, `DestroyKeepsTimers`) is a mutant: put in the place of the
definition after it, it breaks the property that `PROJECT.json` names.

## The modules

**EventLoop.** The loop thread's place `pc` runs through `loop()`: the test of `quit_`
(`WhileTest`), `Poll`, the handlers (`HandleRead` of the eventfd, `HandleEvent` of any
other channel), then `doPendingFunctors()` as `EnterFunctors`, `SwapFunctors` (its
critical section), `RunFunctor` and `LeaveFunctors`. Any thread in user code may call
`queueInLoop()`, `runInLoop()` or `quit()`; each is two steps, since another thread can
act between the push (or the store to `quit_`) and `wakeup()`. `Loop` clears `quit_`
as the code does. `Executor` is what callers rely on: a FIFO of functors, each run
once, and functors run on the spot.

**EventLoopThread.** The owner's `startLoop()` and destructor, and `threadFunc()`,
around the loop. `loop_` is read without the mutex in the destructor, as in the code.
A store to a loop that is gone changes nothing.

**Poller.** `PollPoller` or `EPollPoller`, as `newDefaultPoller()` chooses, under the
channels of one loop. User code makes, updates, removes and destroys channels, also
between the handlers of one `poll()`. `pollfds_` with its negated descriptors and the
swap in `removeChannel()`, the indices kept in the channels and the kernel's table are
state. `Update` and `Remove` are `Channel::update()` and `Channel::remove()` down to
the kernel; a removed channel of `PollPoller` keeps its index, as in the code, and the
assertion in `updateChannel()` forbids to update it again. The assertion of
`EventLoop::removeChannel()` is a guard (`MayRemove`): it is a duty of user code, and
`ChannelsGoSafely` shows that it suffices. It compares pointers where the model has
descriptors; `made` tells a channel that was made since `poll()` from the one that was
reported at its descriptor.

**Buffer.** The class's three members as a record, its methods as operators from
buffer to buffer, its callers as actions. `makeSpace()`, `readFd()` with its extra
buffer, `shrink()` and the integer conversions are modelled by what they do to the
bytes. `ByteQueue` is what a caller sees.

**TimerQueue.** Timers on a heap whose addresses are reused, the two sets, the
timerfd, `handleRead()` split at each callback (`HandleRead`, `RunCallback`, `Reset`),
calls of `runAfter()`, `runEvery()` and `cancel()` from callbacks and from other threads, and
the destructor. `addTimer()` of another thread returns in a later step (`ReturnId`), which
reads the sequence of a timer that may have been deleted by then, and so may find any. Time is relative: a tick lowers every expiration, so runs are not
bounded in time. The wall clock may be set.

**TcpConnection.** One connection of a server with several loops. The loop's
thread handles events in the order of `handleEventWithGuard()` (`HandleHup`,
`HandleRead`, `HandleWrite`) and runs functors; callbacks and other threads call
`send()`, `shutdown()`, `forceClose()`, `startRead()`, `stopRead()`; other threads
test `state_` and act in a second step, since the code has no compare-and-swap. The
base loop removes the connection (`RemoveConnectionInLoop`) or the server is
destroyed (`ServerDestructor`). `index_` is the channel's standing in
`EPollPoller::updateChannel()`. Functors are marked by whether they hold a
shared pointer or a raw `this`.

**TcpServer.** Several connections over the base loop and up to two IO loops. The base
loop accepts (`listen()`, `handleRead()`, with every system call of the path for
exhausted descriptors a step of its own), assigns loops in turn, keeps the map and runs
the destructor, which destroys the loops one by one. Each IO loop goes round events,
functors and the test of `quit_`. Callbacks, and another thread between two steps, call
`shutdown()` and `forceClose()`, so that connections are also found `kDisconnecting` by the
destructor. Descriptors are counted, and other threads take and return some.

**Connector, TcpClient.** `Connector` has the class's methods as operators from state
to state: the attempt with the errors of `connect()` grouped as in its `switch`,
`handleWrite()` and `handleError()`, the retry timer with its doubling delay, `stop()`
and `restart()`. `TcpClient` has the actions of the loop's thread and of another one on
it, the connections the client makes and who holds a pointer to them, and the
destructor in either thread with its branch on `unique()`. What another thread can come
between is in separate steps: the test of `state_` and its assignment in `shutdown()` and
`forceClose()`, the test of `connect_` in `handleWrite()` and `newConnection()`, that in
`removeConnection()` and `restart()`.

**ThreadPool.** A monitor with an explicit mutex holder and sets of sleepers, so that
`notify()`, `notifyAll()`, spurious wakeups and the gap between waking and locking are
there. Over it `ThreadPool` with its threads and their start latches, or a
`BlockingQueue`, or a `BoundedBlockingQueue`, chosen in the initial state.

**AsyncLogging, LogFile, Logger, Quantities, TimeZone.** A line is made by `Logger`
(its length in the fixed buffer, the time each thread caches for a second), appended
by `append()` and taken by `threadFunc()`, split at its critical section and at every
write. `LogFile` rolls and flushes. `fwrite()` may fail part of the way, a FATAL line
aborts, the zone is set and the clock moves. `TimeZone` has the arithmetic of `Date`
and `TimeZone` with the rounding of C++'s division, and by its side the C library's
functions defined by counting days. `Quantities` has `formatSI()` and `formatIEC()` with
their thresholds, in a representation that fits TLC's integers.

**HttpServer.** A connection's byte stream, as atoms, cut into messages anywhere;
`HttpContext::parseRequest()`, `HttpServer::onMessage()` and `onRequest()`, the response, and the
Inspector's callback with its two maps, which other threads change.

**ProtobufCodecLite, RpcChannel.** Frames of length, tag, message and checksum over
partial input. A message parses when it has the fields that `rpc.proto` requires, which those
of the two ends do; an `RpcChannel` sets no raw callback. `CallMethod()` is three steps (take an id, list the call, send), the two
ends read pieces of any size, services answer later and in any order, and the
connection may close or break at any time.

### Mishaps

Some modules have a set `mishaps`. It records, by name, the points at which the code
lets its own life cycle be undermined: a race it does not close, or a use it does not
support but does not prevent. Properties about the life cycle hold as long as none that
matters to them has happened, and say which. Every mishap is reachable in its run.

- `TcpConnection`: "revived", "lateRead", "readded", "cutShort", "deadServer".
- `TcpServer`: "fdTaken", "leftBehind", "deadServer", "cutShort", "revived".
- `TcpClient`: "busy", "reconnect", "stopRaced", "revived", "farThread", "inCallback", "early",
  "abandoned".
- `RpcChannel`: "doneAfterFree".

The comment on `Mishaps`, or in `RpcChannel` on `doneCallback`, says what each of them is.

## The runs

| Run | Checks | What it shows |
|---|---|---|
| `eventloopthread` | `NoLostWakeup`, `NoLostQuit`, `NoLoopAfterDestructor`, refinement `FifoExecution`, liveness `QueuedRuns`, `OwnerGoesOn` | functors run once, in order and without waiting for the timeout; `startLoop()` and the destructor return when the loop was running |
| `poller` | `IndexesInStep`, `WatchesInterest`, `ChannelsGoSafely` | indices and the kernel's table stay right; no event is handled for a channel that is gone or has been replaced |
| `buffer` | `RoomIsMade`, `IntsSurvive`, refinement `IsByteQueue` | the buffer is a queue of bytes |
| `timerqueue` | `InStep`, `OwnedOnce`, `TimerfdArmed`, `NeverAgain`, liveness `TimerRuns` | timers are owned once, served, and gone when cancelled |
| `tcpconnection` | `StreamIntact`, `WritesWhatWaits`, `ShutAfterData`, `EndsOnceAndClean` | bytes keep their order; close and destruction happen once |
| `tcpconnection_live` | `ShutdownCompletes`, `CloseCompletes` | shutdown and close come to their end |
| `server` | `BooksInStep`, `FreedClosed`, liveness `BacklogServed` | the map and the round robin are right; connections are freed closed; the backlog is served without descriptors too |
| `client` | `ReleasedInTime`, `AttemptsGoOn`, `EndsForGood` | sockets, connections and the connector are released; attempts go on until `stop()` |
| `threadpool` | `InOrder`, liveness `Served`, `StartsAndStops` | tasks are taken once and in order; nobody sleeps over work or room |
| `logging` | `LinesKept`, `TextsTrue`, `RollsInTime`, liveness `LinesFlushed` | no line is lost but those dropped by name; files roll in time; times and quantities are printed right |
| `http` | `RequestsApart`, `AnsweredAtOnce` | the answers are those of parsing the whole stream |
| `rpc` | `CallsApart`, liveness `CallsComplete` | each call gets its own reply |

All of them hold. Some properties are conjunctions of named parts, each with its own
comment in the module; the type invariants are part of one of them.

### Bounds

- `eventloopthread`: the owner and one client, three functors: two pushes can race with
  each other and with a functor that queues a third from inside the batch, and one
  client is enough to quit the loop behind the owner's back.
- `poller`: three descriptors, 0 among them (its negative is not negative): a swap has a
  first, a middle and a last entry. A list of one event makes `EPollPoller` double it twice.
- `buffer`: bits for bytes, a prepend area and an initial size of 2, data of up to 2,
  a vector of up to 7: every boundary of `makeSpace()` and `readFd()` is crossed, and
  integers of 1, 2 and 4 digits cover the sign and every carry.
- `timerqueue`: two timers at two addresses (so one can take over the other's),
  delays on both sides of the first tick, one setting of the clock, one queued call.
- `tcpconnection`: two bytes in messages of 1 and 2 with a high-water mark of 2, one other
  thread, one waiting functor when a call queues another (replies to it may add more), and
  one delayed close at a time. Calls stop after the first mishap. `tcpconnection_live` keeps
  one method, `shutdown()`, for the other thread.
- `server`: no IO loop or two, three connections over three descriptors, of which one is the
  idle one, so that descriptors run out and one IO loop gets two connections; one descriptor in
  another thread's hands; one call of `shutdown()` or `forceClose()`, enough to race with a close
  or with the destructor. After a connection was cut short or revived none closes by an event.
- `client`: two connection objects, so that one can be closing while the next is made;
  a maximal delay that the third retry reaches; two functors waiting when a call queues another.
  Calls stop after the first mishap, and no connection is polled after one was revived.
- `threadpool`: two workers and two producers, so that a notify can reach the wrong one;
  four tasks over bounds of 1 and 2 (0 is unbounded for the pool); one spurious wakeup.
- `logging`: one thread that logs (`append()` holds the mutex throughout, so what races is the
  logging thread, the owner and the clock), three lines of two lengths, one of which fills a buffer, over a limit of two
  buffers, so that buffers are dropped; one move of the clock, within the day or over
  midnight. Dates are compared on every eleventh day from 1903 to 2036, and on every
  day around 1970 and 2000 and around the changes of a zone; quantities around every threshold of all units.
- `http`: three requests from a set with every method of closing, bad lines and a body.
- `rpc`: two calls, each of six kinds, over frames of two or three units.

`CHECK_DEADLOCK FALSE` is set where the system may come to rest: a thread, a server or
a client that is gone, a connection that is destroyed, a program that has stopped, input
that is used up.

### Fairness

Weak fairness of the threads' own steps: the scheduler runs every thread and user
callbacks return. `poll()` returns when the eventfd is readable; its timeout, other
channels and calls by the user are never assumed. For timers, time passes, and
functors are strongly fair: every iteration of `loop()` runs them, however often the
timerfd is ready, which is `QueuedRuns` of `EventLoop`. For connections, polling
and functors are strongly fair for the same reason, and a peer that stays
connected goes on reading, so that `write()` succeeds in the end. In `TcpServer` the base
loop is weakly fair and its accepting handler, which other events and functors may precede,
strongly fair; nothing is asked of the IO loops. In `TcpClient` the loop's steps and the rest of
a call that another thread began are weakly fair, the timers strongly fair.
In `ThreadPool` every thread is weakly fair, and wakeups are never assumed to be spurious. In
`AsyncLogging` only the logging thread is fair, and its timed wait ends. In
`RpcChannel` what was sent arrives, calls that were begun go on, and services answer.

## Known divergences

Places where the code does not do what a comment, an assertion or its own life cycle
says. The first seven are reproduced by TLC with the configuration named; the properties
above are stated so that they hold beside them.

| Configuration (module) | Violated | The disagreement |
|---|---|---|
| `EventLoopThreadQuitLost.cfg` (`EventLoopThread`) | `DestructorReturns` | `loop()` clears `quit_` (`net/EventLoop.cpp:116`, which asks itself "what if someone calls quit() before loop() ?"), so a destructor that quits between the publication of `loop_` and `loop()` joins for ever; `net/EventLoopThread.cpp:24` says that this `quit()` makes the thread's loop exit |
| `TimerQueueCancelLost.cfg` (`TimerQueue`) | `CancelHolds` | a `cancel()` in the loop's thread overtakes an `addTimer()` queued by another one (`net/TimerQueue.cpp:176`) and has no effect; `net/EventLoop.h:90-91`: "Cancels the timer. Safe to call from other threads." |
| `TimerQueueStaleId.cfg` (`TimerQueue`) | `IdsTrue` | `addTimer()` of another thread reads `timer->sequence()` after `runInLoop()` (`net/TimerQueue.cpp:133`), when the loop may have run and deleted the timer, so the id it returns need not be that of its timer; `net/EventLoop.h:76-87`: "Safe to call from other threads." |
| `TcpClientReconnect.cfg` (`TcpClient`) | `ConnectAgain` | `state_` of the `Connector` stays `kConnected` when the connection is gone and not replaced, and when `stop()` overtook an attempt that had succeeded; every later `connect()` then meets the assertion at `net/Connector.cpp:51` |
| `TcpConnectionReclose.cfg` (`TcpConnection`) | `ClosesWhatIsUp` | after `stopRead()`, `disableAll()` in `handleClose()` adds the `kDeleted` channel to epoll again (`net/poller/EPollPoller.cpp:123`); its POLLHUP closes a second time, against the assertion at `net/TcpConnection.cpp:462` |
| `TcpConnectionServerGone.cfg` (`TcpConnection`) | `RemovesIdleChannel` | `connectDestroyed()` of a connection in `kDisconnecting` (`net/TcpConnection.cpp:376`) removes a channel that still has interest, against the assertion at `net/Channel.cpp:54` |
| `TcpConnectionSend.cfg` (`TcpConnection`) | `NoDanglingFunctor` | `send()` from another thread queues a raw `this` (`net/TcpConnection.cpp:119`) that may outlive the connection, against the comment "thread safe, may be called across threads" at `net/TcpConnection.cpp:101` |

Others that the models record and the properties name:

- An IO loop may quit with `connectDestroyed()` still queued while the server is destroyed
  ("leftBehind"); the connection is then freed open, against `net/TcpConnection.cpp:80`.
- A connection that is `kDisconnecting` when its server is destroyed stays so (`net/TcpConnection.cpp:376`,
  "cutShort") and is freed so, against the same assertion.
- `shutdown()` and `forceClose()` of another thread test `state_` and set it in two steps ("FIXME: use
  compare and swap", `net/TcpConnection.cpp:222` and `:273`): a close in between is undone ("revived"),
  and the connection may be closed and removed a second time.
- `stop()` of another thread between a test of `connect_` and what it decides (`net/Connector.cpp:211`,
  `net/TcpClient.cpp:185`) does not keep a connection from being made ("stopRaced").
- `connect()` while an earlier one is at work ("busy") may run `startInLoop()` twice, against
  `net/Connector.cpp:51`.
- A request line that was refused is parsed again when more input comes before the close,
  and meets the assertion at `net/http/HttpRequest.h:60` (`AbortsOnlyOnRetry`).
- `done` closures of a service may run after the server's `RpcChannel` was freed
  ("doneAfterFree"), and calls under way when a connection closes are never completed.
- After `ThreadPool::stop()` a `run()` that waits for room is never woken, and queued tasks stay.
- `TcpServer::start()` is called "thread safe" (`net/TcpServer.h:65-69`), while the
  `EventLoopThreadPool::start()` it calls asserts the base loop's thread
  (`net/EventLoopThreadPool.cpp:37`); in the model a call elsewhere ends the process (`StartElsewhere`).
- A channel first updated without interest is stored unnegated by `PollPoller`
  (`net/poller/PollPoller.cpp:85`), and its removal meets the assertion that expects it negated;
  `RemoveFindsIgnored` is stated for the other channels.
- Lines appended after the last swap of `threadFunc()` and before `stop()` are not written.
- A zone file that is missing or has no type counts as a valid zone without types, and
  `findLocaltime()` takes the `front()` of an empty vector (`base/TimeZone.cpp:230`); the zones of the
  run have a type.

One lies outside the models: `formatSI()` compares integers but prints a double, and above
2^53 the two part. `formatSI(99949999999999999)` prints `100.0P`, six characters, where
`base/LogStream.h` promises five. `Quantities` has the quantities that a double holds well enough
to be printed as themselves.

## The proofs

Every theorem is proved for all values of the constants that satisfy the `ASSUME` of its
module. Most have the form `Spec => []Property`, where the property is one that a run
checks, and rest on an inductive invariant: the initial states satisfy it, every action
preserves it (one lemma or step per action), and it implies the property.

### The reactor

`EventLoopProofs`, for every set of threads and functors. Assumed: the loop's thread is
not one of the others (`ThreadsAssumption`), the owner is (`OwnerAssumption`).

- `TypeCorrect`: `TypeOK`, which ties the flags and lists to `pc`.
- `WakeupsKept`, `QuitsKept`: `NoLostWakeup` and `NoLostQuit`. Neither is inductive: it
  speaks only of `pc = "poll"`, and what counts is that the functors pushed since the
  swap are signalled at every place from `"run"` on. `WakeInv` says so; the handlers,
  which empty the eventfd, come before the swap that empties the list.
- `LoopIsExecutor`: the loop implements `Executor`, with the batch being run followed
  by the pending functors as the abstract queue.
- `OwnedLoopWakes`, `OwnedLoopIsExecutor`: the same two results for the loop inside an
  `EventLoopThread`. Every step of the owner or of `threadFunc()` is a step of `EventLoop`
  or leaves the loop alone, but for a `wakeup()` of a loop that is gone (`OwnedLoopSteps`).
- `DestructorEndsLoop`: `NoLoopAfterDestructor`, by the invariant `Pair`: the owner gets on
  only with the thread it started, and joins it.

`PollerProofs`, for every set of descriptors. Assumed: descriptors are natural numbers and
the first event list is not empty.

- `IndexesKept`: `IndexesInStep`, inductive together with the types of the state. The
  heart is `PollRemove`: the last entry takes the removed one's place, and the channel
  it belongs to is found by its descriptor, negated or not.
- `InterestWatched`: `WatchesInterest`, by the invariant `Stored`: the entry at a
  channel's index has the channel's events, and only one without events is negated.
- `ChannelsSafe`: `ChannelsGoSafely`. Between the handlers of one `poll()` channels may be
  removed, destroyed and made again at the same descriptor; the list still to be handled
  holds only channels that `poll()` reported and that are registered.

`TimerQueueProofs`, for all addresses, delays and intervals and any number of timers,
ticks and settings of the clock. The invariant speaks of addresses. `OnePlace`: a timer
of the heap is in the queue, in the vector of `handleRead()` or in a functor, and in one
of them. `SetsShowHeap`: both sets show the timers as they are on the heap. `Fresh` and
`Leaving`: sequences are given out once, and a timer that was cancelled is in the vector and
in `cancelingTimers_`.

- `SetsInStep`, `TimersOwnedOnce`: `InStep` and `OwnedOnce`.
- `TimerfdStaysArmed`: `TimerfdArmed`. It needs that the timerfd is due in time for every
  entry, not only the first (`ArmedForAll`), since the first may be cancelled.
- `CancelledStayAway`: `NeverAgain`, from `Fresh` and `Leaving`: without them
  a new timer at the address of an old one could be taken for it.

### Connections

`TcpConnectionProofs`, for every set of other threads, every set of message lengths (not 0),
every mark and every bound. The bytes written and the bytes that wait are one sequence
without a gap (`Stream`), `connectEstablished()` is the first functor and nothing happens
before it (`Starting`), and as long as there was no mishap the state, the channel's
interest, epoll's view and the server's map agree (`Life`). `Within` keeps an account
of the bytes that functors will still hand to `sendInLoop()`; it takes the place of a
sum over the queue, which would need induction.

- `BytesInOrder`: `StreamIntact`.
- `InterestMatchesBytes`, `ShutdownAfterData`: `WritesWhatWaits` and `ShutAfterData`, from `Life`.
- `ConnectionEndsOnce`: `EndsOnceAndClean`. That `handleClose()` runs once follows from
  `HandlesWhatIsUp`: what `handleEvent()` still has to look at was reported for a
  connection that is up.

`TcpServerProofs`, for any number of IO loops, connections and descriptors (a finite set of
numbers of threads and a limit that is not 0). Its first part has what the steps do to
the order among functors, connections and the map: the functors of a connection wait in the
loop where they belong, and a connection in the map is not `kDisconnected` or is about to
be removed. The second adds the descriptors and the round robin.

- `ServerBooks`: `BooksInStep`. A descriptor is taken only where `Free` is not 0, and a step
  that lets nobody refer to a connection anew frees descriptors or none. The round robin is
  even because `next_` tells which loops have one connection more than the others
  (`RoundRobin`). The sets are counted with the theorems of `FiniteSetTheorems`.
- `NothingFreedOpen`: `FreedClosed`. While none of "leftBehind", "cutShort" and "revived" happened
  (`Unharmed`), a connection that is not `kDisconnected` is in the map, or a functor or the
  calling thread holds it (`Held`). It holds also after a close into the dead server
  ("deadServer") and after a descriptor was taken ("fdTaken").

`TcpClientProofs`, for every set of connection objects, all retry delays with
`kInitRetryDelayMs` at most `kMaxRetryDelayMs`, and every bound. Assumed besides: the null
pointer is no connection, and no connection has the name of another event of `poll()`
(`ClientAssumption`). The invariant relates the connector to the functors that wait for it.
A channel out of the poller has exactly one `resetChannel` coming (`SocketInv`); as long
as `connect()` finds the connector disconnected and idle, only one of a functor, a timer, an attempt and a connection
drives the connector, and a connection does not close before that `resetChannel` has run
(`AloneInv`, which needs the order of `poll()`, handlers and functors). An open connection is
`connection_` unless it was revived (`OpenInv`), and somebody besides its handler holds it (`KeptInv`). A destroyed
client's connections close by `detail::removeConnection()` and its connector is at rest or
about to be stopped (`CallbackInv`, `DeadInv`, `OutlivesInv`).

- `ReleasedAlways`: `ReleasedInTime`, from `SocketInv`, `KeptInv` and `OutlivesInv`.
- `AttemptsAlwaysGoOn`: `AttemptsGoOn`, from `AloneInv` and `TryInv`. `connect()` that finds it
  otherwise is excluded by name ("busy", "reconnect"), as the assertions then fail, and so is
  a closed connection that another thread revived ("revived"); that the connector stays at it
  is stated without "farThread", a destructor in the other thread, too.
- `StopAlwaysHolds`: `StopHolds`, the safety half of `EndsForGood`. A stopped connector is not to
  connect, and has a `stopInLoop` coming while an attempt is under way, unless `stop()` fell
  between a test of `connect_` and what it decides ("stopRaced") or the destructor ran in the
  other thread ("farThread") (`StoppedInv`); every
  step but `connect()`, `stop()` and the destructor keeps that (`Mild`).

### The base

`BufferProofs`, for every byte base, sizes and data:

- `TypeCorrect`: the indices stay in order within the vector.
- `RoomAlwaysMade`: `ensureWritableBytes()` makes room and keeps the content, and
  `makeSpace()` only moves when `kCheapPrepend < readerIndex_`, its assertion.
- `BufferIsByteQueue`: `Buffer` implements `ByteQueue`. One lemma per method gives its
  effect on the content.

`ThreadPoolProofs`, for any number of workers, producers, tasks and spurious wakeups, every
size of the queue and all three kinds of queue. Assumed: the identities of workers, producers
and the owner differ, and `Nobody` is none of them.

- `TasksInOrder`: `InOrder`. What was taken, followed by what waits, is all that was pushed.
- `StopJoinsAll`: when `stop()` has returned, every thread that `start()` made has ended. It is
  the safety half of `StartsAndStops`.

### Only model-checked

- All liveness, and with it the other half of `StartsAndStops` and of `EndsForGood` and the
  `tcpconnection_live` run: TLAPS 1.4.5 does not handle fairness and `ENABLED`.
- `IntsSurvive` of `Buffer` and everything about `HttpServer`, `ProtobufCodecLite` and
  `RpcChannel`: they are defined by recursion over data, which would need induction.
- `LinesKept`, `TextsTrue` and `RollsInTime`: lines are counted and flattened with
  folds over sequences of buffers, which would need induction, and the calendars and
  quantities are compared with their reference definitions on tables of values.

## Not modelled

- Process information, exceptions, `StringPiece`, `GzipFile`, `ZlibStream`, thread-local storage,
  singletons and atomics: wrappers of system calls and libraries without a state of
  their own that could go wrong between steps.
- The texts of the Inspector's commands, addresses, the formatting of floating-point numbers,
  pointers and timestamps: formatting.
- Socket options, statistics, contexts and accessors: they change no state that a
  property tells apart.
- The destructor of `EventLoop`; `getLoopForHash()` and `getAllLoops()` of the pool; log levels and
  output to stdout; tasks and callbacks that throw.
- What a use of a destroyed object does: the models detect the use, not its outcome.
- The tests and the examples.
