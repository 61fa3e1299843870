# A TLA+ model of ymuduo

ymuduo is a network library in the style of muduo: one event loop per thread, a
TCP server that spreads its connections over the loops, timers, an asynchronous
log, and a small HTTP server on top. This directory holds TLA+ models of those
parts, the TLC configurations that check them on small instances, and proofs
that TLAPS checks for every size of the instance.

    tlc -config MCEventLoop.cfg MCEventLoop    # one run; the list is in PROJECT.json
    tlapm EventLoopProofs.tla                  # one module of proofs

## 1. Inventory

Paths are relative to `src/` of the repository (`src/EventLoop.cc`,
`include/EventLoop.h`, `http/...`).

| component | state | operations | what makes it correct |
|---|---|---|---|
| EventLoop | `quit_`, `looping_`, `callingPendingFunctors_`, `pendingFunctors_` under `mutex_`, the eventfd, `activeChannels_` | `loop`, `quit`, `wakeup`, `handleRead`, `runInLoop`, `queueInLoop`, `doPendingFunctors` | it never sleeps over work, runs functors in order and once, ends when told to |
| Channel, EPollPoller | `events_`, `index_`, `addedToLoop_`; `channels_`, `events_`, the epoll set | `enable*`, `disable*`, `remove`, `handleEvent`; `poll`, `updateChannel`, `removeChannel` | the poller's books agree with the kernel, reported channels stay valid, none starves |
| EventLoopThread, Thread, CountDownLatch | `loop_` under `mutex_`/`cond_`, `latch_`, the thread | `start`, `startLoop`, `threadFunc`, destructor, `join` | a published loop exists, the object outlives the thread, join returns |
| SelectPoller | `readfds_`, `writefds_`, `exceptfds_`, `maxfd_` | as EPollPoller | it keeps the same promise to the loop as EPollPoller |
| EventLoopThreadPool | `loops_`, `next_`, `threads_` | `start`, `getNextLoop`, destructor | no client meets a pool that is being filled, or a loop that is not initialized |
| Acceptor, Socket | the listening channel, `idleFd_`, the descriptors of the process | `listen`, `handleRead`, `accept` | a client becomes a connection; running out of descriptors is survived |
| TcpServer, TcpConnection | `connections_`; `state_`, `channel_`, `outputBuffer_`, callbacks | `newConnection`, `removeConnection`, destructor; `connectEstablished`, `handleRead/Write/Close/Error`, `send`, `shutdown`, `connectDestroyed` | up and down are told once each, a connection lives as long as raw pointers to it, it is cleaned up; bytes leave in order, flow control works |
| TimerQueue, Timer, TimerId | `timers_`, `activeTimers_`, `cancelingTimers_`, the timerfd | `addTimer`, `cancel`, `handleRead`, `getExpired`, `reset` | the sets agree, the timerfd is armed, no timer is lost, cancelled ones do not come back |
| Buffer | `buffer_`, `readerIndex_`, `writerIndex_` | `append`, `readFd`, `writeFd`, `retrieve*`, `makeSpace` | it is a queue of bytes, indices in range, no needless growth |
| AsyncLogging, FixedBuffer | `currentBuffer_`, `nextBuffer_`, `buffers_` under `mutex_`; `newBuffer1/2`, `buffersToWrite`, `log_fd_` | `append`, `threadFunc`, `rollOver`, `setAsyncLogFileName`, `stop` | messages in order without loss, the spare buffers do not run out |
| HttpServer, HttpContext, HttpRequest, HttpResponse | parser state and request of each connection | `onConnection`, `onMessage`, `parseRequest`, `onRequest`, `reset` | every request is answered from its own lines however the stream is cut |
| Logger | `logLevel_`, `allowRecord`, `log_file_fd_`, `nextRollOverTime_` | the `LOG_` macros, `log`, `defaultOutput`, `rollOver`, `setLoggerFileName` | a line has its level and goes to the log file, `LOG_FATAL` ends the process |
| Timestamp, InetAddress, CurrentThread, util | - | formatting, conversions | not modelled, see section 7 |

How they interact: every component that waits does so in the `poll` of an
EventLoop. A thread acts on another thread's objects only by handing functors
to that thread's loop (`runInLoop`, `queueInLoop`), which writes the eventfd.
The exceptions are the atomics `quit_` and `state_`, the fields guarded by a
mutex, and a few fields read without one (`EventLoopThread::loop_` in the
destructor, `AsyncLogging::log_fd_`, all of `Logger`). A Channel calls back into its owner;
connections are kept alive by `shared_ptr` while epoll and
`activeChannels_` hold raw pointers.

What is hard: interleavings of a loop with threads that queue, quit and
destroy; hand-over of connections between loops; pointers that outlive what
they point to; tear-down; timers cancelled while they run; buffers at their
limits; streams cut anywhere. `PROJECT.json` lists the hazards with their
lines.

## 2. Modules

    TaskQueue          abstract: callbacks run in order, each once
    EventLoop          one loop, its thread and other threads       implements TaskQueue
    EventLoopThread    EXTENDS EventLoop: the thread that runs it
    MCEventLoop        EXTENDS EventLoopThread: a loop in either place
    EventLoopProofs    about both
    Channel            a Channel and its registration, as a value
    Poller             abstract: reports wanted events that have happened
    EPollPoller        EXTENDS Channel: any sequence of calls       implements Poller
    SelectPoller       the other poller                             (does not)
    Pollers            EXTENDS EPollPoller: a loop with one of the two
    PollersProofs      about both pollers
    ServerStart        start(), the pool, the acceptor and descriptors
    ServerStartProofs
    TcpServer          EXTENDS Channel: server, connections, loops, users, peers
    MCTcpServer        TcpServer with three programs that use it
    TcpServerProofs
    TcpOutput          the output of one connection, byte by byte
    TcpOutputProofs
    TimerQueue         timers on one loop and one other thread
    MCTimerQueue       TimerQueue with a history of every cancel
    TimerQueueProofs
    Logger             the log singleton, its file and its threads
    AsyncLogging       appenders and the logging thread
    MCLogging          EXTENDS AsyncLogging, Logger: a program with one of the two
    AsyncLoggingProofs about AsyncLogging and Logger
    ByteQueue          abstract: bytes leave in the order they entered
    Buffer             a Buffer as a value, its methods as functions
    BufferSpec         EXTENDS Buffer: any sequence of calls        implements ByteQueue
    HttpServer         EXTENDS Buffer: one connection and its parser
    MCHttpServer       EXTENDS BufferSpec, HttpServer: a Buffer in either use
    BufferProofs       about BufferSpec and HttpServer

Names are the code's where TLA+ allows. A definition whose comment begins with
"Mutant" is not part of the model: it is a plausible mistake in the definition
that follows it, used to see that a property would notice.

**EventLoop.** `pc` is the place of the loop's thread in `loop()`; user code
runs in `idle` (before and after `loop()`), `event` and `functor` and may queue,
run or quit. For another thread, `queueInLoop` is two steps, the push under
`mutex_` and the write of the eventfd, and so is `quit` (`tpc[t] = "wake"` in
between). The eventfd is a counter that saturates: a failed write is only
logged. `poll` reports at most `listSize` channels and doubles the list when it
was full. The ten-second poll timeout is an action without fairness.

**EventLoopThread** adds the owner (`opc`) and the stages of `threadFunc`
(`wpc`) around EventLoop's steps: construction, publication of `loop_`,
`loop()`, clearing of `loop_`, unlock, destruction. The destructor's test of
`loop_` (unlocked) and its `quit()` are separate steps. `callback_`, the
handlers and functors in the loop, and the threads that got the loop from
`startLoop` may quit it too, at any time; the history `otherQuit` notes that one
of them did. In the library itself only the destructor does (`TcpServer`'s pool).
MCEventLoop puts a loop into a program of its own or into an EventLoopThread.

**Channel** keeps both sides of a registration: what EPollPoller believes
(`index`, `listed`, `events`, `added`) and what the kernel has (`polled`,
`mask`), and notes an `epoll_ctl` the kernel would refuse.

**Poller, EPollPoller, SelectPoller.** `Poller` states what EventLoop relies
on: `poll()` hands out listed channels with events that they want and that
their descriptors have. EPollPoller drives the functions of Channel with the
calls that occur in the program: an event is disabled only if it is enabled,
`remove` finds no events, and the destructors of Acceptor, TimerQueue and
EventLoop call `disableAll` and `remove` in any state (a second `disableAll` on
its own, which nothing calls, would put the descriptor back into the epoll
set). `ready` is the kernel at the last poll, `active` what was reported.
SelectPoller has the three sets and `maxfd_`; `poll` counts the bits that
select returns and `fillActiveChannels` takes that many channels. Pollers gives
a loop one of the two and makes the same calls of either.

**ServerStart.** `TcpServer::start` is called by several threads and by the
base loop's own, before or in `loop()`. The pool creates one thread after the
other and waits for each in `startLoop` (inside it: EventLoopThread), then the
acceptor listens, at once or through the base loop's queue. `accept` takes a
descriptor, or fails without one or because of the network; then
`Socket::accept` ends the process (`ended`). `newConnection` is reduced to `getNextLoop`
and the hand-over to that loop.

**TcpServer.** What `main` sets up and what the user code does is a `Program`,
chosen in the initial state: the number of I/O loops, the clients, whether a
write-complete callback is set, whether callbacks hand pointers to a user
thread, and whether `shutdown()` is also called when the connection is down.
Each loop alternates between handling the reported channels and
running the functors it swapped out; that a queued functor is noticed and that
the order is kept is EventLoop's business and proved there. A handler is one
step up to the user callback it makes, and what it does after the callback is
the step `EndCallback`. In the callback user code may send, shut down, and
give the pointer to a user thread, which sends and shuts down in two steps
(the test of `state_`, then the push). A connection is alive while
`connections_`, a bound functor, the guard of `tie_`, or the user holds it;
`sendInLoop` and `shutdownInLoop` are bound to a raw `this` and do not count;
the user thread keeps its pointer until the calls it queued have run.
The peer sends, closes and resets; the kernel's buffer is full or not; output
is pending or not. Tear-down follows `main` of the servers: the base loop
returns, `~TcpServer` hands `connectDestroyed` to the loops, the pool quits and
joins its threads, the base loop goes.

**TcpOutput.** One connection after `connectEstablished`. A byte is the
number of its send and its place in it. `sendInLoop` writes to the socket if
nothing is pending, as many bytes as fit or fewer, and buffers the rest;
`handleWrite` empties the buffer. Callbacks are queued functors; the user is
throttled by the high water mark and released by the write-complete callback.
A send of another thread is the test of `state_`, the push, and the functor,
which reads at `buf.c_str()` the bytes or garbage. The peer reads, closes,
resets. Output buffer and queue are sequences, as Buffer and EventLoop promise.

**TimerQueue.** Times are ticks relative to now. Addresses are a small set, so
that freed ones are reused; sequence numbers tell timers apart. `handleRead`
is a batch: take the expired timers out, run them one by one with user code in
between, then `reset`. The timerfd is reported (`reported`) before `handleRead`
is called, and may be set again by another handler in between. The history
`cancelled` holds the timers that `cancelInLoop` found in a set; one whose add
is still queued is in none. MCTimerQueue has another history that counts these
too. The other thread's `addTimer` posts the timer and reads
its sequence number afterwards; if the timer is gone, any value may be read.
The wall clock may step against the monotonic clock of the timerfd.

**Logger.** Every access to the singleton that other threads can interleave
with is a step: the macro's `setLogLevel`, the test of `allowRecord`, the test
for the roll-over, close, open, the time of the next one, the write, the
reading of the level by which `log` exits, the macro's own exit. Descriptors
are a table shared with the rest of the program; open takes the lowest free
one, or fails. `overlap` notes whether two threads ever used the log file at
the same time, which the class does nothing to prevent. The tag that `log` puts
before a line is left out with the texts. MCLogging runs AsyncLogging or Logger.

**AsyncLogging.** Messages are numbers in the order of `append`, with a size.
The logging thread's round is swap, drop, write buffer by buffer, refill. A
write takes the first messages of a buffer, all of them or fewer, and none if
the file is not open; nobody looks at the result. An open may fail. A
`setAsyncLogFileName` closes and reopens `log_fd_` without the lock (its
`std::unique_lock<std::mutex>(mutex_);` declares a local variable).

**Buffer, BufferSpec.** The vector, its indices, and the copying inside it are
modelled cell by cell: `makeSpace` moves or grows, `readFd` spills into
`extrabuf`. BufferSpec makes any sequence of calls. MCHttpServer runs it or the
HTTP server, with the same bytes and sizes.

**HttpServer.** The stream consists of pieces, the text of a line or its CRLF,
in segments that end anywhere between pieces (a CR LF pair is not cut in two:
`findCRLF` sees such a pair only when it is complete). Texts are the kinds
the parser tells apart. `parseRequest` works on the Buffer above. `onMessage`
is taken in steps: `OnMessage` is `handleRead` up to the call of `parseRequest`,
each turn of its loop is a step (`NoLine`, `RequestLine`, `HeaderLine`), and
`EndMessage` sends what there is to send; `pc` says where the connection's
thread is, which does nothing else in between. A loop without a branch (`spins`)
and a failed assert (`aborts`) are places too. The reference `Asked` reads the
whole stream piece by piece, without segments, buffers or a context.

## 3. Runs

| run | bounds | shows |
|---|---|---|
| `loop` | 2 threads, 2 functors, 2 channels, eventfd limit 1, list of length 1; a loop of its own or in an EventLoopThread | `NoLostWakeup`, `ImplementsTaskQueue`, `QuitTargetAlive`, `ObjectOutlivesThread`; `FunctorRuns`, `QuitEndsLoop`, `ReadyChannelHandled`, `StartLoopTerminates`, `QuitWhileLoopingJoins` |
| `thread_join` | EventLoopThread, 2 threads, 1 functor, 1 channel, fair timeout | violation of `JoinTerminates` |
| `pollers` | 2 descriptors, not adjacent, either poller | `PollerAgrees`, `AsksForInterest`; `ImplementsPoller` |
| `start` | 3 callers, 3 calls, 0 to 3 I/O loops, 3 descriptors, 5 clients | `InitBeforeUse`; `ServerServes` |
| `start_full` | 1 I/O loop at most, 1 descriptor, 2 clients | violation of `FullTableSurvived` |
| `tcp` | two programs: 1 connection on 1 I/O loop with a user thread; 2 connections on the base loop with late `shutdown()`; 2 sends, tear-down | `DestroyedAfterRemoved`, `CallbacksPaired`, `RemovedOnce`, `ActiveChannelsStay`, `OrderlyRemoveFindsNoEvents`; `PeerCloseCleansUp` |
| `tcp_assert` | a third program: 1 connection on 1 I/O loop with a user thread and late `shutdown()` | violation of `RemoveFindsNoEvents` |
| `output` | room for 1 byte, mark at 2, 3 sends of up to 2 bytes | `StreamIntact`, `FlowControl`; `OutputDrains` |
| `timer` | 2 addresses, 2 timers, delays to 2 ticks, 1 clock step, another thread | `SetsAgree`, `ArmedForEarliest`, `NoTimerLost`, `CancelAfterAddSticks`; `TimerFires` |
| `timer_cancel` | the same without clock steps | violation of `CancelSticks` |
| `log` | AsyncLogging: capacity 3, sizes 1 to 3, 5 messages, drop above 3 buffers, renames; Logger: 2 threads with one call each, 2 descriptors, renames | `BackNeverEmpty`, `InOrderNoLoss`, `HarmOnlyByOverlap`; `MessageWritten`, `FatalEndsProcess` |
| `http` | prepend 1, initial size 3, extrabuf 3; Buffer: 2 byte values, chunks to 4, content to 5; HttpServer: 8 pieces of 6 kinds of text, segments to 4 | `IndicesInOrder`, `ImplementsByteQueue`, `GrowsOnlyWhenFull`, `AnswersInOrder`, `ParserSurvives`, `MessageMakesProgress` |

Why the bounds are enough to be interesting. `loop`: two threads race each
other and the loop; the eventfd reaches its limit, and more channels are ready
than the first list holds; the second functor is queued while the first runs;
the owner's destructor meets a quit from inside and one from the other thread.
`tcp`, with an I/O loop: all the races of a connection are between
its loop, the base loop, the peer and one user; connections share only the map
and `next_`. Two sends let one be pending output when the other is queued. On
the base loop, two connections are what it takes for one handler to run while
the other's channel is still in `activeChannels_`. `output`: a send fits, fits
in part or not at all, the backlog crosses the mark, drains and crosses it
again, and sends of the loop overtake those of other threads in the queue.
`pollers`: a second channel is what a forgotten `maxfd_` needs; nothing relates
three. `start`: more clients than loops, so that the round robin wraps, and
more than descriptors. `timer`: two addresses and
two timers give reuse, cancellation of a batch companion and of oneself. `log`:
sizes below, at and above what fits; five messages fill more buffers than the
drop limit; one call of each thread is enough to overwrite a level, to roll over
twice, and to fail to reopen the file. `http`: moving, growing and spilling all
happen, at and off the boundary; eight pieces hold two full requests with headers or a refused
line between requests, and segments hold more than one request.

In the runs that pass, a connection is closed through the end of the stream
that `handleRead` finds: while a channel reads, epoll reports a hang-up together
with input. A hang-up without input needs a channel that only writes, which
happens only after a `shutdown()` in the down callback and a send that another
thread had queued before; no program of `tcp` does both, the one of `tcp_assert`
does.

`TypeOK` describes the state and is not among the runs' properties; it is part
of the inductive invariant wherever something is proved. ServerStartProofs uses a weaker `Types`: that `free` stays within `Fds` is a sum over all loops,
and nothing proved needs it.

Deadlock is checked where the system cannot stop (`timer`, `timer_cancel`,
`pollers`). In the others it may: a joined thread, a destroyed server, a stopped
log, a peer that sends no more.

## 4. Fairness

* `loop`: the loop's thread, the owner inside `start`, `startLoop` or
  the destructor, and a thread between its push and its write of the eventfd
  are scheduled (weak fairness): no call they make blocks except the modelled
  ones. Handlers and functors of the user return. Nobody is obliged to call
  anything, events need not arrive, and the poll timeout is not relied on;
  `thread_join` grants it and fails all the same.
* `tcp`: every loop's thread is scheduled and callbacks return.
* `timer`: the loop's thread is scheduled, callbacks return, time passes.
  Functors get strong fairness: every round of `loop()` runs them after the
  events, so timers cannot hold them off for ever, while in this model either
  may come next.
* `output`: the loop's thread is scheduled, and a peer that has not reset the
  connection reads what has arrived. `OutputDrains` gives up on a peer that
  has left.
* `start`: the callers inside `start()`, the pool's threads and the base loop
  are scheduled, and the base loop's thread calls `loop()`, as `main` does. An
  `accept` that fails because of the network is not fair; `ServerServes` speaks
  of the executions in which none fails.
* `log`: the logging thread is scheduled; `wait_for` returns by its timeout. A
  thread inside a macro is scheduled; nobody has to log.

## 5. What the runs found

Four runs show that the code does not do what the repository says; the findings
in `PROJECT.json` quote the lines.

* `thread_join`: `loop()` begins with `quit_ = false`. A `quit()` that falls
  between publication of the loop and that line is lost and the destructor
  waits for ever. `QuitWhileLoopingJoins` is what remains true.
* `timer_cancel`: `addTimer` and `cancel` are said to be thread-safe. A thread
  adds a timer and hands the TimerId to the loop's thread, which cancels it
  while `addTimerInLoop` is still queued: `cancelInLoop` finds nothing and
  remembers nothing (`src/TimerQueue.cc:101`), and the timer is inserted and
  fires. `CancelAfterAddSticks` is what remains true.
* `tcp_assert`: `Channel::remove` asserts that the channel wants no events.
  `shutdown()` tests for `kDisconnected` (`src/TcpConnection.cc:204`); called in
  the down callback, as the echo server does, it makes `kDisconnecting` of it, and
  a send that another thread had queued enables the channel of the closed
  connection again. `OrderlyRemoveFindsNoEvents` is what remains true. In such a
  program the other invariants of `tcp` fail as well: the revived channel
  reports events, the connection is closed a second time, and its callbacks and
  `connectDestroyed` come twice.
* `start_full`: `idleFd_` is there to survive the lack of descriptors.
  `Socket::accept` ends the process when `accept4` fails (`src/Socket.cc:42`), so
  the `EMFILE` branch of `Acceptor::handleRead` is not reached; it would accept on
  `idleFd_` instead of the listening socket. `ServerServes` is what remains true.

Seen while modelling, and exempted by the properties that pass where they would
be concerned:

* `quit()` sets `quit_` and then writes the eventfd of a loop that may have
  ended and been destroyed by then (`src/EventLoop.cc:116`);
* a `quit()` by a callback of the loop or by another thread races with
  `~EventLoopThread`, which reads `loop_` without the mutex
  (`src/EventLoopThread.cc:16`): the destructor calls `quit()` on a loop that was
  destroyed after the test, or finds `loop_` cleared, joins nothing and is done
  while `threadFunc` still holds `mutex_`. `QuitTargetAlive` and
  `ObjectOutlivesThread` exempt exactly these, and say what holds all the same;
* a loop that its `callback_` or a first handler quits may be over before
  `startLoop` looks: `loop_` is null again and `startLoop` waits for ever
  (`src/EventLoopThread.cc:29`); `StartLoopTerminates` exempts it;
* `~TcpServer` only queues `connectDestroyed`; the pool then quits the loop, and
  the functor may die in the queue, so that the assert in `~Channel` fails
  (`src/TcpServer.cc:26`). `DestroyedAfterRemoved` and `CallbacksPaired` exempt
  connections whose loop is gone (`LoopGone`);
* `shutdown()` tests for `kDisconnected` where its users expect `kConnected`
  (`src/TcpConnection.cc:204`). On a connected connection it does nothing: an
  HTTP response with `Connection: close` is not followed by a close, and after a
  400 the refused line is parsed again, where the assert in `setMethod` fails if
  its method was known (`ParserSurvives` exempts connections that were answered
  400);
* `send()` in another thread binds a raw `this` and `buf.c_str()` of the
  caller's string (`src/TcpConnection.cc:125`): both may be gone when the
  functor runs. In TcpServer the user thread keeps its pointer; in TcpOutput the
  functor sends garbage, and `StreamIntact` holds for it;
* `addTimer` reads the timer after the loop may have deleted it
  (`src/TimerQueue.cc:80`). In the model the TimerId then holds any number; if it
  is that of the next timer at the address, a cancel takes that one away, which
  `NoTimerLost` counts as cancelled;
* `SelectPoller::fillActiveChannels` looks into the sets that select was asked
  with, not into those it returned (`src/SelectPoller.cc:116`): it reports what
  did not happen and may pass over what did. So SelectPoller is not shown to
  implement Poller, only to ask for the right events;
* the Logger takes no lock. Two roll-overs at once may close a descriptor that
  another part of the program has just been given (`HarmOnlyByOverlap` says that
  it takes two), and a line gets the level of another thread's macro, which is not
  modelled;
* AsyncLogging does not look at what `write` returns: the rest of a short write
  is lost, as is a message longer than a buffer. `InOrderNoLoss` counts both as
  gone;
* a functor queued by the loop's own thread before `loop()` does not wake it
  (`src/EventLoop.cc:137`); `NoLostWakeup` exempts exactly these (`early`);
* a timer cancelled by a callback of its own batch still runs once
  (`src/TimerQueue.cc:120`);
* of several requests in one segment only the first is answered before the next
  message (`http/HttpServer.cc:47`); `MessageMakesProgress` states what the code
  does;
* without I/O loops `threadInitCallback_` runs in the thread that called
  `start()`, which need not be the base loop's (`src/EventLoopThreadPool.cc:30`);
* `readFd` says it reads 64k at most; it may read nearly twice that
  (`src/Buffer.cc:24`).

## 6. Proofs

For every value of the constants that satisfies the ASSUMEs of the modules.
Each proof has the same shape: an inductive invariant whose conjuncts are
named, one lemma or step per action, and a last step that derives the property.
The invariants were first checked by TLC on the instances of section 3.

* **EventLoopProofs.** `TypeCorrect`; `NeverSleepsOverWork`: the loop never
  blocks over work. `NoLostWakeup` alone is not inductive: it speaks of `poll`
  only, so it says nothing on the way there. `WakeupInv` says where un-notified
  work may exist, namely while the loop is between the return of `poll` and the
  swap of the queue, and that an eventfd reported readable is still non-zero
  when `handleRead` reads it. The argument in short: a push
  by another thread announces itself; a push by a functor is announced because
  `callingPendingFunctors_` is set exactly then; a push by an event handler is
  not, and need not be. `QueueRefinement`: `functors \o pendingFunctors_`
  implements the queue of TaskQueue; a swap is a stuttering step because
  `functors` is empty by `WakeupInv`.
  `ThreadRunsLoop`: a loop inside an EventLoopThread takes only steps of
  EventLoop, so all of this holds there. `QuitFindsLoop` and `ObjectOutlives`
  rest on `ThreadInv`: the destructor has seen a published loop only while
  `threadFunc` is between publication and the end of `loop()`, and only a
  `quit()` ends that, the destructor's or one that `otherQuit` has noted; past
  `join` the thread is over, and without a join it has at least left `loop()`.
  Every `quit()` is in the specification; where another than the destructor's
  was made, the theorems claim only what the properties then say.
  Assumed: the eventfd limit and the initial list are positive, the wakeup
  channel is not an I/O channel, the owner is one of the threads.
* **PollersProofs.** `EpollBookkeeping`: `Agrees` of every channel, which says
  for each value of `index_` whether the map and the kernel have the channel
  and with which mask; each call of the program ends in `update` or `remove`,
  and there is one lemma for each. `EpollRefinement` maps the same steps to the
  abstract Poller. `SelectAsks`: the sets are the channels' interest, and
  `maxfd_` is the largest descriptor listed, also after the largest was
  removed; that a finite set of descriptors has a largest one is proved from a
  least counterexample. Assumed: descriptors are naturals, and finitely many.
* **TcpOutputProofs.** `OutputInOrder`: a direct write happens only while
  nothing is pending, so it cannot overtake. `CallbacksControlFlow`:
  `FlowControl` as it stands cannot be pushed through a step, since it speaks of
  the whole queue; the invariant reads the queue once from its front (`Flow`),
  and two lemmas say what taking a functor and adding one do to that.
  Assumed: the bounds are natural numbers, and there is some room in the socket.
* **TimerQueueProofs.** One invariant for four theorems: `TimerSetsAgree`,
  `TimersNotLost`, `CancelsStick`, `TimerfdArmed`. Beside the properties it says
  that sequence numbers identify the live timers, that a timer whose add is
  queued is live, in no set and queued once, and that a cancelled timer that
  still exists is in the batch of `handleRead` and in `cancelingTimers_`. The
  last is what makes `reset` delete a repeating timer that cancelled itself.
  `CancelsStick` is about cancels that come after the add has run; the others are
  lost (section 5).
  Assumed: delays and the number of timers are positive, and the null pointer
  is neither an address nor a timer.
* **TcpServerProofs.** The largest proof. `Inv` says, in seven parts: the types;
  the *stages* of a connection (unborn or connecting, up, down) with what its
  channel's registration is in each; where the *queues* have its functors, in
  which order, and that connectEstablished, connectDestroyed and
  removeConnectionInLoop are queued at most once each; that a connection that
  is not removed has exactly one *owner* that will remove it (the map, a queued
  connectDestroyed, or the one that waits for the user's callback); the
  *rounds* of a loop, in particular that a connectDestroyed queued by the base
  loop's own handlers does not run before the events are done; the order of
  *tear-down*; and the user thread's *pointers*. From it follow
  `PointersOutliveChannels`, `ConnectionCallbacks`, `DestroyedOnce`,
  `ReportedChannelsStay` and `RemovesQuietChannels`, for any set of connections,
  any number of I/O loops and any programs, in every execution of a program that
  is `Orderly`: it does not both let another thread keep pointers and call
  `shutdown()` on connections that are down. The condition is part of each
  statement (`Spec => [](Orderly => ...)`), and it is needed: the run `tcp_assert`
  is an execution of another program. The programs of `tcp` are orderly, one
  with each half.
* **ServerStartProofs.** `ClientsFindLoopsReady`. One caller at most is inside
  `start()`; the acceptor is not asked to listen before its end; clients exist
  only after that; `next_` stays below the size of the pool. Assumed: the base
  loop is not one of the numbered loops.
* **AsyncLoggingProofs.** `TypeCorrect` (no buffer beyond its capacity);
  `SparesNeverRunOut`: `back()` is never called on an empty vector.
  The invariant `SpareInv` says why: `nextBuffer_` is missing only after a full
  buffer was pushed, so a round that gives `newBuffer2` away swaps out two
  buffers, and both the drop and the resize keep two. `MessagesInOrder`: file
  and buffers are one line of messages (`Stored`); lemmas say what `InOrder`
  and `Held` make of two lines put together and of a part taken out, and every
  action is one of these; a short write is a part taken out. The invariant adds
  that `todo` is what was swapped out until the drop, and empty outside of the writing, and that messages are
  gone only after they were appended. Assumed: the drop limit is at least two.
  The Logger singleton: `LoggerTypeCorrect`; `HarmNeedsOverlap`: while
  no two threads use the file, `Undisturbed` holds: one thread at most is
  between the test for the roll-over and the write or in `setLoggerFileName`,
  the rest of the program owns what it thinks it owns, and `log_file_fd_` is -1
  or the log file, except while that one thread is between close and open,
  where the number may already be somebody else's and nothing uses it before
  the open replaces it. `NothingElseEndsProcess`: the level that `log`
  reads back is always that of some thread's last macro. Assumed: there is at
  least one descriptor.
* **BufferProofs.** Facts about each method (what it does to the indices, to the
  unread bytes and to the size) are lemmas; the inductive invariant says that
  the indices are in order. `IndicesCorrect`, `BufferRefinement` (to
  ByteQueue) and `NoNeedlessGrowth` follow step by step. Assumed: the sizes are
  natural numbers.
  On top of them the HTTP server: `HttpTypeCorrect`, `ParserAlwaysSurvives`,
  `RequestsAnsweredInOrder`, `EveryMessageProgresses`, for streams of any length
  and any segments. `HttpInv` says that the stream is what the parser has
  consumed followed by what is readable in the buffer, that the consumed part
  ends at the start of a line, and that context and answers agree with the
  reference on that part (`Agrees`): between requests the answers are those
  asked for and then refusals, in the headers the request is the one begun, and
  in `kGotAll` the one answer missing is the one `onRequest` is about to send.
  Why the assert of `setMethod` matters only after a 400: a refused line stays
  in the buffer and blocks it (`Blocks`), and the method it left behind stays in
  the request. `AnswersInOrder` speaks of the whole stream, the invariant of the
  consumed part; lemmas on `Asked` bridge them: what it says of a stream is kept
  by every continuation (`AskedContinues`), nothing follows from a stream that
  is blocked (`BlockedStream`) or in the middle of a line (`WaitingStream`).
  `Asked` is a recursive function over the length of the stream; that it exists
  and satisfies its equation is proved here, by induction in the form of a set
  of naturals closed under successor (`InductionInSet`, `RunExists`).
  Assumed: the texts are among the kinds listed, and Buffer's bytes include
  them.

Only model-checked: liveness (TLAPS does not handle fairness), which includes
`ServerServes` and the first half of `FatalEndsProcess`; the bounds on descriptors in `TypeOK` of
ServerStart. Every invariant and action property of the passing runs, and every
refinement, is a theorem.

## 7. Not modelled

The texts that Logger formats and the tag of a line, an output function other than its default and
AsyncLogging's, its roll-over interval; Timestamp, InetAddress, CurrentThread
(values and conversions); `newDefaultPoller`'s choice; socket options; HTTP
message texts beyond what the parser tells apart, and bodies (the code has
none). Failing system calls that end the process through `LOG_FATAL` (eventfd,
epoll, bind, listen) are left out, except `accept4`, and `epoll_ctl`, whose
refusal `PollerAgrees` rules out. Descriptors beyond `FD_SETSIZE` in
SelectPoller, concurrent use of the Logger's strings and of `std::function`
objects, and the loss of precision of a `double` interval are not modelled.

## 8. Plan

Done: the modules of section 2; the theorems of section 6.

Left: nothing of the plan. Worth adding when the code changes: bodies of
requests once `kExpectBody` has a branch, and a SelectPoller that reports from
the sets that `select` has filled.
