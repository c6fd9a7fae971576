# mymuduo11 in TLA+

mymuduo11 is a small C++11 network library after muduo: *one loop per thread*,
epoll, non-blocking sockets, callbacks. This directory holds TLA+ models of its
concurrent and stateful parts, TLC configurations that check them on small
instances, and proofs, checked by TLAPS, of the most important results for
every value of the constants.

Contents: [Inventory](#inventory) · [Modules](#modules) ·
[Runs](#runs-bounds-and-results) · [Fairness](#fairness) ·
[Proofs](#proofs) · [Disagreements](#where-the-code-and-its-words-disagree) ·
[Not modelled](#abstractions-and-what-is-not-modelled) · [Plan](#plan)

## Inventory

Paths are relative to `src/`. "Loop" means the thread that runs the `EventLoop`.

| Component | State | Operations | Interacts with |
|---|---|---|---|
| **EventLoop** `net/eventloop.{h,cc}` | `_looping`, `_quit`, `_activeChannels`, `_pendingFunctors` (mutex), `_callingPendingFunctors`, the eventfd `_wakeupFd` | `loop`, `quit`, `runInLoop`, `queueInLoop`, `wakeup`, `handleRead`, `doPendingFunctors` | asks the poller for active channels and runs their callbacks; any thread hands it functors and wakes it |
| **Channel, EpollPoller** `net/{channel,poller,epollpoller}.*` | a channel's `_fd`, `_events`, `_revents`, `_index`, `_tie`; the poller's fd → channel map and event list; the kernel's interest list | enable/disable reading and writing, `disableAll`, `remove`, `poll`, `handleEvent` | epoll_ctl and epoll_wait; callbacks into the owner of the channel |
| **TcpConnection** `net/tcpconnection.*` | `_state`, its channel and socket, the two buffers, the high-water mark | `send`, `sendInLoop`, `shutdown`, `shutdownInLoop`, `connectEstablished`, `connectDestroyed`, `handleRead/Write/Close/Error` | its I/O loop (events and functors), user callbacks, other threads, `TcpServer` through `_closeCallback` |
| **TcpServer** `net/tcpserver.*` | `_connections` by name, `_nextConnId`, `_started` | `start`, `newConnection`, `removeConnection`, `removeConnectionInLoop`, destructor | acceptor, pool, connections in other loops |
| **Acceptor** `net/acceptor.*` | listening socket and channel, `_listenning` | `listen`, `handleRead` | the server's loop, `newConnection` |
| **EventLoopThreadPool, EventLoopThread, Thread** `net/eventloopthread*.*`, `base/thread.*` | `_loops`, `_next`; `_loop` under a mutex and a condition variable; the thread | `start`, `getNextLoop`, `startLoop`, `threadFunc`, destructors | creates loops on the stacks of their threads, hands out pointers to them |
| **Buffer** `net/buffer.*` | a vector, `readerIndex_`, `writerIndex_` | `append`, `readFd`, `writeFd`, `retrieve*`, `makeSpace` | read and written by `TcpConnection` |
| **Logger, LockQueue** `base/{logger,lockqueue}.*` | the queue (mutex, condition variable), one `level_` for all messages | `Log`, `SetLogLevel`, the writer thread | every component logs |
| **Socket, InetAddress, Timestamp, CurrentThread, DefaultPoller, callbacks, noncopyable** | none beyond a value or a descriptor | single system calls, formatting | |
| **EchoServer** `example/` | | a user of the library; its comments say what it expects | |

Which behaviours are hard, and what makes each component correct:

* **EventLoop.** A functor or a quit() may arrive between any two steps of
  loop(), in particular between the swap of the queue and epoll_wait. Correct:
  the owner never sleeps on work; functors run once each, in order; quit ends
  the loop.
* **Poller.** Three places record whether an fd is registered (`_index`, the
  map, the kernel), fds are reused, and the sequence of enabling, disabling and
  removing is the user's choice. Correct: the three agree, no epoll_ctl fails,
  no interest is lost.
* **TcpConnection.** Partial writes, sends that overtake, shutdown during
  output, one event that carries several callbacks, a close that takes three
  hops over two loops, calls from other threads that test `_state` early.
  Correct: the stream is in order, FIN comes last, EPOLLOUT is wanted exactly
  while bytes wait, the callbacks come in their order, a closed connection is
  taken apart.
* **Thread pool.** The loop object lives on its thread's stack and is published
  through a condition variable, read without the mutex by the destructor.
  Correct: only living loops are handed out, evenly; no thread outlives the
  object whose members it uses.
* **Buffer.** Index arithmetic in `size_t`, with moves, growth and a read that
  overflows into a second area. Correct: a queue of bytes, of bounded size.
* **Server and acceptor.** Several connections, the map by name, lifetimes
  (raw pointers in functors and in the list of active channels), functors
  that are dropped when a loop quits, the destructor against closes in other
  loops, running out of descriptors. Correct: nothing is used after it was
  freed; a connection is told up and down once, then freed; peers are
  accepted as soon as there are descriptors; the destructor returns. All but
  the third have exceptions that the code makes and the properties name: a late
  `send()`, a `shutdown()` before `~TcpServer`, a lost `quit()`.
* **Logger.** One unsynchronised level for all messages, a time that is
  taken before the message is waited for, a writer thread that nobody joins.
  Correct: every message is written once, in the order of the pushes; the
  level and the time of a line are off in known ways only.

`PROJECT.json` lists the hazards one by one, each at its line, with the
properties that cover it, or why none does yet.

## Modules

```
TaskQueue  <--refines--  EventLoop                   EventLoopProofs
                            ^ its FIFO is assumed by
Poller     --assumed by-->  TcpConnection            PollerProofs, TcpConnectionProofs
                            ^ its beginning and end, many of them
ConnectionLife <--refines-- TcpServer                 TcpServerProofs
ByteQueue  <--refines--  Buffer                      BufferProofs
                         EventLoopThreadPool         EventLoopThreadPoolProofs
TaskQueue  <--refines--  Logger                      LoggerProofs
```

`TcpServer` composes the server, its acceptor, several connections, the loops
of the pool and the descriptor of the log in one module, each in as much
detail as the others can see. The rest of the composition is by contract: `TcpConnection` uses its loop as the FIFO of
`TaskQueue`, which `EventLoop` is proved to implement, its channel's
registration as `RegistrationExact` of `Poller` (proved), and its output buffer
as the sequence that `Buffer` is proved to implement. `MCX.tla` extends `X`
with what a configuration needs (symmetry sets, message sizes). `SequenceLemmas`
holds the facts about queues, as lists of what is in them and how often, that
several proof modules need.

**TaskQueue** is what a loop promises: tasks are queued, then run, once each,
first in first out.

**EventLoop** models one loop, its owner and other threads.
`pc` is where the owner is: before `loop()`, at the test of `_quit`, in
`epoll_wait`, dispatching, inside user code, before or after the swap in
`doPendingFunctors`, out of the loop. Each step of `loop()` that another
thread can fall between is an action: `LoopEnter` (which clears `_quit`, as
the code does), `LoopTest`, `Poll`, `HandleRead`, `HandleEvent`,
`BeginPending`, `SwapFunctors`, `RunFunctor`, `EndPending`. A call from
another thread has two steps, the push under the mutex (`QueueInLoop`,
`RunInLoop`) or the assignment (`Quit`), and the write to the eventfd
(`Wakeup`), between which anything may happen; `waking` holds the threads in
that gap. The owner itself makes the same calls from callbacks and functors,
at any depth the code allows. The eventfd is a counter whose write fails at
its limit. Channels other than the wakeup channel are names that epoll may
report at any time.

**Poller** models channels, `EpollPoller` and the kernel's interest list.
`SetEvents` is every `enableX`/`disableX` with the `updateChannel` behind it;
`RemoveChannel`, `Poll` (with the doubling of the event list) and
`HandleEvent` follow. `Construct` and `Destroy` give channels fds, and fds are
reused. The owner's contract, as Acceptor, TcpConnection and EventLoop keep it:
a channel is removed before it is destroyed, and is not destroyed while it is
in the active list. `epoll_ctl` returns an error where the kernel would (ADD
of a listed fd, MOD or DEL of another) and `ctlError` records it.

**TcpConnection** is one connection from `newConnection` to
`connectDestroyed`, with its I/O loop, the server's loop, user code in callbacks
and in other threads, the socket and the peer.
The handlers are atomic: only `_state` and the queue are shared with other
threads, so these are what the steps of the other threads are cut at:
`SendTest` reads `_state` and binds the functor, `QueueInLoop` pushes it;
`shutdown()` has three steps because it tests `_state`, sets it, and queues.
`Poll` computes what a level-triggered epoll reports and leaves in `todo` the
callbacks that `handleEventWithGuard` will make on that one `_revents`;
`Dispatch` makes them one by one, with user code between (`inCallback`,
`CallbackSend`, `CallbackShutdown`, `CallbackReturn`), so that a callback
changes what the next one finds. A write takes any number of bytes up to the
room in the kernel, fails with EWOULDBLOCK, or fails for good. The functor of
another thread's `send()` holds a pointer into the caller's string; the model
lets it read recycled bytes instead. Removal is `HandleClose` →
`RemoveConnectionInLoop` (the server's loop) → `connectDestroyed` (the I/O
loop), or one nested call when the server has no pool (`SharedLoop`);
`ServerDestroyed` is `~TcpServer` and may come at any time. `accepted`, `wire`
and `calls` are history.

**EventLoopThreadPool** is the server's thread in `start()`, `getNextLoop()`
and the destructors, with 0 to `MaxThreads` workers in `threadFunc`. `base` and
`cur` say which member of the pool it is working on; `thread[w]` is the place
of worker `w`, from building the loop on its stack, through publishing
it, to leaving, setting `_loop` to null and unwinding. The condition variable
may wake spuriously; `~EventLoopThread` reads `_loop` without the mutex; `quit()`
and the write behind it are separate steps; a callback may end a worker's
loop (`userQuit`).

**TcpServer** is the server from its construction to the end of `~TcpServer`:
`server` is what its thread does, `pool` the loops that `start()` gets, `place`
and `quit` where each loop is. `start()` returns when every loop of the pool is
published, none of which need have got to `loop()` ("starting"): `EnterLoop` is
that thread's step into `loop()`, which clears `_quit`, and a `quit()` that came
before it is lost (`QuitLost`). A loop polls, handles the channels it found in
any order (`active`, which are raw pointers), swaps its queue into `batch`
and runs it; `held` is what the functors of that vector that have run still
refer to, until the vector goes out of scope (`Release`).

`Alive` is the set of connections that a `TcpConnectionPtr` refers to, in
`connections`, a queue, a batch, `held`, or in the hands of a thread of the
user (`KeptByUser`); the rest are freed, and their descriptors with them
(`FreeFds`). `NewConnection` takes the next loop and the next name and puts
the connection in the map, `HandleAccept` fails when `FreeFds` is 0,
`HandleClose`, `RemoveConnectionInLoop` and the functor of `connectDestroyed`
are the three hops of a close. `connectDestroyed` tells the user in state
kConnected only (`Destroyed`): `shutdown()`, in a callback (`CallbackShutdown`)
or another thread, makes it kDisconnecting.

`Users` are threads that are no loop's. One takes the pointer in a callback
(`Take`), calls `send()` and `shutdown()` and drops it again. A call
is cut where the code is: the test of `_state` (`CallTest`), for `shutdown()` the
assignment of it (`SetState`), then `runInLoop` (`QueueInLoop`), which queues a
raw `this` that keeps nothing alive (`IsRaw`). Anything may happen in between,
the whole close included. `sendInLoop` then has no return in state
kDisconnected: it may leave bytes in the buffer and register the channel again
(`Buffered`); `revived` remembers that. Such a channel is reported when it can be
written or has failed (`Writable`), and then the buffer may drain (`Drained`) or
the connection be closed a second time. Two things are asked of the threads:
one keeps its pointer until the functors with the raw pointer have run (`Drop`),
and is not inside a call when the loop is destroyed (`LoopExists`). A call of
a dead channel is undefined behaviour, and the model stops where a loop has one in
hand (`ActiveExist`).

`~TcpServer` is `DestroyConnection` for each
entry of the map, then `QuitLoop` and the join for each loop of the pool, then
`ServerGone`; closes in the pool's loops fall anywhere between. `UserQuits`
ends the server's loop at any time, from a callback or another thread. The
log's writer holds a descriptor of the same limited number except between two
lines (`LogCloses`, `LogOpens`).
**ConnectionLife** is what the server promises of one connection: built, up,
down, freed, in this order. Only a server that is being destroyed may lose
one, that is free it without telling the user that it is down: if
its loop has ended, or if `shutdown()` was called. Only a late `send()` may have
one told again that it is down.

**Logger** is any number of threads in the `LOG_` macros and the writer. A macro
is the assignment of `level_` (`SetLogLevel`) and the push (`Log`); the writer
takes the time and opens the file (`TakeTime`), pops (`Pop`, `Wait`,
`SpuriousWakeup`) and formats the line (`WriteLine`). The process may end at
any step (`ProcessEnds`): the writer is detached. It implements **TaskQueue**
with messages as tasks.

**Buffer** is the vector with its two indices: `AppendData`, `ReadFd` (with
`extrabuf`), `Retrieve` and `RetrieveAsString`, over `MakeSpace`. **ByteQueue**
is what it promises: bytes in at one end, out at the other, none lost,
repeated or stale.

## Runs, bounds and results

| Run | Module | Distinct states | What it shows |
|---|---|---|---|
| EventLoop | EventLoop | 73 765 | no interleaving lets the owner sleep on a functor or a quit; the loop implements TaskQueue; queued functors run and quit() returns without the 10 s timeout or other events |
| Poller | MCPoller | 3 753 (up to symmetry) | map, indices and interest list agree; epoll_ctl never fails; the event list stops growing |
| TcpConnection | MCTcpConnection | 5 624 085 | stream order, EPOLLOUT, FIN last, callback order, the callback of the end, write-complete and high-water callbacks, for a connection in the server's loop or another, used by its loop alone or by another thread too |
| TcpConnectionLiveness | MCTcpConnection | 199 609 | a peer that leaves is noticed, the connection is taken apart across the loops, shutdown() sends FIN in the end |
| EventLoopThreadPool | EventLoopThreadPool | 82 123 | even hand-out of living loops; no thread outlives its object; start() returns; quit() then join() returns |
| Buffer | Buffer | 9 799 | the byte queue, the bound on the size |
| TcpServer | MCTcpServer | 99 754 | from `start()`, with loops that need not have got to `loop()`, to the end of `~TcpServer`: the map knows what is not down, no dead server is called; closed connections are freed, peers accepted, the destructor returns unless its quit() was lost |
| TcpServerUsers | MCTcpServer | 903 498 | with a user's thread that calls send() and shutdown(), early or late: no dead channel is handled, no connection is freed while registered, but for one that a late send() registered; ConnectionLife |
| Logger | MCLogger | 50 593 | no lost notification; TaskQueue; which level and which time a line may carry; every message is written unless the process ends |

Three more runs, EventLoopLostQuit, TcpConnectionGiveUp and
EventLoopThreadPoolWakeup, check what a comment or a message
of the code says and find it violated; see
[below](#where-the-code-and-its-words-disagree). All runs of the table pass, and
each of their properties is violated by a plausible bug in the code
(the definitions commented "Mutant of" in the modules).

Bounds, and why they are enough for the cases to happen:

* *EventLoop*: two other threads and the owner, three functors and one
  queued before `loop()`, one other channel, an eventfd limit of 2. Two threads can
  be between push and write together, functors can be in the batch, in the queue
  and in both, and the counter can be full. No symmetry, since the run checks liveness.
* *Poller*: three channels over three fds, an event list that starts at 1,
  so that it doubles twice, and every order of reuse.
* *TcpConnection*: messages of 3 and 2 bytes against `SndBuf` of 2
  or 1 and `HighWaterMark = 2`, so that writes are direct, partial
  and refused, and the mark is met exactly, passed and left; at most one byte
  of the peer unread (`MaxInput`); at most one other thread, since others
  meet only in the queue, and none if that thread never got the connection
  (`Absent`), which is the case `CallbackProtocol` is about.
* *TcpServer*: no, one or two loops in the pool; two descriptors, of
  which the log takes one, for up to three peers (`MaxAccepts`), so that accept
  fails and goes on after a close; two values of `_nextConnId` (`NameWidth`),
  so that names come round again. With 32 bits a name comes back after 2^32
  connections: `PeerConnects` assumes that the first bearer is freed by then.
* *TcpServerUsers*: one thread of the user, which keeps one
  pointer at a time and has one functor queued at a time (`CallTest`); no loop or
  one in the pool and two peers, whom three descriptors are enough for. What
  several threads do to one connection they do through its queue and `_state`,
  and a thread can do all that in turn; the theorems have no such bound.
* *Logger*: two threads, a message each of INFO, ERROR and DEBUG, three values
  of the clock (`MaxTime`): both threads can be inside a macro while the writer
  has an earlier line in hand.
* *EventLoopThreadPool*: none to three threads, two calls of `getNextLoop` per
  loop (`MaxCalls`), so that `_next` wraps.
* *Buffer*: a prepend area of 1, an initial size of 2, `extrabuf` of 3, data of
  up to 3 bytes (`MaxAppend`) of two values, at most 4 left readable
  (`MaxReadable`): a read can fill the vector, spill, and make `append` move
  or grow.

CHECK_DEADLOCK is off where the system may stop: a connection that is destroyed,
a pool or a server that is destroyed, a process that has ended, and a buffer
that is full to its bound and only retrieved.

## Fairness

Safety needs none. The liveness properties assume what the code's scheduling
gives, and no more.

* *EventLoop*: weak fairness of the owner's own steps (`OwnerProgress`) and of
  each thread's write once it is inside `queueInLoop` or `quit`. epoll_wait is
  obliged to return only when the eventfd is readable (`PollWoken`): neither the
  10 s timeout nor another channel helps. Nobody is obliged to call anything.
* *TcpConnection*: `loop()` handles what epoll reports and then runs what was
  queued, in every iteration, so neither starves the other: strong fairness of
  `Poll` and of `RunFunctor`. Callbacks return; the server's loop runs its
  functors while it lives; a thread inside `shutdown()` or `send()` goes on. The
  peer reads what it was sent (an assumption about the peer, without which a
  full buffer stays full); it need not send, close or reset.
* *EventLoopThreadPool*: every thread goes on with what it can do. A
  worker's epoll_wait returns by itself only if its eventfd was written.
* *TcpServer*: weak fairness of each loop, which gets from its thread's start to
  `loop()`, and returns from epoll_wait only
  for a channel that is ready or its eventfd, of the server's thread inside
  the destructors, and of the writer that is about to open its file. Nobody is
  obliged to start or quit the server, to connect, to close or to log. A
  loop that has lost its quit() polls for ever and the join behind it never
  returns: `ClosedIsFreed` and `DestructorReturns` except that state by name
  (`QuitLost`), and EventLoopLostQuit shows it.
* *Logger*: the writer goes on, and so does a thread that is inside a macro.
  No spurious wakeup is relied on, the clock may stand still.

## Proofs

`EventLoopProofs`, `PollerProofs`, `TcpConnectionProofs`, `TcpServerProofs`,
`EventLoopThreadPoolProofs`, `BufferProofs` and `LoggerProofs` hold the theorems,
for every value of the constants that satisfies the named ASSUMEs of
the modules (`EventLoopAssumption` and so on: the owner is not one of the other
threads, a bound is a positive number, a pool has no loop twice, and the like).
Each follows one argument:
`Init => IInv`, every action preserves `IInv`, `IInv` implies the property.
`IInv` is defined beside the properties in the component's module, those of the
logger, the connection and the server in their proof modules. The type invariant
of each of these seven modules is proved (`TypeCorrect`); only the server's is
also checked by a run. Every invariant, action property and refinement of the
passing runs is stated by a theorem.

* **EventLoop.** `NoLostWakeup` speaks of the owner in epoll_wait only, and is
  not inductive: whether the owner may go to sleep is decided by what was true
  when it last ran functors. `IInv` says that wherever the *next* swap
  lies behind an epoll_wait (`PollComesFirst`) a queued functor has its wakeup,
  done or under way; it needs that `_callingPendingFunctors` and the local batch
  fit the owner's place (`PlacesFit`), because the owner decides by that flag
  whether to wake itself. `HandleRead`, which empties the eventfd, preserves it because a
  swap follows before the next epoll_wait. Theorems: `TypeCorrect`,
  `NoLostWakeupHolds`, `NoLostQuitHolds`, and `ImplementsTaskQueueHolds`, the
  refinement: a swap moves the queue into the empty batch and is a stutter,
  every push appends, every run takes the head.
* **Poller.** `IInv` joins `RegistrationExact`, `MapExact` and `NoCtlError`,
  which need each other (an epoll_ctl cannot fail because the index is right
  about the list; the index stays right because it cannot fail), with distinct
  fds and "a channel with index kDeleted wants no events". Theorems: type
  correctness and the five safety properties, for any channels and descriptors.
* **TcpConnection.** `StreamInOrder` is not inductive: what is appended to the
  buffer continues the stream only if nothing was dropped before. `StreamKept`
  says when something may be missing: the connection is broken, so that every
  later write fails too, and nothing is buffered; and `WritingFits` says that
  nothing will be, because EPOLLOUT is wanted only while something is buffered. The two
  hold each other up through `sendInLoop` and `handleWrite`. `EstablishedFirst`
  and `StateFits` order the life of the connection: connectEstablished is the
  first functor and runs once, whatever the server queues behind it, and _state
  follows the callbacks.
  `CallbackProtocol` needs a second invariant, `CallbacksFit`, under the
  hypothesis of the property that no other thread has the connection: what has
  been called fits the state, and once the connection is closed its channel is
  out of epoll and all that is left of the event in hand is error and write
  (`AfterEnd`), neither of which can call the user again. Without the hypothesis
  it is false: a late `send()` registers the channel again (TcpConnectionGiveUp),
  and TLC finds that the user may then be told a second time that it is down.
  `WriteCompleteIsTrue` and `HighWaterOnCrossing` compare how many functors of a kind
  are queued before and after a step. The lemmas split the actions into
  those that leave the output alone (`Silent`; other threads queue no callback
  themselves, `UsersAsk`) and the two that write, `sendInLoop` and `handleWrite`,
  of which `SendInLoopTells`, `SendInLoopLeaves` and `HandleWriteTells` say exactly
  what is queued and what is left to write. Proving it showed that
  `WriteCompleteIsTrue` needs no exception for a connection that was reset, and it
  is stated without one.
  Theorems: `TypeCorrect`, `StreamInOrderHolds`, `WritingIffBufferedHolds`,
  `DestroyedIsToldHolds`, `CallbackProtocolHolds` and, as action properties,
  `FlushedBeforeFinHolds`, `WriteCompleteIsTrueHolds` and
  `HighWaterOnCrossingHolds`, for any messages, sizes, other threads, water mark
  and room in the kernel.
* **TcpServer.** None of its properties is inductive: whether a connection may be
  freed depends on the map, on the queues, batches and vectors of two loops,
  on the threads that keep it, and on how far the destructor is. A connection is
  in one of five stages, `Building`, `Up`, `Closing`, `Finished` and `Revived`
  (`StageFits`), of which only the last has `revived`; in all but the first two it
  may be kDisconnecting as well as kDisconnected, because `shutdown()` overwrites the
  one with the other. The stage says what keeps a connection: the map until it is
  down (`KnownUntilDown`), after that the map or the queued `connectDestroyed`
  until it is out of the poller (`KeptUntilFinished`). A connection finished
  without the callback exists only once the server's loop has ended. Nothing is
  said of what keeps a revived one, as nothing does. `FunctorsFit` and
  `EstablishedFirst` put a connection's functors in the order of its stages, so
  that `connectDestroyed`, which `~TcpServer` may queue at once, never overtakes
  `connectEstablished`; a functor with a raw `this` is about a connection that a
  thread keeps, which is what the contract of `Drop` is worth. `UsersFit` says
  that no thread has a connection before it is established.
  `NamesFit` and `OlderAreDead` say that names are given out in turn and that
  whoever had this one before is freed; without them `NewConnection` could
  overwrite the entry that keeps a connection alive. `LoopsFit` says that what is
  in `_activeChannels` is registered, whatever ran since epoll_wait, and `ServerFits`
  that loops run between the start and the end of the server.
  Every action is one lemma that shows `IInv'` and, for the refinement, how
  the lives of all connections change in it (`AllAge`); `NextIsLife` maps that
  to a step of ConnectionLife or a stutter. Theorems: `TypeCorrect`,
  `NoDeadChannelIsActiveHolds`, `FreedIsUnregisteredHolds`,
  `ServerKnowsConnectionsHolds`, `NoCallerOfDeadServerHolds` and
  `ImplementsConnectionLifeHolds`, for any pools, threads of the user, limits of
  descriptors, names and peers. The proof rests on what the model assumes: the
  first bearer of a name is freed before the name comes back, threads keep to
  the contracts of `Drop` and `LoopExists`, and nothing is claimed of what
  follows a call of a dead channel (`ActiveExist`).
* **EventLoopThreadPool.** `TurnsTaken` gives the number of calls of each
  loop from `_next`, which makes `SharedOutEvenly` inductive;
  `StartedInOrder` gives what each worker may be doing from where the server's thread
  is; `EndsWhenTold` says that without a user's quit a loop ends only after a
  destructor's quit, so `~EventLoopThread` reads a non-null `_loop` and joins.
  Theorems: type correctness, `SharedOutEvenlyHolds`, `LoopsAreLiveHolds`,
  `NoUseAfterDestroyHolds`, for any number of threads and calls.
* **Buffer** (`BufferProofs`). `IInv` joins the order of the indices and the bound on
  the size with "the readable cells hold bytes that were put in", without which
  nothing follows about the order of what comes out. The lemmas go up the calls of
  the code, on a vector with two indices rather than on the state, because `readFd`
  appends to a vector that it has already written: `OverwriteAppends` (std::copy),
  `GrownKeeps`, `MovedKeeps`, `WritableMakesRoom`, `AppendToAppends`, then
  `append`, `readFd` in its two cases, and `retrieve`. Theorems: `TypeCorrect`,
  `SizeBoundedHolds`, `ImplementsByteQueueHolds`, for any sizes of the vector,
  of `extrabuf` and of the data, and any bytes.
* **Logger.** `IInv` says that a message is begun by a macro, is inside it,
  and is pushed, in this order and once (`CallsAreFresh`, `PushedBegan`),
  that `level_` is that of the last macro (`LevelIsLast`), and that the time
  in hand was read after the last line (`ClockOrder`). `TagIsNotStale` needs
  the first two together: the writer finds in `level_` the end of a history in
  which its message stands no later. Theorems: `TypeCorrect`,
  `NoLostNotifyHolds`, `TagIsNotStaleHolds`, `TimeIsAfterLineBeforeHolds`, and
  `ImplementsTaskQueueHolds`: a push is Submit, a pop a stutter, because the
  message in hand is still the oldest, and a line is RunOldest.

Only model-checked: liveness (`QueuedFunctorsRun`, `QuitStopsLoop`,
`PeerGoneIsNoticed`, `DownIsDestroyed`, `ShutdownSendsFin`, `StartReturns`,
`QuitThenJoined`, `ClosedIsFreed`, `PeersAreAccepted`, `DestructorReturns`,
`EveryCallIsWritten`), because fairness and ENABLED are out of the prover's reach,
and the three runs that find a violation. Induction over data and RECURSIVE
operators are out of its reach too, and no module that is proved about uses them.

## Where the code and its words disagree

| Run | Source | What happens |
|---|---|---|
| EventLoopLostQuit | `net/eventloop.cc:57` | `loop()` clears `_quit`; a `quit()` between the publication of the loop and `loop()` is forgotten, and `~EventLoopThread` joins for ever |
| EventLoopThreadPoolWakeup | `net/eventloop.cc:79` | after `quit()` has set `_quit` the loop may end and be destroyed before `quit()` writes to its eventfd |
| TcpConnectionGiveUp | `net/tcpconnection.cc:62` | `sendInLoop` logs that it gives up writing, and goes on: a late `send()` of another thread registers the closed channel again, even after `connectDestroyed` |

More that the models show and that no run is spent on:

* `net/channel.cc:53` says that a channel whose connection is gone does nothing,
  since its `_tie` cannot be locked, but the `_tie` is gone with the connection.
  `ActiveExist` of `TcpServer` is no invariant: a channel that a late `send()`
  registered again may be reported by epoll just before a thread drops the last
  pointer. `NoDeadChannelIsActive` says that this is the only way.
* When accept finds no descriptor the acceptor logs "sockfd reached limit"
  (`net/acceptor.cc:62`) and goes on, but the log's writer opens its file anew for
  every line and ends the process when it cannot (`LogOpens`, `base/logger.cc:37`).
* A connection in state kDisconnecting is destroyed with the server without the
  connection callback, and so is one whose loop `~TcpServer` quits before it has
  run `connectDestroyed` (the two ways to be "lost" in `ConnectionLife`; the first
  is the exception in `DestroyedIsTold` too), although `example/EchoServer.cc:29`
  says that the callback is made when a connection is closed.
* `shutdown()` does not lead to EPOLLHUP while the peer keeps its side open,
  although `example/EchoServer.cc:47` says so.
* A functor that the owner queues before `loop()` wakes nobody and waits for the
  first event or the timeout (`EarlyFunctors`, which `NoLostWakeup` excepts).
* `disableAll()` of a channel that is not registered registers it with an empty
  mask, as `~Acceptor` does for a server that never listened.

## Abstractions, and what is not modelled

* Each handler of a connection is one step for the other threads, as they share
  only `_state` and the queue with it. The loop of a connection is the FIFO of
  `TaskQueue`; events may fall between any two functors, which allows more than
  a batch does.
* Other threads keep a `TcpConnectionPtr` while they call, and until the functors
  of their calls have run. `send()` and `shutdown()` bind a raw `this`, and a user
  who drops the last pointer before the functor runs is outside the repository
  (the guard of `Drop`). The pointers of the library and of such threads are
  counted in `TcpServer`. A thread that is still inside a call when
  `~TcpServer` ends the loop it calls is not followed (`LoopExists`).
* In `TcpServer` a connection only comes up, is shut down, is registered again by a
  late `send()`, and goes down: its data and errors are in `TcpConnection`. What
  an ordinary `send()` does to the registration of a live channel makes no difference
  there, so `sendInLoop` need do nothing. `getNextLoop` and
  the pool's start and join are those of `EventLoopThreadPool`. `listen` and
  `bind` succeed.
* `Poller` assumes that a channel is removed before it is destroyed. A connection
  that was registered again and then freed breaks that contract: its entry stays
  in the poller's map. `FreedIsUnregistered` names these as its exception, and what
  the poller does with them is not modelled.
* In `Logger` the writer's `localtime` is used by no other thread (nothing in
  the library calls `Timestamp::toString`), and writing a line is one step.
* SIGPIPE is taken to be ignored, as a program that uses the library must
  arrange; EPOLLPRI is folded into EPOLLIN; Linux reports EPOLLIN with EPOLLHUP.
* `LOG_FATAL` only logs in this code, and so does every error branch modelled.
* Payloads are bytes named by message and place, names and addresses are left
  out; sizes are small numbers, as no size_t computation of the code can wrap
  while the order of the indices holds (`TypeCorrect` of `BufferProofs`).
* Not modelled: `DefaultPoller`, `InetAddress`, `Timestamp`, `CurrentThread`,
  `callbacks`, `noncopyable` (values, types and single system calls, without
  behaviour of their own), `bind` and the options of `Socket`, the build files and
  the binaries.

## Plan

In order; all nine are done.

1. `TaskQueue`, `EventLoop`, with the refinement, and `EventLoopProofs`.
2. `Poller`, `PollerProofs`.
3. `TcpConnection`.
4. `EventLoopThreadPool`, `EventLoopThreadPoolProofs`.
5. `ByteQueue`, `Buffer`, with the refinement, and `BufferProofs`.
6. `ConnectionLife`, `TcpServer` with the acceptor, the connections' lifetimes and
   the user's threads.
7. `Logger`, with the refinement of `TaskQueue`, and `LoggerProofs`.
8. `TcpConnectionProofs`.
9. `SequenceLemmas`, `TcpServerProofs`, and the callbacks of `TcpConnection`
   (`CallbackProtocol`, `WriteCompleteIsTrue`, `HighWaterOnCrossing`).

What is left: the contracts between modules (the loop of `TcpConnection` is a
`TaskQueue`, its channel is registered as in `Poller`) are argued in this file and
proved on each side, but not composed formally; and the hazards that
`PROJECT.json` lists without a property.

The number of runs stays small: a run is added for a new question only, and
questions about one module that the same instance answers share a run.
