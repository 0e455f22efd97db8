# A TLA+ model of the mymuduo network library

These modules model the reactor library in `MYMUDUO/`: one epoll loop per thread, TCP
connections spread over a pool of loops, callbacks handed from thread to thread. TLC
checks the models on small instances; TLAPS proves theorems about them for all values
of the constants. `PROJECT.json` lists the runs, the lines every definition stands
for, the hazards and the findings. Paths below are relative to `MYMUDUO/`.

## 1. The system

| component | state | operations | talks to |
|---|---|---|---|
| `EventLoop` | `looping_`, `quit_`, `callingPendingFunctors_`, `pendingFunctors_` under `mutex_`, `wakeupFd_`, `activeChannels_` | `loop`, `quit`, `runInLoop`, `queueInLoop`, `wakeup`, `handleRead`, `doPendingFunctors`, `updateChannel`, `removeChannel` | its `Poller`, its `Channel`s, any thread |
| `CurrentThread` | thread-local `t_cachedTid` | `tid`, `cacheTid` | `EventLoop::isInLoopThread` |
| `Poller`, `EPollPoller` | map `channels_`, list `events_`, the kernel's interest list | `poll`, `updateChannel`, `removeChannel`, `update` | epoll, `Channel::index_` |
| `Channel` | `events_`, `revents_`, `index_`, `tie_` | `enableReading` ... `disableAll`, `remove`, `tie`, `handleEvent` | `EventLoop`, the owner's callbacks |
| `Thread` | `std::thread`, `started_`, `joined_`, `tid_` | `start` (semaphore hand-shake), `join`, destructor | |
| `EventLoopThread` | `loop_` under `mutex_` and `cond_`, its `Thread` | `startLoop`, `threadFunc`, destructor | `EventLoop` on the new thread's stack |
| `EventLoopThreadPool` | `threads_`, `loops_`, `next_`, `numThreads_` | `setThreadNum`, `start`, `getNextLoop`, `getAllLoops`, destruction | `EventLoopThread` |
| `Buffer` | `buffer_`, `readerIndex_`, `writerIndex_` | `append`, `retrieve`, `retrieveAsString`, `readFd`, `writeFd` | the socket |
| `TcpConnection` | `state_`, `inputBuffer_`, `outputBuffer_`, `Channel`, `Socket` | `send`, `shutdown`, `connectEstablished`, `connectDestroyed`, `handleRead/Write/Close/Error` | its loop, the user's callbacks, `TcpServer` |
| `TcpServer` | `connections_`, `started_`, `nextConnId_`, pool, acceptor | `start`, `newConnection`, `removeConnection(InLoop)`, destructor | all of the above |
| `Acceptor` | `listenning_`, listening `Channel` | `listen`, `handleRead`, destructor | `TcpServer::newConnection` |
| `Logger` | singleton, `logLevel_` | `setLogLevel`, `log` | every component |

How they interact. A loop thread polls, calls `Channel::handleEvent` for what is active
and then drains the functors that were queued. The base thread runs the acceptor's loop;
for each connection it asks the pool for a loop, makes a `TcpConnection` and has that loop
run `connectEstablished`. `handleClose` in the loop thread has the base loop remove the
connection, which queues `connectDestroyed` back to the connection's loop.

Two facts about the code decide how much of this is really concurrent, and the models
follow the code:

- `CurrentThread.cpp:9` compares the address of the function `cacheTid` with 0, so
  `tid()` is 0 in every thread and `isInLoopThread()` is always true. `runInLoop` always
  runs its callback in the caller's thread: the base thread registers Channels with other
  threads' pollers, and loop threads erase from the base thread's map.
- `EventLoop.cpp:173` constructs an empty `Functor` instead of calling the queued one: a
  queued functor is destroyed without having run.

What is hard: unlocked state shared by two threads in between the steps of
`updateChannel`; wake-ups that may come early, late or not at all; pointers to Channels
held by the kernel and by `activeChannels_` while others destroy them; objects on one
thread's stack used by another; lost `quit()`s; memory that must not grow with the number
of bytes that pass. `PROJECT.json` lists each hazard with its line.

What makes each component correct:

- `EventLoop`: functors are handled in order and once; a written wake-up is not consumed
  before its functor is taken; every functor is let go of; `quit()` ends the loop.
- `Poller` and `Channel`: `epoll_ctl` never fails, the kernel agrees with the Channel,
  closed Channels stay silent, pointers are valid, closed connections are freed.
- `EventLoopThread`: what `startLoop()` returns runs until the destructor; semaphore,
  thread handle and object outlive their uses; start and destruction end.
- `EventLoopThreadPool`: even distribution, over loops that run.
- `Buffer`: a queue of bytes in memory bounded by its contents.
- `TcpConnection`: a stream of bytes with an end; output that waits is watched, nothing
  is written after the half-close, the user's callbacks come in order, the peer's end is
  noticed.
- `TcpServer`, `Acceptor`: the map owns exactly the connections that are up, no connection
  outlives its loop, `start()` listens, closed connections give their descriptors back.

## 2. The modules

| module | models | properties | proofs |
|---|---|---|---|
| `FunctorMailbox` | abstract: functors are posted, taken in batches and released in order | | |
| `EventLoop` | `EventLoop`, `CurrentThread` | implements `FunctorMailbox` and others | `EventLoop_proofs` |
| `InterestList` | abstract: what the loop's epoll reports of each Channel changes in one step | | |
| `Poller` | `EPollPoller`, `Channel`, the kernel's list, the lifetime of connections | implements `InterestList`, registry and pointers | `Poller_proofs` |
| `LoopLease` | abstract: a loop is lent by `startLoop()` and taken back by the destructor | | |
| `EventLoopThread` | `EventLoopThread`, `Thread` | implements `LoopLease`, hand-shake | `EventLoopThread_proofs` |
| `EventLoopThreadPool` | the pool, composed with `EventLoopThread` by `INSTANCE` | round robin, loops that run | `EventLoopThreadPool_proofs` |
| `ConnectionTable` | abstract: the one life of each connection, within its loop's | | |
| `TcpServer` | `TcpServer` and `Acceptor` over the pool, which it extends | implements `ConnectionTable`, the map, lifetimes | `TcpServer_proofs` |
| `ByteStream` | abstract: a stream of bytes with an end, which may break | | |
| `TcpConnection` | `TcpConnection`, `Channel::handleEventWithGuard`, the socket, the peer | implements `ByteStream` and others | `TcpConnection_proofs` |
| `ByteQueue` | abstract: a queue of bytes | | |
| `Buffer` | `Buffer` | implements `ByteQueue`, memory bound | `Buffer_proofs` |

`MC*` modules add the symmetry sets TLC uses; the other modules are checked as they stand. Variables and actions carry the names of
the code where it has one. A definition whose comment begins with "Mutant:" is a plausible
bug in the definition after it; putting it in its place must break a property.

### EventLoop

State: the members of `EventLoop`, the loop thread's place in `loop()` (`pc`), the call
every thread is inside of (`call`), the eventfd counter. Threads interleave at each access
to an atomic, each critical section of `mutex_` and each system call. The poll either
returns active channels or times out (`PollReturn`, `PollEmpty`); the eventfd is reported
as long as its counter is positive; `EventFdMax` stands for the counter's maximum, at which
`wakeup` fails. `quit()` may come at any time from any thread.

### Poller

State: `fd_`, `events_`, `index_` of each Channel, `channels_`, the kernel's interest list,
open descriptors, and the update or removal each thread is inside of (`doing`). There are
two threads, the one that runs the loop and the base thread, and they interleave at each
read and write of `events_`, `index_`, `channels_` and at each `epoll_ctl`. Descriptors are
reused as soon as they are closed. Connections run through `unborn`, `live`, `closed` (kept
by the queued functor), `dropped` (kept by nobody but a call in progress), `freed` (the
Channel has been destroyed) and `gone` (the descriptor is closed): `~TcpConnection` destroys
`channel_` (`Free`) before `socket_` (`CloseDescriptor`), and only the second takes the
pointer off the kernel's list. `NewConnection` is `newConnection` with `connectEstablished`;
`EnableWriting` is the end of `sendInLoop`; `DisableWriting` that of `handleWrite`;
`HandleClose` is `handleClose` with `removeConnection`; `DisableAndRemove` is `~EventLoop`
for the wake-up channel. `TakeConnection` is `~TcpServer` taking a connection out of its map,
also one whose loop is inside of `handleEvent` or `handleClose`; `TestState` is the test of
`state_` in the `connectDestroyed` that follows, with `disableAll` or without, and the steps
of updating and removing are its own. LOG_FATAL ends the process (`exited`).

Two constants say how the base thread uses connections that are established already:
`BaseSends` (user code calls `send()` from it) and `BaseTearsDown` (`~TcpServer` runs while
the loops do). With both FALSE the registry is correct although the base thread registers
Channels without a lock, which is what `poller_registry` and the proofs establish; either of
the two breaks it, tearing down as `poller_tear_down` shows. What holds whatever the base
thread does is checked with both TRUE: the types, the bound of the event list, and that what
the kernel lists under a descriptor is the Channel of its present owner, never of an earlier
one (`ListedIsOwner`). That Channel may be freed already, by one step.

`InterestList` says what the rest of the library may think of all this: a connection is
registered, watched for what it last asked for and taken off the list, each in one step;
a poll reports open connections only. `Poller` implements it with both constants FALSE,
through the state of the connections, the kernel's masks and the batch that was polled;
this is what entitles `TcpConnection` to update its mask in one step and `TcpServer` to
keep one bit for a registration.

### EventLoopThread

State: the call the owning thread is in, the worker's place in `threadFunc`, `loop_`,
`quit_`, whether `cond_` was notified, the `std::thread`. One thread owns all the objects
and is in one call at a time. `TestLoop` to `Wake` are the wait loop, with spurious
wake-ups; the mutex needs a variable only at the end of `threadFunc`, where it is held over
several steps. The loop itself is reduced to `quit_`: it returns, at the latest after the
time-out of its poll, when `quit_` is set. `Quitters` are the objects whose callbacks may
call `quit()` on the loop they run in; the semaphore and the thread handle are safe for
them too, the loop and the object are not, and the properties about those leave them out.
For the others `LoopLease` is the whole of it: the owner asks for a loop, which begins to
exist on another thread before it is lent, and which ends after it has been taken back and
before its object is gone, one call at a time.

### EventLoopThreadPool

The actions of `EventLoopThread` for `Threads == 1 .. MaxThreads`, driven by the pool's own
calls: `StartNext` begins the next `startLoop()`, `InStartLoop` carries it on and pushes
the returned loop, `DestroyNext` and `InDestructor` destroy the threads in order. `given`
counts the connections each loop has received. The number of threads can be set before and
after `start()`, as the public `setThreadNum` allows; in the composition with `TcpServer` only
before, since nobody reads what is set later.

### TcpServer

`TcpServer` extends `EventLoopThreadPool` and adds the members of the server: `started_`
(both values of the uninitialised member are initial states), the acceptor's `listenning_`,
the map, and for each connection its loop, whether anything has begun to close it (`connected`),
whether its Channel is added to the loop's poller (`registered`) or has been reported by it
(`active`), whether the loop's queue keeps it. `doing` says what each thread does to which
connection. So `newConnection` (`Accept`, `Insert`, `Establish`, `Announce`) in the base
thread interleaves with the iterations of the loop threads: `ServerPoll`, `HandleEvent`, which
locks `tie_`, then either `HandleReturn` or `handleClose`, in the steps `HandleClose` (the
state), `Disable` (`disableAll` and the callback), `Erase` and `Queue`
(`removeConnectionInLoop`), and at the end `Drain`, which destroys `connectDestroyed` without
calling it. A connection exists while the map, a queue or a thread has a pointer to it
(`Alive`). `MaxOpen` is the limit of descriptors, at which `accept` fails.

`TearDown` to `DestroyPool` are `~TcpServer` and the members after it, in the order they are
destroyed. For each connection `TakeOver` moves the pointer out of the map, `TestConnected`,
`Clear` and `RemoveLast` are the steps of `connectDestroyed`. Nothing in the code keeps a loop
that is inside of `handleEvent` out of this, and nothing does here: `handleClose` tests no
state, so it may close a connection again that `~TcpServer` has closed, `Disabled` may add its
Channel again (`updateChannel` on one that has been removed), and both may end in the user's
callback. The properties that speak of the map before `~TcpServer` say so. Descriptors, the
steps of an update and the kernel's pointers are `Poller`'s; a Channel is on the kernel's list
as long as it is registered and its connection exists.

`ConnectionTable` is what all of it amounts to for a connection: it is given one loop for
good, becomes `made`, `up`, `closing` and `gone`, each once and in this order (`~TcpServer`
skips `closing` for one the user has shut down), counts against `MaxOpen` until it is gone, and its loop does not end
before it. The phase of a connection in `TcpServer` (`Phase`) is put together from the map,
the queues and what the threads have in hand, so the last of the three to let go of it is
the step that releases it.

### TcpConnection

One connection, the thread of its loop and the base thread. `Init` chooses whether there is
a pool: with one, the base thread runs `connectEstablished` and the user's callback in it
while the loop may already poll; without one, one thread does everything and, when its loop
has returned, `connectDestroyed`. Threads interleave at each access to `state_`, each
operation of a `Buffer`, each system call and each update of the poller. `at` is the place
of a thread, `inside` the function that has called the user. The user calls `send()` and
`shutdown()` any number of times in any callback (`Send`, `Shutdown`), in the base thread
only if `ForeignUse` is TRUE. `todo` holds the callbacks that `handleEventWithGuard` still
has to make for one report.

The socket and the peer are external: `write` takes as many bytes as it has room for, or
none (EWOULDBLOCK and the other errors that keep the data); after a reset it fails once with
ECONNRESET, and from then on, as after `SHUT_WR`, with EPIPE, before which SIGPIPE ends the
process (`killed`). The peer reads, sends, finishes and resets. `unread` is a bit: what the
peer sends is handed to the user in one piece. Hang-up, error, input and output can be
reported together; a hang-up always comes with input here, because the Channel asks for
input whenever it is registered and epoll reports input after a FIN or a reset.

The refinement of `ByteStream` takes what is on the wire, in `outputBuffer_` and in the
unwritten rest of the message, with a due end behind it, for the stream (`Queue`); a
connection that is closed or reset is broken, and the stream is then what is on the wire.

### Buffer

The vector, both indices and every operation, with the constructor's size, the size of
`extrabuf`, and the lengths of the calls as parameters. Bytes are values; the vector is
filled with `Zero` when it grows. `peak` and `call` are history: the largest contents so
far and the last call, which the refinement of `ByteQueue` reads. Callers ask
`retrieveAsString` and `writeFd` for readable bytes only; `retrieve` takes any length.

## 3. The runs

| run | instance | shows |
|---|---|---|
| `loop` | 2 other threads, 2 functors, 1 IO channel, eventfd maximum 1 | order, wake-ups, implements `FunctorMailbox`; functors are released, `quit()` works once `loop()` runs |
| `loop_functors_called` | 1 other thread, 2 functors | violation: released functors were not called |
| `poller_registry` | 3 connections, 3 descriptors, list of 1 | the registry is right, implements `InterestList`; closed connections are freed |
| `poller_any_use` | 2 connections, 3 descriptors, `BaseSends`, `BaseTearsDown`, symmetry | the kernel's list keeps to the owners of its descriptors and the event list stays bounded under any use |
| `poller_tear_down` | 1 connection, `BaseTearsDown` | violation: the loop is about to call a freed Channel |
| `thread` | 3 objects, one of them in `Quitters` | implements `LoopLease`, lifetimes, no wake-up is lost; `startLoop()` returns, a running loop is quit and joined |
| `thread_destructor` | 1 object | violation: a `quit()` before `loop()` is lost and the destructor hangs |
| `server` | up to 2 threads, 3 connections, room for 2 | implements `ConnectionTable`, round robin, loops that run, the map, also while `~TcpServer` meets loops inside of `handleEvent`; `start()` listens, closed connections are released |
| `connection` | 3 bytes in messages of 1 or 2, room for 2, callbacks in the loop's thread | implements `ByteStream`, a half-close is last and not forgotten, callbacks in order; everything arrives, the end is noticed |
| `connection_foreign_send` | 2 bytes, room for 1, `ForeignUse` | violation: output waits and nothing watches |
| `connection_reset` | 2 bytes, room for 1 | violation: SIGPIPE ends the process |
| `buffer_queue` | 2 bytes, initial size up to 2, `extrabuf` of 2, calls of up to 3 bytes, contents up to 4 | implements `ByteQueue`, memory bound |

The runs that check liveness use no symmetry.

Why the bounds are enough. With two functors and three threads (the loop's own callbacks
post too) one functor can be queued before and one after a swap, with both other threads
between push and test, or one between test and write; an eventfd that is full after one
write makes the next one fail. Three connections and three descriptors (one of them the
eventfd's) mean that a third connection needs the descriptor of a closed one while the
second is live, and that a full list is doubled twice. The owner of `EventLoopThread`s is in
one call at a time, so objects hardly interact: three show the orders of starting and
destroying. In `server` a third client finds both descriptors taken and needs one to be
closed and released; with two threads the turn of the pool wraps, and two loops remove
connections while the base thread makes one or takes one from them; the number of threads may be 0, when the base
loop serves the connections itself. In `connection` a message of two bytes can be written in
full, in half or not at all, one byte can wait while another is sent behind it and the end
behind both, and the wire is full before all of it is written. In `buffer_queue` a `readFd`
can end in the vector or in `extrabuf`, the append that follows can move or grow, and the
contents can exceed the first growth. What the bounds leave open, the proofs close for the
safety properties.

Deadlock. Every module but `Buffer` has a last state (the loop is destroyed, the process has
exited or left the loop, every object is gone, the server is destroyed, the connection is
closed), so those runs have `CHECK_DEADLOCK FALSE`; that nothing hangs before is the
business of the liveness properties. A `Buffer` never stops, and its run checks for deadlock.

Fairness. `EventLoop`: the loop thread and threads inside a call run (the poll has a
time-out of ten seconds, so it returns even if nothing wakes it). `Poller`: threads inside
an update run, the loop goes on, the last reference to a connection is dropped and its
destructor goes on to the descriptor;
`HandleReturn` is strongly fair because a user's callback may send any number of times but
returns. `EventLoopThread`: both threads run and the init callback returns; spurious
wake-ups, starting, destroying and callbacks that quit are not relied on. `TcpServer`: calls,
destructors and workers go on, each thread as one: a loop's thread calls what its poll has
reported, one after the other, and then drains its queue, so weak fairness of the thread is
enough. A poll need not report anything. `TcpConnection`: both threads
run, callbacks return, and the peer goes on reading; it need not send, finish or reset, and
the user need not send or shut down. Nobody is assumed to tear down a server.

## 4. Findings

- Queued functors are never called (`loop_functors_called`, `EventLoop.cpp:173`).
- `isInLoopThread()` holds in every thread (`CurrentThread.cpp:9`; a theorem,
  `EveryThreadIsInLoop`), so nothing moves to the loop's thread. `send()` from another
  thread, even from `connectionCallback_` of a pooled connection, can leave output behind
  that nobody will ever write (`connection_foreign_send`).
- Writing on a connection the peer has reset ends the process (`connection_reset`).
- `~TcpServer` can free a Channel the loop is about to call (`poller_tear_down`).
- `~EventLoopThread` can hang (`thread_destructor`, `EventLoop.cpp:53`).

## 5. The proofs

All proofs are for any number of threads, functors, channels, connections, descriptors,
objects and bytes; the assumptions about constants are the named `ASSUME`s of each module.

- `EventLoop_proofs`. `EveryThreadIsInLoop` and `RunInLoopRunsInCaller` state the fact that
  decides who runs what; the other modules build on it. `Fifo` says that what
  was posted is what was released, followed by the batch in hand and the queue.
  `WakeCoversPending` and `NoShortWakeupRead` are not inductive: whether a wake-up is still
  in the eventfd depends on where the loop thread is between poll, read and swap, which the
  invariant spells out. With it the swap, read and drain steps map to steps of
  `FunctorMailbox` or stutter (`MailboxImplemented`).
- `Poller_proofs`. `Typing`, `EventListStaysBounded` and `ListedStaysOwned` hold
  unconditionally, the last by `HeldInv`: a thread's call and the callback in progress keep to
  connections that exist, so nobody registers a Channel after its descriptor is closed, and the
  kernel's list keeps to connections that hold their descriptor. It does not say that listed
  Channels are alive, which is false between `Free` and `CloseDescriptor`. The others
  assume `~BaseSends` and `~BaseTearsDown`, in the statement of each theorem: they are false
  otherwise. The inductive invariant `IndInv` says which thread owns which Channel: the base
  thread is always on its way to the ADD of a Channel the loop thread cannot know
  (`BaseInv`), the loop thread modifies live Channels, closes the one it handles, or removes
  the wake-up channel at the end (`LoopInv`), and for each phase which of `index_`,
  `events_` and the kernel's entry has been changed already (`LiveInv`, `LeavingInv`).
  Distinct descriptors (`FdInv`) keep updates of different Channels apart. `UpdatesAreAtomic`
  maps each step to one of `InterestList` or to a stutter: the one `epoll_ctl` of an update is
  the step, whatever was stored before it.
- `EventLoopThread_proofs`. `ObjectInv` relates thread handle, `loop_` and the two call
  paths, for every object. `LoopInv`, for the objects outside of `Quitters`, says that only
  the destructor ends a loop and that it waits for the worker's last step;
  `ReturnedLoopsRun`, `ObjectsOutliveWorkers` and `WakeupsAreKept` need it. `LoopsAreLent` is
  the refinement of `LoopLease`: the phase of a loan is read off the call the owner is in
  and `returned`, which `ObjectInv` ties to the thread handle.
- `EventLoopThreadPool_proofs`. The pool's steps are steps of `EventLoopThread` or leave
  it alone (`ThreadsImplemented`), so the theorems about `EventLoopThread` hold in the pool
  (`ThreadsProved`, `PoolLends`). `CallInv` says that the base thread is inside of the next thread's
  `startLoop()` and that `loops_` is 1, 2, ...; `TurnInv` that the loops before `next_`
  are exactly one connection ahead. `RoundRobin` and `PoolLoopsRun` follow.
- `TcpServer_proofs`. The server's steps are the pool's or leave the pool alone
  (`PoolImplemented`), so what is proved of the pool, and through it of each thread, holds
  in the server (`ServerRoundRobin`, `ServerLoopsRun`). `ServerInv` adds which thread has
  which connection in hand: `DoingInv` gives a new connection to the base thread alone, and
  lets a loop's thread handle its own connections only, inside of `loop()`, possibly one that
  `~TcpServer` has in hand too; `StageInv` says that the map is empty before the pool is
  destroyed; `LoopOfInv` that what a queue keeps belongs to a loop that exists; `ServingInv`
  that until `~TcpServer` only the map's connections are polled and reported. `MapAgreement`
  and `LoopsOutliveConnections` follow, the latter from the order of the members.
  `ConnectionsAreTabled` is the refinement of `ConnectionTable`; it needs that nothing is in
  the map and in a queue at once and what else the map keeps (`MapInv`), that a loop ends
  only after the map has been emptied (`StageInv`, `GivenLoopsRun`), and of the pool that a
  thread which was not started has no worker (`UnstartedThreads`). The step that releases a
  connection is found by cases on who holds it last: the base thread in `Announce` or
  `RemoveLast`, a loop's thread in `HandleReturn`, or a queue in `Drain`.
- `TcpConnection_proofs`. Every theorem assumes `~ForeignUse`: with it `PendingIsWatched`
  is false, which `connection_foreign_send` shows. The parts of `IndInv` say who is where: the base
  thread does `connectEstablished` and no more (`BaseInv`, `BeginInv`), in which state the
  user's calls are at work (`UseInv`), what is watched (`WatchInv`), that the user knows of
  the end exactly when there was one (`EndInv`), that one report calls for at most one
  callback that can end the connection (`TodoInv`), and that after the half-close nothing is
  left to write (`FinInv`). `DueEndsWait` follows from where `shutdown()` and `handleWrite`
  can stand when output is there or gone. `ConnectionIsStream` maps each step to `Send`, `End`, `Take`,
  `Break` or a stutter by lemmas about slices of sequences: a partial write moves a prefix
  from one part of the stream to the part before it.
- `Buffer_proofs`. Lemmas say what each operation does to the readable bytes, element by
  element: making room leaves them as they are (`RoomIsMade`), `append` and `readFd` put
  data behind them in one piece (`AppendedSeq`, `ReceivedSeq`), `retrieve` drops a prefix
  (`RetrievedSeq`). The vector grows only if the writable space and the retrieved space
  together are too small, so it stays below twice the contents after the call
  (`MemoryIsBounded`); `QueueImplemented` is the refinement of `ByteQueue`.

Some theorems state properties no run checks, because a refinement the run does check says
as much for its instance: `Fifo` (`ImplementsMailbox`), `ClosedStaysSilent` and
`PointersStayLive` (`ImplementsInterestList`), `ObjectsOutliveWorkers`
(`ImplementsLoopLease`), `LoopsOutliveConnections` (`ImplementsConnectionTable`, which says
that a connection's loop exists; the theorem adds that it runs while the connection is
registered).

Only model-checked: the liveness properties (`PostedIsReleased`, `QuitStopsLoop`,
`ClosedIsFreed`, `StartLoopReturns`, `QuitLoopIsJoined`, `StartListens`,
`ClosedIsReleased`, `EverythingArrives`, `EndIsNoticed`), because TLAPS does not reason
about fairness, and the violations. No module has a recursive operator.

## 6. What is not modelled

- Overlapping accesses that are undefined behaviour. Accesses to one word are single steps;
  `channels_` and `connections_` are sets and functions, not tree and hash table that two
  threads corrupt; an operation of a `Buffer` is a single step in `TcpConnection`.
- A freed Channel that is still used ends the behaviour, after the property that speaks of
  it has been checked (`NoCallbackAfterRemove`, in `Poller`); so does a quit of a loop that is
  gone. In `TcpServer` a reported Channel that has been freed is passed over, and a loop that
  erases from the destroyed `connections_` finds nothing.
- A second close of a connection, by a loop inside of `handleEvent` after `~TcpServer`, is in
  the models but no property forbids it. `TcpConnection` has no `~TcpServer` of a pooled
  connection and says nothing of what the user is told then; nor does it say when the user of
  a pooled connection hears of its beginning, which may be after its end. With `ForeignUse`
  a `shutdown()` can take `state_` back after `handleClose`, so `StatesOnlyAdvance` is checked
  and proved without.
- `~EventLoop` closing the wake-up descriptor, after its Channel has been removed.
- `~Acceptor` and the acceptor's Channel; turns of the loop in which `accept` fails.
- `Logger`: two threads can mix up level and message of a line of output; nothing else
  depends on it.
- `MUDUO_USE_POLL` (a null poller), failing constructors, out-of-memory, `EINTR`;
  `InetAddress`, `Timestamp`, socket options, names: wrappers and values.
- The received bytes in `inputBuffer_` (the `Buffer` itself is checked; how the user takes
  from it is the user's), and `writeCompleteCallback_` and `highWaterMarkCallbak_`, which are
  queued and therefore never called.

## 7. Plan

1. Proofs: the pool's start and destruction as an abstract specification of their own.
2. `TcpServer` over `Poller`: the registration bit replaced by the Channels of each loop.
3. The acceptor's Channel as a member of the base loop's `Poller`, with its destruction.

Under `ForeignUse` nothing of `TcpConnection`'s invariant survives but the part about
`connectEstablished` (`BeginInv`), and two uses of a `Buffer` that overlap are undefined, so
there is no weaker theorem to state about it.
