# ThreadReactorServer in TLA+

TLA+ models of the reactor in `src/Server.hpp` and of the time wheel demo in
`src/TestCode`, the TLC runs that check them on small instances, and TLAPS proofs of
their safety properties and refinements for every value of the constants.

The program is a single header: an epoll event loop per thread, a pool of such threads, a
timer wheel driven by a timerfd, a byte buffer, connections with callbacks, and a TCP
server that puts them together. `EchoServer.hpp` is its one user.

## The system

| component | lines | state | operations | uses / is used by |
|---|---|---|---|---|
| Buffer | 78-229 | vector of bytes, read index, write index | Write(Push), Read(Pop), ReadAsString(Pop), FindCRLF, GetLine(Pop), UpdateReadIndex, Clear | input and output of Connection |
| Socket | 233-496 | descriptor | wrappers of system calls | Acceptor, Connection |
| Channel | 502-589 | monitored events, ready events, five callbacks | Enable/Disable, Remove, HandleEvent | registers itself with Poller through EventLoop |
| Poller | 594-686 | epoll instance, map from descriptor to channel | UpdateChannel, RemoveChannel, Poll | EventLoop |
| TimerTask, TimerWheel | 691-858, 1528-1540 | ring of 60 lists of shared pointers, hand, map of weak pointers, timerfd | TimerAdd, TimerRefresh, TimerCancel, HasTimer, OnTimerTask | runs on its EventLoop; used by Connection and TCPServer |
| EventLoop | 861-986 | task pool, mutex, eventfd, thread id | Start, RunInLoop, QueueInLoop, RunAllTask | everything runs on it |
| LoopThread, LoopThreadPool | 989-1064 | published loop, mutex, condition variable; loops and next index | Create, GetLoop, ThreadEntry, NextLoop | TCPServer |
| Any | 1068-1125 | owned polymorphic value | construct, copy, destroy, get, and the compiler's assignment | context of a Connection |
| Connection | 1134-1373 | status, channel, two buffers, inactivity flag | Established, Send, Shutdown, Release, Enable/CancelInactiveRelease, Upgrade, HandleRead/Write/Close/Error/Event | TCPServer, EventLoop |
| Acceptor, TCPServer | 1377-1518 | listening channel; table of connections, next id | NewConnection, RemoveConnection, RunAfter, Start | EventLoop, LoopThreadPool |
| Time wheel demo | TestCode/TimeWheelDemo.cc | ring of lists, map, index | AddTimer, TimerRefresh, CancelTimer, RunOntimeTask | its `main` |

How they interact. One thread per `EventLoop` polls descriptors, calls the callbacks of
the ready channels, and then runs the functors other threads left in the pool. Everything
that touches a connection, the timer wheel or the connection table is meant to run on
that thread: a call on another thread is turned into a functor by `RunInLoop`, and the
eventfd gets the loop out of `epoll_wait`. Timers' functions run in the destructor of
their task, inside `list::clear`, and call back into the wheel and into connections.

What is hard about it: callers and loop interleave around the pool, the mutex and the
eventfd; functors queue functors; the wheel's operations are re-entrant; a timer's
life is decided by counting pointers; the loop's thread may be late; closing a connection
takes several queued steps, between which other calls arrive; the buffer's bytes move.
`PROJECT.json` lists the hazards, each at its line.

What makes each component correct:

- EventLoop: no functor waits in the pool of a sleeping loop; every functor runs once, in
  the order of the pushes; callers and functors never deadlock on the mutex; the eventfd
  does not make the loop spin.
- TimerWheel: a timer runs once, exactly its delay after it was added or last refreshed,
  unless canceled; the map of weak pointers agrees with the wheel; late ticks are made up.
- Socket: a descriptor is closed once, by its owner; nothing leaks when a call fails.
- Any: every held value has one owner; a copy does not change with its original.
- Buffer: bytes come out as they went in, indices stay inside the vector, lines are whole.
- LoopThreadPool: only constructed loops are handed out, in turn; `Create` returns.
- Channel, Poller: the map and the epoll instance agree; a registered descriptor is open and
  its owner's; a channel is dispatched only while it is registered.
- Connection, TCPServer: requests reach the message callback; output leaves in order; a
  connection that is shut down is closed and leaves the table; nothing runs on a deleted
  connection; a connection lives once: open, closing, closed, forgotten.

## Modules

| module | models | notes |
|---|---|---|
| `TaskQueue` | what an event loop promises: a FIFO executor | abstract |
| `EventLoop` | EventLoop 861-986, and Poll as the loop sees it | implements `TaskQueue` |
| `EventLoopProofs` | | TLAPS proofs about `EventLoop` |
| `TimerService` | what a timer wheel promises | abstract |
| `TimerWheel` | TimerWheel and TimerTask, 691-858 | implements `TimerService` |
| `RunAfter` | TCPServer::RunAfter, the inactivity release of connections (1220-1233, 1366-1369), and the public TimerAdd, TimerRefresh, TimerCancel | extends `TimerWheel` |
| `ByteQueue` | what a buffer promises: a stream of bytes | abstract |
| `Buffer` | Buffer 78-229 | implements `ByteQueue` |
| `LoopThreadPool` | LoopThread and LoopThreadPool, 989-1064 | |
| `ConnectionLife` | what a connection promises its user | abstract |
| `Connection` | Channel, Poller, Connection, Acceptor, TCPServer's table: 502-685, 1134-1373, 1377-1475 | on a FIFO executor, as `TaskQueue`; implements `ConnectionLife` |
| `Requests` | HandleRead, 1323-1334 | extends `Connection` |
| `Socket` | Socket, 233-496 | |
| `Any` | Any 1068-1125, the same class in TestCode/CustomAny.cc, and the context of a Connection | |
| `TimeWheelDemo` | Timer and TimeWheel of TestCode/TimeWheelDemo.cc, under its `main` | |
| `TimerWheelProofs`, `BufferProofs`, `LoopThreadPoolProofs`, `ConnectionProofs`, `SocketProofs`, `AnyProofs`, `TimeWheelDemoProofs` | | TLAPS proofs about the module each is named for |
| `MC...` | | instances for TLC |

**EventLoop.** `tasks`, `mutex`, `eventfd` are `_Tasks`, `_Mutex` and the counter behind
`_EventFd`. `pc[t]` says where thread `t` is inside `QueueInLoop`: waiting for the lock,
holding it (`push`), or between the end of the block and `WakeUpEventFd` (`wake`);
`cb[t]` is its argument. `phase` says where the loop's thread is: before `Start`
(`setup`), blocked in or returning from Poll, going through the ready channels
(`handle`), inside user code called by a channel (`callback`), going through the batch it
took from the pool (`run`), or inside a functor (`task`). The loop's own thread calls
`RunInLoop` and `QueueInLoop` only from `setup`, `callback` and `task`. Poll returns
any subset of the ready descriptors of the size the array allows, in any order, since the
order in which `Activities` is gone through is left open. `QueueInLoop` copies the functor
it is given; a member of `Task` is one call together with the copy it makes, so `Task` also
bounds how often the loop is called, and a caller may give the same functor again.

**TimerWheel.** One task per id is alive at a time, because callers test `HasTimer`
(line 1222) or draw a new id (line 1446); a list of shared pointers is then a sequence of
ids, and a task is alive as long as some slot has its id. `list::clear` is a sequence of
steps, one pointer each: the pointer is not the last (`DropShared`), it is the last one of
a canceled task (`DropCanceled`), or the task's function starts (`DropLast`). While it
runs (phase `task`), it may add, refresh and cancel timers; when it returns, the release
function erases the id (`TaskReturns`). `seconds` is the counter of the timerfd and
`times` what is left of the loop in `OnTimerTask`. While its function runs, a task is still
in the map though no pointer to it is left: `TimerCancelInLoop` tests for that,
`TimerRefreshInLoop` follows the null pointer (line 844) and the process crashes.
`RefreshFindsTask` says that this happens only to a function that refreshes its own timer.
The model calls the in-loop operations as their callers mean to (`AddNewTimer`); that the
public `TimerAdd` never gets there is the subject of `RunAfter`.

**RunAfter.** The callers of the wheel's public operations, over `TimerWheel`'s variables and
three of their own: the last id drawn (`nextID`), the ids that `RunAfter` drew (`accepted`)
and the connections with `_EnableInactiveRelease` (`enabled`). An id is drawn for every
task and every connection, so it never has a timer when `TimerAdd` looks for one, and
`TimerAdd` goes on only if it finds one.

**Buffer.** Exactly the vector and the two indices, positions counted from 0. `WriteAnd`
is a write with or without moving the write index; `ExpansionWriteSize` has the three
outcomes of the code (enough room, move to the front, resize). `op` and `moved` are history
variables, the last operation and the bytes it wrote or returned: `ByteQueue` promises by
them that a read returns the oldest bytes and removes those it returned or none, that
`GetLinePop` returns the first line and removes it with its end, and that a `Write` that is
not pushed changes nothing. `GetLine` is half of `GetLinePop`: it returns the line and
removes two bytes from its front, or from its end (lines 215-216). By itself it breaks the stream;
`ImplementsByteQueue` excepts its steps, and nothing in `src/` calls it but `GetLinePop`.
The readable size is computed modulo `Word`, as the code does modulo 2^64.

**LoopThreadPool.** `main` follows the creator through `Create` and `GetLoop`, `thread[i]`
each new thread through `ThreadEntry`. Waiting releases the mutex and sleeps in one step;
`Publish` stores and notifies under the mutex; `WakeSpuriously` is the wake-up the C++
standard allows. `recent` remembers the last results of `NextLoop`. The thread count is an
`int`; negative ones are left out.

**Connection.** `NewConnection` gives every connection to the base loop, so one loop is
modelled: `Poll` fills `active` (`Activities`) and the channels' `revents`, `Dispatch` is
`Channel::HandleEvent`, `TakeTasks`, `RunTask` and `EndIteration` are `RunAllTask`. The pool
is a queue with atomic pushes, which is what `EventLoop` is proved to implement. `Send` and
`Shutdown` by the loop's thread act at once, inside an event callback (phases `event` and
`established`, the latter inside `NewConnection`, before the table has the entry); by
another thread they go through the pool, where `Release` goes in any case. `channels` is the
Poller's map, `interest` what the kernel has; a call of `epoll_ctl` that the kernel refuses
sets `process` to `exited`. Readiness is left to the environment: any registered
descriptor may be writable if that was asked for, and in error or hung up in any case.
`accept` returns the lowest descriptor that is free, so descriptors come back at once.

`table` is `_Connections`: from ids to connections. A callback that calls `RunAfter` while a
connection is established draws an id, and `EstablishedReturns` then stores the connection
under that id: `RemoveConnectionInLoop` does not find it, and the entry stays for ever.
`ShutdownCloses` asks of such a connection that it is closed, and no more.

A caller of `Send`, `Shutdown` or `Release` needs a pointer and nothing else (`MayCall`):
nothing tells it whether the connection has been closed or deleted meanwhile, so such calls
occur at any time. Their functors bind the bare address of the connection. `lastSend` notes
how many Sends there were when a connection's socket was closed: a functor of a Send that
was called later may be behind the removal and run on a deleted object, and
`DeletedIsForgotten` says that nothing else does.

An object has two groups of owners, since `_Ptr(this)` in the constructor starts a second
count: the table, and the pointers of `shared_from_this`, which are in the functors of
`RemoveConnectionInLoop` and with the user (`kept`). The object is deleted when the table's
pointer goes and again when the last of the others goes (`DeleteAgain`). That second
deletion, and the use of a deleted object, are undefined: the process ends (`TouchFreed`), or
it goes on, and then every action works on what the object last contained.

`ConnectionLife` is what all this amounts to for the user: a connection opens, may be shut
down, is closed, is forgotten, each once, and it is shut down or closed only if its user
called Shutdown or Release. (Hang-ups and failing sends close a connection as well; but a
channel is registered with epoll only once output waits in it, and that is after Shutdown.)
What was taken goes out in order or is dropped when the connection is closed. Whether a
`Send` is taken is left open by `ConnectionLife`: a connection starts DISCONNECTED, nothing
makes it CONNECTED, and `SendInLoop` (line 1193) drops what is sent before Shutdown, though
`EchoServer.hpp` calls `Send` and then `Shutdown` (lines 11-13). That is a hazard on the
list, not something the specification approves of. The mapping reads the life off the
descriptor, the socket, the status, the deletions and the calls. `Requests` adds the
clients' data.

**Socket.** `fd` is `_fd`, `file` what the process has behind each descriptor. `loose` are the
descriptors that Accept returned and that no `Socket` was made of yet, as between
`Acceptor::HandleRead` and the constructor of `Connection`; `others` belong to other parts
of the process, which open and close theirs at any time. Every system call may fail, and
the operations that make several (`CreateServer`, `CreateClient`, `AcceptNonBlock`) may stop
after each of them. Calling `Create` on a Socket that has a descriptor overwrites it;
`recreated` remembers that, and `NothingLeaks` excepts it.

**Any.** `content` is `_content`, `heap` the Holders by address; addresses come back after a
deletion. `meant` and `assigned` are history variables: the value each object should have,
and whether the context's pointer was ever replaced. `Any` has a copy constructor and no
assignment operator, so `_Context = context` copies the pointer: after `SetContext` two
objects own one Holder, and after `Upgrade`, where the other owner is a copy inside a
functor, the context points to a Holder that has been deleted. Both properties say what
holds before; `EchoServer` never assigns a context. Asking for the data ends the process
when the type is wrong (the assertion), and when the object is empty (a null pointer, line
1122).

**TimeWheelDemo.** The demo's callbacks do not use the wheel, so clearing a slot is one
step. `Timer` objects are told apart from their ids, since an id may be added while it has
a timer: the map then leads to the new one, and the end of either erases the entry.
`twice` remembers that it happened. `asleep` tells which of `sleep(1)` and `RunOntimeTask`
comes next, and `age` counts the seconds since a timer was added or refreshed. Refreshing an
id that is not in the map fails the assertion (line 145) and aborts. `End` destroys the
wheel, at any time: its destructor cancels the timers that are left, then members are
destroyed in reverse order, so the map goes before the wheel, and the timers erase
themselves from a map that is gone, which is undefined. `EndsCleanly` says that this does
not happen when `HasTimer` is false for every id, the condition upon which `main` ends.

## Runs

| run | question | result |
|---|---|---|
| `loop` | two threads and the loop hand over three functors, two more descriptors become ready: no lost wake-up, mutual exclusion, the pool only grows during a batch, `TaskQueue` is implemented; every queued functor runs, `QueueInLoop` returns, the eventfd is consumed | holds |
| `wheel` | the map agrees with the wheel; `TimerService` is implemented, also with nested operations, a late loop and delays of a turn and more; a timer not refreshed for ever leaves the wheel; `OnTimerTask` returns; only a function that refreshes its own timer crashes the process | holds |
| `buffer_safety` | indices stay in order; `ByteQueue` is implemented, by every operation but `GetLine` alone | holds |
| `buffer_overread` | the readable size is there | violated: `ReadPop` advances although `Read` refused |
| `pool` | only constructed loops, in turn; `Create` returns | holds |
| `connection` | Poller and epoll agree, and nothing but late Sends is left that calls a deleted connection, for connections closed once; only registered channels are dispatched; every thread's data leaves in order; `ConnectionLife` is implemented and connections that are shut down get closed, however often they are closed | holds |
| `requests` | a request gets to the message callback | violated: nothing enables reading |
| `run_after` | a task given to `RunAfter` runs | violated: the test in `TimerAdd` is inverted |
| `demo_safety` | the map leads to live timers and hides none that was added once; when `HasTimer` is false for all ids, the wheel is destroyed without touching the destroyed map; every timer expires at its last refresh plus its timeout modulo a turn, or a second later | holds |
| `demo_on_time` | a task runs timeout seconds after it was added, as the comments of `main` say | violated: one second late when added before the sleep |
| `any` | every Holder has one owner and every object its value, until a context is assigned | holds |
| `socket` | nobody closes a descriptor that is not his; nothing leaks but what a repeated `Create` overwrites | holds |

`PROJECT.json` names a mutant for every property of the passing runs: a plausible bug in
one definition that makes exactly that run find the property violated.

### Bounds

- Event loop: two other threads are what it takes for two callers to meet at the mutex
  and for one to push while the other has pushed and not yet written the eventfd; three
  functors allow each of them one, and one that a functor queues or that runs on the spot.
  Two descriptors with an array of two (`MaxEvents`, 1024 in the code) let Poll return
  without the eventfd although it is ready.
- Wheel: three slots give delays shorter than a turn (1, 2), of a turn (3) and longer (4);
  two timers suffice for one to refresh, cancel or add another one that is ahead, behind
  or in the same slot; two pointers per slot (`MaxNodes`) give a task several pointers;
  two seconds (`MaxSeconds`) let the loop be late. `NestedDelay` excludes the multiples
  of a turn from timers' functions: they would push to the list being cleared. Delays of a
  turn and more count modulo the turn in `TimerService`, as in the wheel: it is what the
  code does, and nothing in the repository says what such a delay should mean.
- Buffer: from two bytes of storage to five in writes of at most two, every one of
  the outcomes of `ExpansionWriteSize` occurs at every alignment, and line ends of two
  bytes lie across every position. `Overread` is 0 (readers stay within the readable
  size) or 1.
- Pool: up to four threads. `nextIdx` needs no bound.
- Connection: two connections and two descriptors let a descriptor be accepted again while its
  former owner is still in the table, and let one connection's callback act on another one
  that is waiting in `Activities`. One byte per Send: what matters is whether the buffer is
  empty. Two calls of Send or RunAfter (`MaxCalls`, `MaxTimers`) give two threads' data on one
  connection, a partial write, and output that waits while something is sent. Two closings
  (`MaxClosings`) let two threads close one connection, or each of them one. The code does
  not survive a connection closed twice: without the condition `ClosedOnce`, TLC
  finds `PollerMatchesKernel` and `DeletedIsForgotten` violated. In the first case a Shutdown
  behind `ReleaseInLoop` sets the status back to DISCONNECTING and enables writing on the
  closed descriptor, and `epoll_ctl` fails (`exit(1)`, line 617); in the second it queues a
  Release behind `RemoveConnectionInLoop`. Nothing in the repository says how often they may
  be called, so these are hazards and not findings. Hang-ups and failing sends, which
  release a connection as well, are not counted: they meet every closing.
- Socket: three objects and four descriptors, so that descriptors are reused by another
  object or by others, and run out.
- Any: two objects and the context, and one address more than objects; two types and two data
  tell a wrong type from a wrong value.
- Demo: a wheel of three slots, timeouts 0, 1, 2, 4 (a turn and more) and 5 (rejected by
  `MaxTimeout`), three timers under two ids; `ExpiresWithinASecond` takes timeouts modulo the
  turn. `demo_on_time` has a wheel of
  four and no timeout of a turn, so that the wheel's size is not what it shows.

Deadlock is checked where the system runs for ever. It is not in `wheel`, `any` and
the demo's runs, where the process may crash or end, in `connection` and `requests`, where it may exit
and the calls are bounded, and in `run_after`, where seconds are.

Symmetry is used in `demo_safety` (timers and ids), `any` and `socket` (objects, addresses),
never in a run that checks liveness.

### Fairness

Threads are scheduled by the operating system: a thread that can take its next step takes
it (weak fairness of `LoopStep`, of each caller's `QueueStep`, and of `MainStep` and
`ThreadStep(i)` in the pool; of `LoopStep` in `Connection`, which includes the return of event
callbacks). This includes that user code called by the loop returns; code that does not
stops a reactor for good. Nobody is obliged to call the loop or to make a descriptor ready.
Poll may leave the eventfd out when its array is full, but not for ever: the kernel moves
the descriptors it reports to the end of its ready list (strong fairness of Poll returning
the eventfd). For timers, seconds elapse (`WF(Second)`). In the pool, spurious wake-ups
happen only finitely often; otherwise the waiter could take the mutex from the publishing
thread again and again.

## Proofs

Each `...Proofs` module extends the module it is about. It states an inductive invariant
`IInv`, proves that `Init` implies it and that every step keeps it (one step of the proof per
action), and derives the properties the runs check, under the names these have there. The
theorems hold for all values of the constants that satisfy the named assumptions of the
module. Bounds such as `MaxConn`, `MaxCalls` or `MaxSeconds` are arbitrary numbers there.
Every inductive invariant was first checked by TLC on the instance of its run.

**EventLoopProofs.** Any sets of threads, functors and descriptors and any array
length; the assumptions used are `LoopAssumption` and `FreeAssumption` (the loop's thread
and the free mutex are not among the others).

- `Invariance`: `Spec => []IInv` with `IInv == TypeOK /\ CallsAreDistinct /\ MutexOwner /\
  NoLostWakeup /\ BatchInRun`. `TypeOK` is not inductive alone: that `PushTask` pushes a
  functor needs `CallsAreDistinct`, which says which thread is inside which call. `NoLostWakeup` is stated in its inductive form: the
  consumed wake-up is tied to the phases in which the loop has not taken the pool yet.
- `TypeCorrect`, `NoWakeupIsLost`, `MutualExclusion` follow.
- `PoolGrows`: the action property `PoolOnlyGrowsInBatch`, by a lemma on prefixes.
- `Refinement`: `Spec => TQ!Spec` under `queue <- batch \o tasks`. A push is `Accept`
  (`PushBehindBatch`: pushing behind the pool is pushing behind batch and pool;
  `CallsAreDistinct` makes the functor leave `NotQueued`), starting a functor is `RunOldest`
  (`OldestIsInBatch`), `RunInLoop` on the loop's thread is `RunNow`, and taking the pool is
  a stutter because the batch is empty then (`BatchInRun`).

**TimerWheelProofs.** Any ids, delays and capacity, any lateness of the loop.

- `IInv` adds to `TypeOK` and `MapMatchesWheel` that no slot points to the task whose
  function is running (`FiringIsGone`; without it the map's agreement is not kept when the
  function returns or adds timers), that only living tasks are canceled (`CanceledExist`), that
  no pointer is farther from the hand than a refresh would put one (`WithinWait`), and that
  no rest of `OnTimerTask` is left between two calls (`LoopIsDone`).
- `MapAndWheelAgree`, `TypeCorrect`, `RefreshIsSafe` (from the map's agreement: an id in the map
  whose task is not alive is the one whose function runs), and `Refinement`: `Spec =>
  ImplementsTimerService`. The
  remaining time of the service is the distance of a task's farthest pointer. The lemmas are
  about that distance: a tick brings every slot one nearer, a push puts it at the delay modulo
  a turn (`Rest`, `RestIsUnique`), and dropping a pointer of the slot under the hand changes
  the farthest one only if it was the last.

**BufferProofs.** Any bytes, sizes and bounds. The theorems have the hypothesis
`Overread = 0`: readers ask for no more than is readable, as every caller in `src/` does. With
`Overread = 1` run `buffer_overread` shows that the conclusion is false, so the hypothesis is
needed.

- `IInv == TypeOK /\ IndexOrder /\ writeIndex <= MaxSize`. `IndexOrder` is not inductive
  alone: the readable size is computed modulo `Word` and is the number of unread bytes only
  while the indices are bounded.
- `IndicesStayInside`, `ReadableBytesExist`, `TypeCorrect`; `Refinement`: `Spec =>
  ImplementsByteQueue`, whose lemmas say what copying inside a vector does (`OverlayProperties`)
  that each outcome of `ExpansionWriteSize` keeps the unread bytes, and that `FindCRLF`
  finds the first line end of the stream, so that `GetLinePop` is `TakeLine`.

**LoopThreadPoolProofs.** Any number of threads.

- `IInv` follows both threads of the handshake: how far `Create` has come (`Phases`), which
  threads it has started (`Started`), that each publishes its own loop (`Published`), who owns
  the mutex (`MutexIsHeld`), and which loops the last calls of `NextLoop` returned
  (`DealtInTurn`).
- `LoopsExist` and `LoopsAreDealtInTurn`. `NotificationIsToCome`: while `Create` sleeps, the
  thread has still to publish and notify. This is the safety half of `CreateReturns`, which
  TLC checks with fairness.

**ConnectionProofs.** Any number of connections, descriptors, calls, closings and timers.
`IInv == Objects /\ Order /\ NotedInTurn /\ Lives /\ Closing /\ Descriptors` is built in layers, each
inductive relative to those before it:

- `Objects`: the types, ids drawn in turn, every functor and every kept pointer belongs to an
  accepted connection, the Poller's entry of a descriptor is the channel that has it, and what
  is in `Activities` is registered. The types say, among others, that no channel ever asks for
  reading, which is what run `requests` meets. It gives `TypeCorrect` and `DispatchIsSafe`:
  only the channel that is dispatched, or that the callback under way is about, can be removed
  during a round.
- `Order`: what is sent on a connection or waits in its output buffer, then the queue, is in
  the order of the calls, thread by thread. It gives `DataLeavesInOrder`. `NotedInTurn`: no
  `lastSend` is ahead of the calls.
- `Lives`: output waits in an open connection only while it is being closed, and
  `RemoveConnectionInLoop` waits for closed ones only. With the first clause of `Closing` it
  gives `Refinement`: `Spec => ImplementsConnectionLife`, also when connections are closed
  several times.
- `Closing`: for a connection closed at most once by its users, nothing closes it before they
  do, the Shutdown finds it open, a registered one is DISCONNECTING, and behind its first
  removal in the queue nothing is left of it but removals and Sends that were called after
  the socket was closed. It gives `DeletedIsGone`.
- `Descriptors`: open connections have different descriptors; a second `ReleaseInLoop` (the
  user's, or that of a hang-up in the same round) is in the batch of the first one, and the
  descriptor is not accepted again before that batch has run. If everybody closes once, epoll
  and the Poller's map agree. It gives `PollerAndKernelAgree`: `RemoveChannel` never removes the
  next owner's channel and `epoll_ctl` never fails.

The condition of the last two is stated per connection in `DeletedIsForgotten` and for all in
`PollerMatchesKernel`, because a failing `epoll_ctl` ends the process for everybody; see
Bounds for what happens without it.

**SocketProofs.** Any number of Sockets and descriptors. `IInv` adds to `HoldsItsOwn` and
`NothingLeaks` that descriptors outside of Sockets are open and held once (`HeldOutside`):
what the kernel gives out next is then held by nobody. `SocketsHoldTheirOwn`,
`NoDescriptorLeaks`.

**AnyProofs.** Any objects, addresses, types and data. `OwnedOnce` and `ActsAsValue` are
inductive together with the types: that assigning an empty context an empty object is what it
means needs the second, that nobody writes or deletes another's value the first.
`HoldersAreOwnedOnce`, `AnyIsAValue`.

**TimeWheelDemoProofs.** Any timers, ids, timeouts and wheel size. `MapMatchesWheel` compares
sets; inductive is that each timer is in the map under its own id (`MapIsExact`). `AgeIsRuns`
ties the age of a timer to the distance of the slot it was pushed to last, one off while `main`
is between `sleep` and `RunOntimeTask`. `MapAndWheelAgree`, and the action properties
`WheelEndsCleanly` and `ExpiryIsOnTime`.

Only model-checked:

- Liveness (`EveryTaskRuns`, `WakeupConsumed`, `ShutdownCloses`, `CreateReturns` and the like):
  the prover has no fairness and no ENABLED.
- The runs that expect a violation, and `RunAfter` and `Requests`, which consist of them.

## What is not modelled

- The constructor of `EventLoop`. Its members are constructed in the order of their
  declaration, so the `TimerWheel`'s constructor registers the timerfd with a `Poller`
  that does not exist yet (lines 864-869, 765). This is undefined behaviour before the
  first step; the models start from a constructed loop. `Acceptor` has the same problem
  with its socket (line 1405).
- Failing system calls that end the process (`abort`, `exit`), and `EINTR`.
- In `Connection`: the callbacks that `Upgrade` replaces, and user code inside the close
  callback. Input buffers are left out because nothing is ever
  read, timers because `TimerAdd` arms none.
- `EchoServer`: its callbacks are those of a connection's user, and `OnMessage`, the only one
  with effects, is never called (`requests`).
- Socket options, addresses and blocking modes: `Create` sets the reuse options before it
  has a descriptor (line 281), which is plain from the two lines.
- Logging, the SIGPIPE set-up, the Linux timer and regular expression demos: no logic of
  their own.
- In the wheel: the unused `AddTimer`, a timer's function that pushes to the slot being
  cleared, delays of 2^31 and more, and `TimerAdd` reading the map on another thread than the loop's.

## Plan

1. Done: `EventLoop` with its proofs, `TimerWheel`, `RunAfter`, `Buffer`,
   `LoopThreadPool`, `TimeWheelDemo`.
2. Done: `Connection` and `Requests`.
3. Done: `ConnectionLife` and the refinement by `Connection`, a second closing, `RunAfter` from
   a callback; the inactivity release in `RunAfter`; `Socket`, `Any`; the whole demo.
4. Done: proofs of the safety properties and the refinements of all modules with passing
   runs.
5. Next: stronger forms of the conditional properties of `Connection` (what still holds of a
   connection that is closed more than once); what survives a reader that asks for too much
   in `Buffer`; timers' functions that add a timer of a whole turn, which needs the steps of
   `list::clear` of a particular library.
