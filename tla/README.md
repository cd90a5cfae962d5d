# A TLA+ development of benet

benet is a reactor TCP library in C++: one event loop per thread, channels that
tie file descriptors to callbacks, a TCP server that deals connections out to io
loops, timers, and a growable buffer. This directory specifies its concurrent
and stateful parts in TLA+, checks them with TLC on small instances, and proves
the safety results about the event loop, its threads, the timers, the connection, the
server and the buffer with TLAPS.

Paths below are relative to the repository's root.

## The system and its parts

| part | source | state | operations | modelled by |
|---|---|---|---|---|
| `EventLoop` | `src/eventloop.cpp` | `running_`, `quitting_`, `pendings_` under a mutex, `calling_pendings_`, an eventfd, `active_channels_` | `Start`, `Stop`, `RunInLoop`, `QueueInLoop`, `set_wakeup`, `reset_wakeup` | `EventLoop` |
| `EPoller` | `src/poller.cpp` | `events_` (grows when full), `channels_`, the kernel's epoll set | `Poll`, `UpdateChannel`, `RemoveChannel` | `EventLoop`, `Channel` |
| `Channel` | `src/channel.cpp` | events of interest, `revents_`, `added_in_loop_`, the tie | `Enable*`, `Disable*`, `HandleEvent`, `RemoveFromLoop` | `Channel`, `TcpConnection` |
| `EventLoopThread` | `src/eventloop_thread.cpp` | `loop_` under a mutex and condition, the thread | `Start`, the entry function, the destructor | `EventLoopThreadPool` |
| `EventLoopThreadPool` | `src/eventloop_threadpool.cpp` | the threads and loops, a static next index | `Start`, `GetNextLoop`, the destructor | `EventLoopThreadPool`, `TcpServer` |
| `TcpConnection` | `src/tcp_connection.cpp` | atomic `state_`, `reading_`, `output_buffer_`, the socket | `Send`, `Shutdown`, `ForceClose(Delay)`, `StartRead`, `StopRead`, the handlers | `TcpConnection` |
| `TcpServer` | `src/tcp_server.cpp` | the map of connections, the acceptor, the pool, a static id | `Start`, `new_connection`, `remove_connection`, the destructor | `TcpServer`; one connection with its data in `TcpConnection` |
| `Acceptor` | `src/acceptor.cpp` | the listening channel, the idle descriptor | `Listen`, the accept handler, `close_excessfd_with_idlefd`, the destructor | `TcpServer` |
| `Socket`, socket operations | `src/socket.cpp`, `src/socket_ops.cpp` | a descriptor | accept, bind and listen with their errors; read, send, shutdown, close | partly: `TcpServer`, `TcpConnection` |
| `Buffer` | `include/benet/buffer.h` | a vector, a read and a write index | `Append`, `Prepend`, `ReadFd`, `Retrieve*`, integers, searches, growth | `Buffer`, `IntCodec` |
| `TimerQueue`, `Timer` | `src/timer_queue.cpp`, `src/timer.cpp` | `timers_`, `canceling_timers_`, a timerfd | `AddTimer`, `CancelTimer`, the expiry handler, `Restart` | `TimerQueue` (without the destructor) |
| `InetAddress`, `Logger`, types | the rest | none of interest | conversions, output | not modelled |

How they interact. A user's callbacks run on a loop's thread. Everything another
thread wants of a connection or of the timers is a functor pushed into the
loop's `pendings_`; the loop is woken through the eventfd. A pool starts its
threads one by one, waits until each has published its loop, and deals connections
out to the loops in turn. A connection belongs to an io loop. When it closes, it
tells its server's base loop, which takes it out of the map and hands
`ConnectionDestroyed` back to the io loop; the `shared_ptr`s captured by functors, by
user code and by `HandleEvent`'s guard decide how long the object lives. Output that
the kernel does not take waits in `output_buffer_` for the write event.

What is hard, and what each part owes:

* **Event loop.** Pushes and stops come at any point of the loop's cycle, and
  whether a wakeup is written is decided from a flag read after the push. Owed: no
  functor lost, repeated or overtaken; no sleep on work or on a stop.
* **Threads.** The owner, the thread and anybody with the pointer race over a loop
  that lives on the thread's stack, and the destructor tests `loop_` without the
  mutex. Owed: `Start` returns a live loop, the destructor's stop reaches it, the join
  ends; a stop that is done with the loop before the thread destroys it.
* **Poller and channel.** The channel's flags, the poller's map and the kernel's
  set are three records of one registration. Owed: they agree, so that `epoll_ctl`
  never fails and nothing closed stays registered.
* **Connection.** Threads, handlers and a base loop change one state machine;
  readiness is stale by the time it is handled. Owed: an intact byte stream, the
  FIN behind the output, one UP and one DOWN callback, orderly destruction, and
  the progress of each.
* **Server and acceptor.** A connection's end travels through two loops while either
  may stop and the destructor may run; the process runs out of descriptors. Owed: a
  registered channel belongs to a live connection, functors find the state they
  assert, every peer is served or turned away, everything is released.
* **Buffer.** Index arithmetic and three ways of making room. Owed: a byte queue.
* **Timers.** A wall clock orders them and a monotonic timerfd triggers them;
  callbacks add and cancel timers while the handler holds the expired ones. Owed:
  the timerfd is armed while a timer waits, a cancelled timer stays out.

The list of hazards with the lines where they bite, and the property that watches
each, is `hazards` in `PROJECT.json`.

## The modules

| module | what it is |
|---|---|
| `EventLoop` | the loop thread step by step, any number of calling threads, the eventfd |
| `LoopExecutor` | what the loop promises: a FIFO executor |
| `EventLoopThreadPool` | a pool's threads from `Start` to the join, with other code that stops loops |
| `ConnectionLife` | what a connection promises its user and its server; `TcpConnection` and every connection of `TcpServer` implement it |
| `Channel` | operators on one channel's registration, with the poller and epoll |
| `TcpConnection` | one connection with its loop, callers, base loop, socket and peer; extends `Channel` |
| `TcpServer` | servers with their acceptors, all their connections and loops, and the descriptor limit |
| `Buffer`, `ByteQueue` | the buffer byte by byte, and the queue it implements |
| `IntCodec` | the big-endian integers both use |
| `TimerQueue` | the timers, the timerfd, both clocks |
| `EventLoopProofs`, `EventLoopThreadPoolProofs`, `BufferProofs`, `TimerQueueProofs` | theorems about the module of that name |
| `TcpConnectionHandlers`, `TcpConnectionProofs` | theorems about `TcpConnection`: what each handler does, then each step and the results |
| `TcpServerProofs`, `TcpServerCounts` | theorems about `TcpServer`: types, names, phases and the life of the connections, then what counts descriptors and turns |
| `MC*` | instances for TLC where constants need definitions |

**EventLoop.** `pc` follows `Start`: `init`, `while` (the test of `quitting_`),
`poll`, `events` (the active channels), `callback`, `calling`, `functor`, `done`.
User code on the loop thread may call `QueueInLoop`, `RunInLoop` and `Stop` while
`pc` is `init`, `callback` or `functor`. On another thread each of `QueueInLoop`
and `Stop` is two steps, the shared access and then `CallerWake`. The push is
under the mutex, hence one step; so is the swap. The eventfd saturates at
`EventfdMax`: a write at the limit fails and leaves it readable. `PollReady`
returns at most `events_size` ready descriptors, any that fit, and grows the
vector by half when it was full. `queued`, `ran`, `inlined` and `early` are histories.
`NDEBUG` selects whether the asserts are compiled in.

**EventLoopThreadPool.** `owner[t]` is how far the owner is with the `Start` and the
destructor of thread `t`, `pc[t]` how far the thread's entry function is: the loop is
constructed, `init_callback_` runs, `loop_` is published, `EventLoop::Start` is entered
and returns, `loop_` is cleared, the loop is destroyed. The pool starts the threads one
after the other and destroys them in the same order. The wait in `Start` has a
timeout and a loop around it, so it needs no notification. `EventLoop::Stop` is two
steps, as in `EventLoop`: the store of `quitting_` (`StopStores`, which also reads `loop_`
a second time and may find it null) and the use of `thread_id_` and `wakeup_fd_`
(`StopWakes`); the thread may leave its entry function in between. `OtherStop` is any code
that has the pointer, on a foreign thread in the same two steps. A use of a destroyed loop,
or of a null pointer, is recorded in `dead`; it is undefined behaviour, and although the
model goes on as if nothing had happened, nothing is claimed of that thread afterwards.
What the loop does between start and stop is `EventLoop`'s
subject; here it runs until told to quit.

**Channel.** A record of the interest set, `added_in_loop_`, the poller's map and
the kernel's registration. `UpdateChannel` chooses ADD, MOD or DEL as `EPoller`
does, and each epoll operation records a failure when the kernel would refuse it.
`added_in_loop_` has no initializer, so a new channel has either value.

**TcpConnection.** A handler runs to completion on the loop thread and shares only
`state_` and the queue with other threads, so it is one step; a method on another
thread is two, its access to `state_` and its push. The loop's cycle is that of
`EventLoop`, and its queue the FIFO `LoopExecutor` promises. User calls on the
loop thread may come between any two steps of the loop. `Referenced` collects
the owners of the object. `conn.in_base_loop` tells a server without io threads
from one with them. The kernel is modelled by how the code uses it: inbound
segments, FIN and reset of the peer, a send buffer of `SndBuf` bytes that drains
at any time. One restriction of the clients is assumed: on the loop thread, `StartRead`
and `StopRead` are called on a connection that is still connected. Called by
another thread they are unrestricted, and `off_reads` remembers that it happened: a functor
queued by `StartRead` or `StopRead` owns nothing, so `AssertsHold` and `AliveWhenUsed` are
stated for connections on which no other thread called them (`ReadsOnLoop`).

**ConnectionLife.** Four variables: the state, the number of calls of
`on_connection_`, whether the server's map has the connection (or is to have it), and
whether the server is serving, that is, not being destroyed. A connection is
established once, at most shut down, closed once; the callback is called at the
establishment and at the close; the server forgets a connection only when it is closed,
or while the server is being destroyed. It is the contract between the two modules that
have connections: `TcpConnection` implements it with all the threads, handlers and bytes
of one connection in a running server, `TcpServer` with all the connections, loops and
the destructor of a server.

**TcpServer.** Each server has a thread for its base loop, which bears the server's
name, and up to `Len(IoLoops[s])` io loops. Of a connection only what the server
deals with is kept: its loop, name, state, whether its channel is in the poller,
and how often the user's callback was called. Loops call functors in the order of
their queues (`LoopExecutor`); a loop that stops leaves the rest uncalled, and they
are dropped when it is destroyed. The accept handler is followed step by step
where another thread can come in between: the two function-local statics are
loaded in one step and stored in the next, and `close_excessfd_with_idlefd` closes
the idle descriptor, accepts, closes and reopens in four. `FdMax` is the room for
idle descriptors, connections and other code of the process, which opens and closes
descriptors at any time. Errors of `accept4`, `bind` and `listen` that the code treats as
fatal end the process (`exited`). The destructor runs after the base loop has returned:
one connection per step, then the pool's threads, then the acceptor.
Three simplifications: a functor's reference is dropped when it has been called (in
the code, when its batch ends, on the same thread and before the next poll);
references kept by user code are left out here (`TcpConnection` has them in `held`);
and the base loop is destroyed together with its server. The 64-bit counters of
`GetNextLoop` and `new_connection` are natural numbers: they would wrap around after 2^64
connections.

**Buffer.** The vector's bytes with both indices; `make_space`, `readv`'s scatter
and `copy_backward` are modelled by the bytes they move. Integers are written
through `IntCodec` and read back with their sign (`Power[n]`, the number of values of n
bytes, is a recursive function because the provers know nothing of `^`); `FindCRLF` and `FindEOL` are the
first position in the content that matches, or none. Sizes are bounded by `SizeMax` in
the guards. **ByteQueue** knows only the content.

**TimerQueue.** Time is in ticks. `timerfd` is the time left, 0 when readable, `OFF`
when disarmed. `Tick` advances both clocks, `StepClock` sets the wall clock alone.
Pointers order entries that have the same time, so timers are numbers. The expiry
handler is `HandleExpired`, one `RunTimer` per timer with user calls in between,
and `FinishExpired`. A timer cancelled by an earlier callback of the same batch still
runs, as in the code; only its restart is prevented.

## Model checking

A run is `tlc -config <cfg> <module>`.

| run | configuration, module | checks |
|---|---|---|
| `loop` | `EventLoop.cfg`, `EventLoop` | `QueueOrder`, `NoLostWakeup`, `NoLostStop`; `QueuedRuns`, `StopStops`; the refinement of the executor, `ExecutorSafe` and `ExecutorLive` |
| `threads` | `EventLoopThreadPool.cfg`, `EventLoopThreadPool` | `LoopOutlivesOwner`; `StartCompletes`, `DestructorCompletes` |
| `conn` | `TcpConnection.cfg`, `MCTcpConnection` | `ChannelConsistent`, `StreamIntegrity`, `SendsKept`, `WriteEventIffOutput`, `ShutdownAfterOutput`, `CallbackProtocol`, `AssertsHold`, `AliveWhenUsed`; the refinement `ImplementsLife`; `ShutdownCompletes`, `OutputFlushed`, `PeerCloseNoticed`, `ClosedIsDestroyed` |
| `server` | `TcpServer.cfg`, `MCTcpServer` | `RegisteredIsHeld`, `DestroyedAtEnd`, `FunctorsMatchState`, `RoundRobin`, `IdleSurvivesFull`; the refinement `ConnectionsLive`; `PeersServed`, `ClosedReleased`, `DestructorEnds` |
| `buffer` | `Buffer.cfg`, `MCBuffer` | `IndexOrder`, `LinesWhole`, `IntRoundTrip`; the refinement `ImplementsQueue` |
| `timers` | `TimerQueue.cfg`, `TimerQueue` | `ArmedForEarliest`, `KeysMatch`, `CancelledStaysOut`; `EveryTimerEnds` |

Each property is stated in words above its definition. The type invariants are proved
and not listed with the runs; the one of the buffer (its indices) is both.

Bounds, and why they are enough to meet the hard cases:

* Event loop: two calling threads and the loop thread, so that a push meets both
  another push and the swap; two functors, so that one can be called while the other
  is queued; an eventfd that saturates at 2; an event vector of 2 for three
  descriptors, so that the wakeup is left out of a round.
* Threads: three, so that the owner is between two threads when a third stops.
* Connection: a send buffer of one byte against messages of up to two bytes, so
  that full, partial and refused writes all occur; two threads and two calls of any
  methods, on them or on the loop thread, so that each pair of methods races with each
  other and with a close; io and base loop both the same and different. The message
  lengths are in `MCTcpConnection`.
* Server: zero, one or two io threads, three peers and three descriptors of which the
  idle one and one of other code take their share, so that the limit is reached with
  and without the slot being taken in between. `server_names` has two servers.
* Buffer: bytes of two values, strings of one and three bytes, integers of one and two
  bytes with all their values, a vector of at most five bytes that starts with three, a
  prepend gap of one and an extra read buffer of two: every branch of `make_space` and of
  `readv` occurs at its boundary. The code's widths of 2, 4 and 8 bytes of 256
  values differ in `Widths` and `Radix` only.
* Timers: two timers, once and repeating, due in the past (the epoch included) and far
  enough ahead that an earlier one must arm the timerfd again, one step of the clock to
  any time. `timers_assert` also has an interval below the clock's resolution (0).
  `MaxNow` saturates the wall clock; a timer due then is not reached, which
  `EveryTimerEnds` leaves out.

Symmetry is not used: the instances with interchangeable threads or messages also check
liveness, for which TLC's symmetry reduction is not sound.

Deadlock is not checked for the threads and the server: a pool that has been joined,
a server that is gone and a process that has exited are at their end.

Fairness. Loop threads keep running and user callbacks return (weak fairness of the
loop's step); a thread between its push and its write of the eventfd goes on. These are
assumptions about the scheduler and about callbacks that do not block. The poll timeout
is not assumed: it is an explicit premise of `ExecutorLive`, the one result that needs it,
because `QueueInLoop` writes no wakeup for a functor the loop thread queues before
`Start`. An owner that is inside `EventLoopThread`'s `Start` or destructor, both steps of its
stop included, goes on with it, and so does a `~TcpServer` that has begun. For a connection the kernel drains its
send buffer unless the peer has reset it, and the base loop serves its queue. In the
server the fairness of functors is strong: accept events come in between, but every
round of `EventLoop::Start` calls the functors. For the timers time passes. Nothing is
assumed of users: no call is ever required to happen.

### Disagreements between the code and what it says of itself

Six runs are expected to end in a counterexample; five check an assertion of the
source, `thread_destroyed` a comment.

* `thread_start_assert`: `EventLoop::Start` asserts that `quitting_` is false. The
  thread publishes its loop before it calls `Start`, so an `EventLoopThread` that is
  destroyed right after its own `Start` stops the loop first. A debug build aborts, a
  release build returns at once.
* `thread_destroyed`: the comment in `~EventLoopThread` sees "still a tiny chance to call
  destructed object, if threadFunc exits just now". `NoUseAfterExit` states that reading:
  the destructor uses a destroyed loop only if somebody else had stopped it. It does not
  hold: `EventLoop::Stop` stores `quitting_` before it reads `thread_id_` and writes to
  `wakeup_fd_`, so the destructor's own store may let the thread return from
  `EventLoop::Start`, clear `loop_` and destroy the loop while `Stop` still needs it. The run
  has one thread and no other code that stops the loop.
* `conn_start_read`: a `StartRead` from another thread that is executed between the
  close and `ConnectionDestroyed` enables the channel again, and `RemoveFromLoop`
  asserts that it is disabled.
* `server_names`: `remove_connection` asserts that it erased one entry. The id in a
  connection's name is a function-local static that the threads of two servers
  increment without synchronisation; when an increment is lost, a server gives
  two of its connections the same name.
* `server_shutdown`: `~Channel` asserts that it was removed from its loop. A connection
  that is closed just before its loop returns has left the map, so `~TcpServer` does not
  see it, and its queued `ConnectionDestroyed` is never called.
* `timers_assert`: `lower_bound({now, nullptr})` does not pass over a timer that expires
  exactly at `now`, and the assertion behind it says that it does.

The static index of `GetNextLoop` is shared in the same way: two servers in one process
take turns out of each other's index, and a pool of two loops may give all of its
connections to one of them. Nothing in the source promises otherwise; `RoundRobin` is
stated for a server that is alone in its process, and for that one only.

## Proofs

`tlapm <module>` checks the theorems of a module for every value of the constants that
satisfies the named assumptions of the module it is about.

**EventLoopProofs.** `TypeCorrect` is inductive as it stands; `OrderCorrect` and
`WakeupCorrect` need `Phases`: a batch is held, and `calling_pendings_` set, exactly in
the stretch in which functors are called. The order rests on the first when the loop
swaps, the wakeups on the second, because the loop thread's decision not to write a
wakeup rests on that flag; and `NoLostWakeup` is itself stated from the swap on, not only
for the poll, since the wakeup must already be on its way when the batch ends.
`WakeupCorrect` and `StopCorrect` follow. `LoopImplementsExecutor` maps
`tmp_pendings \o pendings` to the executor's queue; `QueueOrder` and the type
invariant make each step of the loop a step of the executor or a stutter.

**EventLoopThreadPoolProofs.** `ThreadInv` ties owner and thread together: `Start` has
returned only when the loop is published, `loop_` is set from there until the loop has
returned, a loop returns only when told to, and whoever told it is the destructor or
other code. A step touches one thread (`StepFrame`), so the invariant goes through
thread by thread, for any number of them. `LoopLives` follows: as long as nobody else stops
the loop, it is there when the destructor tests `loop_` and until its `Stop` has stored
`quitting_`. What comes after that store is the subject of `thread_destroyed`.

**BufferProofs.** The inductive invariant `IInv` says that the indices are in order
within the vector, and that the vector is never shorter than the prepend gap. Lemmas
state what `CopyTo`, `Resize`, `make_space` and each operation do to the content;
`EnsureKeeps` (making room keeps the content and makes enough) carries the argument.
`IndexCorrect`, `MoveCorrect` (the copy in `make_space` moves towards the front, so that
`std::copy` may be used on overlapping ranges) and `BufferImplementsQueue` follow, for
any strings, integers and widths. `LinesCorrect` (`RetrieveUntil` with what `FindCRLF`
returned keeps its asserts and takes whole lines) follows from the order of the indices.

`IntCorrect` says that an integer of any width, negative ones included, that is written in
front of the content or into an empty buffer is what `PeekInt` reads. The codec is recursive, and the library's
induction theorems are out of reach, so the argument is by the least counterexample
(`NatMin`, from the well-foundedness of `<`). `PowersExist` and `PowerIs` show that the
recursive definition of `Power` has a solution and is what its equation says.
`EncodeDecode` then compares what `Decode` has after i bytes with the integer divided by
the power of the bytes still to come, less its part above the width; they agree because
dividing by a power and then by the radix is dividing by the next power (`DivideTwice`,
with floor division, as the integer may be negative), and the sign comes back at the end.

**TimerQueueProofs.** `KeysMatch` and `CancelledStaysOut` are inductive together with
`KeyInv`: the functor of an `AddTimer` is the only one for its timer and comes before
its insertion, what is in the set was inserted, and timers are held outside the
set only inside the handler. `ArmedForEarliest` needs the least element of a set of
entries (`LeastIsLeast`, by well-ordering) and that the timerfd covers not only the
earliest entry but all of them (`ArmedForAll`), since a cancellation changes which one is
first. `ZeroInv` is the special case of a timer at `InvalidTimePoint`, for which the
handler does not arm.

**TcpConnectionHandlers and TcpConnectionProofs.** The theorems hold for any threads,
messages, lengths, send buffer, high water mark and any calls of user code. The invariant
`IInv` has the types, `FlowInv`, `LifeInv` and `CallbackProtocol`. `FlowInv` is
`StreamIntegrity`, `WriteEventIffOutput`, `ShutdownAfterOutput` and `ChannelConsistent`
together, because each handler keeps one by means of another: `handle_write` drains the
buffer only because the write event means that there is output, and shuts down behind it
only because the two change in the same step; a direct send is in order only because no
write event means an empty buffer. `LifeInv` says that `ConnectionEstablished` is queued
once and that nobody knows the connection before it has run, which is what makes `ups`
and the state `Connecting` go together, and that `ConnectionDestroyed` is queued only
when the server has let go. The handlers are treated once, in `TcpConnectionHandlers`,
whether the loop runs them for an event, for a functor or for a call of user code: each
ends `Handled`, that is, it keeps types and flow and either leaves the life of the
connection alone (`Stays`) or closes it (`Closes`). `TcpConnectionProofs` then goes
through the steps.

`AssertsCorrect` and `AliveCorrect` need `EndInv` as well: a closed connection wants no
events; once the server has let go, `ConnectionDestroyed` is queued until the channel has
left the loop; every queued functor owns the connection. It holds as long as
`ReadsOnLoop` does, that is, until another thread calls `StartRead` or `StopRead`, whose
functors own nothing and enable a channel without looking at the state; both properties
have that premise, and the run `conn_start_read` shows that it cannot be dropped. Since
`off_reads` is never reset (`OffReadsStay`), a step that ends with the premise has begun
with it. TLC checked `IInv` and `EndInv` on small instances before they were proved.

`SendsCorrect` follows every message from `Send` to the output: a step takes bytes over and
never takes them back, a functor that leaves the thread's call or a queue arrives in the next
queue or is called, and `send_in_loop`, called on a connection that is still Connected at
the end of the step, takes over the whole message, in the kernel's part and the buffer's.

`LifeCorrect`: the connection implements `ConnectionLife`. The invariant makes the number
of callbacks and the entry in the map functions of the state, so what remains is that the
state takes only the steps of `Forward`, which every step lemma delivers, and that the
server does not take back a connection it has forgotten (`RemovedStays`).

**TcpServerProofs and TcpServerCounts.** The theorems are about a process with one
server (`OneServer`), with any number of io loops, peers and descriptors: with two, names
can collide, and `DestroyedAtEnd` fails together with the assertion of `server_names`.

The invariant `IInv` of `TcpServerProofs` is `BaseInv` and `LifeInv`. `BaseInv` has the
types and two facts: `NameInv`, ids in use are below the counter, so erasing a name erases
one connection; `PhaseInv`, connections exist only from `Start` on, and no loop is stopped
before the destructor. `LifeInv` has four. `CallsInv`: the state tells how often the
callback was called. `FitInv` and `OrderInv`: a queued functor finds its connection in the
state it needs, and of one connection `established` comes first and `remove` once; the
order is what keeps the former true when the functor in front is called. `ConnInv`: a
connection that has yet to enter or leave the poller has a functor for it on the way,
unless its loop is gone; this is what makes `RegisteredIsHeld` and `DestroyedAtEnd`
inductive. Queues enter the argument as sets of functors (`PushedSet`, `PoppedSet`) with
an order (`Ordered`). There is one lemma per action that touches connections or queues; a
step changes at most one connection (`Only`), so that each lemma is about that one and
`OthersKept` does the rest. `Consequences` derives the three properties.

`LifeCorrect` of `TcpServerProofs` is the second refinement: with the state, the callbacks,
the entry and the phase of the server for the variables, every connection implements
`ConnectionLife`. `LivedOne` says which changes of a connection are steps of its life, one
lemma per action shows that the action makes such a change. It needs `FitInv` (a functor
of `remove_connection` finds the connection closed, one of `ConnectionEstablished` finds
it Connecting) and `NameInv` (erasing and inserting names leave the others in the map).

`TcpServerCounts` counts. `IdleCorrect` is by `DescInv`: the descriptors in use (`Used`)
are at most `FdMax`; the idle one is open outside the handler of EMFILE; inside it, unless
other code has opened one in the meantime (`stolen`), the connections and the other
descriptors leave its slot free, first for the excess connection and then for the idle
descriptor again. The connections held grow by `new_connection` only (`HeldStep`), which
is not possible in between. `RoundRobinCorrect` is by `RoundInv`: with n loops and the
turn t, the loops before t have one connection more than the others; `NextTurn` is the
arithmetic of the remainder when the turn passes from n back to 1. TLC checked `DescInv`
and `RoundInv` on the instance of `server` first. Cardinalities go through `Size`, an
alias the provers do not expand, and the library's theorems on finite sets are brought in
at the end.

Two assumptions on the constants of `TcpServer` are there for these proofs.
`IdleAssumption`: there is room for the idle descriptors, because the constructor of
`Acceptor` ends the process when it gets none. `PoolAssumption`: no loop occurs twice in a
pool, because every `EventLoopThread` has a loop of its own.

Only model-checked: liveness, because the prover handles neither fairness nor ENABLED
(`QueuedRuns`, `StopStops`, `ExecutorLive`, `StartCompletes`, `DestructorCompletes`,
`ShutdownCompletes`, `OutputFlushed`, `PeerCloseNoticed`, `ClosedIsDestroyed`,
`PeersServed`, `ClosedReleased`, `DestructorEnds`, `EveryTimerEnds`). Every invariant and
every refinement of a safety specification that a passing run checks is proved, of the
server for a process with one server.

## Not modelled

* `InetAddress`, the logger and the type headers have no state of interest. Of the socket
  operations the options (`SO_REUSEADDR`, keep-alive, `TCP_NODELAY`) and the address
  conversions are left out.
* Allocation failure and failures of `epoll_create`, `eventfd` and the like end the process
  through the logger and are left out. `EINTR` in a handler is left out: the handlers treat
  it as `EAGAIN`, and the descriptors are nonblocking. Callbacks that throw are left out.
* `event_handing_` of `Channel` has no initializer and serves two assertions only; neither
  is modelled. The destructor of `TimerQueue` is not modelled.
* A server that is destroyed inside its own running base loop, and an `EventLoopThread` that
  is destroyed without or during `Start`.
* A connection that is half closed (`Shutdown` called, peer still there) when `~TcpServer`
  destroys it keeps its interest in events, which `RemoveFromLoop` asserts against;
  `TcpServer` does not keep the interest set, and `TcpConnection` leaves the destructor of
  the server out.
* The example programs use the library in one way each and add no state of their own.

## Plan

1. **TcpServer with TcpConnection's interest set**, so that `~TcpServer` meets half-closed
   connections.
2. **Several servers in one process**, proved up to the two shared statics: what holds of
   each of them when no update of `next_conn_id_` is lost.
