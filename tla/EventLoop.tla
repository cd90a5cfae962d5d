------------------------------ MODULE EventLoop ------------------------------
(***************************************************************************)
(* benet::EventLoop: one thread that alternates epoll_wait, the handlers   *)
(* of the active channels and the functors other threads queued for it.    *)
(* The threads share pendings_ (under pendings_mutex_), the eventfd        *)
(* wakeup_fd_ and the atomic quitting_; everything else is private to the  *)
(* loop thread.  A step of this module is one such shared access together  *)
(* with the private work that follows it, so that every interleaving of    *)
(* the threads is a behaviour of the module.                               *)
(*                                                                         *)
(* Channels other than the wakeup channel (sockets, the timerfd) are event *)
(* sources whose handlers run user code; what the handlers do to their     *)
(* own objects is the subject of the modules TcpConnection and TimerQueue. *)
(***************************************************************************)
EXTENDS Integers, Sequences, FiniteSets, FiniteSetsExt, Functions

CONSTANTS
  Callers,        \* threads other than the loop's own that hold a pointer to it
  Functors,       \* identities of the std::function<void()> handed to the loop
  Channels,       \* channels of the loop other than wakeup_channel_
  WakeupChannel,  \* wakeup_channel_
  EventfdMax,     \* largest counter of an eventfd (2^64 - 2 in the kernel)
  kEventsSize,    \* initial size of EPoller::events_ (32 in the source)
  NDEBUG          \* TRUE: a build whose assert() is compiled out

ASSUME EventLoopAssumption ==
  /\ WakeupChannel \notin Channels
  /\ IsFiniteSet(Channels)
  /\ EventfdMax \in Nat \ {0}
  /\ kEventsSize \in Nat \ {0}
  /\ NDEBUG \in BOOLEAN

VARIABLES
  pc,               \* where the loop thread is in EventLoop::Start
  running,          \* running_
  quitting,         \* quitting_
  calling_pendings, \* calling_pendings_
  active_channels,  \* the active_channels_ not handled yet in this iteration
  pendings,         \* pendings_
  tmp_pendings,     \* the functors of tmp_pendings not called yet
  wakeup_fd,        \* counter of the eventfd wakeup_fd_
  events_size,      \* events_.size() of the poller
  io_ready,         \* channels whose fd is ready (kernel)
  call,             \* per caller: "idle", or "wake" before its set_wakeup()
  queued,           \* history: functors in the order QueueInLoop pushed them
  ran,              \* history: functors in the order the loop called them
  inlined,          \* history: functors RunInLoop called at once
  early             \* history: functors queued by the loop thread before Start

vars == <<pc, running, quitting, calling_pendings, active_channels, pendings,
          tmp_pendings, wakeup_fd, events_size, io_ready, call, queued, ran,
          inlined, early>>

queueVars == <<pendings, queued, early>>
loopVars  == <<pc, running, calling_pendings, active_channels, tmp_pendings,
               events_size, ran>>

-----------------------------------------------------------------------------
(* The eventfd.  A write to a counter at its maximum fails with EAGAIN,    *)
(* which set_wakeup() only logs.                                           *)

EventfdWrite(n) == IF n < EventfdMax THEN n + 1 ELSE n

(* The loop thread executes user code: the ThreadInitCallback or main()    *)
(* before Start(), a channel's callback, or a queued functor.              *)
InUserCode == pc \in {"init", "callback", "functor"}

Fresh(f) == f \notin Range(queued) \cup inlined

-----------------------------------------------------------------------------
Init ==
  /\ pc = "init"
  /\ running = FALSE /\ quitting = FALSE /\ calling_pendings = FALSE
  /\ active_channels = {}
  /\ pendings = <<>> /\ tmp_pendings = <<>>
  /\ wakeup_fd = 0
  /\ events_size = kEventsSize
  /\ io_ready = {}
  /\ call = [c \in Callers |-> "idle"]
  /\ queued = <<>> /\ ran = <<>> /\ inlined = {} /\ early = {}

(* The critical section of QueueInLoop. *)
Push(f) ==
  /\ Fresh(f)
  /\ pendings' = Append(pendings, f)
  /\ queued' = Append(queued, f)

-----------------------------------------------------------------------------
(* Calls made by other threads.                                            *)

\* QueueInLoop, or RunInLoop, off the loop thread: the push, then (in a later
\* step, CallerWake) the write to the eventfd.
CallerQueueInLoop(c, f) ==
  /\ call[c] = "idle"
  /\ Push(f)
  /\ call' = [call EXCEPT ![c] = "wake"]
  /\ UNCHANGED <<loopVars, quitting, wakeup_fd, io_ready, inlined, early>>

\* Mutant: Stop relies on the loop noticing quitting_ by itself.
CallerStopNoWake(c) ==
  /\ call[c] = "idle"
  /\ quitting' = TRUE
  /\ UNCHANGED <<loopVars, queueVars, call, wakeup_fd, io_ready, inlined>>

\* Stop off the loop thread: the store to quitting_, then CallerWake.
CallerStop(c) ==
  /\ call[c] = "idle"
  /\ quitting' = TRUE
  /\ call' = [call EXCEPT ![c] = "wake"]
  /\ UNCHANGED <<loopVars, queueVars, wakeup_fd, io_ready, inlined>>

CallerWake(c) ==
  /\ call[c] = "wake"
  /\ wakeup_fd' = EventfdWrite(wakeup_fd)
  /\ call' = [call EXCEPT ![c] = "idle"]
  /\ UNCHANGED <<loopVars, queueVars, quitting, io_ready, inlined>>

-----------------------------------------------------------------------------
(* Calls made by the loop thread, from user code.                          *)

\* Mutant: the wakeup is left out whenever the caller is the loop thread.
LoopQueueInLoopNoWake(f) ==
  /\ InUserCode
  /\ Push(f)
  /\ early' = IF pc = "init" THEN early \cup {f} ELSE early
  /\ UNCHANGED <<loopVars, quitting, wakeup_fd, io_ready, call, inlined>>

\* QueueInLoop on the loop thread wakes the loop only when it is calling the
\* functors of this iteration; before that they will still be swapped out.
LoopQueueInLoop(f) ==
  /\ InUserCode
  /\ Push(f)
  /\ wakeup_fd' = IF calling_pendings THEN EventfdWrite(wakeup_fd) ELSE wakeup_fd
  /\ early' = IF pc = "init" THEN early \cup {f} ELSE early
  /\ UNCHANGED <<loopVars, quitting, io_ready, call, inlined>>

\* RunInLoop on the loop thread calls the functor at once.
LoopRunInLoop(f) ==
  /\ InUserCode
  /\ Fresh(f)
  /\ inlined' = inlined \cup {f}
  /\ UNCHANGED <<loopVars, queueVars, quitting, wakeup_fd, io_ready, call>>

\* Stop on the loop thread: no wakeup, the while condition is tested next.
LoopStop ==
  /\ InUserCode
  /\ quitting' = TRUE
  /\ UNCHANGED <<loopVars, queueVars, wakeup_fd, io_ready, call, inlined>>

-----------------------------------------------------------------------------
(* EventLoop::Start.                                                       *)

\* The asserts at the head of Start, and running_.store(true).
Start ==
  /\ pc = "init"
  /\ IF quitting /\ ~NDEBUG
     THEN pc' = "aborted" /\ UNCHANGED running
     ELSE pc' = "while" /\ running' = TRUE
  /\ UNCHANGED <<queueVars, quitting, calling_pendings, active_channels,
                 tmp_pendings, wakeup_fd, events_size, io_ready, call, ran, inlined>>

While ==
  /\ pc = "while"
  /\ IF quitting
     THEN pc' = "done" /\ running' = FALSE
     ELSE pc' = "poll" /\ UNCHANGED running
  /\ active_channels' = {}
  /\ UNCHANGED <<queueVars, quitting, calling_pendings, tmp_pendings, wakeup_fd,
                 events_size, io_ready, call, ran, inlined>>

ReadyChannels == io_ready \cup (IF wakeup_fd > 0 THEN {WakeupChannel} ELSE {})

\* epoll_wait reports as many ready channels as events_ has room for; a full
\* events_ is enlarged by half for the next call.
PollReady ==
  /\ pc = "poll"
  /\ ReadyChannels # {}
  /\ \E S \in SUBSET ReadyChannels :
       /\ Cardinality(S) = Min({Cardinality(ReadyChannels), events_size})
       /\ active_channels' = S
       /\ events_size' = IF Cardinality(S) = events_size
                         THEN (3 * events_size) \div 2 ELSE events_size
  /\ pc' = "events"
  /\ UNCHANGED <<queueVars, running, quitting, calling_pendings, tmp_pendings,
                 wakeup_fd, io_ready, call, ran, inlined>>

\* Mutant: epoll_wait is called without a timeout.
PollNothingNever == FALSE

\* epoll_wait returns nothing: kPollTimeoutMs elapsed, or EINTR.
PollNothing ==
  /\ pc = "poll"
  /\ ReadyChannels = {}
  /\ pc' = "events"
  /\ UNCHANGED <<queueVars, running, quitting, calling_pendings, active_channels,
                 tmp_pendings, wakeup_fd, events_size, io_ready, call, ran, inlined>>

\* reset_wakeup(): reading an eventfd returns and clears its counter.
HandleWakeup ==
  /\ pc = "events"
  /\ WakeupChannel \in active_channels
  /\ active_channels' = active_channels \ {WakeupChannel}
  /\ wakeup_fd' = 0
  /\ UNCHANGED <<queueVars, pc, running, quitting, calling_pendings, tmp_pendings,
                 events_size, io_ready, call, ran, inlined>>

\* Any other channel's HandleEvent: its callback may consume the readiness of
\* the fd or leave some (the poller is level-triggered).
HandleChannel(ch) ==
  /\ pc = "events"
  /\ ch \in active_channels \ {WakeupChannel}
  /\ active_channels' = active_channels \ {ch}
  /\ pc' = "callback"
  /\ io_ready' \in {io_ready, io_ready \ {ch}}
  /\ UNCHANGED <<queueVars, running, quitting, calling_pendings, tmp_pendings,
                 wakeup_fd, events_size, call, ran, inlined>>

HandleChannelReturn ==
  /\ pc = "callback"
  /\ pc' = "events"
  /\ UNCHANGED <<queueVars, running, quitting, calling_pendings, active_channels,
                 tmp_pendings, wakeup_fd, events_size, io_ready, call, ran, inlined>>

\* Mutant: only the oldest functor is taken, the rest of the vector is lost.
SwapPendingsDrop ==
  /\ pc = "events" /\ active_channels = {}
  /\ pc' = "calling"
  /\ calling_pendings' = TRUE
  /\ tmp_pendings' = IF pendings = <<>> THEN <<>> ELSE <<Head(pendings)>>
  /\ pendings' = <<>>
  /\ UNCHANGED <<queued, early, running, quitting, active_channels, wakeup_fd,
                 events_size, io_ready, call, ran, inlined>>

\* All active channels handled: pendings_ is swapped out under the mutex.
SwapPendings ==
  /\ pc = "events" /\ active_channels = {}
  /\ pc' = "calling"
  /\ calling_pendings' = TRUE
  /\ tmp_pendings' = pendings
  /\ pendings' = <<>>
  /\ UNCHANGED <<queued, early, running, quitting, active_channels, wakeup_fd,
                 events_size, io_ready, call, ran, inlined>>

CallPending ==
  /\ pc = "calling" /\ tmp_pendings # <<>>
  /\ pc' = "functor"
  /\ tmp_pendings' = Tail(tmp_pendings)
  /\ ran' = Append(ran, Head(tmp_pendings))
  /\ UNCHANGED <<queueVars, running, quitting, calling_pendings, active_channels,
                 wakeup_fd, events_size, io_ready, call, inlined>>

CallPendingReturn ==
  /\ pc = "functor"
  /\ pc' = "calling"
  /\ UNCHANGED <<queueVars, running, quitting, calling_pendings, active_channels,
                 tmp_pendings, wakeup_fd, events_size, io_ready, call, ran, inlined>>

EndPendings ==
  /\ pc = "calling" /\ tmp_pendings = <<>>
  /\ pc' = "while"
  /\ calling_pendings' = FALSE
  /\ UNCHANGED <<queueVars, running, quitting, active_channels, tmp_pendings,
                 wakeup_fd, events_size, io_ready, call, ran, inlined>>

\* The kernel makes the fd of a channel ready.
ChannelReady(ch) ==
  /\ ch \notin io_ready
  /\ io_ready' = io_ready \cup {ch}
  /\ UNCHANGED <<loopVars, queueVars, quitting, wakeup_fd, call, inlined>>

-----------------------------------------------------------------------------
\* What the loop thread does by itself, without waiting for the poll timeout.
LoopStep ==
  \/ Start \/ While \/ PollReady
  \/ HandleWakeup \/ (\E ch \in Channels : HandleChannel(ch)) \/ HandleChannelReturn
  \/ SwapPendings \/ CallPending \/ CallPendingReturn \/ EndPendings

Next ==
  \/ LoopStep
  \/ PollNothing
  \/ LoopStop
  \/ \E f \in Functors : LoopQueueInLoop(f) \/ LoopRunInLoop(f)
  \/ \E c \in Callers : CallerStop(c) \/ CallerWake(c)
                        \/ \E f \in Functors : CallerQueueInLoop(c, f)
  \/ \E ch \in Channels : ChannelReady(ch)

Spec == Init /\ [][Next]_vars

\* The threads are scheduled and user code returns.  The poll timeout is not
\* assumed to help: what FairSpec shows, the wakeups achieve alone.
FairSpec ==
  /\ Spec
  /\ WF_vars(LoopStep)
  /\ \A c \in Callers : WF_vars(CallerWake(c))

-----------------------------------------------------------------------------
(* Properties.                                                             *)

TypeOK ==
  /\ pc \in {"init", "while", "poll", "events", "callback", "calling", "functor",
             "done", "aborted"}
  /\ running \in BOOLEAN /\ quitting \in BOOLEAN /\ calling_pendings \in BOOLEAN
  /\ active_channels \subseteq Channels \cup {WakeupChannel}
  /\ pendings \in Seq(Functors) /\ tmp_pendings \in Seq(Functors)
  /\ wakeup_fd \in 0 .. EventfdMax
  /\ events_size \in Nat \ {0}
  /\ io_ready \subseteq Channels
  /\ call \in [Callers -> {"idle", "wake"}]
  /\ queued \in Seq(Functors) /\ ran \in Seq(Functors)
  /\ inlined \subseteq Functors /\ early \subseteq Functors

\* Every functor QueueInLoop accepted is either called already, or about to be
\* called in this iteration, or still pending, and the three follow each other in
\* the order of the pushes: none is lost, called twice or overtaken, whatever
\* threads push while the loop swaps and calls.
QueueOrder == queued = ran \o tmp_pendings \o pendings

\* A wakeup is on its way to the loop thread.
WakeupComing == wakeup_fd > 0 \/ \E c \in Callers : call[c] = "wake"

\* A functor is pending that the code promises to run promptly.  The exception
\* are the functors the loop thread queued before Start: QueueInLoop writes no
\* wakeup for them, and the first epoll_wait may sleep on them.
PromptPending == \E i \in DOMAIN pendings : pendings[i] \notin early

\* No lost wakeup: the loop never sleeps in epoll_wait, and is never past the
\* point of no return towards it, with a pending functor and no wakeup coming;
\* set_wakeup() under `!IsInLoopThread() || calling_pendings_` covers exactly
\* the pushes the current iteration will not swap out any more.
NoLostWakeup ==
  pc \in {"init", "while", "poll", "calling", "functor"} /\ PromptPending
    => WakeupComing

\* No lost stop: the loop never sleeps in epoll_wait with quitting_ set and no
\* wakeup coming.
NoLostStop == pc = "poll" /\ quitting => WakeupComing

\* Every functor queued by another thread, by a callback or by another functor is
\* called, unless the loop is told to stop, without the help of the poll timeout.
QueuedRuns ==
  \A f \in Functors :
    (f \in Range(queued) \ early) ~> (f \in Range(ran) \/ quitting)

\* Stop, from whatever thread and at whatever moment, ends Start (in a debug
\* build possibly by its assert), without the help of the poll timeout.
StopStops == quitting ~> pc \in {"done", "aborted"}

-----------------------------------------------------------------------------
(* The promise of the loop to its users is the executor LoopExecutor: the  *)
(* two vectors are one queue.                                              *)

Executor == INSTANCE LoopExecutor WITH
  queue    <- tmp_pendings \o pendings,
  ran      <- ran,
  stopping <- quitting,
  closed   <- pc \in {"done", "aborted"}

\* The loop implements the executor: functors are called one at a time from the
\* head of one FIFO queue, by a loop that stops only when told to.
ExecutorSafe == Executor!Spec

\* If epoll_wait returns after kPollTimeoutMs when nothing is ready, the loop also
\* keeps the executor's promise of progress: every functor, those the loop thread
\* queued before Start included, is called or the loop stops.
ExecutorLive == WF_vars(PollNothing) => Executor!Progress
=============================================================================
