----------------------------- MODULE TimerQueue -----------------------------
(***************************************************************************)
(* The timers of one event loop: TimerQueue and Timer, the timerfd they    *)
(* arm, and the calls EventLoop::RunAt/RunAfter/RunEvery/CancelTimer make. *)
(*                                                                         *)
(* Time is counted in ticks of the clock.  The wall clock (TimeClock) may  *)
(* be stepped, the timerfd runs on CLOCK_MONOTONIC.  The functors other    *)
(* threads hand to the loop are the FIFO queue that EventLoop is shown to  *)
(* implement.                                                              *)
(***************************************************************************)
EXTENDS Integers, Sequences

CONSTANTS
  Timers,      \* addresses of Timer objects: pointers order timers_ on ties
  Whens,       \* time points given to RunAt and RunAfter
  Intervals,   \* intervals of RunEvery in ticks; 0 is one below a tick
  MaxNow,      \* bound: the wall clock saturates here
  StepsMax,    \* bound: how often the wall clock is stepped
  QueueMax,    \* bound: functors of other threads waiting in the loop
  NDEBUG

ASSUME TimerQueueAssumption ==
  /\ Timers \subseteq Nat /\ Whens \subseteq Nat /\ Intervals \subseteq Nat
  /\ MaxNow \in Nat \ {0} /\ StepsMax \in Nat /\ QueueMax \in Nat
  /\ NDEBUG \in BOOLEAN

VARIABLES
  now,          \* TimeClock::now()
  steps,        \* times the wall clock was stepped
  timerfd,      \* ticks until it expires, 0 when readable, OFF when disarmed
  lp,           \* where the loop thread is
  at,           \* the expiry handler's local now
  timers,       \* timers_
  expired,      \* expired_timer
  left,         \* the part of expired not yet run
  calling,      \* calling_expired_timers_
  canceling,    \* canceling_timers_
  timer,        \* the Timer objects made: expiration_ and interval_
  pendings,     \* AddTimer and CancelTimer functors from other threads
  todo,         \* functors the loop has swapped out and not run
  inserted,     \* history: timers that were put into timers_
  cancelled     \* history: inserted timers whose cancellation was executed

time == <<now, steps>>
queue == <<timers, expired, left, calling, canceling, at>>
vars == <<now, steps, timerfd, lp, at, timers, expired, left, calling, canceling,
          timer, pendings, todo, inserted, cancelled>>

OFF  == -1
Once == -1                       \* interval of a timer with repeat_ false
InvalidTimePoint == 0

Entry == [when : Nat, timer : Timers]
Task  == [op : {"add", "cancel"}, timer : Timers]

EntryOf(t) == [when |-> timer[t].expiration, timer |-> t]
TimersIn(entries) == {e.timer : e \in entries}

\* The order of std::set<TimerEntry>.
Least(entries) ==
  CHOOSE e \in entries : \A f \in entries :
    e.when < f.when \/ (e.when = f.when /\ e.timer <= f.timer)

-----------------------------------------------------------------------------
Init ==
  /\ now = 1 /\ steps = 0 /\ timerfd = OFF /\ lp = "poll" /\ at = 1
  /\ timers = {} /\ expired = {} /\ left = {} /\ calling = FALSE /\ canceling = {}
  /\ timer = <<>> /\ pendings = <<>> /\ todo = 0
  /\ inserted = {} /\ cancelled = {}

\* A time point that has passed arms the shortest delay: 0 would disarm the fd.
how_long_from_now(when) == IF when <= now THEN 1 ELSE when - now

\* Mutant: a new timer arms the timerfd only when none is waiting.
EarliestChangedIfEmpty(when) == timers = {}

\* What insert returns.
EarliestChanged(when) == timers = {} \/ when < Least(timers).when

\* AddTimer's functor for the timer t.
AddInLoop(t, when) ==
  /\ timers' = timers \cup {[when |-> when, timer |-> t]}
  /\ timerfd' = IF EarliestChanged(when) THEN how_long_from_now(when) ELSE timerfd
  /\ inserted' = inserted \cup {t}

\* What a TimerWeakPtr can be locked for: the owners of a Timer.
Alive(t) ==
  \/ t \in TimersIn(timers \cup expired) \cup canceling
  \/ \E i \in 1 .. Len(pendings) : pendings[i] = [op |-> "add", timer |-> t]

\* CancelTimer's functor.
CancelInLoop(t) ==
  /\ IF Alive(t) /\ EntryOf(t) \in timers
     THEN timers' = timers \ {EntryOf(t)} /\ UNCHANGED canceling
     ELSE /\ canceling' = IF Alive(t) /\ calling THEN canceling \cup {t} ELSE canceling
          /\ UNCHANGED timers
  /\ cancelled' = cancelled \cup ({t} \cap inserted)

-----------------------------------------------------------------------------
(* Calls of RunAt, RunAfter, RunEvery and CancelTimer.                     *)

Made == DOMAIN timer

\* Timer's constructor; Restart sets the expiration again.
Make(t, when, interval) ==
  /\ t \notin Made
  /\ timer' = [u \in Made \cup {t} |->
                 IF u = t THEN [expiration |-> when, interval |-> interval] ELSE timer[u]]

\* RunAt and RunAfter make a timer that runs once, RunEvery one that first runs
\* after its interval.
Arguments == (Whens \X {Once}) \cup {<<now + i, i>> : i \in Intervals}

\* User code runs on the loop thread in callbacks and functors: those of other
\* channels before and after the expiry handler, the timers', and functors.
InUserCode ==
  /\ lp \in {"handle", "calling", "others", "pending"}
  /\ lp = "calling" => left # expired

LoopAddTimer(t) ==
  /\ InUserCode
  /\ \E arg \in Arguments : Make(t, arg[1], arg[2]) /\ AddInLoop(t, arg[1])
  /\ UNCHANGED <<time, lp, at, expired, left, calling, canceling, pendings, todo, cancelled>>

LoopCancelTimer(t) ==
  /\ InUserCode /\ t \in Made
  /\ CancelInLoop(t)
  /\ UNCHANGED <<time, timerfd, lp, at, expired, left, calling, timer, pendings, todo, inserted>>

QueueInLoop(op, t) ==
  /\ Len(pendings) < QueueMax
  /\ pendings' = Append(pendings, [op |-> op, timer |-> t])
  /\ UNCHANGED <<time, timerfd, lp, queue, todo, inserted, cancelled>>

ThreadAddTimer(t) ==
  /\ \E arg \in Arguments : Make(t, arg[1], arg[2])
  /\ QueueInLoop("add", t)

ThreadCancelTimer(t) ==
  /\ t \in Made
  /\ QueueInLoop("cancel", t)
  /\ UNCHANGED timer

-----------------------------------------------------------------------------
(* The loop thread.                                                        *)

\* Poll returns with the timerfd's channel active or not: other channels, the
\* wakeup fd or the timeout may have ended it.
Poll ==
  /\ lp = "poll"
  /\ lp' = IF timerfd = 0 THEN "handle" ELSE "others"
  /\ UNCHANGED <<time, timerfd, queue, timer, pendings, todo, inserted, cancelled>>

\* timers_.lower_bound({now, nullptr}): no Timer is at a lower address.
Due == {e \in timers : e.when < now}

\* The assert that follows lower_bound.
ExpiryAssert == \A e \in timers \ Due : now < e.when

\* The read callback up to the first timer.  The read finds the timerfd armed
\* again when a callback before this one added a timer.  The assert ends a debug
\* build.
HandleExpired ==
  /\ lp = "handle"
  /\ lp' = IF NDEBUG \/ ExpiryAssert THEN "calling" ELSE "aborted"
  /\ at' = now
  /\ timerfd' = IF timerfd = 0 THEN OFF ELSE timerfd
  /\ expired' = Due /\ left' = Due /\ timers' = timers \ Due
  /\ calling' = TRUE /\ canceling' = {}
  /\ UNCHANGED <<time, timer, pendings, todo, inserted, cancelled>>

RunTimer ==
  /\ lp = "calling" /\ left # {}
  /\ left' = left \ {Least(left)}
  /\ UNCHANGED <<time, timerfd, lp, at, timers, expired, calling, canceling, timer,
                 pendings, todo, inserted, cancelled>>

\* Mutant: does not look at canceling_timers_.
RestartedAll == {t \in TimersIn(expired) : timer[t].interval # Once}

\* The timers that are restarted.
Restarted == {t \in TimersIn(expired) : timer[t].interval # Once} \ canceling

\* Mutant: the timerfd is armed only when a timer was restarted.
RearmedIfRestarted(entries) == Restarted # {}

\* Whether the handler arms the timerfd again.
Rearmed(entries) == entries # {} /\ Least(entries).when # InvalidTimePoint

\* Timer::Restart, with the handler's now.
RestartedTimer(t) == [timer[t] EXCEPT !.expiration = at + timer[t].interval]

\* Mutant: insert is called before Restart.
RestartedEntryEarly(t) == EntryOf(t)

\* What insert puts back into timers_ for a restarted timer.
RestartedEntry(t) == [when |-> RestartedTimer(t).expiration, timer |-> t]

\* The rest of the read callback.
FinishExpired ==
  /\ lp = "calling" /\ left = {}
  /\ timer' = [t \in Made |-> IF t \in Restarted THEN RestartedTimer(t) ELSE timer[t]]
  /\ timers' = timers \cup {RestartedEntry(t) : t \in Restarted}
  /\ timerfd' = IF Rearmed(timers') THEN how_long_from_now(Least(timers').when) ELSE timerfd
  /\ expired' = {} /\ calling' = FALSE /\ lp' = "others"
  /\ UNCHANGED <<time, at, left, canceling, pendings, todo, inserted, cancelled>>

SwapPendings ==
  /\ lp = "others"
  /\ lp' = "pending" /\ todo' = Len(pendings)
  /\ UNCHANGED <<time, timerfd, queue, timer, pendings, inserted, cancelled>>

RunAdd ==
  /\ lp = "pending" /\ todo > 0 /\ Head(pendings).op = "add"
  /\ AddInLoop(Head(pendings).timer, timer[Head(pendings).timer].expiration)
  /\ pendings' = Tail(pendings) /\ todo' = todo - 1
  /\ UNCHANGED <<time, lp, at, expired, left, calling, canceling, timer, cancelled>>

RunCancel ==
  /\ lp = "pending" /\ todo > 0 /\ Head(pendings).op = "cancel"
  /\ CancelInLoop(Head(pendings).timer)
  /\ pendings' = Tail(pendings) /\ todo' = todo - 1
  /\ UNCHANGED <<time, timerfd, lp, at, expired, left, calling, timer, inserted>>

EndPendings ==
  /\ lp = "pending" /\ todo = 0
  /\ lp' = "poll"
  /\ UNCHANGED <<time, timerfd, queue, timer, pendings, todo, inserted, cancelled>>

-----------------------------------------------------------------------------
(* The clocks.                                                             *)

Tick ==
  /\ now < MaxNow \/ timerfd > 0
  /\ now' = IF now < MaxNow THEN now + 1 ELSE now
  /\ timerfd' = IF timerfd > 0 THEN timerfd - 1 ELSE timerfd
  /\ UNCHANGED <<steps, lp, queue, timer, pendings, todo, inserted, cancelled>>

\* The wall clock is set; it never shows the epoch, which is InvalidTimePoint.
StepClock ==
  /\ steps < StepsMax
  /\ steps' = steps + 1
  /\ now' \in 1 .. MaxNow
  /\ UNCHANGED <<timerfd, lp, queue, timer, pendings, todo, inserted, cancelled>>

LoopStep ==
  \/ Poll \/ HandleExpired \/ RunTimer \/ FinishExpired
  \/ SwapPendings \/ RunAdd \/ RunCancel \/ EndPendings

UserStep ==
  \E t \in Timers :
    LoopAddTimer(t) \/ LoopCancelTimer(t) \/ ThreadAddTimer(t) \/ ThreadCancelTimer(t)

Next == LoopStep \/ UserStep \/ Tick \/ StepClock

Spec == Init /\ [][Next]_vars

\* The loop thread goes on and time passes.
FairSpec == Spec /\ WF_vars(LoopStep) /\ WF_vars(Tick)

-----------------------------------------------------------------------------
(* Properties.                                                             *)

TypeOK ==
  /\ now \in 1 .. MaxNow /\ steps \in 0 .. StepsMax /\ timerfd \in Nat \cup {OFF}
  /\ lp \in {"poll", "handle", "calling", "others", "pending", "aborted"} /\ at \in Nat \ {0}
  /\ timers \subseteq Entry /\ expired \subseteq Entry /\ left \subseteq expired
  /\ calling \in BOOLEAN /\ canceling \subseteq Made
  /\ Made \subseteq Timers
  /\ timer \in [Made -> [expiration : Nat, interval : Intervals \cup {Once}]]
  /\ pendings \in Seq(Task) /\ todo \in 0 .. Len(pendings)
  /\ inserted \subseteq Made /\ cancelled \subseteq inserted

\* A waiting timer is never forgotten by the kernel: whenever the loop is outside
\* the expiry handler and timers_ is not empty the timerfd is armed or readable,
\* and while the wall clock is not stepped it expires no later than the earliest
\* timer, although inserting a later timer, cancelling the earliest one and a
\* spurious expiry leave it alone.
ArmedForEarliest ==
  lp \notin {"calling", "aborted"} /\ timers # {} =>
    /\ timerfd # OFF
    /\ steps = 0 => timerfd <= how_long_from_now(Least(timers).when)

\* CancelTimer looks a timer up by its current expiration, and insert asserts
\* that its entry is new: a timer has at most one entry, under its expiration,
\* and none while the expiry handler holds it.
KeysMatch ==
  /\ \A e \in timers \cup expired : e.timer \in Made /\ e = EntryOf(e.timer)
  /\ timers \cap expired = {}

\* A cancelled timer does not come back: once CancelTimer has been executed for
\* a timer that was in the queue, timers_ never holds it again, also when its own
\* callback or another one of the same batch cancelled it before its Restart.
CancelledStaysOut ==
  \A t \in cancelled : t \notin TimersIn(timers) /\ (t \in TimersIn(expired) => t \in canceling)

\* Every waiting timer is taken out, to be run or because it is cancelled, even
\* when the wall clock is stepped.  (A timer due later than the bound on time is
\* not reached.)
EveryTimerEnds ==
  \A t \in Timers :
    (\E e \in timers : e.timer = t /\ e.when < MaxNow) ~> t \notin TimersIn(timers)

\* The assert behind lower_bound in the expiry handler.
ExpiryAssertHolds == lp # "aborted"
=============================================================================
