--------------------------- MODULE TimerQueueProofs ---------------------------
(***************************************************************************)
(* The safety properties of TimerQueue, for every set of timers, times and *)
(* intervals, every bound and both kinds of build.                         *)
(***************************************************************************)
EXTENDS TimerQueue, WellFoundedInduction, TLAPS

USE TimerQueueAssumption

-----------------------------------------------------------------------------
(* The order of timers_.                                                   *)

LEMMA NatMin ==
  ASSUME NEW S, S \subseteq Nat, S # {}
  PROVE  \E m \in S : \A k \in S : m <= k
<1>1. PICK m \in S : \A k \in S : ~ (<<k, m>> \in OpToRel(<, Nat))
  BY WFMin, NatLessThanWellFounded, ZenonT(30)
<1>2. \A k \in S : ~ (k < m)
  BY <1>1 DEF OpToRel
<1> QED
  BY <1>2

\* begin() of a non-empty timers_ is one of its entries and expires first.
LEMMA LeastIsLeast ==
  ASSUME NEW E, E \subseteq Entry, E # {}
  PROVE  Least(E) \in E /\ \A f \in E : Least(E).when <= f.when
<1> DEFINE Whens_ == {e.when : e \in E}
<1>1. PICK w \in Whens_ : \A k \in Whens_ : w <= k
  <2>1. Whens_ \subseteq Nat /\ Whens_ # {}
    BY DEF Entry
  <2> QED
    BY <2>1, NatMin
<1> DEFINE Ties == {e.timer : e \in {f \in E : f.when = w}}
<1>2. PICK t \in Ties : \A k \in Ties : t <= k
  <2>1. Ties \subseteq Nat /\ Ties # {}
    BY <1>1, ZenonT(40) DEF Entry
  <2> QED
    BY <2>1, NatMin
<1>3. PICK e \in E : e.when = w /\ e.timer = t
  BY <1>2, Zenon
<1>4. \A f \in E : e.when < f.when \/ (e.when = f.when /\ e.timer <= f.timer)
  BY <1>1, <1>2, <1>3 DEF Entry
<1>5. Least(E) \in E /\ \A f \in E : \/ Least(E).when < f.when
                                     \/ Least(E).when = f.when /\ Least(E).timer <= f.timer
  BY <1>4, Zenon DEF Least
<1> QED
  BY <1>5 DEF Entry

-----------------------------------------------------------------------------
(* The inductive invariant.                                                *)

\* A functor of AddTimer is the only one for its timer, which timers_ has not seen.
TasksInv ==
  /\ \A i \in DOMAIN pendings : pendings[i].timer \in Made
  /\ \A i \in DOMAIN pendings : pendings[i].op = "add" => pendings[i].timer \notin inserted
  /\ \A i, j \in DOMAIN pendings :
       /\ pendings[i].op = "add" /\ pendings[j].op = "add"
       /\ pendings[i].timer = pendings[j].timer
       => i = j

\* Timers are held outside timers_ only inside the expiry handler, which has set
\* calling_expired_timers_ by then.
HandlerInv ==
  /\ lp \notin {"calling", "aborted"} => expired = {} /\ left = {}
  /\ lp = "calling" => calling

\* What is in timers_ or held by the handler was inserted.
KnownInv == \A e \in timers \cup expired : e.timer \in inserted

KeyInv == KeysMatch /\ KnownInv /\ TasksInv /\ HandlerInv /\ CancelledStaysOut

\* A timer at InvalidTimePoint, which the handler does not arm for, was armed for
\* when it was added.
ZeroInv == \A e \in timers : e.when = InvalidTimePoint => timerfd \in {0, 1}

\* ArmedForEarliest, said of every entry.
ArmedForAll ==
  lp \notin {"calling", "aborted"} =>
    \A e \in timers : timerfd # OFF /\ (steps = 0 => timerfd <= how_long_from_now(e.when))

IInv == TypeOK /\ KeyInv /\ ZeroInv /\ ArmedForAll

TimerType == [expiration : Nat, interval : Intervals \cup {Once}]

LEMMA InitInv == Init => IInv
<1> SUFFICES ASSUME Init PROVE IInv
  BY Zenon
<1>1. Made = {} /\ timer \in [{} -> TimerType]
  BY DEF Init, Made
<1>2. pendings \in Seq(Task) /\ todo \in 0 .. Len(pendings)
  BY DEF Init
<1>3. /\ now \in 1 .. MaxNow /\ steps \in 0 .. StepsMax /\ timerfd \in Nat \cup {OFF}
      /\ at \in Nat \ {0}
  BY DEF Init
<1>4. calling \in BOOLEAN
  BY Zenon DEF Init
<1>5. TypeOK
  BY <1>1, <1>2, <1>3, <1>4, Zenon DEF Init, TypeOK, TimerType
<1> QED
  BY <1>5 DEF Init, IInv, KeyInv, KeysMatch, KnownInv, TasksInv, HandlerInv,
              CancelledStaysOut, TimersIn, ZeroInv, ArmedForAll

-----------------------------------------------------------------------------
(* Types.                                                                  *)

LEMMA MakeType ==
  ASSUME TypeOK, NEW t \in Timers, NEW when \in Nat, NEW interval \in Intervals \cup {Once},
         Make(t, when, interval)
  PROVE  /\ DOMAIN timer' = Made \cup {t}
         /\ timer' \in [Made \cup {t} -> TimerType]
         /\ timer'[t].expiration = when
         /\ \A u \in Made : timer'[u] = timer[u] /\ u # t
  BY Zenon DEF TypeOK, Make, Made, TimerType

LEMMA ArgumentsType ==
  ASSUME TypeOK, NEW arg \in Arguments
  PROVE  arg[1] \in Nat /\ arg[2] \in Intervals \cup {Once}
<1>1. CASE arg \in Whens \X {Once}
  BY <1>1
<1>2. CASE arg \in {<<now + i, i>> : i \in Intervals}
  <2>1. PICK i \in Intervals : arg = <<now + i, i>>
    BY <1>2, Zenon
  <2>2. now + i \in Nat
    BY DEF TypeOK
  <2> QED
    BY <2>1, <2>2, Zenon
<1> QED
  BY <1>1, <1>2, Zenon DEF Arguments

LEMMA HowLong == ASSUME TypeOK, NEW when \in Nat
                 PROVE  how_long_from_now(when) \in Nat \ {0}
  BY DEF TypeOK, how_long_from_now

\* A restarted timer exists, and expires after the epoch.
LEMMA RestartedType ==
  ASSUME TypeOK, KeysMatch, NEW t \in Restarted
  PROVE  /\ t \in Made
         /\ RestartedTimer(t) \in TimerType /\ RestartedTimer(t).expiration # 0
         /\ RestartedEntry(t) \in Entry
<1>1. t \in Made /\ timer[t].interval # Once
  BY Zenon DEF Restarted, TimersIn, KeysMatch
<1>2. timer[t] \in TimerType
  BY <1>1, Zenon DEF TypeOK, TimerType
<1>3. timer[t].interval \in Intervals
  BY <1>1, <1>2, Zenon DEF TimerType
<1>4. at + timer[t].interval \in Nat \ {0}
  <2>1. at \in Nat \ {0}
    BY Zenon DEF TypeOK
  <2>2. timer[t].interval \in Nat
    BY <1>3
  <2> QED
    BY <2>1, <2>2
<1>5. /\ RestartedTimer(t) \in TimerType
      /\ RestartedTimer(t).expiration = at + timer[t].interval
  BY <1>2, <1>4, Zenon DEF RestartedTimer, TimerType
<1> QED
  BY <1>1, <1>4, <1>5, Zenon DEF RestartedEntry, Entry, TypeOK

LEMMA AddType ==
  ASSUME TypeOK, NEW t \in Timers, NEW when \in Nat, AddInLoop(t, when)
  PROVE  timers' \subseteq Entry /\ timerfd' \in Nat \cup {OFF} /\ inserted' = inserted \cup {t}
<1>1. how_long_from_now(when) \in Nat
  BY HowLong, Zenon
<1> QED
  BY <1>1 DEF TypeOK, AddInLoop, Entry

LEMMA TypeStep == IInv /\ [Next]_vars => TypeOK'
<1> SUFFICES ASSUME TypeOK, KeysMatch, TasksInv, [Next]_vars PROVE TypeOK'
  BY Zenon DEF IInv, KeyInv
<1> USE DEF time, queue
<1>1. CASE UNCHANGED vars
  BY <1>1, Zenon DEF TypeOK, vars, Made
<1>2. ASSUME NEW t \in Timers, LoopAddTimer(t) PROVE TypeOK'
  <2>1. PICK when \in Nat, interval \in Intervals \cup {Once} :
          Make(t, when, interval) /\ AddInLoop(t, when)
    BY <1>2, ArgumentsType DEF LoopAddTimer
  <2>3. /\ DOMAIN timer' = Made \cup {t}
        /\ timer' \in [Made \cup {t} -> TimerType]
    BY <2>1, MakeType, Zenon
  <2>4. timers' \subseteq Entry /\ timerfd' \in Nat \cup {OFF} /\ inserted' = inserted \cup {t}
    BY <2>1, AddType, Zenon
  <2> QED
    BY <1>2, <2>3, <2>4, Zenon DEF LoopAddTimer, TypeOK, Made, TimerType
<1>3. ASSUME NEW t \in Timers, LoopCancelTimer(t) PROVE TypeOK'
  BY <1>3, Zenon DEF LoopCancelTimer, CancelInLoop, TypeOK, Made
<1>4. ASSUME NEW t \in Timers, ThreadAddTimer(t) PROVE TypeOK'
  <2>1. PICK when \in Nat, interval \in Intervals \cup {Once} : Make(t, when, interval)
    BY <1>4, ArgumentsType DEF ThreadAddTimer
  <2>3. /\ DOMAIN timer' = Made \cup {t}
        /\ timer' \in [Made \cup {t} -> TimerType]
    BY <2>1, MakeType, Zenon
  <2>4. pendings' \in Seq(Task) /\ Len(pendings') = Len(pendings) + 1
    BY <1>4 DEF ThreadAddTimer, QueueInLoop, TypeOK, Task
  <2> QED
    BY <1>4, <2>3, <2>4, SMTT(30) DEF ThreadAddTimer, QueueInLoop, TypeOK, Made, TimerType
<1>5. ASSUME NEW t \in Timers, ThreadCancelTimer(t) PROVE TypeOK'
  <2>1. pendings' \in Seq(Task) /\ Len(pendings') = Len(pendings) + 1
    BY <1>5 DEF ThreadCancelTimer, QueueInLoop, TypeOK, Task
  <2> QED
    BY <1>5, <2>1, SMTT(30) DEF ThreadCancelTimer, QueueInLoop, TypeOK, Made
<1>6. CASE Poll
  BY <1>6, Zenon DEF Poll, TypeOK, Made
<1>7. CASE HandleExpired
  <2>1. calling' \in BOOLEAN
    BY <1>7, Zenon DEF HandleExpired
  <2> QED
    BY <1>7, <2>1 DEF HandleExpired, TypeOK, Made, Due
<1>8. CASE RunTimer
  BY <1>8, Zenon DEF RunTimer, TypeOK, Made
<1>9. CASE FinishExpired
  <2>1. calling' \in BOOLEAN
    BY <1>9, Zenon DEF FinishExpired
  <2>2. DOMAIN timer' = Made /\ timer' \in [Made -> TimerType]
    BY <1>9, RestartedType, Zenon DEF FinishExpired, TypeOK, TimerType
  <2>3. timers' \subseteq Entry
    BY <1>9, RestartedType, Zenon DEF FinishExpired, TypeOK
  <2>4. timerfd' \in Nat \cup {OFF}
    <3>1. timers' # {} => Least(timers').when \in Nat
      BY <2>3, LeastIsLeast DEF Entry
    <3>2. timers' # {} => how_long_from_now(Least(timers').when) \in Nat
      BY <3>1, HowLong, Zenon
    <3> QED
      BY <1>9, <3>2 DEF FinishExpired, Rearmed, TypeOK
  <2> QED
    BY <1>9, <2>1, <2>2, <2>3, <2>4, Zenon DEF FinishExpired, TypeOK, Made, TimerType
<1>10. CASE SwapPendings
  BY <1>10 DEF SwapPendings, TypeOK, Made
<1>11. CASE RunAdd
  <2>1. /\ pendings' \in Seq(Task) /\ Len(pendings') = Len(pendings) - 1
        /\ Head(pendings) = pendings[1] /\ 1 \in DOMAIN pendings
    BY <1>11 DEF RunAdd, TypeOK
  <2> DEFINE t == Head(pendings).timer
  <2>2. t \in Made /\ t \in Timers /\ timer[t].expiration \in Nat
    BY <2>1 DEF TasksInv, TypeOK
  <2>3. AddInLoop(t, timer[t].expiration)
    BY <1>11, Zenon DEF RunAdd
  <2>4. timers' \subseteq Entry /\ timerfd' \in Nat \cup {OFF} /\ inserted' = inserted \cup {t}
    BY <2>2, <2>3, AddType
  <2> QED
    BY <1>11, <2>1, <2>2, <2>4, SMTT(30) DEF RunAdd, TypeOK, Made
<1>12. CASE RunCancel
  <2>1. /\ pendings' \in Seq(Task) /\ Len(pendings') = Len(pendings) - 1
        /\ Head(pendings) = pendings[1] /\ 1 \in DOMAIN pendings
    BY <1>12 DEF RunCancel, TypeOK
  <2>2. Head(pendings).timer \in Made
    BY <2>1, Zenon DEF TasksInv
  <2> QED
    BY <1>12, <2>1, <2>2, SMTT(30) DEF RunCancel, CancelInLoop, TypeOK, Made
<1>13. CASE EndPendings
  BY <1>13, Zenon DEF EndPendings, TypeOK, Made
<1>14. CASE Tick
  <2>1. now' \in 1 .. MaxNow /\ timerfd' \in Nat \cup {OFF}
    BY <1>14 DEF Tick, TypeOK, OFF
  <2> QED
    BY <1>14, <2>1, Zenon DEF Tick, TypeOK, Made
<1>15. CASE StepClock
  BY <1>15, SMTT(30) DEF StepClock, TypeOK, Made
<1> QED
  BY <1>1, <1>2, <1>3, <1>4, <1>5, <1>6, <1>7, <1>8, <1>9, <1>10, <1>11, <1>12, <1>13, <1>14,
     <1>15, Zenon DEF Next, LoopStep, UserStep

-----------------------------------------------------------------------------
(* Entries, keys and cancellations.                                        *)

LEMMA AddKeys ==
  ASSUME TypeOK, KeyInv, NEW t \in Timers, t \notin inserted,
         AddInLoop(t, timer'[t].expiration), t \in DOMAIN timer',
         \A u \in Made : u \in DOMAIN timer' /\ timer'[u] = timer[u],
         UNCHANGED <<expired, left, calling, canceling, lp, cancelled>>
  PROVE  KeysMatch' /\ KnownInv' /\ HandlerInv' /\ CancelledStaysOut'
<1> DEFINE new == [when |-> timer'[t].expiration, timer |-> t]
<1>1. timers' = timers \cup {new} /\ inserted' = inserted \cup {t}
  BY Zenon DEF AddInLoop
<1>2. new \notin expired
  BY DEF KeyInv, KnownInv
<1>3. \A e \in timers \cup expired : e.timer \in Made' /\ e = EntryOf(e.timer)'
  BY Zenon DEF KeyInv, KeysMatch, EntryOf, Made
<1>4. new.timer = t /\ t \in Made' /\ new = EntryOf(t)'
  BY Zenon DEF EntryOf, Made
<1>5. KeysMatch'
  BY <1>1, <1>2, <1>3, <1>4, Zenon DEF KeyInv, KeysMatch
<1>6. KnownInv' /\ HandlerInv'
  BY <1>1 DEF KeyInv, KnownInv, HandlerInv
<1>7. CancelledStaysOut'
  BY <1>1 DEF KeyInv, CancelledStaysOut, TypeOK, TimersIn
<1> QED
  BY <1>5, <1>6, <1>7, Zenon

LEMMA CancelKeys ==
  ASSUME TypeOK, KeyInv, NEW t, CancelInLoop(t), lp # "aborted",
         UNCHANGED <<expired, left, calling, timer, inserted, lp>>
  PROVE  KeysMatch' /\ KnownInv' /\ HandlerInv' /\ CancelledStaysOut'
<1>1. timers' \subseteq timers /\ canceling \subseteq canceling'
  BY Zenon DEF CancelInLoop
<1>2. KeysMatch' /\ KnownInv' /\ HandlerInv'
  BY <1>1, Zenon DEF KeyInv, KeysMatch, KnownInv, HandlerInv, EntryOf, Made
<1>3. \A u \in cancelled :
       u \notin TimersIn(timers') /\ (u \in TimersIn(expired) => u \in canceling')
  BY <1>1, Zenon DEF KeyInv, CancelledStaysOut, TimersIn
<1>4. t \notin TimersIn(timers')
  <2> SUFFICES ASSUME NEW e \in timers', e.timer = t PROVE FALSE
    BY Zenon DEF TimersIn
  <2>1. e \in timers /\ e = EntryOf(t) /\ Alive(t)
    BY <1>1, Zenon DEF KeyInv, KeysMatch, Alive, TimersIn
  <2> QED
    BY <2>1, Zenon DEF CancelInLoop
<1>5. t \in TimersIn(expired) => t \in canceling'
  <2> SUFFICES ASSUME NEW e \in expired, e.timer = t PROVE t \in canceling'
    BY Zenon DEF TimersIn
  <2>1. e = EntryOf(t) /\ EntryOf(t) \notin timers /\ Alive(t)
    BY Zenon DEF KeyInv, KeysMatch, Alive, TimersIn
  <2>2. calling
    BY Zenon DEF KeyInv, HandlerInv
  <2> QED
    BY <2>1, <2>2, Zenon DEF CancelInLoop
<1>6. cancelled' \subseteq cancelled \cup {t}
  BY Zenon DEF CancelInLoop
<1> QED
  BY <1>2, <1>3, <1>4, <1>5, <1>6, Zenon DEF CancelledStaysOut

LEMMA KeyStep == IInv /\ [Next]_vars => KeyInv'
<1> SUFFICES ASSUME TypeOK, KeyInv, [Next]_vars PROVE KeyInv'
  BY Zenon DEF IInv
<1> USE DEF time, queue
<1> DEFINE Keys == KeysMatch /\ KnownInv /\ HandlerInv /\ CancelledStaysOut
<1>a. KeysMatch /\ KnownInv /\ TasksInv /\ HandlerInv /\ CancelledStaysOut
  BY Zenon DEF KeyInv
<1>b. SUFFICES Keys' /\ TasksInv'
  BY Zenon DEF KeyInv
\* Steps that leave the entries, the tasks and the timers alone.
<1>c. ASSUME UNCHANGED <<timers, expired, left, calling, canceling, timer, inserted, cancelled>>,
             HandlerInv'
      PROVE  Keys'
  BY <1>a, <1>c, Zenon DEF KeysMatch, KnownInv, CancelledStaysOut, EntryOf, Made
<1>d. ASSUME UNCHANGED <<pendings, timer, inserted>> PROVE TasksInv'
  BY <1>a, <1>d, Zenon DEF TasksInv, Made
<1>1. CASE UNCHANGED vars
  BY <1>1, <1>a, <1>c, <1>d, Zenon DEF vars, HandlerInv
<1>2. ASSUME NEW t \in Timers, LoopAddTimer(t) PROVE Keys' /\ TasksInv'
  <2>1. PICK when \in Nat, interval \in Intervals \cup {Once} :
          Make(t, when, interval) /\ AddInLoop(t, when)
    BY <1>2, ArgumentsType DEF LoopAddTimer
  <2>2. /\ DOMAIN timer' = Made \cup {t} /\ timer'[t].expiration = when
        /\ \A u \in Made : timer'[u] = timer[u] /\ u # t
    BY <2>1, MakeType, Zenon
  <2>3. t \notin inserted /\ inserted' = inserted \cup {t}
    BY <2>1, <2>2, Zenon DEF TypeOK, AddInLoop
  <2>4. Keys'
    BY <1>2, <2>1, <2>2, <2>3, AddKeys DEF LoopAddTimer
  <2>5. TasksInv'
    BY <1>2, <1>a, <2>2, <2>3, Zenon DEF LoopAddTimer, TasksInv, Made
  <2> QED
    BY <2>4, <2>5, Zenon
<1>3. ASSUME NEW t \in Timers, LoopCancelTimer(t) PROVE Keys' /\ TasksInv'
  <2>1. Keys'
    BY <1>3, CancelKeys, Zenon DEF LoopCancelTimer, InUserCode
  <2> QED
    BY <1>3, <1>d, <2>1, Zenon DEF LoopCancelTimer
<1>4. ASSUME NEW t \in Timers, ThreadAddTimer(t) PROVE Keys' /\ TasksInv'
  <2>1. PICK when \in Nat, interval \in Intervals \cup {Once} : Make(t, when, interval)
    BY <1>4, ArgumentsType DEF ThreadAddTimer
  <2>2. /\ DOMAIN timer' = Made \cup {t}
        /\ \A u \in Made : timer'[u] = timer[u] /\ u # t
    BY <2>1, MakeType, Zenon
  <2>3. UNCHANGED <<lp, timers, expired, left, calling, canceling, inserted, cancelled>>
    BY <1>4, Zenon DEF ThreadAddTimer, QueueInLoop
  <2>4. Keys'
    BY <1>a, <2>2, <2>3, Zenon DEF KeysMatch, KnownInv, HandlerInv, CancelledStaysOut, EntryOf, Made
  <2>5. TasksInv'
    <3>1. /\ Len(pendings') = Len(pendings) + 1
          /\ \A i \in DOMAIN pendings : pendings'[i] = pendings[i]
          /\ pendings'[Len(pendings) + 1] = [op |-> "add", timer |-> t]
          /\ DOMAIN pendings' = DOMAIN pendings \cup {Len(pendings) + 1}
      BY <1>4, SMTT(30) DEF ThreadAddTimer, QueueInLoop, TypeOK
    <3>2. t \notin inserted
      BY <2>2, Zenon DEF TypeOK
    <3> QED
      BY <1>a, <2>2, <2>3, <3>1, <3>2 DEF TasksInv, Made
  <2> QED
    BY <2>4, <2>5
<1>5. ASSUME NEW t \in Timers, ThreadCancelTimer(t) PROVE Keys' /\ TasksInv'
  <2>1. UNCHANGED <<lp, timers, expired, left, calling, canceling, timer, inserted, cancelled>>
    BY <1>5, Zenon DEF ThreadCancelTimer, QueueInLoop
  <2>2. Keys'
    BY <1>a, <1>c, <2>1, Zenon DEF HandlerInv
  <2>3. TasksInv'
    <3>1. /\ \A i \in DOMAIN pendings : pendings'[i] = pendings[i]
          /\ pendings'[Len(pendings) + 1] = [op |-> "cancel", timer |-> t]
          /\ DOMAIN pendings' = DOMAIN pendings \cup {Len(pendings) + 1}
      BY <1>5, SMTT(30) DEF ThreadCancelTimer, QueueInLoop, TypeOK
    <3>2. t \in Made
      BY <1>5, Zenon DEF ThreadCancelTimer
    <3> QED
      BY <1>a, <2>1, <3>1, <3>2, SMTT(30) DEF TasksInv, Made
  <2> QED
    BY <2>2, <2>3, Zenon
<1>6. CASE Poll
  BY <1>6, <1>a, <1>c, <1>d, Zenon DEF Poll, HandlerInv
<1>7. CASE HandleExpired
  <2>1. expired' = Due /\ timers' = timers \ Due /\ Due \subseteq timers
    BY <1>7, Zenon DEF HandleExpired, Due
  <2>2. KeysMatch' /\ KnownInv'
    BY <1>7, <1>a, <2>1, Zenon DEF HandleExpired, KeysMatch, KnownInv, EntryOf, Made
  <2>3. CancelledStaysOut'
    BY <1>7, <1>a, <2>1, Zenon DEF HandleExpired, CancelledStaysOut, TimersIn
  <2>4. HandlerInv'
    BY <1>7, Zenon DEF HandleExpired, HandlerInv
  <2> QED
    BY <1>7, <1>d, <2>2, <2>3, <2>4, Zenon DEF HandleExpired
<1>8. CASE RunTimer
  <2>1. HandlerInv'
    BY <1>8, <1>a, Zenon DEF RunTimer, HandlerInv
  <2>2. KeysMatch' /\ KnownInv' /\ CancelledStaysOut'
    BY <1>8, <1>a, Zenon DEF RunTimer, KeysMatch, KnownInv, CancelledStaysOut, EntryOf, Made
  <2> QED
    BY <1>8, <1>d, <2>1, <2>2, Zenon DEF RunTimer
<1>9. CASE FinishExpired
  <2>1. \A t \in Restarted : t \in Made /\ t \in TimersIn(expired) /\ t \notin canceling
    BY <1>a, RestartedType, Zenon DEF Restarted
  <2>2. /\ DOMAIN timer' = Made
        /\ \A t \in Restarted : EntryOf(t)' = RestartedEntry(t)
        /\ \A t \in Made \ Restarted : EntryOf(t)' = EntryOf(t)
    BY <1>9, <2>1, Zenon DEF FinishExpired, EntryOf, RestartedEntry
  <2>3. \A e \in timers : e.timer \notin Restarted
    BY <1>a, <2>1 DEF KeysMatch, TimersIn
  <2>4. \A t : RestartedEntry(t).timer = t
    BY Zenon DEF RestartedEntry
  <2>5. timers' = timers \cup {RestartedEntry(t) : t \in Restarted} /\ expired' = {}
    BY <1>9, Zenon DEF FinishExpired
  <2>6. KeysMatch'
    BY <1>a, <2>1, <2>2, <2>3, <2>4, <2>5, SMTT(30) DEF KeysMatch, Made
  <2>7. KnownInv'
    BY <1>9, <1>a, <2>1, <2>4, <2>5, SMTT(30) DEF FinishExpired, KnownInv, TimersIn
  <2>8. CancelledStaysOut'
    BY <1>9, <1>a, <2>1, <2>4, <2>5 DEF FinishExpired, CancelledStaysOut, TimersIn
  <2>9. HandlerInv'
    BY <1>9, Zenon DEF FinishExpired, HandlerInv
  <2>10. TasksInv'
    BY <1>9, <1>a, <2>2, Zenon DEF FinishExpired, TasksInv, Made
  <2> QED
    BY <2>6, <2>7, <2>8, <2>9, <2>10, Zenon
<1>10. CASE SwapPendings
  BY <1>10, <1>a, <1>c, <1>d, Zenon DEF SwapPendings, HandlerInv
<1>11. CASE RunAdd
  <2> DEFINE t == Head(pendings).timer
  <2>1. /\ Head(pendings) = pendings[1] /\ 1 \in DOMAIN pendings
        /\ DOMAIN pendings' = 1 .. Len(pendings) - 1
        /\ \A i \in DOMAIN pendings' : /\ pendings'[i] = pendings[i + 1]
                                       /\ i + 1 \in DOMAIN pendings /\ i + 1 # 1
    BY <1>11 DEF RunAdd, TypeOK
  <2>2. t \in Made /\ t \in Timers /\ t \notin inserted
    BY <1>11, <1>a, <2>1 DEF TasksInv, TypeOK, RunAdd
  <2>3. AddInLoop(t, timer'[t].expiration) /\ inserted' = inserted \cup {t} /\ timer' = timer
    BY <1>11, Zenon DEF RunAdd, AddInLoop
  <2>4. UNCHANGED <<expired, left, calling, canceling, lp, cancelled>>
    BY <1>11, Zenon DEF RunAdd
  <2> HIDE DEF t
  <2>5. Keys'
    BY <2>2, <2>3, <2>4, AddKeys DEF Made
  <2>6. \A i \in DOMAIN pendings' : pendings'[i].op = "add" => pendings'[i].timer # t
    BY <1>11, <1>a, <2>1, SMTT(30) DEF TasksInv, RunAdd, t
  <2>7. TasksInv'
    BY <1>a, <2>1, <2>3, <2>6 DEF TasksInv, Made
  <2> QED
    BY <2>5, <2>7, Zenon
<1>12. CASE RunCancel
  <2>1. /\ DOMAIN pendings' = 1 .. Len(pendings) - 1
        /\ \A i \in DOMAIN pendings' : pendings'[i] = pendings[i + 1] /\ i + 1 \in DOMAIN pendings
    BY <1>12 DEF RunCancel, TypeOK
  <2>2. CancelInLoop(Head(pendings).timer) /\ lp # "aborted"
    BY <1>12, Zenon DEF RunCancel
  <2>3. UNCHANGED <<expired, left, calling, timer, inserted, lp>>
    BY <1>12, Zenon DEF RunCancel
  <2>4. Keys'
    BY <2>2, <2>3, CancelKeys, Zenon
  <2>5. TasksInv'
    BY <1>a, <2>1, <2>3 DEF TasksInv, Made
  <2> QED
    BY <2>4, <2>5
<1>13. CASE EndPendings
  BY <1>13, <1>a, <1>c, <1>d, Zenon DEF EndPendings, HandlerInv
<1>14. CASE Tick
  BY <1>14, <1>a, <1>c, <1>d, Zenon DEF Tick, HandlerInv
<1>15. CASE StepClock
  BY <1>15, <1>a, <1>c, <1>d, Zenon DEF StepClock, HandlerInv
<1> QED
  BY <1>1, <1>2, <1>3, <1>4, <1>5, <1>6, <1>7, <1>8, <1>9, <1>10, <1>11, <1>12, <1>13, <1>14,
     <1>15, Zenon DEF Next, LoopStep, UserStep

-----------------------------------------------------------------------------
(* The timerfd.                                                            *)

LEMMA HowLongMono ==
  ASSUME TypeOK, NEW v \in Nat, NEW w \in Nat, v <= w
  PROVE  how_long_from_now(v) <= how_long_from_now(w)
  BY DEF TypeOK, how_long_from_now

\* AddTimer arms the timerfd when it has to.
LEMMA AddArms ==
  ASSUME TypeOK, ZeroInv, ArmedForAll, NEW t \in Timers, NEW when \in Nat,
         AddInLoop(t, when), UNCHANGED <<now, steps, lp>>
  PROVE  ZeroInv' /\ ArmedForAll'
<1>1. timers' = timers \cup {[when |-> when, timer |-> t]} /\ timers \subseteq Entry
  BY Zenon DEF AddInLoop, TypeOK
<1>2. \A e \in timers : e.when \in Nat
  BY <1>1, Zenon DEF Entry
<1>3. how_long_from_now(when) \in Nat \ {0} /\ OFF \notin Nat
  BY HowLong DEF OFF
<1>4. \A w \in Nat : how_long_from_now(w)' = how_long_from_now(w)
  BY Zenon DEF how_long_from_now
<1>5. CASE EarliestChanged(when)
  <2>1. timerfd' = how_long_from_now(when)
    BY <1>5, Zenon DEF AddInLoop
  <2>2. \A e \in timers : when < e.when
    BY <1>1, <1>2, <1>5, LeastIsLeast, SMTT(30) DEF EarliestChanged
  <2>3. when = 0 => timerfd' = 1
    BY <2>1 DEF how_long_from_now, TypeOK
  <2>4. ZeroInv'
    BY <1>1, <1>2, <2>2, <2>3 DEF ZeroInv, InvalidTimePoint
  <2>5. \A e \in timers' : e.when \in Nat /\ when <= e.when
    BY <1>1, <1>2, <2>2
  <2>6. \A e \in timers' : timerfd' <= how_long_from_now(e.when)'
    BY <1>4, <2>1, <2>5, HowLongMono, Zenon
  <2> QED
    BY <1>3, <2>1, <2>4, <2>6, Zenon DEF ArmedForAll
<1>6. CASE ~EarliestChanged(when)
  <2> DEFINE l == Least(timers)
  <2>1. timerfd' = timerfd
    BY <1>6, Zenon DEF AddInLoop
  <2>2. l \in timers /\ l.when \in Nat /\ l.when <= when
    BY <1>1, <1>2, <1>6, LeastIsLeast DEF EarliestChanged
  <2> HIDE DEF l
  <2>3. when = 0 => timerfd \in {0, 1}
    BY <2>2 DEF ZeroInv, InvalidTimePoint
  <2>4. ZeroInv'
    BY <1>1, <2>1, <2>3 DEF ZeroInv, InvalidTimePoint
  <2>5. how_long_from_now(l.when) <= how_long_from_now(when)
    BY <2>2, HowLongMono, Zenon
  <2>6. how_long_from_now(l.when) \in Nat
    BY <2>2, HowLong, Zenon
  <2>7. lp \notin {"calling", "aborted"} =>
          timerfd # OFF /\ (steps = 0 => timerfd <= how_long_from_now(when))
    BY <1>3, <2>2, <2>5, <2>6, SMTT(30) DEF ArmedForAll, TypeOK, OFF
  <2> QED
    BY <1>1, <1>2, <1>4, <2>1, <2>4, <2>7 DEF ArmedForAll
<1> QED
  BY <1>5, <1>6, Zenon

\* Whatever takes entries out and leaves the timerfd and the clock alone is harmless.
LEMMA FewerArmed ==
  ASSUME TypeOK, ZeroInv, ArmedForAll, timers' \subseteq timers, UNCHANGED <<timerfd, now, steps>>,
         lp' \notin {"calling", "aborted"} => lp \notin {"calling", "aborted"}
  PROVE  ZeroInv' /\ ArmedForAll'
  BY Zenon DEF ZeroInv, ArmedForAll, how_long_from_now

LEMMA ArmStep == IInv /\ [Next]_vars => ZeroInv' /\ ArmedForAll'
<1> SUFFICES ASSUME TypeOK, KeyInv, ZeroInv, ArmedForAll, [Next]_vars PROVE ZeroInv' /\ ArmedForAll'
  BY Zenon DEF IInv
<1> USE DEF time, queue
<1>1. CASE UNCHANGED vars
  BY <1>1, FewerArmed, Zenon DEF vars
<1>2. ASSUME NEW t \in Timers, LoopAddTimer(t) PROVE ZeroInv' /\ ArmedForAll'
  <2>1. PICK when \in Nat : AddInLoop(t, when)
    BY <1>2, ArgumentsType, Zenon DEF LoopAddTimer
  <2> QED
    BY <1>2, <2>1, AddArms, Zenon DEF LoopAddTimer
<1>3. ASSUME NEW t \in Timers, LoopCancelTimer(t) PROVE ZeroInv' /\ ArmedForAll'
  BY <1>3, FewerArmed, Zenon DEF LoopCancelTimer, CancelInLoop
<1>4. ASSUME NEW t \in Timers, ThreadAddTimer(t) \/ ThreadCancelTimer(t)
      PROVE  ZeroInv' /\ ArmedForAll'
  BY <1>4, FewerArmed, Zenon DEF ThreadAddTimer, ThreadCancelTimer, QueueInLoop
<1>5. CASE Poll \/ RunTimer \/ SwapPendings \/ EndPendings
  BY <1>5, FewerArmed, Zenon DEF Poll, RunTimer, SwapPendings, EndPendings
<1>6. CASE HandleExpired
  <2>1. timers' = timers \ Due /\ lp' \in {"calling", "aborted"}
    BY <1>6, Zenon DEF HandleExpired
  <2>2. \A e \in timers' : e.when # 0
    BY <2>1 DEF Due, TypeOK, Entry
  <2> QED
    BY <2>1, <2>2, Zenon DEF ZeroInv, ArmedForAll, InvalidTimePoint
<1>7. CASE FinishExpired
  <2>1. timers' = timers \cup {RestartedEntry(t) : t \in Restarted}
    BY <1>7, Zenon DEF FinishExpired
  <2>2. \A t \in Restarted : RestartedEntry(t) \in Entry /\ RestartedEntry(t).when # 0
    BY RestartedType, Zenon DEF RestartedEntry, KeyInv
  <2>3. timers' \subseteq Entry /\ \A e \in timers' : e.when \in Nat /\ (e.when = 0 => e \in timers)
    BY <2>1, <2>2 DEF TypeOK, Entry
  <2>4. UNCHANGED <<now, steps>> /\ \A w \in Nat : how_long_from_now(w)' = how_long_from_now(w)
    BY <1>7, Zenon DEF FinishExpired, how_long_from_now
  <2>5. CASE timers' = {}
    BY <2>5, Zenon DEF ZeroInv, ArmedForAll
  <2>6. CASE timers' # {}
    <3> DEFINE l == Least(timers')
    <3>1. l \in timers' /\ l.when \in Nat /\ \A e \in timers' : l.when <= e.when
      BY <2>3, <2>6, LeastIsLeast, Zenon
    <3>2. timerfd' = IF l.when # 0 THEN how_long_from_now(l.when) ELSE timerfd
      BY <1>7, <2>6, Zenon DEF FinishExpired, Rearmed, InvalidTimePoint
    <3> HIDE DEF l
    <3>3. CASE l.when # 0
      <4>1. how_long_from_now(l.when) \in Nat /\ OFF \notin Nat
        BY <3>1, HowLong, SMTT(30) DEF OFF
      <4>2. \A e \in timers' : timerfd' <= how_long_from_now(e.when)' /\ e.when # 0
        BY <2>3, <2>4, <3>1, <3>2, <3>3, HowLongMono, SMTT(30)
      <4> QED
        BY <3>2, <3>3, <4>1, <4>2, Zenon DEF ZeroInv, ArmedForAll, InvalidTimePoint
    <3>4. CASE l.when = 0
      <4>1. timerfd' \in {0, 1}
        BY <2>3, <3>1, <3>2, <3>4, Zenon DEF ZeroInv, InvalidTimePoint
      <4>2. \A e \in timers' : how_long_from_now(e.when)' \in Nat \ {0}
        BY <2>3, <2>4, HowLong, Zenon
      <4>3. \A e \in timers' : timerfd' <= how_long_from_now(e.when)'
        BY <4>1, <4>2
      <4> QED
        BY <4>1, <4>3 DEF ZeroInv, ArmedForAll, OFF
    <3> QED
      BY <3>3, <3>4, Zenon
  <2> QED
    BY <2>5, <2>6, Zenon
<1>8. CASE RunAdd
  <2> DEFINE t == Head(pendings).timer
  <2>1. Head(pendings) = pendings[1] /\ 1 \in DOMAIN pendings
    BY <1>8, SMTT(30) DEF RunAdd, TypeOK
  <2>2. t \in Timers /\ t \in Made
    BY <2>1 DEF KeyInv, TasksInv, TypeOK
  <2>3. timer[t].expiration \in Nat
    BY <2>2 DEF TypeOK
  <2>4. AddInLoop(t, timer[t].expiration) /\ UNCHANGED <<now, steps, lp>>
    BY <1>8, Zenon DEF RunAdd
  <2> HIDE DEF t
  <2> QED
    BY <2>2, <2>3, <2>4, AddArms, Zenon
<1>9. CASE RunCancel
  BY <1>9, FewerArmed, Zenon DEF RunCancel, CancelInLoop
<1>10. CASE Tick
  <2>1. /\ now \in Nat /\ timerfd \in Int /\ (now' = now \/ now' = now + 1)
        /\ timerfd' = IF timerfd > 0 THEN timerfd - 1 ELSE timerfd
        /\ UNCHANGED <<timers, lp, steps>>
    BY <1>10 DEF Tick, TypeOK, OFF
  <2>2. ZeroInv'
    BY <2>1 DEF ZeroInv
  <2>3. ASSUME NEW w \in Nat, timerfd <= how_long_from_now(w)
        PROVE  timerfd' <= how_long_from_now(w)'
    BY <2>1, <2>3 DEF how_long_from_now
  <2>4. timerfd # OFF => timerfd' # OFF
    BY <2>1 DEF OFF
  <2>5. \A e \in timers : e.when \in Nat
    BY Zenon DEF TypeOK, Entry
  <2> QED
    BY <2>1, <2>2, <2>3, <2>4, <2>5, Zenon DEF ArmedForAll
<1>11. CASE StepClock
  <2>1. steps' # 0 /\ UNCHANGED <<timers, timerfd, lp>>
    BY <1>11 DEF StepClock, TypeOK
  <2> QED
    BY <2>1, Zenon DEF ZeroInv, ArmedForAll
<1> QED
  BY <1>1, <1>2, <1>3, <1>4, <1>5, <1>6, <1>7, <1>8, <1>9, <1>10, <1>11, Zenon
     DEF Next, LoopStep, UserStep

-----------------------------------------------------------------------------
(* The theorems.                                                           *)

LEMMA Invariance == Spec => []IInv
<1>1. IInv /\ [Next]_vars => IInv'
  BY TypeStep, KeyStep, ArmStep, Zenon DEF IInv
<1> QED
  BY <1>1, InitInv, PTL DEF Spec

\* The members of TimerQueue and the Timer objects keep their types.
THEOREM TypeCorrect == Spec => []TypeOK
<1>1. IInv => TypeOK
  BY Zenon DEF IInv
<1> QED
  BY <1>1, Invariance, PTL

\* insert and CancelTimer agree on the key of every timer: timers_ holds it under its
\* current expiration, although Restart changes the expiration of a live timer.
THEOREM KeysCorrect == Spec => []KeysMatch
<1>1. IInv => KeysMatch
  BY Zenon DEF IInv, KeyInv
<1> QED
  BY <1>1, Invariance, PTL

\* No cancelled timer is ever put back into timers_, whoever cancels it and wherever
\* the expiry handler is.
THEOREM CancelCorrect == Spec => []CancelledStaysOut
<1>1. IInv => CancelledStaysOut
  BY Zenon DEF IInv, KeyInv
<1> QED
  BY <1>1, Invariance, PTL

\* A timer never waits in timers_ without the timerfd being armed, and early enough
\* while the wall clock is not stepped.
THEOREM ArmedCorrect == Spec => []ArmedForEarliest
<1>1. IInv => ArmedForEarliest
  <2> SUFFICES ASSUME IInv, lp \notin {"calling", "aborted"}, timers # {}
               PROVE  /\ timerfd # OFF
                      /\ steps = 0 => timerfd <= how_long_from_now(Least(timers).when)
    BY Zenon DEF ArmedForEarliest
  <2>1. Least(timers) \in timers
    BY LeastIsLeast, Zenon DEF IInv, TypeOK
  <2> QED
    BY <2>1, Zenon DEF IInv, ArmedForAll
<1> QED
  BY <1>1, Invariance, PTL
===============================================================================
