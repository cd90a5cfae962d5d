--------------------------- MODULE EventLoopProofs ---------------------------
(***************************************************************************)
(* Theorems about EventLoop for any number of callers, functors and        *)
(* channels, any eventfd limit and either kind of build.                   *)
(***************************************************************************)
EXTENDS EventLoop, SequenceTheorems, TLAPS

(* What the loop thread's position says of its own flags and vectors.  The *)
(* two facts make NoLostWakeup inductive: a functor queued by a functor is *)
(* seen with calling_pendings_ set, and the vector swapped out is empty    *)
(* whenever pendings_ is about to be swapped again.                        *)
Phases ==
  /\ calling_pendings <=> pc \in {"calling", "functor"}
  /\ tmp_pendings # <<>> => pc \in {"calling", "functor"}

\* Appending to the last part appends to the whole.
LEMMA AppendLast ==
  ASSUME NEW S, NEW a \in Seq(S), NEW b \in Seq(S), NEW e \in S
  PROVE  a \o Append(b, e) = Append(a \o b, e)
OBVIOUS

\* Moving the head of the second part to the first leaves the whole.
LEMMA HeadOver ==
  ASSUME NEW S, NEW a \in Seq(S), NEW b \in Seq(S), b # <<>>
  PROVE  Append(a, Head(b)) \o Tail(b) = a \o b
BY SMTT(30)

LEMMA ConcatEmpty ==
  ASSUME NEW S, NEW a \in Seq(S)
  PROVE  a \o <<>> = a /\ <<>> \o a = a
OBVIOUS

-----------------------------------------------------------------------------
(* Type correctness.                                                       *)

LEMMA EventfdWriteType ==
  ASSUME NEW n \in 0 .. EventfdMax
  PROVE  EventfdWrite(n) \in 1 .. EventfdMax
BY EventLoopAssumption DEF EventfdWrite

LEMMA InitTypeOK == Init => TypeOK
<1> SUFFICES ASSUME Init PROVE TypeOK
  BY Zenon
<1>1. <<>> \in Seq(Functors)
  OBVIOUS
<1>2. /\ running \in BOOLEAN /\ quitting \in BOOLEAN /\ calling_pendings \in BOOLEAN
      /\ call \in [Callers -> {"idle", "wake"}]
  BY DEF Init
<1>3. wakeup_fd \in 0 .. EventfdMax /\ events_size \in Nat \ {0}
  BY EventLoopAssumption DEF Init
<1>4. QED
  BY <1>1, <1>2, <1>3, Zenon DEF Init, TypeOK

LEMMA NextTypeOK == TypeOK /\ [Next]_vars => TypeOK'
<1> SUFFICES ASSUME TypeOK, [Next]_vars PROVE TypeOK'
  BY Zenon
<1> USE EventLoopAssumption DEF TypeOK, loopVars, queueVars
<1>1. CASE Start BY <1>1 DEF Start
<1>2. CASE While BY <1>2 DEF While
<1>3. CASE PollReady BY <1>3 DEF PollReady, ReadyChannels
<1>4. CASE HandleWakeup BY <1>4 DEF HandleWakeup
<1>5. ASSUME NEW ch \in Channels, HandleChannel(ch) PROVE TypeOK'
  BY <1>5, Zenon DEF HandleChannel
<1>6. CASE HandleChannelReturn BY <1>6, Zenon DEF HandleChannelReturn
<1>7. CASE SwapPendings BY <1>7 DEF SwapPendings
<1>8. CASE CallPending
  <2>1. /\ Head(tmp_pendings) \in Functors
        /\ Tail(tmp_pendings) \in Seq(Functors)
    BY <1>8, HeadTailProperties, Zenon DEF CallPending
  <2>2. QED BY <1>8, <2>1, SMTT(30) DEF CallPending
<1>9. CASE CallPendingReturn BY <1>9, Zenon DEF CallPendingReturn
<1>10. CASE EndPendings BY <1>10 DEF EndPendings
<1>11. CASE PollNothing BY <1>11, Zenon DEF PollNothing
<1>12. CASE LoopStop BY <1>12, Zenon DEF LoopStop
<1>13. ASSUME NEW f \in Functors, LoopQueueInLoop(f) PROVE TypeOK'
  <2>1. wakeup_fd' \in 0 .. EventfdMax
    BY <1>13, EventfdWriteType DEF LoopQueueInLoop
  <2>2. QED BY <1>13, <2>1 DEF LoopQueueInLoop, Push
<1>14. ASSUME NEW f \in Functors, LoopRunInLoop(f) PROVE TypeOK'
  BY <1>14, Zenon DEF LoopRunInLoop
<1>15. ASSUME NEW c \in Callers, CallerStop(c) PROVE TypeOK'
  BY <1>15, Zenon DEF CallerStop
<1>16. ASSUME NEW c \in Callers, CallerWake(c) PROVE TypeOK'
  <2>1. wakeup_fd' \in 0 .. EventfdMax
    BY <1>16, EventfdWriteType DEF CallerWake
  <2>2. QED BY <1>16, <2>1, Zenon DEF CallerWake
<1>17. ASSUME NEW c \in Callers, NEW f \in Functors, CallerQueueInLoop(c, f)
       PROVE TypeOK'
  BY <1>17 DEF CallerQueueInLoop, Push
<1>18. ASSUME NEW ch \in Channels, ChannelReady(ch) PROVE TypeOK'
  BY <1>18, Zenon DEF ChannelReady
<1>19. CASE UNCHANGED vars BY <1>19 DEF vars
<1>20. ASSUME LoopStep PROVE TypeOK'
  BY <1>20, <1>1, <1>2, <1>3, <1>4, <1>5, <1>6, <1>7, <1>8, <1>9, <1>10, Zenon DEF LoopStep
<1>21. QED
  BY <1>11, <1>12, <1>13, <1>14, <1>15, <1>16, <1>17, <1>18, <1>19, <1>20, Zenon DEF Next

\* The variables of the loop, of its threads and of its histories keep their types.
THEOREM TypeCorrect == Spec => []TypeOK
BY InitTypeOK, NextTypeOK, PTL DEF Spec

-----------------------------------------------------------------------------
(* The order of the functors.                                              *)

LEMMA NextPhases == TypeOK /\ Phases /\ [Next]_vars => Phases'
<1> SUFFICES ASSUME TypeOK, Phases, [Next]_vars PROVE Phases'
  BY Zenon
<1> USE DEF Phases, loopVars
<1>1. CASE Start BY <1>1, Zenon DEF Start
<1>2. CASE While BY <1>2, Zenon DEF While
<1>3. CASE PollReady BY <1>3, Zenon DEF PollReady
<1>4. CASE HandleWakeup BY <1>4, Zenon DEF HandleWakeup
<1>5. ASSUME NEW ch \in Channels, HandleChannel(ch) PROVE Phases'
  BY <1>5, Zenon DEF HandleChannel
<1>6. CASE HandleChannelReturn BY <1>6, Zenon DEF HandleChannelReturn
<1>7. CASE SwapPendings BY <1>7, Zenon DEF SwapPendings
<1>8. CASE CallPending BY <1>8, Zenon DEF CallPending
<1>9. CASE CallPendingReturn BY <1>9, Zenon DEF CallPendingReturn
<1>10. CASE EndPendings BY <1>10, Zenon DEF EndPendings
<1>11. CASE PollNothing BY <1>11, Zenon DEF PollNothing
<1>12. CASE UNCHANGED loopVars BY <1>12, SMTT(30)
<1>13. QED
  BY <1>1, <1>2, <1>3, <1>4, <1>5, <1>6, <1>7, <1>8, <1>9, <1>10, <1>11, <1>12, Zenon
  DEF Next, LoopStep, vars, LoopStop, LoopQueueInLoop, LoopRunInLoop, CallerStop,
      CallerWake, CallerQueueInLoop, ChannelReady

LEMMA NextQueueOrder ==
  TypeOK /\ Phases /\ QueueOrder /\ [Next]_vars => QueueOrder'
<1> SUFFICES ASSUME TypeOK, Phases, QueueOrder, [Next]_vars PROVE QueueOrder'
  BY Zenon
<1> USE DEF QueueOrder
<1>a. /\ pendings \in Seq(Functors) /\ tmp_pendings \in Seq(Functors)
      /\ ran \in Seq(Functors) /\ ran \o tmp_pendings \in Seq(Functors)
  BY ConcatProperties, Zenon DEF TypeOK
<1>1. CASE SwapPendings
  <2>1. tmp_pendings = <<>>
    BY <1>1, Zenon DEF SwapPendings, Phases
  <2>2. ran' \o tmp_pendings' \o pendings' = ran \o tmp_pendings \o pendings
    BY <1>1, <2>1, <1>a, ConcatEmpty DEF SwapPendings
  <2>3. QED BY <1>1, <2>2, Zenon DEF SwapPendings
<1>2. CASE CallPending
  <2>1. Append(ran, Head(tmp_pendings)) \o Tail(tmp_pendings) \o pendings
          = ran \o tmp_pendings \o pendings
    <3>1. tmp_pendings # <<>> BY <1>2, Zenon DEF CallPending
    <3>2. QED BY <3>1, <1>a, HeadOver, Zenon
  <2>2. QED BY <1>2, <2>1, Zenon DEF CallPending, queueVars
<1>3. ASSUME NEW f \in Functors, Push(f), UNCHANGED <<ran, tmp_pendings>>
      PROVE QueueOrder'
  <2>1. PICK a \in Seq(Functors) : a = ran \o tmp_pendings
    BY <1>a, Zenon
  <2>2. a \o Append(pendings, f) = Append(a \o pendings, f)
    BY <1>a, AppendLast, SMTT(30)
  <2>3. QED BY <1>3, <2>1, <2>2, Zenon DEF Push
<1>4. CASE UNCHANGED <<queued, ran, tmp_pendings, pendings>>
  BY <1>4, Zenon
<1>5. QED
  BY <1>1, <1>2, <1>3, <1>4
  DEF Next, LoopStep, vars, loopVars, queueVars, Start, While, PollReady, HandleWakeup,
      HandleChannel, HandleChannelReturn, CallPendingReturn, EndPendings, PollNothing,
      LoopStop, LoopQueueInLoop, LoopRunInLoop, CallerStop, CallerWake,
      CallerQueueInLoop, ChannelReady

\* Whatever threads queue functors, and whenever, the loop calls them exactly once
\* each and in the order of the pushes into pendings_.
THEOREM OrderCorrect == Spec => []QueueOrder
<1>1. Init => Phases /\ QueueOrder
  <2> SUFFICES ASSUME Init PROVE Phases /\ QueueOrder
    BY Zenon
  <2>1. Phases BY Zenon DEF Init, Phases
  <2>2. QueueOrder BY SMTT(30) DEF Init, QueueOrder
  <2>3. QED BY <2>1, <2>2, Zenon
<1>2. QED
  BY <1>1, TypeCorrect, NextPhases, NextQueueOrder, PTL DEF Spec

-----------------------------------------------------------------------------
(* Wakeups.                                                                *)

\* An active WakeupComing lasts until the loop thread drains the eventfd.
LEMMA WakeupLasts ==
  ASSUME TypeOK, [Next]_vars, WakeupComing, ~HandleWakeup
  PROVE  WakeupComing'
<1> USE DEF WakeupComing, loopVars, queueVars
<1>1. ASSUME NEW f \in Functors, LoopQueueInLoop(f) PROVE WakeupComing'
  <2>1. EventfdWrite(wakeup_fd) > 0
    BY EventfdWriteType DEF TypeOK
  <2>2. QED BY <1>1, <2>1, Zenon DEF LoopQueueInLoop
<1>2. ASSUME NEW c \in Callers, CallerWake(c) PROVE WakeupComing'
  <2>1. EventfdWrite(wakeup_fd) > 0
    BY EventfdWriteType DEF TypeOK
  <2>2. QED BY <1>2, <2>1, Zenon DEF CallerWake
<1>3. ASSUME NEW c \in Callers, CallerStop(c) PROVE WakeupComing'
  BY <1>3, Zenon DEF CallerStop, TypeOK
<1>4. ASSUME NEW c \in Callers, NEW f \in Functors, CallerQueueInLoop(c, f)
      PROVE WakeupComing'
  BY <1>4, Zenon DEF CallerQueueInLoop, TypeOK
<1>5. CASE UNCHANGED <<wakeup_fd, call>>
  BY <1>5, Zenon
<1>6. QED
  BY <1>1, <1>2, <1>3, <1>4, <1>5
  DEF Next, LoopStep, vars, Start, While, PollReady, HandleChannel,
      HandleChannelReturn, SwapPendings, CallPending, CallPendingReturn, EndPendings,
      PollNothing, LoopStop, LoopRunInLoop, ChannelReady

LEMMA NextNoLostWakeup ==
  TypeOK /\ Phases /\ NoLostWakeup /\ [Next]_vars => NoLostWakeup'
<1> SUFFICES ASSUME TypeOK, Phases, NoLostWakeup, [Next]_vars,
                    pc' \in {"init", "while", "poll", "calling", "functor"},
                    PromptPending'
             PROVE  WakeupComing'
  BY Zenon DEF NoLostWakeup
<1> USE DEF queueVars, loopVars
<1>1. ASSUME NEW c \in Callers, NEW f \in Functors, CallerQueueInLoop(c, f)
      PROVE  WakeupComing'
  BY <1>1, Zenon DEF CallerQueueInLoop, WakeupComing, TypeOK
<1>2. ASSUME NEW f \in Functors, LoopQueueInLoop(f) PROVE WakeupComing'
  <2>1. CASE calling_pendings
    <3>1. wakeup_fd' = EventfdWrite(wakeup_fd) BY <1>2, <2>1, Zenon DEF LoopQueueInLoop
    <3>2. wakeup_fd' > 0 BY <3>1, EventfdWriteType DEF TypeOK
    <3>3. QED BY <3>2, Zenon DEF WakeupComing
  <2>2. CASE ~calling_pendings
    \* The loop thread is still before Start: f is an early functor.
    <3>1. pc = "init" /\ pc' = pc
      BY <1>2, <2>2, Zenon DEF LoopQueueInLoop, InUserCode, Phases
    <3>2. early' = early \cup {f} /\ pendings' = Append(pendings, f)
      BY <1>2, <3>1, Zenon DEF LoopQueueInLoop, Push
    <3>3. PromptPending
      BY <3>2 DEF PromptPending, TypeOK
    <3>4. WakeupComing BY <3>1, <3>3, Zenon DEF NoLostWakeup
    <3>5. ~HandleWakeup BY <3>1, Zenon DEF HandleWakeup
    <3>6. QED BY <3>4, <3>5, WakeupLasts, Zenon
  <2>3. QED BY <2>1, <2>2, Zenon
<1>3. CASE SwapPendings
  BY <1>3 DEF SwapPendings, PromptPending
<1>4. CASE UNCHANGED <<pendings, early>> /\ ~SwapPendings
  <2>1. PromptPending BY <1>4, Zenon DEF PromptPending
  <2>2. pc \in {"init", "while", "poll", "calling", "functor"} /\ ~HandleWakeup
    BY <1>4, Zenon DEF TypeOK, Next, LoopStep, vars, Start, While, PollReady, HandleWakeup,
      HandleChannel, HandleChannelReturn, CallPending, CallPendingReturn,
      EndPendings, PollNothing, LoopStop, LoopQueueInLoop, LoopRunInLoop, CallerStop,
      CallerWake, CallerQueueInLoop, ChannelReady
  <2>3. QED BY <2>1, <2>2, WakeupLasts, Zenon DEF NoLostWakeup
<1>5. QED
  BY <1>1, <1>2, <1>3, <1>4, Zenon
  DEF Next, LoopStep, vars, Start, While, PollReady, HandleWakeup,
      HandleChannel, HandleChannelReturn, CallPending, CallPendingReturn, EndPendings,
      PollNothing, LoopStop, LoopRunInLoop, CallerStop, CallerWake, ChannelReady

\* Neither QueueInLoop nor the loop can interleave so that the loop sleeps in
\* epoll_wait on a functor it was handed after Start, or by another thread.
THEOREM WakeupCorrect == Spec => []NoLostWakeup
<1>1. Init => Phases /\ NoLostWakeup
  <2> SUFFICES ASSUME Init PROVE Phases /\ NoLostWakeup
    OBVIOUS
  <2>1. Phases BY DEF Init, Phases
  <2>2. NoLostWakeup BY SMTT(30) DEF Init, NoLostWakeup, PromptPending
  <2>3. QED BY <2>1, <2>2
<1>2. QED
  BY <1>1, TypeCorrect, NextPhases, NextNoLostWakeup, PTL DEF Spec

LEMMA NextNoLostStop == TypeOK /\ NoLostStop /\ [Next]_vars => NoLostStop'
<1> SUFFICES ASSUME TypeOK, NoLostStop, [Next]_vars, pc' = "poll", quitting'
             PROVE  WakeupComing'
  BY Zenon DEF NoLostStop
<1> USE DEF queueVars, loopVars
<1>1. ASSUME NEW c \in Callers, CallerStop(c) PROVE WakeupComing'
  BY <1>1, Zenon DEF CallerStop, WakeupComing, TypeOK
<1>2. CASE pc = "poll" /\ quitting
  <2>1. ~HandleWakeup BY <1>2, Zenon DEF HandleWakeup
  <2>2. QED BY <1>2, <2>1, WakeupLasts, Zenon DEF NoLostStop
<1>3. QED
  BY <1>1, <1>2, ZenonT(40)
  DEF Next, LoopStep, vars, Start, While, PollReady, HandleWakeup,
      HandleChannel, HandleChannelReturn, SwapPendings, CallPending, CallPendingReturn,
      EndPendings, PollNothing, LoopStop, LoopQueueInLoop, LoopRunInLoop, InUserCode,
      CallerWake, CallerQueueInLoop, ChannelReady

\* Nor can Stop and the loop: the loop never sleeps in epoll_wait with quitting_ set.
THEOREM StopCorrect == Spec => []NoLostStop
<1>1. Init => NoLostStop BY Zenon DEF Init, NoLostStop
<1>2. QED BY <1>1, TypeCorrect, NextNoLostStop, PTL DEF Spec

-----------------------------------------------------------------------------
(* The loop implements the executor.                                       *)

LEMMA ExecutorInit == Init => Executor!Init
<1> SUFFICES ASSUME Init PROVE Executor!Init
  OBVIOUS
<1>1. tmp_pendings \o pendings = <<>> /\ ran = <<>>
  BY ConcatEmpty, SMTT(30) DEF Init
<1>2. QED BY <1>1 DEF Init, Executor!Init

LEMMA ExecutorNext ==
  TypeOK /\ Phases /\ [Next]_vars => [Executor!Next]_(Executor!vars)
<1> SUFFICES ASSUME TypeOK, Phases, [Next]_vars
             PROVE  [Executor!Next]_(Executor!vars)
  BY Zenon
<1> USE DEF queueVars, loopVars
<1>a. pendings \in Seq(Functors) /\ tmp_pendings \in Seq(Functors)
  BY Zenon DEF TypeOK
<1>1. CASE SwapPendings
  <2>1. tmp_pendings = <<>>
    BY <1>1, Zenon DEF SwapPendings, Phases
  <2>2. (tmp_pendings \o pendings)' = tmp_pendings \o pendings
    BY <1>1, <2>1, <1>a DEF SwapPendings
  <2>3. QED BY <1>1, <2>2 DEF SwapPendings, Executor!vars
<1>2. CASE CallPending
  <2>1. tmp_pendings # <<>> BY <1>2, Zenon DEF CallPending
  <2>2. /\ Head(tmp_pendings \o pendings) = Head(tmp_pendings)
        /\ Tail(tmp_pendings \o pendings) = Tail(tmp_pendings) \o pendings
        /\ tmp_pendings \o pendings # <<>>
    BY <2>1, <1>a
  <2>3. Executor!Run
    BY <1>2, <2>2, SMTT(30) DEF CallPending, Executor!Run
  <2>4. QED BY <2>3, Zenon DEF Executor!Next
<1>3. ASSUME NEW f \in Functors, Push(f), UNCHANGED <<pc, ran, quitting, tmp_pendings>>
      PROVE  [Executor!Next]_(Executor!vars)
  <2>1. tmp_pendings \o Append(pendings, f) = Append(tmp_pendings \o pendings, f)
    BY <1>a, AppendLast
  <2>2. Executor!Submit(f) BY <1>3, <2>1, Zenon DEF Push, Executor!Submit
  <2>3. QED BY <2>2, Zenon DEF Executor!Next
<1>4. CASE LoopStop \/ \E c \in Callers : CallerStop(c)
  <2>1. Executor!Stop BY <1>4, Zenon DEF LoopStop, CallerStop, Executor!Stop
  <2>2. QED BY <2>1, Zenon DEF Executor!Next
<1>5. CASE Start
  <2>1. CASE quitting /\ ~NDEBUG
    <3>1. Executor!Close BY <1>5, <2>1, Zenon DEF Start, Executor!Close
    <3>2. QED BY <3>1, Zenon DEF Executor!Next
  <2>2. CASE ~(quitting /\ ~NDEBUG)
    BY <1>5, <2>2 DEF Start, Executor!vars
  <2>3. QED BY <2>1, <2>2, Zenon
<1>6. CASE While
  <2>1. CASE quitting
    <3>1. Executor!Close BY <1>6, <2>1, Zenon DEF While, Executor!Close
    <3>2. QED BY <3>1 DEF Executor!Next
  <2>2. CASE ~quitting
    BY <1>6, <2>2 DEF While, Executor!vars
  <2>3. QED BY <2>1, <2>2, Zenon
<1>7. CASE /\ UNCHANGED <<pendings, tmp_pendings, ran, quitting>>
           /\ (pc \in {"done", "aborted"})' = (pc \in {"done", "aborted"})
  BY <1>7, Zenon DEF Executor!vars
<1>8. QED
  BY <1>1, <1>2, <1>3, <1>4, <1>5, <1>6, <1>7, SMTT(30)
  DEF Next, LoopStep, vars, PollReady, HandleWakeup, HandleChannel,
      HandleChannelReturn, CallPendingReturn, EndPendings, PollNothing,
      LoopQueueInLoop, LoopRunInLoop, CallerWake, CallerQueueInLoop, ChannelReady

\* The two vectors, the mutex and the eventfd implement one FIFO queue served one
\* functor at a time by a loop that stops only when told to.
THEOREM LoopImplementsExecutor == Spec => ExecutorSafe
<1>1. Init => Phases BY Zenon DEF Init, Phases
<1>2. QED
  BY <1>1, ExecutorInit, ExecutorNext, NextPhases, TypeCorrect, PTL
  DEF Spec, ExecutorSafe, Executor!Spec
=============================================================================
