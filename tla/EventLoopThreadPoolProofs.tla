---------------------- MODULE EventLoopThreadPoolProofs ---------------------
(***************************************************************************)
(* The safety properties of EventLoopThreadPool, for any number of threads *)
(* and whether or not other code stops the loops.                          *)
(***************************************************************************)
EXTENDS EventLoopThreadPool, TLAPS

\* How an EventLoopThread and its thread stand to each other: Start has returned only
\* when the loop is published; loop_ is set from there until the loop has returned;
\* the loop has returned only when told to; and who told it is the destructor, or
\* other code.
ThreadInv(t) ==
  /\ owner[t] = "new" <=> pc[t] = "none"
  /\ loop_[t] <=> pc[t] \in {"start", "running", "clear"}
  /\ owner[t] \notin {"new", "waiting"} => pc[t] \notin {"none", "init", "publish"}
  /\ owner[t] \in {"new", "waiting", "returned", "stopping"} /\ quitting[t] => t \in others
  /\ pc[t] \in {"clear", "leaving", "exited"} => quitting[t]

IInv ==
  /\ TypeOK
  /\ \A t \in Threads : ThreadInv(t)

LEMMA InitInv == Init => IInv
  BY ZenonT(40) DEF Init, IInv, TypeOK, ThreadInv

\* A step of one thread or of its owner leaves the other threads alone.
LEMMA StepFrame ==
  ASSUME TypeOK, NEW t \in Threads,
         OwnerStep(t) \/ ThreadStep(t) \/ OtherStop(t),
         NEW u \in Threads, u # t, ThreadInv(u)
  PROVE  ThreadInv(u)'
<1>1. /\ owner'[u] = owner[u] /\ pc'[u] = pc[u]
      /\ loop_'[u] = loop_[u] /\ quitting'[u] = quitting[u]
      /\ others \subseteq others'
  BY DEF TypeOK, OwnerStep, ThreadStep, Start, StartReturns,
         Destroy, StopStores, StopWakes, Join, InitCallback, Publish,
         LoopStarts, LoopReturns, Clear, Exit, OtherStop, OtherStores,
         OtherWakes, OwnStop, Goto, OwnerGoto
<1> QED
  BY <1>1, Zenon DEF ThreadInv

LEMMA NextInv == IInv /\ [Next]_vars => IInv'
<1> SUFFICES ASSUME IInv, [Next]_vars PROVE IInv'
  OBVIOUS
<1>1. CASE UNCHANGED vars
  BY <1>1, ZenonT(40) DEF IInv, TypeOK, ThreadInv, vars
<1>2. ASSUME NEW t \in Threads, OwnerStep(t) \/ ThreadStep(t) \/ OtherStop(t)
      PROVE  IInv'
  <2> SUFFICES TypeOK' /\ ThreadInv(t)'
    BY <1>2, StepFrame, Zenon DEF IInv
  <2> USE DEF IInv, TypeOK, ThreadInv, Goto, OwnerGoto
  <2>1. CASE Start(t)
    BY <2>1, SMTT(30) DEF Start
  <2>2. CASE StartReturns(t)
    BY <2>2, SMTT(30) DEF StartReturns
  <2>3. CASE Destroy(t)
    BY <2>3 DEF Destroy
  <2>4. CASE StopStores(t)
    <3>1. CASE ~loop_[t] /\ dead' = dead \cup {t} /\ UNCHANGED quitting
      <4>1. pc[t] \in {"leaving", "exited"} /\ t \in others
        BY <2>4, <3>1, Zenon DEF StopStores
      <4> QED
        BY <2>4, <3>1, <4>1, SMTT(30) DEF StopStores
    <3>2. CASE quitting' = [quitting EXCEPT ![t] = TRUE] /\ UNCHANGED dead
      <4>1. /\ owner[t] = "stopping" /\ owner' = [owner EXCEPT ![t] = "waking"]
            /\ UNCHANGED <<pc, loop_, waking, others, dead, failed>>
        BY <2>4, <3>2, Zenon DEF StopStores
      <4>2. TypeOK'
        BY <4>1, <3>2, Zenon
      <4>3. owner'[t] = "waking" /\ quitting'[t] = TRUE
        BY <4>1, <3>2, SMTT(30)
      <4> QED
        BY <4>1, <4>2, <4>3, Zenon
    <3> QED
      BY <2>4, <3>1, <3>2, Zenon DEF StopStores
  <2>5. CASE StopWakes(t)
    BY <2>5, SMTT(30) DEF StopWakes
  <2>6. CASE Join(t)
    BY <2>6, SMTT(30) DEF Join
  <2>7. CASE InitCallback(t)
    BY <2>7, SMTT(30) DEF InitCallback
  <2>8. CASE Publish(t)
    BY <2>8, SMTT(30) DEF Publish
  <2>9. CASE LoopStarts(t)
    BY <2>9, SMTT(30) DEF LoopStarts
  <2>10. CASE LoopReturns(t)
    BY <2>10 DEF LoopReturns
  <2>11. CASE Clear(t)
    BY <2>11, SMTT(30) DEF Clear
  <2>12. CASE Exit(t)
    BY <2>12 DEF Exit
  <2>13. CASE OtherStop(t)
    <3>1. CASE OtherStores(t)
      BY <3>1, Zenon DEF OtherStores
    <3>2. CASE OtherWakes(t)
      BY <3>2, Zenon DEF OtherWakes
    <3>3. CASE OwnStop(t)
      BY <3>3, Zenon DEF OwnStop
    <3> QED
      BY <2>13, <3>1, <3>2, <3>3, Zenon DEF OtherStop
  <2> QED
    BY <1>2, <2>1, <2>2, <2>3, <2>4, <2>5, <2>6, <2>7, <2>8, <2>9, <2>10, <2>11, <2>12,
       <2>13, ZenonT(40)
       DEF OwnerStep, ThreadStep
<1> QED
  BY <1>1, <1>2, Zenon DEF Next

LEMMA IInvariance == Spec => []IInv
  BY InitInv, NextInv, PTL DEF Spec

\* The members of EventLoopThread, and the positions of its owner and thread, keep
\* their types, for any number of threads.
THEOREM TypeCorrect == Spec => []TypeOK
<1>1. IInv => TypeOK
  BY Zenon DEF IInv
<1> QED
  BY <1>1, IInvariance, PTL

\* What EventLoopThread::Start returned is a running loop until the destructor stops
\* it, unless other code stops it.
THEOREM LoopLives == Spec => []LoopOutlivesOwner
<1>1. IInv => LoopOutlivesOwner
  BY Zenon DEF IInv, TypeOK, ThreadInv, LoopOutlivesOwner
<1> QED
  BY <1>1, IInvariance, PTL
=============================================================================
