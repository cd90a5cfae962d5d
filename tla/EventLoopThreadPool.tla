------------------------- MODULE EventLoopThreadPool -------------------------
(***************************************************************************)
(* benet::EventLoopThreadPool and the EventLoopThreads it owns: the owner, *)
(* which starts the threads one after the other and later destroys them,   *)
(* the entry function of every thread with the EventLoop on its stack, and *)
(* other code that stops a loop it has a pointer to.  The loop itself is a *)
(* LoopExecutor: it runs until somebody has called Stop.  EventLoop::Stop  *)
(* is two steps, as in EventLoop: it stores quitting_, then reads          *)
(* thread_id_ and, on a foreign thread, writes to wakeup_fd_; the thread   *)
(* may leave its entry function in between.                                *)
(***************************************************************************)
EXTENDS Integers

CONSTANTS
  num_threads_,   \* InitThreadsNumber
  OthersStop      \* code other than ~EventLoopThread may stop the loops

ASSUME PoolAssumption == num_threads_ \in Nat /\ OthersStop \in BOOLEAN

Threads == 1 .. num_threads_

VARIABLES
  owner,     \* per EventLoopThread: how far its owner is with Start and the destructor
  pc,        \* per thread: how far its entry function is
  loop_,     \* loop_ # nullptr
  quitting,  \* quitting_ of the EventLoop on the thread's stack
  waking,    \* loops whose Stop, called by other code on a foreign thread, has stored
             \* quitting_ and not yet written to wakeup_fd_
  others,    \* history: loops stopped by other code
  dead,      \* history: threads whose loop was used after its destruction, or through a
             \* null loop_
  failed     \* history: threads whose EventLoop::Start found quitting_ set (its assert)

vars == <<owner, pc, loop_, quitting, waking, others, dead, failed>>

Init ==
  /\ owner = [t \in Threads |-> "new"]
  /\ pc = [t \in Threads |-> "none"]
  /\ loop_ = [t \in Threads |-> FALSE]
  /\ quitting = [t \in Threads |-> FALSE]
  /\ waking = {} /\ others = {} /\ dead = {} /\ failed = {}

Goto(t, from, to) == pc[t] = from /\ pc' = [pc EXCEPT ![t] = to]
OwnerGoto(t, from, to) == owner[t] = from /\ owner' = [owner EXCEPT ![t] = to]

-----------------------------------------------------------------------------
(* The owner.  EventLoopThreadPool::Start calls Start of one thread after  *)
(* the other; the destructor of threads_ destroys them in the same order.  *)

\* The thread is spawned; Start then waits.
Start(t) ==
  /\ \A u \in 1 .. t - 1 : owner[u] = "returned"
  /\ OwnerGoto(t, "new", "waiting") /\ Goto(t, "none", "init")
  /\ UNCHANGED <<loop_, quitting, waking, others, dead, failed>>

\* Mutant: Start returns without waiting for the thread.
StartReturnsEarly(t) ==
  /\ OwnerGoto(t, "waiting", "returned")
  /\ UNCHANGED <<pc, loop_, quitting, waking, others, dead, failed>>

\* Start sees loop_ set, after a notification or one of the 128 ms timeouts: the
\* loop around wait_for needs no notification to end.
StartReturns(t) ==
  /\ loop_[t]
  /\ OwnerGoto(t, "waiting", "returned")
  /\ UNCHANGED <<pc, loop_, quitting, waking, others, dead, failed>>

\* Mutant: the destructor only joins.
DestroyJoins(t) ==
  /\ OwnerGoto(t, "returned", "joining")
  /\ UNCHANGED <<pc, loop_, quitting, waking, others, dead, failed>>

\* ~EventLoopThread reads loop_, without the mutex.
Destroy(t) ==
  /\ \A u \in 1 .. t - 1 : owner[u] = "joined"
  /\ \A u \in Threads : owner[u] \in {"returned", "joined"}
  /\ OwnerGoto(t, "returned", IF loop_[t] THEN "stopping" ELSE "joining")
  /\ UNCHANGED <<pc, loop_, quitting, waking, others, dead, failed>>

\* loop_->Stop() reads loop_ again and stores quitting_: in the loop the first read
\* found, or through the null pointer the thread has left there since (which of the
\* two reads the build keeps is its choice).
StopStores(t) ==
  /\ OwnerGoto(t, "stopping", "waking")
  /\ \/ pc[t] # "exited" /\ quitting' = [quitting EXCEPT ![t] = TRUE] /\ UNCHANGED dead
     \/ ~loop_[t] /\ dead' = dead \cup {t} /\ UNCHANGED quitting
  /\ UNCHANGED <<pc, loop_, waking, others, failed>>

\* The rest of Stop: IsInLoopThread reads thread_id_, set_wakeup writes to wakeup_fd_.
StopWakes(t) ==
  /\ OwnerGoto(t, "waking", "joining")
  /\ dead' = IF pc[t] = "exited" THEN dead \cup {t} ELSE dead
  /\ UNCHANGED <<pc, loop_, quitting, waking, others, failed>>

Join(t) ==
  /\ pc[t] = "exited"
  /\ OwnerGoto(t, "joining", "joined")
  /\ UNCHANGED <<pc, loop_, quitting, waking, others, dead, failed>>

-----------------------------------------------------------------------------
(* The thread's entry function.                                            *)

\* The EventLoop exists and init_callback_ has seen it.
InitCallback(t) ==
  /\ Goto(t, "init", "publish")
  /\ UNCHANGED <<owner, loop_, quitting, waking, others, dead, failed>>

\* Mutant: loop_ is not set before the loop runs.
PublishNot(t) ==
  /\ Goto(t, "publish", "start")
  /\ UNCHANGED <<owner, loop_, quitting, waking, others, dead, failed>>

Publish(t) ==
  /\ Goto(t, "publish", "start")
  /\ loop_' = [loop_ EXCEPT ![t] = TRUE]
  /\ UNCHANGED <<owner, quitting, waking, others, dead, failed>>

\* loop.Start(): `assert(quitting_.load() == false)`; built without asserts, a
\* quitting loop returns from the while at once.
LoopStarts(t) ==
  /\ Goto(t, "start", "running")
  /\ failed' = IF quitting[t] THEN failed \cup {t} ELSE failed
  /\ UNCHANGED <<owner, loop_, quitting, waking, others, dead>>

LoopReturns(t) ==
  /\ quitting[t]
  /\ Goto(t, "running", "clear")
  /\ UNCHANGED <<owner, loop_, quitting, waking, others, dead, failed>>

\* loop_ = nullptr under the mutex.
Clear(t) ==
  /\ Goto(t, "clear", "leaving")
  /\ loop_' = [loop_ EXCEPT ![t] = FALSE]
  /\ UNCHANGED <<owner, quitting, waking, others, dead, failed>>

\* ~EventLoop, and the thread ends.
Exit(t) ==
  /\ Goto(t, "leaving", "exited")
  /\ UNCHANGED <<owner, loop_, quitting, waking, others, dead, failed>>

-----------------------------------------------------------------------------
(* Code that init_callback_ or Start gave the pointer calls Stop while the *)
(* loop is alive; one foreign thread at a time is in that call.            *)

\* The store of quitting_, by a foreign thread.
OtherStores(t) ==
  /\ OthersStop /\ t \notin waking
  /\ pc[t] \in {"publish", "start", "running"}
  /\ quitting' = [quitting EXCEPT ![t] = TRUE]
  /\ waking' = waking \cup {t} /\ others' = others \cup {t}
  /\ UNCHANGED <<owner, pc, loop_, dead, failed>>

\* The rest of that call.
OtherWakes(t) ==
  /\ t \in waking /\ waking' = waking \ {t}
  /\ dead' = IF pc[t] = "exited" THEN dead \cup {t} ELSE dead
  /\ UNCHANGED <<owner, pc, loop_, quitting, others, failed>>

\* init_callback_ or a functor calls Stop: on the loop's own thread there is no wakeup.
OwnStop(t) ==
  /\ OthersStop
  /\ pc[t] \in {"publish", "running"}
  /\ quitting' = [quitting EXCEPT ![t] = TRUE]
  /\ others' = others \cup {t}
  /\ UNCHANGED <<owner, pc, loop_, waking, dead, failed>>

OtherStop(t) == OtherStores(t) \/ OtherWakes(t) \/ OwnStop(t)

-----------------------------------------------------------------------------
OwnerStep(t) ==
  Start(t) \/ StartReturns(t) \/ Destroy(t) \/ StopStores(t) \/ StopWakes(t) \/ Join(t)

ThreadStep(t) ==
  InitCallback(t) \/ Publish(t) \/ LoopStarts(t) \/ LoopReturns(t) \/ Clear(t) \/ Exit(t)

Next == \E t \in Threads : OwnerStep(t) \/ ThreadStep(t) \/ OtherStop(t)

Spec == Init /\ [][Next]_vars

\* Threads are scheduled; the owner completes the call it is in.
FairSpec ==
  /\ Spec
  /\ \A t \in Threads :
       /\ WF_vars(ThreadStep(t)) /\ WF_vars(StartReturns(t))
       /\ WF_vars(StopStores(t)) /\ WF_vars(StopWakes(t)) /\ WF_vars(Join(t))

-----------------------------------------------------------------------------
(* Properties.                                                             *)

TypeOK ==
  /\ owner \in [Threads -> {"new", "waiting", "returned", "stopping", "waking", "joining",
                            "joined"}]
  /\ pc \in [Threads -> {"none", "init", "publish", "start", "running", "clear", "leaving",
                         "exited"}]
  /\ loop_ \in [Threads -> BOOLEAN] /\ quitting \in [Threads -> BOOLEAN]
  /\ waking \subseteq Threads /\ others \subseteq Threads
  /\ dead \subseteq Threads /\ failed \subseteq Threads

\* The pointer Start returned, and the pool keeps in loops_, points to a live loop
\* that nobody told to quit, until its EventLoopThread is destroyed; only other
\* code that stops the loop behind the owner's back can change that.
LoopOutlivesOwner ==
  \A t \in Threads \ others :
    owner[t] \in {"returned", "stopping"} =>
      loop_[t] /\ pc[t] \in {"start", "running"} /\ ~quitting[t]

\* "still a tiny chance to call destructed object, if threadFunc exits just now": the
\* destructor uses a destroyed loop only if the thread was leaving its entry function
\* when ~EventLoopThread called Stop, which takes other code that stopped the loop.
NoUseAfterExit == dead \subseteq others

\* EventLoopThread::Start returns, however the publication of loop_ and the wait
\* interleave, unless other code stops the loop before Start has seen it (it then
\* waits forever).
StartCompletes ==
  \A t \in Threads : owner[t] = "waiting" ~> owner[t] = "returned" \/ t \in others

\* The destructor returns: its Stop reaches the loop wherever the thread is, between
\* the publication of loop_ and EventLoop::Start included, and the join ends.  Nothing
\* is said of a destructor that has used a destroyed loop.
DestructorCompletes ==
  \A t \in Threads :
    owner[t] \in {"stopping", "waking", "joining"} ~> owner[t] = "joined" \/ t \in dead

\* `assert(quitting_.load() == false)` in EventLoop::Start.
StartAssertHolds == failed = {}
=============================================================================
