---------------------------- MODULE LoopExecutor ----------------------------
(***************************************************************************)
(* What an EventLoop promises to the code that hands it functors: one FIFO *)
(* queue, served one functor at a time until the loop has stopped; what is *)
(* still queued then is never called.  TcpConnection and TcpServer rely on *)
(* no more than this.                                                      *)
(***************************************************************************)
EXTENDS Sequences

CONSTANT Functors

VARIABLES
  queue,     \* functors accepted and not called yet
  ran,       \* functors in the order they were called
  stopping,  \* Stop has been called
  closed     \* Start has returned

vars == <<queue, ran, stopping, closed>>

Init ==
  /\ queue = <<>> /\ ran = <<>>
  /\ stopping = FALSE /\ closed = FALSE

Submit(f) ==
  /\ queue' = Append(queue, f)
  /\ UNCHANGED <<ran, stopping, closed>>

Run ==
  /\ ~closed
  /\ queue # <<>>
  /\ ran' = Append(ran, Head(queue))
  /\ queue' = Tail(queue)
  /\ UNCHANGED <<stopping, closed>>

Stop ==
  /\ stopping' = TRUE
  /\ UNCHANGED <<queue, ran, closed>>

Close ==
  /\ stopping /\ ~closed
  /\ closed' = TRUE
  /\ UNCHANGED <<queue, ran, stopping>>

Next == Run \/ Stop \/ Close \/ \E f \in Functors : Submit(f)

Spec == Init /\ [][Next]_vars

\* The queue is served and a stopping loop closes.
Progress == WF_vars(Run \/ Close)

FairSpec == Spec /\ Progress
=============================================================================
