------------------------- MODULE TcpConnectionProofs -------------------------
(***************************************************************************)
(* The safety properties of TcpConnection, for any number of threads, any  *)
(* messages, any sizes of the kernel's buffers and any calls of user code. *)
(***************************************************************************)
EXTENDS TcpConnectionHandlers

Forward ==
  conn'.state # conn.state =>
    <<conn.state, conn'.state>> \in
      {<<"Connecting", "Connected">>, <<"Connected", "Disconnecting">>,
       <<"Connected", "Disconnected">>, <<"Disconnecting", "Disconnected">>}

\* What has to be shown of a step.
Preserves == IInv' /\ (ReadsOnLoop' /\ EndInv => EndInv') /\ Forward

LEMMA InitInv == Init => IInv /\ EndInv
<1> SUFFICES ASSUME Init PROVE IInv /\ EndInv
  BY Zenon
<1>1. /\ Task("established") \in Functors /\ Task("established").op = "established"
      /\ Idle \in Calls /\ Idle.op = "idle"
  BY TaskTypes, Zenon DEF TaskOps, Calls, Idle, Task
<1>2. /\ pendings \in Seq(Functors) /\ Ops(pendings) = {"established"}
      /\ tmp_pendings \in Seq(Functors) /\ Ops(tmp_pendings) = {}
  BY <1>1, OpsUnit, OpsEmpty DEF Init
<1>3. conn.channel \in NewChannels /\ conn.state = "Connecting" /\ conn.output_buffer = <<>>
  BY Zenon DEF Init
<1>4. conn.channel \in Channels /\ Consistent(conn.channel) /\ IsNoneEvent(conn.channel)
  BY <1>3, ZenonT(30) DEF NewChannels, Channels, Consistent, IsNoneEvent
<1>5. conn \in ConnType
  <2>1. <<>> \in Seq(AllBytes)
    OBVIOUS
  <2> QED BY <1>4, <2>1, ZenonT(30) DEF Init, ConnType, States
<1>6. /\ sock \in SockType /\ accepted \in Seq(AllBytes)
      /\ sock.inq = 0 /\ sock.wire = <<>> /\ ~sock.shut
  BY TcpConnectionAssumption DEF Init, SockType
<1>7. ObjectType /\ LoopType /\ UserType
  <2>1. /\ received \in Nat /\ received + sock.inq <= InMax /\ ups \in Nat /\ downs \in Nat
        /\ calls \in 0 .. CallsMax /\ sent \subseteq Messages
    BY <1>6, TcpConnectionAssumption DEF Init
  <2>2. ObjectType
    BY <1>2, <1>5, <1>6, <2>1, Zenon DEF Init, ObjectType
  <2>3. LoopType
    BY <1>2 DEF Init, LoopType
  <2>4. UserType
    BY <1>1, <2>1 DEF Init, UserType
  <2> QED BY <2>2, <2>3, <2>4, Zenon
<1>8. FlowInv
  <2>1. ~IsWriteEvent(conn.channel)
    BY <1>4, Zenon DEF IsNoneEvent, IsWriteEvent
  <2>2. accepted = sock.wire \o conn.output_buffer
    BY <1>3, <1>6 DEF Init
  <2> QED BY <1>3, <1>4, <1>6, <2>1, <2>2, Zenon DEF FlowInv, Flow
<1>9. LifeInv /\ CallbackProtocol
  BY <1>2, <1>3 DEF Init, LifeInv, CallbackProtocol, Queued
<1>10. EndInv
  BY <1>1, <1>2, <1>3, Zenon DEF Init, EndInv, Queued, ReadOps
<1> QED BY <1>7, <1>8, <1>9, <1>10, Zenon DEF IInv

\* The ways a step may leave the rest of the current batch.
BatchKept ==
  \/ tmp_pendings' = tmp_pendings
  \/ /\ tmp_pendings # <<>> /\ tmp_pendings' = Tail(tmp_pendings)
     /\ Head(tmp_pendings).op \notin {"established", "destroyed"}

LEMMA BatchOps ==
  ASSUME LoopType, BatchKept
  PROVE  /\ tmp_pendings' \in Seq(Functors) /\ Ops(tmp_pendings') \subseteq Ops(tmp_pendings)
         /\ "destroyed" \in Ops(tmp_pendings) => "destroyed" \in Ops(tmp_pendings')
<1>1. tmp_pendings \in Seq(Functors)
  BY Zenon DEF LoopType
<1>2. CASE tmp_pendings' = tmp_pendings
  BY <1>1, <1>2, Zenon
<1>3. CASE tmp_pendings' # tmp_pendings
  BY <1>1, <1>3, OpsHead DEF BatchKept
<1> QED BY <1>2, <1>3, Zenon

\* A handler keeps the order of the connection's life.
LEMMA LifeKept ==
  ASSUME IInv, Handled, BatchKept, ups = 0 => UNCHANGED <<call, held>>,
         tmp_pendings' # <<>> => lp' = "calling"
  PROVE  LifeInv' /\ CallbackProtocol' /\ Forward
<1>1. /\ tmp_pendings' \in Seq(Functors) /\ Ops(tmp_pendings') \subseteq Ops(tmp_pendings)
  BY BatchOps, Zenon DEF IInv
<1>2. ups' = ups /\ ups \in {0, 1}
  BY DEF IInv, Handled, ObjectType, CallbackProtocol
<1>3. CASE ups = 0
  <2>1. conn.state = "Connecting" /\ Stays
    BY <1>3, Zenon DEF IInv, LifeInv, Handled, Closes
  <2>2. tmp_pendings' = tmp_pendings
    <3>1. tmp_pendings = <<>> \/ tmp_pendings = <<Task("established")>>
      BY <1>3, Zenon DEF IInv, LifeInv
    <3>2. Head(<<Task("established")>>).op = "established"
      BY DEF Task
    <3> QED BY <3>1, <3>2, Zenon DEF BatchKept
  <2>3. conn'.state = "Connecting" /\ pendings' = pendings /\ UNCHANGED <<base, downs>>
    BY <2>1, Zenon DEF Stays
  <2> QED BY <1>2, <1>3, <2>1, <2>2, <2>3 DEF IInv, LifeInv, CallbackProtocol, Forward, Queued
<1>4. CASE ups = 1
  <2>1. CASE Stays
    <3>1. /\ "established" \notin Ops(pendings') /\ "established" \notin Ops(tmp_pendings')
          /\ "destroyed" \in Queued' => "destroyed" \in Queued
      BY <1>1, <1>4, <2>1, ZenonT(40) DEF IInv, LifeInv, Queued, Stays
    <3> QED BY <1>2, <1>4, <2>1, <3>1, Zenon
            DEF IInv, LifeInv, CallbackProtocol, Forward, Stays, Queued
  <2>2. CASE Closes
    <3>1. downs = 0 /\ base = "inmap"
      BY <1>2, <1>4, <2>2, SMTT(30) DEF IInv, CallbackProtocol, ObjectType, Closes
    <3>2. "destroyed" \notin Queued
      BY <3>1, Zenon DEF IInv, LifeInv
    <3>3. /\ Ops(pendings') \subseteq Ops(pendings) \cup {"destroyed"}
          /\ "destroyed" \in Ops(pendings') => base' = "removed"
      <4>1. Task("destroyed") \in Functors /\ Task("destroyed").op = "destroyed"
        BY TaskTypes, Zenon DEF TaskOps
      <4>2. pendings \in Seq(Functors)
        BY Zenon DEF IInv, ObjectType
      <4> QED BY <2>2, <3>2, <4>1, <4>2, OpsAppend, ZenonT(40) DEF Closes, Queued
    <3> QED BY <1>1, <1>2, <1>4, <2>2, <3>1, <3>2, <3>3, SMTT(30)
            DEF IInv, LifeInv, CallbackProtocol, Forward, Closes, Queued
  <2> QED BY <2>1, <2>2, Zenon DEF Handled
<1> QED BY <1>2, <1>3, <1>4, Zenon

\* The server has let go: the connection is closed.
LEMMA RemovedIsClosed ==
  ASSUME IInv, base # "inmap"
  PROVE  conn.state = "Disconnected" /\ ups = 1
BY DEF IInv, CallbackProtocol, ObjectType

\* A handler keeps the connection on its way out.
LEMMA EndKept ==
  ASSUME IInv, Handled, BatchKept, EndInv, Rests,
         \A t \in Threads : call'[t].op \notin ReadOps,
         tmp_pendings' # <<>> => batch_ref', lp' = "active" => lp = "active"
  PROVE  EndInv'
<1>1. /\ Ops(tmp_pendings') \subseteq Ops(tmp_pendings)
      /\ "destroyed" \in Ops(tmp_pendings) => "destroyed" \in Ops(tmp_pendings')
  BY BatchOps, Zenon DEF IInv
<1>2. CASE Stays
  <2>1. /\ Ops(pendings) \subseteq Ops(pendings')
        /\ Ops(pendings') \subseteq Ops(pendings) \cup {"writecomplete", "highwater", "forceclose"}
        /\ UNCHANGED <<base, failed>>
    BY <1>2, Zenon DEF Stays
  <2>2. Queued' \cap ReadOps = {}
    BY <1>1, <2>1, Zenon DEF EndInv, Queued, ReadOps
  <2>3. conn'.state = "Disconnected" => conn'.channel = conn.channel /\ IsNoneEvent(conn.channel)
    BY <1>2, Zenon DEF Stays, Rests, EndInv
  <2>4. base' = "removed" => "destroyed" \in Queued' \/ Removed(conn'.channel)
    <3> SUFFICES ASSUME base = "removed" PROVE "destroyed" \in Queued' \/ Removed(conn'.channel)
      BY <2>1, Zenon
    <3>1. conn.state = "Disconnected"
      BY RemovedIsClosed, Zenon
    <3>2. conn'.channel = conn.channel
      BY <3>1, Zenon DEF Rests, EndInv
    <3>3. "destroyed" \in Queued \/ Removed(conn.channel)
      BY Zenon DEF EndInv
    <3> QED BY <3>2, <3>3, <1>1, <2>1, Zenon DEF Queued
  <2>5. lp' = "active" => base' # "removed" \/ "destroyed" \in Ops(pendings')
    BY <2>1, Zenon DEF EndInv
  <2>6. failed' = {}
    BY <2>1, Zenon DEF EndInv
  <2> QED BY <2>2, <2>3, <2>4, <2>5, <2>6, ZenonT(40) DEF EndInv
<1>3. CASE Closes
  <2>1. base = "inmap"
    BY <1>3, RemovedIsClosed, Zenon DEF Closes
  <2>2. /\ Ops(pendings') \subseteq Ops(pendings) \cup {"destroyed"}
        /\ base' = "removed" => "destroyed" \in Ops(pendings')
    <3>1. Task("destroyed") \in Functors /\ Task("destroyed").op = "destroyed"
      BY TaskTypes, Zenon DEF TaskOps
    <3>2. pendings \in Seq(Functors)
      BY Zenon DEF IInv, ObjectType
    <3> QED BY <1>3, <3>1, <3>2, OpsAppend, Zenon DEF Closes
  <2>3. Queued' \cap ReadOps = {}
    BY <1>1, <2>2, Zenon DEF EndInv, Queued, ReadOps
  <2>4. failed' = {} /\ IsNoneEvent(conn'.channel)
    BY <1>3, <2>1, Zenon DEF EndInv, Closes
  <2> QED BY <2>2, <2>3, <2>4, Zenon DEF EndInv, Queued
<1> QED BY <1>2, <1>3, Zenon DEF Handled

\* The two together, for a step of the loop or of user code.
LEMMA StepPreserves ==
  ASSUME IInv, Handled, BatchKept, LoopType', UserType',
         ups = 0 => UNCHANGED <<call, held>>,
         ReadsOnLoop' /\ EndInv =>
           /\ Rests
           /\ \A t \in Threads : call'[t].op \notin ReadOps
           /\ tmp_pendings' # <<>> => batch_ref',
         tmp_pendings' # <<>> => lp' = "calling", lp' = "active" => lp = "active"
  PROVE  Preserves
<1>1. LifeInv' /\ CallbackProtocol' /\ Forward
  BY LifeKept, Zenon
<1>2. ReadsOnLoop' /\ EndInv => EndInv'
  BY EndKept, Zenon
<1>3. ObjectType' /\ FlowInv'
  BY Zenon DEF Handled
<1> QED BY <1>1, <1>2, <1>3, Zenon DEF Preserves, IInv

\* A step that leaves the loop and the user's code where they are.
LEMMA StillPreserves ==
  ASSUME IInv, Handled, ReadsOnLoop' /\ EndInv => Rests,
         UNCHANGED <<call, held, delayed, tmp_pendings, revents, batch_ref, lp>>,
         sent' \subseteq Messages, calls' \in 0 .. CallsMax
  PROVE  Preserves
<1>1. BatchKept
  BY Zenon DEF BatchKept
<1>2. LoopType'
  BY Zenon DEF IInv, LoopType
<1>3. UserType'
  BY Zenon DEF IInv, UserType
<1>4. ReadsOnLoop' /\ EndInv =>
        /\ Rests
        /\ \A t \in Threads : call'[t].op \notin ReadOps
        /\ tmp_pendings' # <<>> => batch_ref'
  BY Zenon DEF EndInv
<1>5. tmp_pendings' # <<>> => lp' = "calling"
  BY Zenon DEF IInv, LifeInv
<1> QED BY <1>1, <1>2, <1>3, <1>4, <1>5, StepPreserves, Zenon

-----------------------------------------------------------------------------
(* The loop.                                                               *)

LEMMA EventStep ==
  ASSUME IInv, HandleEventRead \/ HandleEventWrite
  PROVE  Preserves
<1>0. ObjectType /\ FlowInv /\ LoopType /\ UserType
  BY Zenon DEF IInv
<1>1. Handled /\ Rests
  <2>1. ASSUME user_callback(pendings) PROVE Handled /\ Rests
    BY <1>0, <2>1, SameHandled, Zenon DEF user_callback
  <2>2. CASE HandleEventRead
    BY <1>0, <2>1, <2>2, CloseHandled, ReadHandled, Zenon DEF HandleEventRead
  <2>3. CASE HandleEventWrite
    BY <1>0, <2>1, <2>3, WriteHandled, Zenon DEF HandleEventWrite
  <2> QED BY <2>2, <2>3, Zenon
<1>2. /\ UNCHANGED <<tmp_pendings, batch_ref, call, held, delayed, sent, calls>>
      /\ lp \in {"active", "write"} /\ lp' \in {"write", "events"}
      /\ revents' = revents \/ revents' = {}
  BY Zenon DEF HandleEventRead, HandleEventWrite, userVars
<1>3. BatchKept /\ LoopType' /\ UserType'
  BY <1>0, <1>2, Zenon DEF BatchKept, LoopType, UserType
<1>4. /\ tmp_pendings' = <<>>
      /\ EndInv => \A t \in Threads : call'[t].op \notin ReadOps
  BY <1>2, Zenon DEF EndInv, IInv, LifeInv
<1> QED BY <1>1, <1>2, <1>3, <1>4, StepPreserves, Zenon

LEMMA PollStep ==
  ASSUME IInv, Poll
  PROVE  Preserves
<1>0. ObjectType /\ FlowInv /\ LoopType /\ UserType
  BY Zenon DEF IInv
<1>1. Handled /\ Rests
  BY <1>0, SameHandled, Zenon DEF Poll
<1>2. BatchKept /\ LifeInv' /\ CallbackProtocol' /\ Forward
  <2>1. BatchKept
    BY Zenon DEF Poll, BatchKept
  <2>2. tmp_pendings' = <<>>
    BY Zenon DEF Poll, IInv, LifeInv
  <2> QED BY <1>1, <2>1, <2>2, LifeKept, Zenon DEF Poll, userVars
<1>3. LoopType'
  <2>1. Ready \subseteq Interests \cup {"HUP"}
    <3>1. conn.channel.interest \subseteq Interests
      BY <1>0, ConnFields, Zenon DEF ObjectType, Channels
    <3> QED BY <3>1, Zenon DEF Ready
  <2> QED BY <1>0, <2>1, Zenon DEF Poll, LoopType
<1>4. UserType'
  BY <1>0, Zenon DEF Poll, UserType, userVars
<1>5. EndInv => EndInv'
  <2> SUFFICES ASSUME EndInv PROVE EndInv'
    BY Zenon
  <2>1. tmp_pendings = <<>>
    BY Zenon DEF IInv, LifeInv, Poll
  <2>2. lp' = "active" => base # "removed" \/ "destroyed" \in Ops(pendings)
    <3>1. lp' = "active" => conn.channel.registered
      BY Zenon DEF Poll, Ready
    <3>2. conn.channel.registered => ~Removed(conn.channel)
      BY <1>0, Zenon DEF FlowInv, Flow, Consistent, Removed
    <3> QED BY <2>1, <3>1, <3>2, OpsEmpty, Zenon DEF EndInv, Queued
  <2> QED BY <2>1, <2>2, Zenon DEF EndInv, Poll, userVars, Queued
<1> QED BY <1>1, <1>2, <1>3, <1>4, <1>5, Zenon DEF Preserves, IInv, Handled

\* Steps that move functors from one queue to the next.
Moves == UNCHANGED <<conn, sock, accepted, ups, downs, received, failed, held>>

LEMMA Moved ==
  ASSUME IInv, Moves, base' \in {"inmap", "removing", "removed"}, pendings' \in Seq(Functors)
  PROVE  ObjectType' /\ FlowInv' /\ Forward
<1>1. ObjectType' /\ FlowInv'
  BY Zenon DEF IInv, Moves, ObjectType, FlowInv
<1> QED BY <1>1, Zenon DEF Moves, Forward

LEMMA SwapStep ==
  ASSUME IInv, SwapPendings
  PROVE  Preserves
<1>0. /\ pendings \in Seq(Functors) /\ tmp_pendings \in Seq(Functors) /\ Ops(<<>>) = {}
      /\ <<>> \in Seq(Functors)
  BY OpsEmpty DEF IInv, ObjectType, LoopType
<1>1. /\ tmp_pendings' = pendings /\ pendings' = <<>> /\ base' = base /\ Moves
      /\ lp = "events" /\ lp' = "calling" /\ revents' = revents
      /\ UNCHANGED <<call, delayed, sent, calls>>
  BY Zenon DEF SwapPendings, userVars, Moves
<1>2. ObjectType' /\ FlowInv' /\ Forward
  BY <1>0, <1>1, Moved, Zenon DEF IInv, ObjectType
<1>3. LoopType'
  <2>1. batch_ref' \in BOOLEAN
    BY Zenon DEF SwapPendings
  <2> QED BY <1>0, <1>1, <2>1, Zenon DEF IInv, LoopType
<1>4. UserType'
  BY <1>1, Zenon DEF IInv, UserType, Moves
<1>5. LifeInv' /\ CallbackProtocol'
  <2>1. Queued' \subseteq Queued /\ tmp_pendings = <<>>
    BY <1>0, <1>1, Zenon DEF Queued, IInv, LifeInv
  <2> QED BY <1>1, <2>1, Zenon DEF IInv, LifeInv, CallbackProtocol, Moves
<1>6. EndInv => EndInv'
  <2> SUFFICES ASSUME EndInv PROVE EndInv'
    OBVIOUS
  <2>1. tmp_pendings = <<>>
    BY <1>1, Zenon DEF IInv, LifeInv
  <2>2. Queued' = Queued
    BY <1>0, <1>1, <2>1, Zenon DEF Queued
  <2>3. pendings # <<>> => batch_ref'
    <3> SUFFICES ASSUME pendings # <<>> PROVE \E i \in DOMAIN pendings : HoldsConn(pendings[i])
      BY Zenon DEF SwapPendings
    <3>1. 1 \in DOMAIN pendings
      BY <1>0
    <3>2. pendings[1].op \in Queued
      BY <3>1, Zenon DEF Queued, Ops
    <3> QED BY <3>1, <3>2, Zenon DEF EndInv, ReadOps, HoldsConn
  <2> QED BY <1>1, <2>2, <2>3, Zenon DEF EndInv, Moves
<1> QED BY <1>2, <1>3, <1>4, <1>5, <1>6, Zenon DEF Preserves, IInv

LEMMA EndStep ==
  ASSUME IInv, EndPendings
  PROVE  Preserves
<1>0. ObjectType /\ FlowInv /\ LoopType /\ UserType
  BY DEF IInv
<1>1. Handled /\ Rests
  BY <1>0, SameHandled, Zenon DEF EndPendings
<1>2. BatchKept /\ LoopType' /\ UserType'
  BY <1>0 DEF EndPendings, BatchKept, LoopType, UserType, userVars
<1>3. /\ tmp_pendings' = <<>>
      /\ EndInv => \A t \in Threads : call'[t].op \notin ReadOps
  BY Zenon DEF EndInv, EndPendings, userVars
<1> QED BY <1>1, <1>2, <1>3, StepPreserves, ZenonT(40) DEF EndPendings, userVars

\* ConnectionEstablished is the first functor, and the last of its batch.
LEMMA EstablishStep ==
  ASSUME IInv, CallPending, Head(tmp_pendings).op = "established"
  PROVE  Preserves
<1>0. /\ tmp_pendings \in Seq(Functors)
      /\ Ops(tmp_pendings) = {"established"} \cup Ops(Tail(tmp_pendings))
      /\ ObjectType /\ FlowInv /\ Ops(<<>>) = {}
  BY OpsHead, OpsEmpty, Zenon DEF IInv, LoopType, CallPending
<1>1. ups = 0
  BY <1>0 DEF IInv, ObjectType, LifeInv, CallbackProtocol, Queued
<1>2. /\ pendings = <<>> /\ tmp_pendings = <<Task("established")>> /\ conn.state = "Connecting"
      /\ downs = 0 /\ base = "inmap"
  BY <1>1 DEF IInv, ObjectType, LifeInv, CallbackProtocol, CallPending
<1>3. ConnectionEstablished(pendings) /\ tmp_pendings' = <<>>
  BY <1>2 DEF CallPending, RunTask
<1>4. /\ ObjectType' /\ FlowInv' /\ conn'.state = "Connected" /\ ups' = ups + 1
      /\ UNCHANGED <<base, downs, failed, pendings>>
  BY <1>0, <1>2, <1>3, Established, Zenon
<1>5. /\ LoopType' /\ UserType' /\ UNCHANGED <<call, lp, batch_ref>>
  <2>1. held' \in BOOLEAN
    BY Zenon DEF CallPending
  <2>2. <<>> \in Seq(Functors)
    OBVIOUS
  <2> QED BY <1>3, <2>1, <2>2, Zenon DEF IInv, CallPending, LoopType, UserType
<1>6. LifeInv' /\ CallbackProtocol'
  BY <1>0, <1>1, <1>2, <1>3, <1>4, SMTT(30) DEF LifeInv, CallbackProtocol, Queued
<1>7. EndInv => EndInv'
  <2>1. lp = "calling"
    BY Zenon DEF CallPending
  <2> QED BY <1>0, <1>2, <1>3, <1>4, <1>5, <2>1, SMTT(30) DEF EndInv, Queued
<1>8. Forward
  BY <1>2, <1>4, Zenon DEF Forward
<1> QED BY <1>4, <1>5, <1>6, <1>7, <1>8, Zenon DEF Preserves, IInv

\* ConnectionDestroyed finds the connection closed.
LEMMA DestroyStep ==
  ASSUME IInv, CallPending, Head(tmp_pendings).op = "destroyed"
  PROVE  Preserves
<1>0. /\ tmp_pendings \in Seq(Functors)
      /\ Ops(tmp_pendings) = {"destroyed"} \cup Ops(Tail(tmp_pendings))
      /\ Tail(tmp_pendings) \in Seq(Functors) /\ ObjectType /\ FlowInv
  BY OpsHead, Zenon DEF IInv, LoopType, CallPending
<1>1. base = "removed" /\ conn.state = "Disconnected" /\ ups = 1 /\ downs = 1
  BY <1>0, RemovedIsClosed, Zenon DEF IInv, LifeInv, CallbackProtocol, Queued
<1>2. ConnectionDestroyed(pendings) /\ tmp_pendings' = Tail(tmp_pendings)
  BY Zenon DEF CallPending, RunTask
<1>3. /\ ObjectType' /\ FlowInv' /\ conn'.state = "Disconnected" /\ Removed(conn'.channel)
      /\ IsNoneEvent(conn.channel) => IsNoneEvent(conn'.channel) /\ failed' = failed
      /\ UNCHANGED <<base, ups, downs, pendings>>
  BY <1>0, <1>1, <1>2, Destroyed, SMTT(30)
<1>4. /\ UNCHANGED <<lp, revents, batch_ref, call, delayed, sent, calls, held>>
      /\ lp = "calling" /\ tmp_pendings # <<>>
  BY Zenon DEF CallPending
<1>5. LoopType' /\ UserType'
  BY <1>0, <1>2, <1>4, Zenon DEF IInv, LoopType, UserType
<1>6. Queued' \subseteq Queued
  BY <1>0, <1>2, <1>3, Zenon DEF Queued
<1>7. LifeInv' /\ CallbackProtocol' /\ Forward
  BY <1>1, <1>3, <1>4, <1>6, SMTT(30) DEF IInv, LifeInv, CallbackProtocol, Forward
<1>8. EndInv => EndInv'
  BY <1>1, <1>3, <1>4, <1>6, SMTT(30) DEF EndInv
<1> QED BY <1>3, <1>5, <1>7, <1>8, Zenon DEF Preserves, IInv

LEMMA FunctorStep ==
  ASSUME IInv, CallPending, Head(tmp_pendings).op \notin {"established", "destroyed"}
  PROVE  Preserves
<1> DEFINE f == Head(tmp_pendings)
<1>0. /\ tmp_pendings \in Seq(Functors) /\ f \in Functors /\ f.op \in Ops(tmp_pendings)
      /\ Tail(tmp_pendings) \in Seq(Functors) /\ ObjectType /\ FlowInv
  BY OpsHead, Zenon DEF IInv, LoopType, CallPending
<1>1. f.op = "send" => f.msg \in Messages
  BY <1>0, Zenon DEF Functors
<1> HIDE DEF f
<1>2. RunTask(f) /\ f.op \notin {"established", "destroyed"}
  BY Zenon DEF CallPending, f
<1>3. Handled /\ (f.op \notin ReadOps => Rests)
  <2>1. CASE f.op = "send" /\ send_in_loop(f.msg, pendings)
    BY <1>0, <1>1, <2>1, SendHandled, Zenon
  <2>2. CASE shutdown_in_loop(pendings)
    BY <1>0, <2>2, ShutdownHandled, Zenon DEF shutdown_in_loop
  <2>3. CASE force_close_in_loop(pendings)
    BY <1>0, <2>3, CloseHandled, Zenon DEF force_close_in_loop
  <2>4. CASE f.op \in ReadOps /\ (start_read_in_loop(pendings) \/ stop_read_in_loop(pendings))
    BY <1>0, <2>4, ReadsHandled, ZenonT(40)
  <2>5. CASE user_callback(pendings)
    BY <1>0, <2>5, SameHandled, Zenon DEF user_callback
  <2> QED BY <1>2, <2>1, <2>2, <2>3, <2>4, <2>5, SMTT(30) DEF RunTask, ReadOps
<1>4. /\ UNCHANGED <<lp, revents, batch_ref, call, delayed, sent, calls, held>>
      /\ lp = "calling" /\ tmp_pendings # <<>> /\ tmp_pendings' = Tail(tmp_pendings)
  BY <1>2, Zenon DEF CallPending, f
<1>5. BatchKept
  BY <1>2, <1>4, Zenon DEF BatchKept, f
<1>6. LoopType' /\ UserType'
  BY <1>0, <1>4, Zenon DEF IInv, LoopType, UserType
<1>7. EndInv => Rests /\ batch_ref' /\ \A t \in Threads : call'[t].op \notin ReadOps
  BY <1>0, <1>3, <1>4, ZenonT(40) DEF EndInv, Queued
<1> QED BY <1>3, <1>4, <1>5, <1>6, <1>7, StepPreserves, ZenonT(40)

LEMMA LoopStepPreserves ==
  ASSUME IInv, LoopStep
  PROVE  Preserves
BY PollStep, EventStep, SwapStep, EndStep, EstablishStep, DestroyStep, FunctorStep, SMTT(30)
DEF LoopStep

-----------------------------------------------------------------------------
(* The base loop, the kernel and the peer.                                 *)

LEMMA BaseStep ==
  ASSUME IInv, BaseRemove
  PROVE  Preserves
<1>0. /\ pendings \in Seq(Functors) /\ Task("destroyed") \in Functors
      /\ Task("destroyed").op = "destroyed"
  BY TaskTypes, Zenon DEF IInv, ObjectType, TaskOps
<1>1. /\ pendings' = Append(pendings, Task("destroyed")) /\ base = "removing" /\ base' = "removed"
      /\ Moves /\ UNCHANGED <<lp, revents, tmp_pendings, batch_ref, call, delayed, sent, calls>>
  BY Zenon DEF BaseRemove, userVars, loopVars, Moves
<1>2. pendings' \in Seq(Functors) /\ Ops(pendings') = Ops(pendings) \cup {"destroyed"}
  BY <1>0, <1>1, OpsAppend, ZenonT(40)
<1>3. ObjectType' /\ FlowInv' /\ Forward
  BY <1>1, <1>2, Moved, ZenonT(40)
<1>4. LoopType' /\ UserType'
  BY <1>1, ZenonT(40) DEF IInv, LoopType, UserType, Moves
<1>5. LifeInv' /\ CallbackProtocol'
  BY <1>1, <1>2, RemovedIsClosed, SMTT(30) DEF IInv, LifeInv, CallbackProtocol, Moves, Queued
<1>6. EndInv => EndInv'
  BY <1>1, <1>2, Zenon DEF EndInv, Moves, Queued, ReadOps
<1> QED BY <1>3, <1>4, <1>5, <1>6, SMTT(30) DEF Preserves, IInv

LEMMA KernelPreserves ==
  ASSUME IInv, PeerSend \/ PeerFin \/ PeerReset \/ PeerAck
  PROVE  Preserves
<1>0. /\ ObjectType /\ FlowInv /\ sock \in SockType /\ sock.inq \in 0 .. InMax
      /\ received \in Nat /\ received + sock.inq <= InMax /\ InMax \in Nat /\ SndBuf \in Nat
  BY SockFields, TcpConnectionAssumption, Zenon DEF IInv, ObjectType
<1>1. /\ UNCHANGED <<conn, base, pendings, accepted, ups, downs, failed, received>>
      /\ UNCHANGED <<call, held, delayed, tmp_pendings, revents, batch_ref, lp, sent, calls>>
  BY Zenon DEF PeerSend, PeerFin, PeerReset, PeerAck, KernelStep, loopVars, userVars
<1>2. ASSUME NEW p, NEW n \in Nat, NEW r, received + n <= InMax,
             IsSock(sock', p, n, r, sock.wire, sock.shut)
      PROVE  Handled /\ Rests
  BY <1>0, <1>1, <1>2, SockHandled, SMTT(30)
<1>3. Handled /\ Rests
  <2>1. CASE PeerSend
    <3>1. sock.inq + 1 \in 0 .. InMax /\ sock.inq + 1 \in Nat /\ received + (sock.inq + 1) <= InMax
      BY <1>0, <2>1 DEF PeerSend
    <3>2. IsSock(sock', sock.peer, sock.inq + 1, sock.space, sock.wire, sock.shut)
      BY <1>0, <2>1, <3>1, InqSet, SMTT(30) DEF PeerSend, KernelStep
    <3> QED BY <1>2, <3>1, <3>2, Zenon
  <2>2. CASE PeerFin \/ PeerReset
    <3>1. PICK p \in {"open", "fin", "reset"} : sock' = [sock EXCEPT !.peer = p]
      BY <2>2, Zenon DEF PeerFin, PeerReset, KernelStep
    <3>2. IsSock(sock', p, sock.inq, sock.space, sock.wire, sock.shut)
      BY <1>0, <3>1, PeerSet, ZenonT(40)
    <3> QED BY <1>0, <1>2, <3>2
  <2>3. CASE PeerAck
    <3>1. IsSock(sock', sock.peer, sock.inq, SndBuf, sock.wire, sock.shut)
      BY <1>0, <2>3, SpaceSet, SMTT(30) DEF PeerAck, KernelStep
    <3> QED BY <1>0, <1>2, <3>1, SMTT(30)
  <2> QED BY <2>1, <2>2, <2>3, Zenon
<1>4. sent' \subseteq Messages /\ calls' \in 0 .. CallsMax
  BY <1>1, Zenon DEF IInv, UserType
<1> QED BY <1>1, <1>3, <1>4, StillPreserves, Zenon

-----------------------------------------------------------------------------
(* Calls made by user code.                                                *)

LEMMA CallCounted ==
  ASSUME IInv, Called
  PROVE  calls' \in 0 .. CallsMax
BY TcpConnectionAssumption DEF IInv, UserType, Called

\* A call on another thread, up to its access to state_.
LEMMA ThreadCallPreserves ==
  ASSUME IInv, NEW t \in Threads, NEW method, NEW task \in Calls, ThreadCall(t, method, task),
         ReadsOnLoop' => task.op \notin ReadOps,
         Handled, Rests, sent' \subseteq Messages
  PROVE  Preserves
<1>1. /\ call' = [call EXCEPT ![t] = task] /\ method \in ThreadCalls /\ held
      /\ UNCHANGED <<lp, revents, tmp_pendings, batch_ref, held, delayed>>
  BY Zenon DEF ThreadCall, loopVars
<1>2. calls' \in 0 .. CallsMax
  BY CallCounted, Zenon DEF ThreadCall
<1>3. /\ LoopType' /\ BatchKept /\ ups # 0
  BY <1>1, Zenon DEF IInv, LoopType, BatchKept, LifeInv
<1>4. UserType'
  BY <1>1, <1>2, Zenon DEF IInv, UserType
<1>5. ReadsOnLoop' /\ EndInv => \A u \in Threads : call'[u].op \notin ReadOps
  BY <1>1, Zenon DEF EndInv, IInv, UserType
<1>6. /\ tmp_pendings' # <<>> => lp' = "calling"
      /\ EndInv => (tmp_pendings' # <<>> => batch_ref')
  BY <1>1, Zenon DEF EndInv, IInv, LifeInv
<1> QED BY <1>1, <1>3, <1>4, <1>5, <1>6, StepPreserves, Zenon

LEMMA ThreadPreserves ==
  ASSUME IInv, NEW t \in Threads,
         \/ \E m \in Messages : ThreadSend(t, m)
         \/ ThreadShutdown(t) \/ ThreadForceClose(t) \/ ThreadRead(t)
  PROVE  Preserves
<1>0. ObjectType /\ FlowInv /\ sent \subseteq Messages
  BY Zenon DEF IInv, UserType
<1>1. ASSUME NEW m \in Messages, ThreadSend(t, m) PROVE Preserves
  <2>1. SendTask(m) \in Calls /\ SendTask(m).op \notin ReadOps
    BY TaskTypes, Zenon DEF Calls, ReadOps
  <2>2. Handled /\ Rests
    BY <1>0, <1>1, SameHandled, ZenonT(40) DEF ThreadSend, ThreadCall
  <2> QED BY <1>0, <1>1, <2>1, <2>2, ThreadCallPreserves, SMTT(30) DEF ThreadSend
<1>2. CASE ThreadShutdown(t) \/ ThreadForceClose(t)
  <2>1. Handled /\ Rests
    BY <1>0, <1>2, StateHandled, Zenon DEF ThreadShutdown, ThreadForceClose, ThreadCall
  <2>2. \A op \in {"shutdown", "forceclose"} : Task(op) \in Calls /\ Task(op).op \notin ReadOps
    BY TaskTypes, Zenon DEF Calls, ReadOps, TaskOps
  <2> QED BY <1>0, <1>2, <2>1, <2>2, ThreadCallPreserves, SMTT(30)
          DEF ThreadShutdown, ThreadForceClose
<1>3. CASE ThreadRead(t)
  <2>1. Handled /\ Rests
    BY <1>0, <1>3, SameHandled, Zenon DEF ThreadRead, ThreadCall
  <2>2. \A op \in ReadOps : Task(op) \in Calls
    BY TaskTypes, Zenon DEF Calls, ReadOps, TaskOps
  <2>3. ~ReadsOnLoop'
    BY <1>3, Zenon DEF ThreadRead, ThreadCall, ReadsOnLoop
  <2> QED BY <1>0, <1>3, <2>1, <2>2, <2>3, ThreadCallPreserves, ZenonT(40) DEF ThreadRead, ReadOps
<1> QED BY <1>1, <1>2, <1>3, Zenon

LEMMA QueueStep ==
  ASSUME IInv, NEW t \in Threads, ThreadQueue(t)
  PROVE  Preserves
<1>0. /\ pendings \in Seq(Functors) /\ call \in [Threads -> Calls] /\ Idle \in Calls
      /\ call[t] \in Functors /\ call[t].op \in {"send", "shutdown", "forceclose"} \cup ReadOps
      /\ Idle.op \notin ReadOps
  BY Zenon DEF IInv, ObjectType, UserType, ThreadQueue, Calls, Idle, Task, ReadOps
<1>1. /\ pendings' = Append(pendings, call[t])
      /\ call' = [call EXCEPT ![t] = Idle] /\ call[t] # Idle
      /\ Moves /\ UNCHANGED <<base, lp, revents, tmp_pendings, batch_ref, delayed, sent, calls>>
  BY Zenon DEF ThreadQueue, loopVars, Moves
<1>2. pendings' \in Seq(Functors) /\ Ops(pendings') = Ops(pendings) \cup {call[t].op}
  BY <1>0, <1>1, OpsAppend, Zenon
<1>3. ObjectType' /\ FlowInv' /\ Forward
  BY <1>1, <1>2, Moved, Zenon DEF IInv, ObjectType
<1>4. LoopType' /\ UserType'
  BY <1>0, <1>1, Zenon DEF IInv, LoopType, UserType, Moves
<1>5. ups # 0
  BY <1>1, ZenonT(40) DEF IInv, LifeInv
<1>6. LifeInv' /\ CallbackProtocol'
  <2>1. call[t].op \notin {"established", "destroyed"}
    BY <1>0, ZenonT(40) DEF ReadOps
  <2> QED BY <1>1, <1>2, <1>5, <2>1, SMTT(30) DEF IInv, LifeInv, CallbackProtocol, Moves, Queued
<1>7. EndInv => EndInv'
  <2> SUFFICES ASSUME EndInv PROVE EndInv'
    BY ZenonT(40)
  <2>1. Queued' = Queued \cup {call[t].op} /\ call[t].op \notin ReadOps
    BY <1>1, <1>2 DEF Queued, EndInv
  <2>2. \A u \in Threads : call'[u].op \notin ReadOps
    BY <1>0, <1>1, Zenon DEF EndInv
  <2> QED BY <1>1, <1>2, <2>1, <2>2, SMTT(30) DEF EndInv, Moves
<1> QED BY <1>3, <1>4, <1>6, <1>7, Zenon DEF Preserves, IInv

\* Calls on the loop thread run to completion.
LEMMA LoopCallPreserves ==
  ASSUME IInv,
         \/ \E m \in Messages : LoopSend(m)
         \/ LoopShutdown \/ LoopForceClose \/ LoopStartRead \/ LoopStopRead
  PROVE  Preserves
<1>0. ObjectType /\ FlowInv /\ sent \subseteq Messages
  BY Zenon DEF IInv, UserType
<1>1. calls' \in 0 .. CallsMax
  BY CallCounted, Zenon
     DEF LoopSend, LoopShutdown, LoopForceClose, LoopStartRead, LoopStopRead, LoopUser
<1>2. /\ UNCHANGED <<call, held, delayed, tmp_pendings, revents, batch_ref, lp>>
      /\ sent' \subseteq Messages
  BY <1>0, Zenon DEF LoopSend, LoopShutdown, LoopForceClose, LoopStartRead, LoopStopRead, loopVars
<1>3. Handled /\ Rests
  <2>1. ASSUME NEW m \in Messages, LoopSend(m) PROVE Handled /\ Rests
    BY <1>0, <2>1, SendHandled, Zenon DEF LoopSend
  <2>2. CASE LoopShutdown
    BY <1>0, <2>2, StateHandled, Zenon DEF LoopShutdown
  <2>3. CASE LoopForceClose
    BY <1>0, <2>3, StateHandled, Zenon DEF LoopForceClose, ForceClose
  <2>4. CASE LoopStartRead \/ LoopStopRead
    <3>1. Handled
      BY <1>0, <2>4, ReadsHandled, Zenon DEF LoopStartRead, LoopStopRead
    <3>2. conn.state = "Connected"
      BY <2>4, Zenon DEF LoopStartRead, LoopStopRead
    <3> QED BY <3>1, <3>2, Zenon DEF Rests
  <2> QED BY <2>1, <2>2, <2>3, <2>4, Zenon
<1> QED BY <1>1, <1>2, <1>3, StillPreserves, SMTT(30)

LEMMA TimerAndReleasePreserve ==
  ASSUME IInv, ForceCloseDelay \/ DelayExpires \/ Release
  PROVE  Preserves
<1>0. ObjectType /\ FlowInv
  BY Zenon DEF IInv
<1>1. Handled /\ Rests
  <2>1. CASE ForceCloseDelay \/ Release
    BY <1>0, <2>1, SameHandled, ZenonT(40) DEF ForceCloseDelay, Release
  <2>2. CASE DelayExpires
    <3>1. CASE ForceClose
      BY <1>0, <3>1, StateHandled, Zenon DEF ForceClose
    <3>2. CASE user_callback(pendings)
      BY <1>0, <3>2, SameHandled, Zenon DEF user_callback
    <3> QED BY <2>2, <3>1, <3>2, ZenonT(40) DEF DelayExpires
  <2> QED BY <2>1, <2>2, Zenon
<1>2. /\ UNCHANGED <<call, tmp_pendings, revents, batch_ref, lp, sent>>
      /\ held' = held \/ (held /\ held' = FALSE)
  BY Zenon DEF ForceCloseDelay, DelayExpires, Release, loopVars
<1>3. calls' \in 0 .. CallsMax
  <2>1. calls' = calls \/ Called
    BY Zenon DEF ForceCloseDelay, DelayExpires, Release, LoopUser
  <2> QED BY <2>1, CallCounted, Zenon DEF IInv, UserType
<1>4. held' \in BOOLEAN /\ delayed' \in BOOLEAN
  BY <1>2 DEF ForceCloseDelay, DelayExpires, Release, IInv, UserType
<1>5. LoopType' /\ UserType' /\ BatchKept
  BY <1>2, <1>3, <1>4, Zenon DEF IInv, LoopType, UserType, BatchKept
<1>6. /\ ups = 0 => UNCHANGED <<call, held>>
      /\ tmp_pendings' # <<>> => lp' = "calling"
      /\ EndInv => /\ \A t \in Threads : call'[t].op \notin ReadOps
                   /\ tmp_pendings' # <<>> => batch_ref'
  BY <1>2, Zenon DEF IInv, LifeInv, EndInv
<1> QED BY <1>1, <1>2, <1>5, <1>6, StepPreserves, SMTT(30)

-----------------------------------------------------------------------------
(* The theorems.                                                           *)

LEMMA NextPreserves == IInv /\ [Next]_vars => Preserves
<1> SUFFICES ASSUME IInv, [Next]_vars PROVE Preserves
  BY Zenon
<1>1. CASE UNCHANGED vars
  <2>1. IInv' /\ (EndInv => EndInv')
    BY <1>1, SMTT(30)
    DEF vars, IInv, ObjectType, LoopType, UserType, FlowInv, LifeInv, CallbackProtocol,
                EndInv, Queued
  <2>2. Forward
    BY <1>1, Zenon DEF vars, Forward
  <2> QED BY <2>1, <2>2, ZenonT(40) DEF Preserves
<1>2. CASE Next
  BY <1>2, LoopStepPreserves, BaseStep, KernelPreserves, ThreadPreserves, QueueStep,
     LoopCallPreserves, TimerAndReleasePreserve, SMTT(30) DEF Next, UserStep
<1> QED BY <1>1, <1>2, Zenon

\* Every reachable state of the connection, its loop and its users satisfies the
\* inductive invariant.
THEOREM Inductive == Spec => []IInv
<1>1. Init => IInv
  BY InitInv, Zenon
<1>2. IInv /\ [Next]_vars => IInv'
  BY NextPreserves, Zenon DEF Preserves
<1> QED BY <1>1, <1>2, PTL DEF Spec

\* Only a thread's StartRead and StopRead write off_reads, and nothing resets it.
LEMMA OffReadsStay ==
  ASSUME off_reads \in BOOLEAN, [Next]_vars
  PROVE  off_reads' \in BOOLEAN /\ (off_reads => off_reads')
<1>1. CASE UNCHANGED vars
  BY <1>1, Zenon DEF vars
<1>2. CASE LoopStep
  BY <1>2, Zenon
     DEF LoopStep, Poll, HandleEventRead, HandleEventWrite, SwapPendings, CallPending, EndPendings,
         userVars
<1>3. CASE BaseRemove \/ PeerSend \/ PeerFin \/ PeerReset \/ PeerAck
  BY <1>3, Zenon DEF BaseRemove, PeerSend, PeerFin, PeerReset, PeerAck, KernelStep, userVars
<1>4. CASE UserStep
  BY <1>4, ZenonT(40)
     DEF UserStep, ThreadSend, ThreadShutdown, ThreadForceClose, ThreadRead, ThreadCall,
         ThreadQueue, LoopSend, LoopShutdown, LoopForceClose, LoopStartRead, LoopStopRead,
         ForceCloseDelay, DelayExpires, Release
<1> QED BY <1>1, <1>2, <1>3, <1>4, Zenon DEF Next

LEMMA OffReadsType == Spec => [](off_reads \in BOOLEAN)
<1>1. Init => off_reads \in BOOLEAN
  BY Zenon DEF Init
<1>2. off_reads \in BOOLEAN /\ [Next]_vars => (off_reads \in BOOLEAN)'
  BY OffReadsStay, Zenon
<1> QED BY <1>1, <1>2, PTL DEF Spec

LEMMA FunctorsAreTasks ==
  Functors \subseteq Tasks /\ Calls \subseteq Tasks /\ Seq(Functors) \subseteq Seq(Tasks)
<1>1. Functors \subseteq Tasks /\ Idle \in Tasks
  BY Zenon DEF Functors, Idle, Task, Tasks, TaskOps
<1> QED BY <1>1 DEF Calls

\* TypeOK: the fields of the connection, its socket, the loop's queues and the calls
\* under way keep their types, received never passing what the peer sent.
THEOREM TypeCorrect == Spec => []TypeOK
<1>1. IInv /\ off_reads \in BOOLEAN => TypeOK
  <2> SUFFICES ASSUME IInv, off_reads \in BOOLEAN PROVE TypeOK
    BY Zenon
  <2>1. pendings \in Seq(Tasks) /\ tmp_pendings \in Seq(Tasks) /\ call \in [Threads -> Tasks]
    BY FunctorsAreTasks, ZenonT(40) DEF IInv, ObjectType, LoopType, UserType
  <2>2. received \in 0 .. InMax /\ ups \in Nat /\ downs \in Nat
    BY SockFields, TcpConnectionAssumption, SMTT(30) DEF IInv, ObjectType
  <2>3. /\ conn \in ConnType /\ sock \in SockType
        /\ base \in {"inmap", "removing", "removed"} /\ accepted \in Seq(AllBytes)
        /\ lp \in {"poll", "active", "write", "events", "calling"}
        /\ revents \subseteq Interests \cup {"HUP"} /\ batch_ref \in BOOLEAN
        /\ held \in BOOLEAN /\ delayed \in BOOLEAN
        /\ sent \subseteq Messages /\ calls \in 0 .. CallsMax
    BY ZenonT(40) DEF IInv, ObjectType, LoopType, UserType
  <2> QED BY <2>1, <2>2, <2>3, Zenon DEF TypeOK, ConnType, SockType, States
<1> QED BY <1>1, Inductive, OffReadsType, PTL

\* StreamIntegrity: whatever mixture of direct sends, buffered sends, partial writes
\* and closes, the bytes given to the kernel and those in output_buffer_ are the bytes
\* send_in_loop took over, in order.
THEOREM StreamCorrect == Spec => []StreamIntegrity
<1>1. IInv => StreamIntegrity
  BY ZenonT(40) DEF IInv, FlowInv, Flow, StreamIntegrity
<1> QED BY <1>1, Inductive, PTL

\* WriteEventIffOutput: until the connection is closed, EPOLLOUT is asked for exactly
\* while output waits.
THEOREM WriteEventCorrect == Spec => []WriteEventIffOutput
<1>1. IInv => WriteEventIffOutput
  BY ZenonT(40) DEF IInv, FlowInv, Flow, WriteEventIffOutput
<1> QED BY <1>1, Inductive, PTL

\* ShutdownAfterOutput: neither shutdown_in_loop nor handle_write closes the write side
\* of an open connection before output_buffer_ is empty.
THEOREM ShutdownCorrect == Spec => []ShutdownAfterOutput
<1>1. IInv => ShutdownAfterOutput
  BY Zenon DEF IInv, FlowInv, Flow, ShutdownAfterOutput
<1> QED BY <1>1, Inductive, PTL

\* CallbackProtocol: on_connection_ is called at most once up and once down, however
\* many reasons to close come together.
THEOREM CallbackCorrect == Spec => []CallbackProtocol
<1>1. IInv => CallbackProtocol
  BY Zenon DEF IInv
<1> QED BY <1>1, Inductive, PTL

\* ChannelConsistent: Channel, EPoller and epoll agree whatever handlers and users do.
THEOREM ChannelCorrect == Spec => []ChannelConsistent
<1>1. IInv => ChannelConsistent
  BY Zenon DEF IInv, FlowInv, Flow, ChannelConsistent
<1> QED BY <1>1, Inductive, PTL

\* The state says how often the callback was called and that a removed connection is closed.
LEMMA StateTells ==
  ASSUME NEW state, NEW up \in Nat, NEW down \in Nat, NEW entry,
         up <= 1, down <= up,
         up = 0 => state = "Connecting", up = 1 => state # "Connecting",
         state = "Disconnected" <=> down = 1, entry # "inmap" => down = 1
  PROVE  /\ up + down = IF state = "Connecting" THEN 0
                        ELSE IF state = "Disconnected" THEN 2 ELSE 1
         /\ entry = "removed" => state = "Disconnected"
OBVIOUS

\* The server does not take back a connection it has forgotten.
LEMMA RemovedStays ==
  ASSUME base = "removed", conn.state = "Disconnected", Next
  PROVE  base' = "removed"
<1>1. ASSUME NEW q, handle_close(q) PROVE base' = base
  BY <1>1, Zenon DEF handle_close
<1>2. ASSUME NEW m, NEW q, send_in_loop(m, q) PROVE base' = base
  BY <1>2, <1>1, Zenon DEF send_in_loop, TakeOver
<1>3. ASSUME NEW q, handle_read(q) \/ handle_write(q) \/ user_callback(q) PROVE base' = base
  BY <1>3, <1>1, Zenon DEF handle_read, handle_write, Drained, PartlyWritten, user_callback
<1>4. ASSUME NEW f, RunTask(f) PROVE base' = base
  BY <1>4, <1>1, <1>2, <1>3, Zenon
     DEF RunTask, ConnectionEstablished, shutdown_in_loop, force_close_in_loop,
         start_read_in_loop, stop_read_in_loop, ConnectionDestroyed
<1>5. CASE LoopStep
  BY <1>5, <1>1, <1>3, <1>4, Zenon
     DEF LoopStep, Poll, HandleEventRead, HandleEventWrite, SwapPendings, CallPending, EndPendings
<1>6. CASE BaseRemove \/ PeerSend \/ PeerFin \/ PeerReset \/ PeerAck
  BY <1>6, Zenon DEF BaseRemove, PeerSend, PeerFin, PeerReset, PeerAck, KernelStep
<1>7. CASE UserStep
  BY <1>7, <1>2, <1>3, ZenonT(40)
     DEF UserStep, ThreadSend, ThreadShutdown, ThreadForceClose, ThreadRead, ThreadCall,
         ThreadQueue, LoopSend, LoopShutdown, LoopForceClose, ForceClose, LoopStartRead,
         LoopStopRead, start_read_in_loop, stop_read_in_loop, ForceCloseDelay, DelayExpires,
         Release
<1> QED BY <1>5, <1>6, <1>7, Zenon DEF Next

\* ImplementsLife: the connection lives the life of ConnectionLife although Shutdown and
\* ForceClose on any thread race with the handlers that close it.
THEOREM LifeCorrect == Spec => ImplementsLife
<1>1. Init => Life!Init
  BY DEF Init, Life!Init
<1>2. IInv /\ [Next]_vars => [Life!Next]_(Life!vars)
  <2> SUFFICES ASSUME IInv, [Next]_vars PROVE Life!Next \/ UNCHANGED Life!vars
    BY Zenon
  <2>1. IInv' /\ Forward
    BY NextPreserves, Zenon DEF Preserves
  <2>2. /\ ups \in Nat /\ downs \in Nat /\ ups <= 1 /\ downs <= ups
        /\ ups = 0 => conn.state = "Connecting"
        /\ ups = 1 => conn.state # "Connecting"
        /\ conn.state = "Disconnected" <=> downs = 1
        /\ base # "inmap" => downs = 1
    BY Zenon DEF IInv, ObjectType, LifeInv, CallbackProtocol
  <2>3. /\ ups' \in Nat /\ downs' \in Nat /\ ups' <= 1 /\ downs' <= ups'
        /\ ups' = 0 => conn'.state = "Connecting"
        /\ ups' = 1 => conn'.state # "Connecting"
        /\ conn'.state = "Disconnected" <=> downs' = 1
        /\ base' # "inmap" => downs' = 1
    BY <2>1, Zenon DEF IInv, ObjectType, LifeInv, CallbackProtocol
  <2>4. PICK n, k :
          /\ n = ups + downs /\ k = ups' + downs'
          /\ n = IF conn.state = "Connecting" THEN 0
                 ELSE IF conn.state = "Disconnected" THEN 2 ELSE 1
          /\ k = IF conn'.state = "Connecting" THEN 0
                 ELSE IF conn'.state = "Disconnected" THEN 2 ELSE 1
          /\ base = "removed" => conn.state = "Disconnected"
          /\ base' = "removed" => conn'.state = "Disconnected"
    <3>1. /\ ups + downs = IF conn.state = "Connecting" THEN 0
                            ELSE IF conn.state = "Disconnected" THEN 2 ELSE 1
          /\ base = "removed" => conn.state = "Disconnected"
      BY <2>2, StateTells, SMTT(30)
    <3>2. /\ ups' + downs' = IF conn'.state = "Connecting" THEN 0
                              ELSE IF conn'.state = "Disconnected" THEN 2 ELSE 1
          /\ base' = "removed" => conn'.state = "Disconnected"
      <4>1. PICK state, up, down, entry : /\ state = conn'.state /\ up = ups'
                                          /\ down = downs' /\ entry = base'
        BY Zenon
      <4>2. /\ up \in Nat /\ down \in Nat /\ up <= 1 /\ down <= up
            /\ up = 0 => state = "Connecting"
            /\ up = 1 => state # "Connecting"
            /\ state = "Disconnected" <=> down = 1
            /\ entry # "inmap" => down = 1
        BY <2>3, <4>1, Zenon
      <4>3. /\ up + down = IF state = "Connecting" THEN 0
                           ELSE IF state = "Disconnected" THEN 2 ELSE 1
            /\ entry = "removed" => state = "Disconnected"
        BY <4>2, StateTells, SMTT(30)
      <4> QED BY <4>1, <4>3, Zenon
    <3> QED BY <3>1, <3>2, Zenon
  <2>5. base = "removed" => base' = "removed"
    <3>1. CASE UNCHANGED vars
      BY <3>1, Zenon DEF vars
    <3>2. CASE Next
      BY <3>2, <2>4, RemovedStays, Zenon
    <3> QED BY <3>1, <3>2, Zenon
  <2>6. CASE conn'.state = conn.state
    <3>1. k = n
      BY <2>4, <2>6, Zenon
    <3> QED BY <2>4, <2>5, <2>6, <3>1, Zenon DEF Life!vars, Life!Next, Life!Forget
  <2>7. CASE conn.state = "Connecting" /\ conn'.state = "Connected"
    <3>1. k = n + 1
      BY <2>4, <2>7
    <3> QED BY <2>4, <2>7, <3>1, Zenon DEF Life!Next, Life!Establish
  <2>8. CASE conn.state = "Connected" /\ conn'.state = "Disconnecting"
    <3>1. k = n
      BY <2>4, <2>8, Zenon
    <3> QED BY <2>4, <2>8, <3>1, Zenon DEF Life!Next, Life!Shutdown
  <2>9. CASE conn.state \in {"Connected", "Disconnecting"} /\ conn'.state = "Disconnected"
    <3>1. k = n + 1
      BY <2>4, <2>9
    <3> QED BY <2>4, <2>5, <2>9, <3>1, Zenon DEF Life!Next, Life!Close
  <2> QED BY <2>1, <2>6, <2>7, <2>8, <2>9 DEF Forward
<1> QED BY <1>1, <1>2, Inductive, PTL DEF Spec, ImplementsLife, Life!Spec

\* While StartRead and StopRead are kept on the loop thread, the way out is safe as well.
LEMMA EndInductive == Spec => [](ReadsOnLoop => EndInv)
<1>1. Init => (ReadsOnLoop => EndInv)
  BY InitInv, Zenon
<1>2. IInv /\ off_reads \in BOOLEAN /\ (ReadsOnLoop => EndInv) /\ [Next]_vars
      => (ReadsOnLoop => EndInv)'
  <2>1. IInv /\ [Next]_vars => (ReadsOnLoop' /\ EndInv => EndInv')
    BY NextPreserves, Zenon DEF Preserves
  <2>2. off_reads \in BOOLEAN /\ [Next]_vars => (ReadsOnLoop' => ReadsOnLoop)
    BY OffReadsStay, Zenon DEF ReadsOnLoop
  <2> QED BY <2>1, <2>2, Zenon
<1> QED BY <1>1, <1>2, Inductive, OffReadsType, PTL DEF Spec

\* Functors of the connection own it, unless they are those of StartRead and StopRead.
LEMMA QueuedIsOwned ==
  ASSUME IInv, EndInv, pendings # <<>>
  PROVE  Referenced
<1>1. 1 \in DOMAIN pendings
  BY DEF IInv, ObjectType
<1>2. pendings[1].op \in Queued
  BY <1>1, Zenon DEF Queued, Ops
<1> QED BY <1>1, <1>2, ZenonT(40) DEF EndInv, ReadOps, HoldsConn, Referenced

\* AssertsHold: the asserts of ConnectionEstablished, RemoveFromLoop, remove_connection,
\* ~TcpConnection and ~Channel hold, whoever owns the connection last, as long as
\* StartRead and StopRead are called on the loop thread only.
THEOREM AssertsCorrect == Spec => []AssertsHold
<1>1. IInv /\ (ReadsOnLoop => EndInv) => AssertsHold
  <2> SUFFICES ASSUME IInv, ReadsOnLoop, EndInv, ~Referenced
               PROVE  /\ conn.state = "Disconnected"
                      /\ Destructible(conn.channel) /\ ~conn.channel.registered
    BY ZenonT(40) DEF AssertsHold, EndInv
  <2>1. base = "removed" /\ pendings = <<>> /\ tmp_pendings = <<>>
    BY QueuedIsOwned, SMTT(30) DEF Referenced, EndInv, IInv, LifeInv
  <2>2. conn.state = "Disconnected" /\ Removed(conn.channel)
    BY <2>1, RemovedIsClosed, OpsEmpty, SMTT(30) DEF EndInv, Queued
  <2> QED BY <2>2, ZenonT(40) DEF IInv, FlowInv, Flow, Consistent, Removed, Destructible
<1> QED BY <1>1, Inductive, EndInductive, PTL

\* AliveWhenUsed: neither an active channel nor a queued functor outlives the
\* connection, whenever its owners let go, as long as StartRead and StopRead are called
\* on the loop thread only.
THEOREM AliveCorrect == Spec => []AliveWhenUsed
<1>1. IInv /\ (ReadsOnLoop => EndInv) => AliveWhenUsed
  <2> SUFFICES ASSUME IInv, EndInv, lp = "active" \/ tmp_pendings # <<>> \/ pendings # <<>>
               PROVE  Referenced
    BY Zenon DEF AliveWhenUsed
  <2>1. CASE pendings # <<>>
    BY <2>1, QueuedIsOwned, Zenon
  <2>2. CASE tmp_pendings # <<>>
    BY <2>2, Zenon DEF EndInv, IInv, LifeInv, Referenced
  <2>3. CASE lp = "active" /\ pendings = <<>>
    BY <2>3, OpsEmpty, Zenon DEF EndInv, Referenced
  <2> QED BY <2>1, <2>2, <2>3, ZenonT(40)
<1> QED BY <1>1, Inductive, EndInductive, PTL

-----------------------------------------------------------------------------
(* Messages on their way to the output.                                    *)

LEMMA RangeConcat ==
  ASSUME NEW S, NEW p \in Seq(S), NEW q \in Seq(S)
  PROVE  Range(p) \subseteq Range(p \o q) /\ Range(q) \subseteq Range(p \o q)
<1>1. ASSUME NEW i \in DOMAIN p PROVE p[i] \in Range(p \o q)
  <2>1. i \in DOMAIN (p \o q) /\ (p \o q)[i] = p[i]
    OBVIOUS
  <2> QED BY <2>1, Zenon DEF Range
<1>2. ASSUME NEW i \in DOMAIN q PROVE q[i] \in Range(p \o q)
  <2>1. i + Len(p) \in DOMAIN (p \o q) /\ (p \o q)[i + Len(p)] = q[i]
    OBVIOUS
  <2> QED BY <2>1, Zenon DEF Range
<1> QED BY <1>1, <1>2, Zenon DEF Range

LEMMA RangeAppend ==
  ASSUME NEW S, NEW p \in Seq(S), NEW f \in S
  PROVE  Range(p) \subseteq Range(Append(p, f)) /\ f \in Range(Append(p, f))
<1>1. ASSUME NEW i \in DOMAIN p PROVE p[i] \in Range(Append(p, f))
  <2>1. i \in DOMAIN Append(p, f) /\ Append(p, f)[i] = p[i]
    OBVIOUS
  <2> QED BY <2>1, Zenon DEF Range
<1>2. Len(p) + 1 \in DOMAIN Append(p, f) /\ Append(p, f)[Len(p) + 1] = f
  OBVIOUS
<1> QED BY <1>1, <1>2, Zenon DEF Range

LEMMA RangeHead ==
  ASSUME NEW S, NEW q \in Seq(S), q # <<>>
  PROVE  Range(q) \subseteq {Head(q)} \cup Range(Tail(q))
<1>1. ASSUME NEW i \in DOMAIN q, i # 1 PROVE q[i] \in Range(Tail(q))
  <2>1. i - 1 \in DOMAIN Tail(q) /\ Tail(q)[i - 1] = q[i]
    BY <1>1
  <2> QED BY <2>1, Zenon DEF Range
<1>2. Head(q) = q[1]
  OBVIOUS
<1> QED BY <1>1, <1>2, Zenon DEF Range

\* A handler forgets no functor in the queue and no byte taken over.
Grows == Range(pendings) \subseteq Range(pendings') /\ Range(accepted) \subseteq Range(accepted')

LEMMA CloseGrows ==
  ASSUME ObjectType, handle_close(pendings)
  PROVE  Grows /\ (conn.state \in {"Connected", "Disconnecting"} => conn'.state = "Disconnected")
<1>1. pendings \in Seq(Functors) /\ Task("destroyed") \in Functors
  BY TaskTypes, Zenon DEF ObjectType, TaskOps
<1>2. pendings' = pendings \/ pendings' = Append(pendings, Task("destroyed"))
  BY Zenon DEF handle_close
<1>3. Grows
  BY <1>1, <1>2, RangeAppend, Zenon DEF Grows, handle_close
<1>4. conn.state \in {"Connected", "Disconnecting"} => conn'.state = "Disconnected"
  BY Zenon DEF handle_close, ObjectType, ConnType
<1> QED BY <1>3, <1>4, Zenon

LEMMA TakeOverGrows ==
  ASSUME ObjectType, NEW bytes \in Seq(AllBytes), TakeOver(bytes, pendings)
  PROVE  Grows /\ Range(bytes) \subseteq Range(accepted')
<1>1. /\ pendings \in Seq(Functors) /\ accepted \in Seq(AllBytes)
      /\ Task("writecomplete") \in Functors /\ Task("highwater") \in Functors
  BY TaskTypes, Zenon DEF ObjectType, TaskOps
<1>2. PICK a \in Seq(Functors), b \in Seq(Functors) : pendings' = (pendings \o a) \o b
  <2>1. <<>> \in Seq(Functors) /\ <<Task("writecomplete")>> \in Seq(Functors)
        /\ <<Task("highwater")>> \in Seq(Functors)
    BY <1>1
  <2> QED BY <2>1, Zenon DEF TakeOver
<1>3. accepted' = accepted \o bytes
  BY Zenon DEF TakeOver
<1>4. pendings \o a \in Seq(Functors)
  BY <1>1
<1>5. Range(pendings) \subseteq Range(pendings')
  <2>1. Range(pendings) \subseteq Range(pendings \o a)
    BY <1>1, RangeConcat, Zenon
  <2>2. Range(pendings \o a) \subseteq Range((pendings \o a) \o b)
    BY <1>4, RangeConcat, Zenon
  <2> QED BY <1>2, <2>1, <2>2, Zenon
<1> QED BY <1>1, <1>3, <1>5, RangeConcat, Zenon DEF Grows

\* send_in_loop takes the message over, unless it closes the connection.
LEMMA SendGrows ==
  ASSUME ObjectType, NEW m \in Messages, send_in_loop(m, pendings)
  PROVE  /\ Grows
         /\ conn.state = "Connected" /\ conn'.state = "Connected" => TakenOver(m)'
<1>1. CASE conn.state # "Connected"
  BY <1>1, Zenon DEF send_in_loop, Grows
<1>2. CASE conn.state = "Connected" /\ handle_close(pendings)
  BY <1>2, CloseGrows, Zenon
<1>3. CASE TakeOver(Bytes(m), pendings)
  BY <1>3, BytesType, TakeOverGrows, Zenon DEF TakenOver
<1> QED BY <1>1, <1>2, <1>3, Zenon DEF send_in_loop

LEMMA EventGrows ==
  ASSUME ObjectType, handle_read(pendings) \/ handle_write(pendings)
  PROVE  Grows
<1>1. CASE handle_close(pendings)
  BY <1>1, CloseGrows, Zenon
<1>2. CASE pendings' = pendings /\ accepted' = accepted
  BY <1>2, Zenon DEF Grows
<1>3. CASE Drained(pendings)
  <2>1. /\ pendings \in Seq(Functors) /\ <<>> \in Seq(Functors)
        /\ <<Task("writecomplete")>> \in Seq(Functors)
    BY TaskTypes DEF ObjectType, TaskOps
  <2>2. PICK a \in Seq(Functors) : pendings' = pendings \o a /\ accepted' = accepted
    BY <1>3, <2>1, Zenon DEF Drained
  <2> QED BY <2>1, <2>2, RangeConcat, Zenon DEF Grows
<1> QED BY <1>1, <1>2, <1>3, Zenon DEF handle_read, handle_write, PartlyWritten

\* A message under way stays so, or is taken over, as long as the connection is up.
Carried ==
  \A m \in Messages :
    conn.state = "Connected" /\ conn'.state = "Connected" /\ (UnderWay(m) \/ TakenOver(m)) =>
      (UnderWay(m) \/ TakenOver(m))'

LEMMA GrowsCarries ==
  ASSUME Grows, Range(tmp_pendings) \subseteq Range(tmp_pendings'), Range(call) \subseteq Range(call')
  PROVE  Carried
BY ZenonT(40) DEF Grows, Carried, UnderWay, TakenOver

\* A Send leaves its message with a functor or in the output.
Sends ==
  \E m \in Messages :
    /\ conn.state = "Connected" /\ sent' = sent \cup {m}
    /\ conn'.state = "Connected" => (UnderWay(m) \/ TakenOver(m))'

LEMMA LoopCarries ==
  ASSUME IInv, LoopStep
  PROVE  Carried /\ sent' = sent
<1>0. ObjectType /\ pendings \in Seq(Functors) /\ tmp_pendings \in Seq(Functors)
  BY Zenon DEF IInv, ObjectType, LoopType
<1>1. CASE Poll \/ EndPendings
  <2>1. Grows /\ tmp_pendings' = tmp_pendings /\ call' = call /\ sent' = sent
    BY <1>1, Zenon DEF Poll, EndPendings, Grows, userVars
  <2> QED BY <2>1, GrowsCarries, Zenon
<1>2. CASE HandleEventRead \/ HandleEventWrite
  <2>1. tmp_pendings' = tmp_pendings /\ call' = call /\ sent' = sent
    BY <1>2, Zenon DEF HandleEventRead, HandleEventWrite, userVars
  <2>2. Grows
    <3>1. ASSUME user_callback(pendings) PROVE Grows
      BY <3>1, Zenon DEF user_callback, Grows
    <3> QED BY <1>0, <1>2, <3>1, CloseGrows, EventGrows, Zenon
            DEF HandleEventRead, HandleEventWrite
  <2> QED BY <2>1, <2>2, GrowsCarries, Zenon
<1>3. CASE SwapPendings
  <2>1. /\ tmp_pendings = <<>> /\ tmp_pendings' = pendings
        /\ UNCHANGED <<call, sent, accepted>>
    BY <1>3, Zenon DEF SwapPendings, IInv, LifeInv, userVars
  <2>2. Range(<<>>) = {}
    BY DEF Range
  <2>3. \A m \in Messages : UnderWay(m) => UnderWay(m)'
    BY <2>1, <2>2, Zenon DEF UnderWay
  <2> QED BY <2>1, <2>3, Zenon DEF Carried, TakenOver
<1>4. CASE CallPending
  <2> DEFINE f == Head(tmp_pendings)
  <2>1. /\ f \in Functors /\ tmp_pendings # <<>> /\ tmp_pendings' = Tail(tmp_pendings)
        /\ UNCHANGED <<call, sent>> /\ RunTask(f)
    BY <1>0, <1>4, OpsHead, Zenon DEF CallPending
  <2>2. f.op = "send" => f.msg \in Messages
    BY <2>1, Zenon DEF Functors
  <2>3. Range(tmp_pendings) \subseteq {f} \cup Range(tmp_pendings')
    BY <1>0, <2>1, RangeHead, Zenon
  <2> HIDE DEF f
  <2>4. /\ Grows
        /\ \A m \in Messages :
             f.msg = m /\ f.op = "send" /\ conn.state = "Connected" /\ conn'.state = "Connected" =>
               TakenOver(m)'
    <3>1. CASE f.op = "send" /\ send_in_loop(f.msg, pendings)
      <4>1. PICK k \in Messages : k = f.msg
        BY <2>2, <3>1, Zenon
      <4>2. send_in_loop(k, pendings)
        BY <3>1, <4>1, Zenon
      <4>3. Grows /\ (conn.state = "Connected" /\ conn'.state = "Connected" => TakenOver(k)')
        BY <1>0, <4>2, SendGrows, Zenon
      <4> QED BY <4>1, <4>3, Zenon
    <3>2. CASE f.op # "send" /\ force_close_in_loop(pendings)
      BY <1>0, <3>2, CloseGrows, Zenon DEF force_close_in_loop
    <3>3. CASE f.op # "send" /\ pendings' = pendings /\ accepted' = accepted
      BY <3>3, Zenon DEF Grows
    <3> QED BY <2>1, <3>1, <3>2, <3>3, SMTT(30)
            DEF RunTask, ConnectionEstablished, shutdown_in_loop, start_read_in_loop,
                stop_read_in_loop, ConnectionDestroyed, user_callback
  <2>5. ASSUME NEW m \in Messages, conn.state = "Connected", conn'.state = "Connected", UnderWay(m)
        PROVE  UnderWay(m)' \/ TakenOver(m)'
    <3>1. CASE SendTask(m) = f
      <4>1. f.op = "send" /\ f.msg = m
        BY <3>1 DEF SendTask
      <4> QED BY <2>4, <2>5, <4>1, Zenon
    <3>2. CASE SendTask(m) # f
      BY <2>1, <2>3, <2>4, <2>5, <3>2, Zenon DEF UnderWay, Grows
    <3> QED BY <3>1, <3>2, Zenon
  <2>6. \A m \in Messages : TakenOver(m) => TakenOver(m)'
    BY <2>4, Zenon DEF TakenOver, Grows
  <2> QED BY <2>1, <2>5, <2>6, Zenon DEF Carried
<1> QED BY <1>1, <1>2, <1>3, <1>4, Zenon DEF LoopStep

\* A thread's call: what it is about to queue is under way.
LEMMA CallCarries ==
  ASSUME IInv, NEW t \in Threads, NEW method, NEW task, ThreadCall(t, method, task),
         accepted' = accepted
  PROVE  Carried /\ task \in Range(call')
<1>1. /\ call \in [Threads -> Calls] /\ call[t] = Idle /\ call' = [call EXCEPT ![t] = task]
      /\ UNCHANGED <<pendings, tmp_pendings>>
  BY Zenon DEF IInv, UserType, ThreadCall, loopVars
<1>2. task \in Range(call') /\ Range(call) \subseteq {Idle} \cup Range(call')
  BY <1>1 DEF Range
<1>3. \A m \in Messages : SendTask(m) # Idle
  BY DEF SendTask, Idle, Task
<1>4. \A m \in Messages : UnderWay(m) => UnderWay(m)'
  BY <1>1, <1>2, <1>3, ZenonT(40) DEF UnderWay
<1> QED BY <1>2, <1>4, Zenon DEF Carried, TakenOver

LEMMA UserCarries ==
  ASSUME IInv, UserStep
  PROVE  Carried /\ (sent' = sent \/ Sends)
<1>0. ObjectType /\ pendings \in Seq(Functors)
  BY Zenon DEF IInv, ObjectType
<1>1. ASSUME NEW t \in Threads, NEW m \in Messages, ThreadSend(t, m)
      PROVE  Carried /\ Sends
  <2>1. Carried /\ SendTask(m) \in Range(call')
    BY <1>1, CallCarries, Zenon DEF ThreadSend, ThreadCall
  <2> QED BY <1>1, <2>1, Zenon DEF ThreadSend, Sends, UnderWay
<1>2. ASSUME NEW t \in Threads, ThreadShutdown(t) \/ ThreadForceClose(t) \/ ThreadRead(t)
      PROVE  Carried /\ sent' = sent
  <2>1. PICK method, task : ThreadCall(t, method, task)
    BY <1>2, Zenon DEF ThreadShutdown, ThreadForceClose, ThreadRead
  <2> QED BY <1>2, <2>1, CallCarries, Zenon
          DEF ThreadShutdown, ThreadForceClose, ThreadRead, ThreadCall
<1>3. ASSUME NEW t \in Threads, ThreadQueue(t)
      PROVE  Carried /\ sent' = sent
  <2>1. /\ call \in [Threads -> Calls] /\ call[t] \in Functors
        /\ call' = [call EXCEPT ![t] = Idle] /\ pendings' = Append(pendings, call[t])
        /\ UNCHANGED <<tmp_pendings, accepted, sent>>
    BY <1>3, Zenon DEF IInv, UserType, ThreadQueue, Calls, loopVars
  <2>2. Range(pendings) \subseteq Range(pendings') /\ call[t] \in Range(pendings')
    BY <1>0, <2>1, RangeAppend, Zenon
  <2>3. Range(call) \subseteq {call[t]} \cup Range(call')
    BY <2>1 DEF Range
  <2>4. \A m \in Messages : UnderWay(m) => UnderWay(m)'
    BY <2>1, <2>2, <2>3, ZenonT(40) DEF UnderWay
  <2> QED BY <2>1, <2>4, Zenon DEF Carried, TakenOver
<1>4. ASSUME NEW m \in Messages, LoopSend(m) PROVE Carried /\ Sends
  <2>1. /\ UNCHANGED <<tmp_pendings, call>> /\ conn.state = "Connected"
        /\ sent' = sent \cup {m} /\ send_in_loop(m, pendings)
    BY <1>4, Zenon DEF LoopSend, loopVars
  <2>2. Grows /\ (conn'.state = "Connected" => TakenOver(m)')
    BY <1>0, <2>1, SendGrows, Zenon
  <2> QED BY <2>1, <2>2, GrowsCarries, Zenon DEF Sends
<1>5. ASSUME \/ LoopShutdown \/ LoopForceClose \/ LoopStartRead \/ LoopStopRead
             \/ ForceCloseDelay \/ DelayExpires \/ Release
      PROVE  Carried /\ sent' = sent
  <2>1. /\ UNCHANGED <<tmp_pendings, call, sent, accepted>>
        /\ pendings' = pendings \/ pendings' = Append(pendings, Task("forceclose"))
    BY <1>5, ZenonT(40)
       DEF LoopShutdown, LoopForceClose, LoopStartRead, LoopStopRead, ForceCloseDelay,
           DelayExpires, Release, ForceClose, start_read_in_loop, stop_read_in_loop,
           user_callback, loopVars
  <2>2. Task("forceclose") \in Functors
    BY TaskTypes, Zenon DEF TaskOps
  <2>3. Grows
    BY <1>0, <2>1, <2>2, RangeAppend, Zenon DEF Grows
  <2> QED BY <2>1, <2>3, GrowsCarries, Zenon
<1> QED BY <1>1, <1>2, <1>3, <1>4, <1>5, Zenon DEF UserStep

LEMMA NextCarries == IInv /\ [Next]_vars => Carried /\ (sent' = sent \/ Sends)
<1> SUFFICES ASSUME IInv, [Next]_vars PROVE Carried /\ (sent' = sent \/ Sends)
  BY Zenon
<1>1. CASE UNCHANGED vars \/ PeerSend \/ PeerFin \/ PeerReset \/ PeerAck
  <2>1. UNCHANGED <<pendings, tmp_pendings, call, accepted, sent>>
    BY <1>1, Zenon DEF vars, PeerSend, PeerFin, PeerReset, PeerAck, KernelStep, loopVars, userVars
  <2> QED BY <2>1, GrowsCarries, Zenon DEF Grows
<1>2. CASE BaseRemove
  <2>1. /\ pendings' = Append(pendings, Task("destroyed")) /\ pendings \in Seq(Functors)
        /\ Task("destroyed") \in Functors /\ UNCHANGED <<tmp_pendings, call, accepted, sent>>
    BY <1>2, TaskTypes, Zenon DEF BaseRemove, IInv, ObjectType, TaskOps, loopVars, userVars
  <2> QED BY <2>1, RangeAppend, GrowsCarries, Zenon DEF Grows
<1> QED BY <1>1, <1>2, LoopCarries, UserCarries, Zenon DEF Next

\* SendsKept: whatever threads send and however little the kernel takes at a time, no
\* message handed to Send is lost while the connection is up.
THEOREM SendsCorrect == Spec => []SendsKept
<1> DEFINE SendInv == SendsKept /\ (conn.state = "Connecting" => sent = {})
<1>1. Init => SendInv
  BY Zenon DEF Init, SendsKept
<1>2. IInv /\ SendInv /\ [Next]_vars => SendInv'
  <2> SUFFICES ASSUME IInv, SendInv, [Next]_vars PROVE SendInv'
    BY Zenon
  <2>1. Carried /\ (sent' = sent \/ Sends) /\ Forward /\ sent \subseteq Messages
    BY NextCarries, NextPreserves, Zenon DEF Preserves, IInv, UserType
  <2>2. conn'.state = "Connecting" => conn.state = "Connecting"
    BY <2>1 DEF Forward
  <2>3. conn'.state = "Connected" => conn.state \in {"Connecting", "Connected"}
    BY <2>1 DEF Forward
  <2>4. conn'.state = "Connecting" => sent' = {}
    BY <2>1, <2>2 DEF Sends
  <2>5. SendsKept'
    <3> SUFFICES ASSUME conn'.state = "Connected", NEW m \in sent'
                 PROVE  (UnderWay(m) \/ TakenOver(m))'
      BY Zenon DEF SendsKept
    <3>1. CASE m \in sent
      BY <2>1, <2>3, <3>1, Zenon DEF SendsKept, Carried
    <3>2. CASE m \notin sent
      BY <2>1, <3>2, Zenon DEF Sends
    <3> QED BY <3>1, <3>2, Zenon
  <2> QED BY <2>4, <2>5, Zenon
<1>3. SendInv => SendsKept
  BY Zenon
<1> QED BY <1>1, <1>2, <1>3, Inductive, PTL DEF Spec
=============================================================================
