---------------------------- MODULE TcpConnection ----------------------------
(***************************************************************************)
(* One benet::TcpConnection in the hands of a TcpServer: the connection    *)
(* object and its channel, the io loop that runs its handlers and the      *)
(* functors queued for it, the threads that call its methods, the server's *)
(* base loop that removes it, and the kernel socket with its peer.         *)
(*                                                                         *)
(* The loop follows LoopExecutor and the order of EventLoop::Start: poll,  *)
(* handle the active channels, swap pendings_, call the functors.  The     *)
(* handlers of the connection run to completion on the loop thread and     *)
(* share only state_ and the loop's queue with other threads, so a handler *)
(* is one step; a method called from another thread takes two, its access  *)
(* to state_ and its push into the queue.  A call made by user code on the *)
(* loop thread (in a callback of this connection, of another channel or in *)
(* a functor) may come between any two steps of the loop.                  *)
(***************************************************************************)
EXTENDS Integers, Sequences, FiniteSets, FiniteSetsExt, Channel

CONSTANTS
  Threads,        \* threads other than the io loop's that use the connection
  Messages,       \* identities of the arguments of Send
  MsgLen,         \* their lengths
  LoopCalls,      \* methods user code calls on the loop thread
  ThreadCalls,    \* methods user code calls on other threads
  OnWriteComplete,\* a WriteCompleteCallback is bound
  HighWaterMark,  \* high_water_mark_, with a HighWaterMarkCallback bound
  SndBuf,         \* capacity of the kernel's send buffer
  InMax,          \* bound: inbound segments the peer sends
  CallsMax        \* bound: calls user code makes

Methods == {"Send", "Shutdown", "ForceClose", "ForceCloseDelay", "StartRead", "StopRead"}

ASSUME TcpConnectionAssumption ==
  /\ MsgLen \in [Messages -> Nat]
  /\ LoopCalls \subseteq Methods /\ ThreadCalls \subseteq Methods
  /\ OnWriteComplete \in BOOLEAN
  /\ HighWaterMark \in Nat /\ SndBuf \in Nat \ {0}
  /\ InMax \in Nat /\ CallsMax \in Nat

VARIABLES
  conn,         \* the TcpConnection: state, reading, channel, output_buffer, and whether
                \* its loop_ is the server's own (a server without io threads)
  sock,         \* the kernel socket: peer, inq, space, wire, shut
  lp,           \* where the io loop is in EventLoop::Start
  revents,      \* revents_ of the channel
  pendings,     \* pendings_ of the io loop, as far as it concerns the connection
  tmp_pendings, \* functors of the current batch not called yet
  batch_ref,    \* the current batch owns a TcpConnectionPtr
  call,         \* per thread: the functor it is about to queue, or Idle
  base,         \* the server's entry: "inmap", "removing" (task queued), "removed"
  held,         \* user code keeps a TcpConnectionPtr
  delayed,      \* a timer of ForceCloseDelay is set
  sent,         \* messages handed to Send
  calls,        \* number of calls user code made
  accepted,     \* history: bytes send_in_loop took over, in order
  ups, downs,   \* history: calls of on_connection_ when established / when closed
  received,     \* history: segments handed to on_message_
  off_reads,    \* history: a thread other than the loop's called StartRead or StopRead
  failed        \* history: asserts of the source that did not hold

vars == <<conn, sock, lp, revents, pendings, tmp_pendings, batch_ref, call, base,
          held, delayed, sent, calls, accepted, ups, downs, received, off_reads, failed>>

userVars == <<call, held, delayed, sent, calls, off_reads>>
loopVars == <<lp, revents, tmp_pendings, batch_ref>>

-----------------------------------------------------------------------------
(* Functors.                                                               *)

Task(op) == [op |-> op, msg |-> <<>>]
SendTask(m) == [op |-> "send", msg |-> m]
Idle == Task("idle")

\* Mutant: remove_connection binds ConnectionDestroyed to a raw pointer.
HoldsConnRaw(task) == task.op \notin {"startread", "stopread", "destroyed"}

\* StartRead and StopRead capture `this`, all others a TcpConnectionPtr.
HoldsConn(task) == task.op \notin {"startread", "stopread"}

Bytes(m) == [i \in 1 .. MsgLen[m] |-> <<m, i>>]

-----------------------------------------------------------------------------
(* The kernel socket.                                                      *)

\* send() fails with EPIPE or ECONNRESET.
Broken == sock.shut \/ sock.peer = "reset"

\* What epoll reports for the socket: data, FIN or error to read; room or error
\* to write; EPOLLHUP, whatever the interest, when both directions are down.
Ready ==
  IF ~conn.channel.registered THEN {}
  ELSE {e \in conn.channel.interest :
          \/ e = "R" /\ (sock.inq > 0 \/ sock.peer # "open")
          \/ e = "W" /\ (sock.space > 0 \/ Broken)}
       \cup (IF sock.peer = "reset" \/ (sock.peer = "fin" /\ sock.shut)
             THEN {"HUP"} ELSE {})

-----------------------------------------------------------------------------
\* new_connection has made the object and handed ConnectionEstablished to its loop.
\* (Without io threads the functor runs at once; nobody else knows the connection
\* before it has run.)
Init ==
  /\ conn \in [state : {"Connecting"}, reading : {TRUE}, channel : NewChannels,
               output_buffer : {<<>>}, in_base_loop : BOOLEAN]
  /\ sock = [peer |-> "open", inq |-> 0, space |-> SndBuf, wire |-> <<>>, shut |-> FALSE]
  /\ lp = "poll" /\ revents = {}
  /\ pendings = <<Task("established")>> /\ tmp_pendings = <<>> /\ batch_ref = FALSE
  /\ call = [t \in Threads |-> Idle]
  /\ base = "inmap" /\ held = FALSE /\ delayed = FALSE
  /\ sent = {} /\ calls = 0 /\ accepted = <<>> /\ ups = 0 /\ downs = 0 /\ received = 0
  /\ off_reads = FALSE /\ failed = {}

-----------------------------------------------------------------------------
(* The connection's handlers.  Each sets conn', sock', base', pendings'    *)
(* and the histories; q is the loop's queue as the caller leaves it.       *)

\* Mutant: closing does not test whether the connection is closed already.
handle_close_again(q) ==
  /\ conn' = [conn EXCEPT !.state = "Disconnected", !.channel = DisableAllEvent(@)]
  /\ downs' = downs + 1
  /\ base' = IF conn.in_base_loop THEN "removed" ELSE "removing"
  /\ pendings' = IF conn.in_base_loop THEN Append(q, Task("destroyed")) ELSE q
  /\ UNCHANGED <<sock, accepted, ups, received, failed>>

\* Mutant: closing does not call on_close_.
handle_close_alone(q) ==
  /\ IF conn.state \in {"Connected", "Disconnecting"}
     THEN /\ conn' = [conn EXCEPT !.state = "Disconnected",
                                  !.channel = DisableAllEvent(@)]
          /\ downs' = downs + 1
     ELSE UNCHANGED <<conn, downs>>
  /\ pendings' = q
  /\ UNCHANGED <<sock, base, accepted, ups, received, failed>>

\* handle_close, with on_close_ bound to TcpServer::remove_connection: its functor
\* is queued in the base loop, or runs at once when the io loop is the base loop.
handle_close(q) ==
  /\ UNCHANGED <<sock, accepted, ups, received>>
  /\ IF conn.state \in {"Connected", "Disconnecting"}
     THEN /\ conn' = [conn EXCEPT !.state = "Disconnected",
                                  !.channel = DisableAllEvent(@)]
          /\ downs' = downs + 1
          /\ failed' = IF conn.in_base_loop /\ base # "inmap" THEN failed \cup {"n == 1"} ELSE failed
          /\ base' = IF conn.in_base_loop THEN "removed" ELSE "removing"
          /\ pendings' = IF conn.in_base_loop THEN Append(q, Task("destroyed")) ELSE q
     ELSE /\ pendings' = q
          /\ UNCHANGED <<conn, downs, base, failed>>

\* Mutant: always tries ::send first.
SendsDirectlyAlways == TRUE

\* Whether send_in_loop calls ::send.
SendsDirectly == ~IsWriteEvent(conn.channel) /\ conn.output_buffer = <<>>

\* How many bytes ::send takes.
DirectlySent(bytes) == IF SendsDirectly THEN Min({Len(bytes), sock.space}) ELSE 0

\* Mutant: buffers the rest without arming the write event.
BufferedUnarmed(rest) == [conn EXCEPT !.output_buffer = @ \o rest]

Buffered(rest) ==
  [conn EXCEPT !.output_buffer = @ \o rest,
               !.channel = IF IsWriteEvent(@) THEN @ ELSE EnableWriteEvent(@)]

\* Mutant: what ::send does not take is dropped.
TakeOverDirectly(bytes, q) ==
  LET n == DirectlySent(bytes)
  IN  /\ sock' = [sock EXCEPT !.wire = @ \o SubSeq(bytes, 1, n), !.space = @ - n]
      /\ accepted' = accepted \o SubSeq(bytes, 1, n)
      /\ pendings' = q
      /\ UNCHANGED <<conn, base, ups, downs, received, failed>>

\* The part of send_in_loop that takes over the bytes: what ::send does not take
\* goes to the output buffer, behind what is there, and arms the write event.
TakeOver(bytes, q) ==
  LET n    == DirectlySent(bytes)
      rest == SubSeq(bytes, n + 1, Len(bytes))
      buf  == conn.output_buffer
      done == SendsDirectly /\ rest = <<>> /\ OnWriteComplete
      high == /\ Len(buf) + Len(rest) >= HighWaterMark /\ Len(buf) < HighWaterMark
              /\ rest # <<>>
  IN  /\ sock' = [sock EXCEPT !.wire = @ \o SubSeq(bytes, 1, n), !.space = @ - n]
      /\ conn' = IF rest = <<>> THEN conn ELSE Buffered(rest)
      /\ pendings' = q \o (IF done THEN <<Task("writecomplete")>> ELSE <<>>)
                       \o (IF high THEN <<Task("highwater")>> ELSE <<>>)
      /\ accepted' = accepted \o bytes
      /\ UNCHANGED <<base, ups, downs, received, failed>>

send_in_loop(m, q) ==
  \/ /\ conn.state # "Connected"
     /\ pendings' = q
     /\ UNCHANGED <<conn, sock, base, accepted, ups, downs, received, failed>>
  \/ /\ conn.state = "Connected"
     /\ SendsDirectly /\ Broken
     /\ handle_close(q)
  \/ /\ conn.state = "Connected"
     /\ ~(SendsDirectly /\ Broken)
     /\ TakeOver(Bytes(m), q)

\* Mutant: the functor of Shutdown does not wait for buffered output.
ShutdownWriteAtOnce == [sock EXCEPT !.shut = TRUE]

\* The functor of Shutdown leaves the shutdown to handle_write while output waits.
ShutdownWrite ==
  IF IsWriteEvent(conn.channel) THEN sock ELSE [sock EXCEPT !.shut = TRUE]

shutdown_in_loop(q) ==
  /\ sock' = ShutdownWrite
  /\ pendings' = q
  /\ UNCHANGED <<conn, base, accepted, ups, downs, received, failed>>

start_read_in_loop(q) ==
  /\ conn' = IF ~conn.reading \/ ~IsReadEvent(conn.channel)
             THEN [conn EXCEPT !.channel = EnableReadEvent(@), !.reading = TRUE]
             ELSE conn
  /\ pendings' = q
  /\ UNCHANGED <<sock, base, accepted, ups, downs, received, failed>>

stop_read_in_loop(q) ==
  /\ conn' = IF conn.reading \/ IsReadEvent(conn.channel)
             THEN [conn EXCEPT !.channel = DisableReadEvent(@), !.reading = FALSE]
             ELSE conn
  /\ pendings' = q
  /\ UNCHANGED <<sock, base, accepted, ups, downs, received, failed>>

ConnectionEstablished(q) ==
  /\ conn' = [conn EXCEPT !.state = "Connected", !.channel = EnableReadEvent(@)]
  /\ ups' = ups + 1
  /\ failed' = IF conn.state # "Connecting" THEN failed \cup {"Connecting"} ELSE failed
  /\ pendings' = q
  /\ UNCHANGED <<sock, base, accepted, downs, received>>

\* Mutant: the channel stays in the loop.
ConnectionDestroyedUnremoved(q) ==
  /\ pendings' = q
  /\ UNCHANGED <<conn, sock, base, accepted, ups, downs, received, failed>>

\* From Connected only when the server dies before its connections; the channel is
\* then still enabled and the DOWN callback is still to be called.
ConnectionDestroyed(q) ==
  LET up == conn.state = "Connected"
      c  == IF up THEN [conn EXCEPT !.state = "Disconnected",
                                    !.channel = DisableAllEvent(@)] ELSE conn
  IN  /\ conn' = [c EXCEPT !.channel = RemoveFromLoop(@)]
      /\ downs' = IF up THEN downs + 1 ELSE downs
      /\ failed' = IF IsNoneEvent(c.channel) THEN failed ELSE failed \cup {"IsNoneEvent"}
      /\ pendings' = q
      /\ UNCHANGED <<sock, base, accepted, ups, received>>

\* Mutant: a read of zero bytes is taken for a read of nothing yet.
handle_read_past_eof(q) ==
  /\ sock' = [sock EXCEPT !.inq = 0]
  /\ received' = received + sock.inq
  /\ pendings' = q
  /\ UNCHANGED <<conn, base, accepted, ups, downs, failed>>

handle_read(q) ==
  \/ /\ sock.inq > 0
     /\ \E n \in 1 .. sock.inq :
          /\ sock' = [sock EXCEPT !.inq = @ - n]
          /\ received' = received + n
     /\ pendings' = q
     /\ UNCHANGED <<conn, base, accepted, ups, downs, failed>>
  \/ /\ sock.inq = 0 /\ sock.peer # "open"
     /\ handle_close(q)
  \/ /\ sock.inq = 0 /\ sock.peer = "open"
     /\ pendings' = q
     /\ UNCHANGED <<conn, sock, base, accepted, ups, downs, received, failed>>

\* Mutant: the write event stays armed when the buffer has drained.
DrainedKeepsWrite(q) ==
  /\ conn' = [conn EXCEPT !.output_buffer = <<>>]
  /\ sock' = [sock EXCEPT !.wire = @ \o conn.output_buffer,
                          !.space = @ - Len(conn.output_buffer),
                          !.shut = @ \/ conn.state = "Disconnecting"]
  /\ pendings' = q \o (IF OnWriteComplete THEN <<Task("writecomplete")>> ELSE <<>>)
  /\ UNCHANGED <<base, accepted, ups, downs, received, failed>>

\* Mutant: a shutdown that waited for the buffer to drain is forgotten.
DrainedNoShutdown(q) ==
  /\ conn' = [conn EXCEPT !.output_buffer = <<>>, !.channel = DisableWriteEvent(@)]
  /\ sock' = [sock EXCEPT !.wire = @ \o conn.output_buffer,
                          !.space = @ - Len(conn.output_buffer)]
  /\ pendings' = q \o (IF OnWriteComplete THEN <<Task("writecomplete")>> ELSE <<>>)
  /\ UNCHANGED <<base, accepted, ups, downs, received, failed>>

\* The end of handle_write, when ::send took all that was left in the buffer.
Drained(q) ==
  /\ conn' = [conn EXCEPT !.output_buffer = <<>>, !.channel = DisableWriteEvent(@)]
  /\ sock' = [sock EXCEPT !.wire = @ \o conn.output_buffer,
                          !.space = @ - Len(conn.output_buffer),
                          !.shut = @ \/ conn.state = "Disconnecting"]
  /\ pendings' = q \o (IF OnWriteComplete THEN <<Task("writecomplete")>> ELSE <<>>)
  /\ UNCHANGED <<base, accepted, ups, downs, received, failed>>

\* ::send takes what the kernel has room for, nothing (EAGAIN) included.
PartlyWritten(q) ==
  LET n == sock.space
  IN  /\ conn' = [conn EXCEPT !.output_buffer = SubSeq(@, n + 1, Len(@))]
      /\ sock' = [sock EXCEPT !.wire = @ \o SubSeq(conn.output_buffer, 1, n), !.space = 0]
      /\ pendings' = q
      /\ UNCHANGED <<base, accepted, ups, downs, received, failed>>

\* The write event is armed only while the buffer is not empty (WriteEventIffOutput),
\* so that the ::send of zero bytes the code would make otherwise does not occur.
handle_write(q) ==
  \/ /\ ~IsWriteEvent(conn.channel)
     /\ pendings' = q
     /\ UNCHANGED <<conn, sock, base, accepted, ups, downs, received, failed>>
  \/ /\ IsWriteEvent(conn.channel)
     /\ Broken
     /\ handle_close(q)
  \/ /\ IsWriteEvent(conn.channel)
     /\ ~Broken /\ sock.space >= Len(conn.output_buffer)
     /\ Drained(q)
  \/ /\ IsWriteEvent(conn.channel)
     /\ ~Broken /\ sock.space < Len(conn.output_buffer)
     /\ PartlyWritten(q)

\* The functor of ForceClose: its test of state_ is the one handle_close begins with.
force_close_in_loop(q) == handle_close(q)

\* Callbacks of the user: their calls are the loop calls below.
user_callback(q) ==
  /\ pendings' = q
  /\ UNCHANGED <<conn, sock, base, accepted, ups, downs, received, failed>>

-----------------------------------------------------------------------------
(* The io loop.                                                            *)

\* The connection's turn of Poll; other channels may be active as well.
Poll ==
  /\ lp = "poll"
  /\ revents' = Ready
  /\ lp' = IF Ready = {} THEN "events" ELSE "active"
  /\ UNCHANGED <<conn, sock, pendings, tmp_pendings, batch_ref, base, userVars,
                 accepted, ups, downs, received, failed>>

\* Channel::HandleEvent up to its read callback.  revents_ may be stale: other
\* channels of the same Poll were handled before.
HandleEventRead ==
  /\ lp = "active"
  /\ lp' = "write"
  /\ \/ "HUP" \in revents /\ "R" \notin revents /\ handle_close(pendings)
     \/ "R" \in revents /\ handle_read(pendings)
     \/ revents = {"W"} /\ user_callback(pendings)
  /\ UNCHANGED <<revents, tmp_pendings, batch_ref, userVars>>

\* The rest of HandleEvent; a message callback may have run in between.
HandleEventWrite ==
  /\ lp = "write"
  /\ lp' = "events"
  /\ \/ "W" \in revents /\ handle_write(pendings)
     \/ "W" \notin revents /\ user_callback(pendings)
  /\ revents' = {}
  /\ UNCHANGED <<tmp_pendings, batch_ref, userVars>>

SwapPendings ==
  /\ lp = "events"
  /\ lp' = "calling"
  /\ tmp_pendings' = pendings
  /\ pendings' = <<>>
  /\ batch_ref' = \E i \in DOMAIN pendings : HoldsConn(pendings[i])
  /\ UNCHANGED <<conn, sock, revents, base, userVars, accepted, ups, downs, received, failed>>

RunTask(task) ==
  \/ task.op = "established" /\ ConnectionEstablished(pendings)
  \/ task.op = "send"        /\ send_in_loop(task.msg, pendings)
  \/ task.op = "shutdown"    /\ shutdown_in_loop(pendings)
  \/ task.op = "forceclose"  /\ force_close_in_loop(pendings)
  \/ task.op = "startread"   /\ start_read_in_loop(pendings)
  \/ task.op = "stopread"    /\ stop_read_in_loop(pendings)
  \/ task.op = "destroyed"   /\ ConnectionDestroyed(pendings)
  \/ task.op \in {"writecomplete", "highwater"} /\ user_callback(pendings)

\* The connection callback of ConnectionEstablished may keep the TcpConnectionPtr.
CallPending ==
  /\ lp = "calling" /\ tmp_pendings # <<>>
  /\ RunTask(Head(tmp_pendings))
  /\ tmp_pendings' = Tail(tmp_pendings)
  /\ held' \in IF Head(tmp_pendings).op = "established" THEN BOOLEAN ELSE {held}
  /\ UNCHANGED <<lp, revents, batch_ref, call, delayed, sent, calls, off_reads>>

\* The functors of the batch are destroyed with their vector.
EndPendings ==
  /\ lp = "calling" /\ tmp_pendings = <<>>
  /\ lp' = "poll"
  /\ batch_ref' = FALSE
  /\ UNCHANGED <<conn, sock, revents, pendings, tmp_pendings, base, userVars,
                 accepted, ups, downs, received, failed>>
-----------------------------------------------------------------------------
(* The base loop, the kernel and the peer.                                 *)

\* The functor of remove_connection in a base loop of its own.
BaseRemove ==
  /\ base = "removing"
  /\ base' = "removed"
  /\ pendings' = Append(pendings, Task("destroyed"))
  /\ UNCHANGED <<conn, sock, loopVars, userVars, accepted, ups, downs, received, failed>>

\* The peer sends a segment, shuts down its side, or resets the connection; the
\* kernel makes room in the send buffer as the peer acknowledges.
KernelStep(newsock) ==
  /\ sock' = newsock
  /\ UNCHANGED <<conn, loopVars, pendings, base, userVars, accepted, ups, downs,
                 received, failed>>

PeerSend  == /\ sock.peer = "open" /\ received + sock.inq < InMax
             /\ KernelStep([sock EXCEPT !.inq = @ + 1])
PeerFin   == /\ sock.peer = "open"
             /\ KernelStep([sock EXCEPT !.peer = "fin"])
PeerReset == /\ sock.peer # "reset"
             /\ KernelStep([sock EXCEPT !.peer = "reset"])
PeerAck   == /\ sock.space < SndBuf /\ sock.peer # "reset"
             /\ KernelStep([sock EXCEPT !.space = SndBuf])

-----------------------------------------------------------------------------
(* Calls made by user code.                                                *)

\* The object exists: somebody owns a TcpConnectionPtr, HandleEvent's guard
\* included; it is destroyed when the last owner lets go.
Referenced ==
  \/ base # "removed"
  \/ held
  \/ lp = "write"
  \/ lp = "calling" /\ batch_ref
  \/ \E t \in Threads : call[t] # Idle
  \/ \E i \in DOMAIN pendings : HoldsConn(pendings[i])

Fresh(m) == m \notin sent

Called == calls < CallsMax /\ calls' = calls + 1

\* A method called on another thread: the access to state_, after which the thread
\* is about to queue `task` (the connection is in its hands until then).
ThreadCall(t, method, task) ==
  /\ method \in ThreadCalls /\ Called
  /\ held /\ call[t] = Idle
  /\ call' = [call EXCEPT ![t] = task]
  /\ off_reads' = (off_reads \/ method \in {"StartRead", "StopRead"})
  /\ UNCHANGED <<sock, loopVars, pendings, base, held, delayed, accepted, ups, downs,
                 received, failed>>

ThreadSend(t, m) ==
  /\ conn.state = "Connected"
  /\ Fresh(m) /\ sent' = sent \cup {m}
  /\ ThreadCall(t, "Send", SendTask(m))
  /\ UNCHANGED conn

\* Mutant: Shutdown stores Disconnecting without comparing.
ThreadShutdownStore(t) ==
  /\ conn' = [conn EXCEPT !.state = "Disconnecting"]
  /\ ThreadCall(t, "Shutdown", Task("shutdown"))
  /\ UNCHANGED sent

ThreadShutdown(t) ==
  /\ conn.state = "Connected"
  /\ conn' = [conn EXCEPT !.state = "Disconnecting"]
  /\ ThreadCall(t, "Shutdown", Task("shutdown"))
  /\ UNCHANGED sent

ThreadForceClose(t) ==
  /\ conn.state \in {"Connected", "Disconnecting"}
  /\ conn' = [conn EXCEPT !.state = "Disconnecting"]
  /\ ThreadCall(t, "ForceClose", Task("forceclose"))
  /\ UNCHANGED sent

ThreadRead(t) ==
  /\ \/ ThreadCall(t, "StartRead", Task("startread"))
     \/ ThreadCall(t, "StopRead", Task("stopread"))
  /\ UNCHANGED <<conn, sent>>

\* RunInLoop, or QueueInLoop, off the loop thread.
ThreadQueue(t) ==
  /\ call[t] # Idle
  /\ pendings' = Append(pendings, call[t])
  /\ call' = [call EXCEPT ![t] = Idle]
  /\ UNCHANGED <<conn, sock, loopVars, base, held, delayed, sent, calls, off_reads, accepted,
                 ups, downs, received, failed>>

\* User code on the loop thread that has the connection: in one of its callbacks,
\* or anywhere with a TcpConnectionPtr it kept.
LoopUser(method) ==
  /\ method \in LoopCalls /\ Called
  /\ ups = 1
  /\ lp \in {"active", "write", "events", "calling"}
  /\ held \/ lp = "write" \/ batch_ref

LoopSend(m) ==
  /\ LoopUser("Send")
  /\ conn.state = "Connected"
  /\ Fresh(m) /\ sent' = sent \cup {m}
  /\ send_in_loop(m, pendings)
  /\ UNCHANGED <<loopVars, call, held, delayed, off_reads>>

LoopShutdown ==
  /\ LoopUser("Shutdown")
  /\ conn.state = "Connected"
  /\ conn' = [conn EXCEPT !.state = "Disconnecting"]
  /\ sock' = ShutdownWrite
  /\ UNCHANGED <<loopVars, pendings, base, call, held, delayed, sent, off_reads, accepted, ups,
                 downs, received, failed>>

ForceClose ==
  /\ conn.state \in {"Connected", "Disconnecting"}
  /\ conn' = [conn EXCEPT !.state = "Disconnecting"]
  /\ pendings' = Append(pendings, Task("forceclose"))
  /\ UNCHANGED <<sock, base, accepted, ups, downs, received, failed>>

LoopForceClose ==
  /\ LoopUser("ForceClose")
  /\ ForceClose
  /\ UNCHANGED <<loopVars, call, held, delayed, sent, off_reads>>

\* The client's obligation: on the loop thread, StartRead and StopRead are called
\* on a connection that IsConnected(); they test nothing themselves.
LoopStartRead ==
  /\ LoopUser("StartRead") /\ conn.state = "Connected"
  /\ start_read_in_loop(pendings)
  /\ UNCHANGED <<loopVars, call, held, delayed, sent, off_reads>>

LoopStopRead ==
  /\ LoopUser("StopRead") /\ conn.state = "Connected"
  /\ stop_read_in_loop(pendings)
  /\ UNCHANGED <<loopVars, call, held, delayed, sent, off_reads>>

\* ForceCloseDelay, on any thread, sets a timer whose callback owns only a weak_ptr.
ForceCloseDelay ==
  /\ LoopUser("ForceCloseDelay") \/ (Called /\ "ForceCloseDelay" \in ThreadCalls /\ held)
  /\ delayed' = TRUE
  /\ UNCHANGED <<conn, sock, loopVars, pendings, base, call, held, sent, off_reads, accepted,
                 ups, downs, received, failed>>

DelayExpires ==
  /\ delayed /\ lp \in {"active", "events"}
  /\ delayed' = FALSE
  /\ IF Referenced /\ conn.state \in {"Connected", "Disconnecting"}
     THEN ForceClose ELSE user_callback(pendings)
  /\ UNCHANGED <<loopVars, call, held, sent, calls, off_reads>>

Release ==
  /\ held
  /\ held' = FALSE
  /\ UNCHANGED <<conn, sock, loopVars, pendings, base, call, delayed, sent, calls, off_reads,
                 accepted, ups, downs, received, failed>>

-----------------------------------------------------------------------------
LoopStep ==
  Poll \/ HandleEventRead \/ HandleEventWrite \/ SwapPendings \/ CallPending \/ EndPendings

UserStep ==
  \/ \E t \in Threads :
       \/ \E m \in Messages : ThreadSend(t, m)
       \/ ThreadShutdown(t) \/ ThreadForceClose(t) \/ ThreadRead(t) \/ ThreadQueue(t)
  \/ \E m \in Messages : LoopSend(m)
  \/ LoopShutdown \/ LoopForceClose \/ LoopStartRead \/ LoopStopRead
  \/ ForceCloseDelay \/ DelayExpires \/ Release

Next ==
  \/ LoopStep \/ BaseRemove \/ UserStep
  \/ PeerSend \/ PeerFin \/ PeerReset \/ PeerAck

Spec == Init /\ [][Next]_vars

\* The loops and the threads run, and a peer that does not reset acknowledges.
FairSpec ==
  /\ Spec
  /\ WF_vars(LoopStep) /\ WF_vars(BaseRemove) /\ WF_vars(PeerAck)
  /\ \A t \in Threads : WF_vars(ThreadQueue(t))
-----------------------------------------------------------------------------
(* Properties.                                                             *)

TaskOps == {"idle", "established", "send", "shutdown", "forceclose", "startread",
            "stopread", "destroyed", "writecomplete", "highwater"}
Tasks == [op : TaskOps, msg : Messages \cup {<<>>}]
AllBytes == UNION {{Bytes(m)[i] : i \in 1 .. MsgLen[m]} : m \in Messages}

TypeOK ==
  /\ conn \in [state : {"Connecting", "Connected", "Disconnecting", "Disconnected"},
               reading : BOOLEAN, channel : Channels, output_buffer : Seq(AllBytes),
               in_base_loop : BOOLEAN]
  /\ sock \in [peer : {"open", "fin", "reset"}, inq : 0 .. InMax, space : 0 .. SndBuf,
               wire : Seq(AllBytes), shut : BOOLEAN]
  /\ lp \in {"poll", "active", "write", "events", "calling"}
  /\ revents \subseteq Interests \cup {"HUP"}
  /\ pendings \in Seq(Tasks) /\ tmp_pendings \in Seq(Tasks) /\ batch_ref \in BOOLEAN
  /\ call \in [Threads -> Tasks]
  /\ base \in {"inmap", "removing", "removed"}
  /\ held \in BOOLEAN /\ delayed \in BOOLEAN
  /\ sent \subseteq Messages /\ calls \in 0 .. CallsMax /\ accepted \in Seq(AllBytes)
  /\ ups \in Nat /\ downs \in Nat /\ received \in 0 .. InMax
  /\ off_reads \in BOOLEAN

\* The byte stream is intact: what the kernel was given followed by what waits in
\* output_buffer_ is exactly what send_in_loop took over, in that order, however
\* direct sends, partial writes, buffered sends and handle_write alternate.
StreamIntegrity == accepted = sock.wire \o conn.output_buffer

\* The functor of a Send waits to run, or to be queued by the thread that called it.
UnderWay(m) ==
  SendTask(m) \in Range(pendings) \cup Range(tmp_pendings) \cup Range(call)

TakenOver(m) == Range(Bytes(m)) \subseteq Range(accepted)

\* No message is lost on the way from Send to the output: as long as nobody has shut
\* down or closed the connection, every byte of a message handed to Send, on whatever
\* thread, was taken over or waits in the functor that will take it over, full kernel
\* buffers and partial sends included.  (send_in_loop drops a message whose functor
\* runs after a Shutdown or a close.)
SendsKept == conn.state = "Connected" => \A m \in sent : UnderWay(m) \/ TakenOver(m)

\* Until the connection is closed, the write event is armed exactly while output
\* waits: never a stalled buffer, never a busy loop, and never the ::send of zero
\* bytes whose stale errno handle_write would take for an error.
WriteEventIffOutput ==
  conn.state # "Disconnected" =>
    (IsWriteEvent(conn.channel) <=> conn.output_buffer # <<>>)

\* Shutdown closes the write side only behind the buffered output: unless the
\* connection was closed first, no byte taken over is cut off by the FIN, whether
\* the functor of Shutdown or handle_write sends it.
ShutdownAfterOutput ==
  sock.shut /\ conn.state # "Disconnected" => conn.output_buffer = <<>>

\* on_connection_ is called once when established and once when closed, the
\* second exactly when the state becomes Disconnected, and the server lets go of
\* the connection only after that, however many of ForceClose, peer close, reset,
\* failed send and shutdown come together.
CallbackProtocol ==
  /\ ups <= 1 /\ downs <= ups
  /\ conn.state = "Disconnected" <=> downs = 1
  /\ base # "inmap" => downs = 1

\* Channel, EPoller and the kernel agree on the registration of the socket and
\* no epoll_ctl fails, whatever handlers and calls enable and disable events.
ChannelConsistent == Consistent(conn.channel)

\* The client's obligation: StartRead and StopRead are called on the loop thread only
\* (their functors hold no TcpConnectionPtr and test nothing).
ReadsOnLoop == ~off_reads

\* The asserts of the source hold while reads are started and stopped on the loop
\* thread: Connecting in ConnectionEstablished, IsNoneEvent() in RemoveFromLoop, n == 1
\* in remove_connection, and, whoever owns the connection last, those of ~TcpConnection
\* and, about the loop, of ~Channel; the socket that is then closed is in no epoll set.
AssertsHold ==
  ReadsOnLoop =>
    /\ failed = {}
    /\ ~Referenced => /\ conn.state = "Disconnected"
                      /\ Destructible(conn.channel) /\ ~conn.channel.registered

\* The loop never touches a connection nobody owns: not through the Channel* that
\* Poll put into active_channels_, not through a queued functor, while reads are
\* started and stopped on the loop thread.
AliveWhenUsed ==
  ReadsOnLoop /\ (lp = "active" \/ tmp_pendings # <<>> \/ pendings # <<>>) => Referenced

\* The connection lives the life of ConnectionLife although threads and the loop
\* change state_ concurrently: a Shutdown or ForceClose racing with the close never
\* revives it, and no race brings a second callback or an early removal.
Life == INSTANCE ConnectionLife WITH state <- conn.state, calls <- ups + downs,
                                     entry <- base # "removed", serving <- TRUE
ImplementsLife == Life!Spec

\* A graceful shutdown completes: the write side is closed, or the connection is.
ShutdownCompletes == conn.state = "Disconnecting" ~> (sock.shut \/ conn.state = "Disconnected")

\* Buffered output is written to the kernel, or the connection is closed.
OutputFlushed ==
  conn.output_buffer # <<>> ~> (conn.output_buffer = <<>> \/ conn.state = "Disconnected")

\* A FIN or RST of the peer closes the connection, unless user code stopped reading.
PeerCloseNoticed ==
  (ups = 1 /\ sock.peer # "open") ~> (conn.state = "Disconnected" \/ ~conn.reading)

\* A closed connection is destroyed once user code lets go of it: the round trip
\* through the base loop and back always completes and no functor keeps it alive.
ClosedIsDestroyed == (downs = 1 /\ ~held) ~> ~Referenced

\* `assert(IsNoneEvent())` in Channel::RemoveFromLoop.
RemoveAssertHolds == "IsNoneEvent" \notin failed
=============================================================================
