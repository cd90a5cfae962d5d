------------------------- MODULE TcpConnectionHandlers ------------------------
(***************************************************************************)
(* What the handlers of TcpConnection do, for any number of threads, any   *)
(* messages, any sizes of the kernel's buffers and any calls of user code: *)
(* the inductive invariants of the connection, and the lemmas that say how *)
(* each handler leaves the connection, its channel, its socket and its     *)
(* functors.                                                               *)
(***************************************************************************)
EXTENDS TcpConnection, TLAPS

States == {"Connecting", "Connected", "Disconnecting", "Disconnected"}

ConnType ==
  [state : States, reading : BOOLEAN, channel : Channels, output_buffer : Seq(AllBytes),
   in_base_loop : BOOLEAN]

SockType ==
  [peer : {"open", "fin", "reset"}, inq : 0 .. InMax, space : 0 .. SndBuf,
   wire : Seq(AllBytes), shut : BOOLEAN]

\* What waits in the queues of the loop, and what a thread is about to queue.
Functors == {f \in Tasks : f.op # "idle" /\ (f.op = "send" => f.msg \in Messages)}
ReadOps == {"startread", "stopread"}
Calls == {Idle} \cup {f \in Functors : f.op \in {"send", "shutdown", "forceclose"} \cup ReadOps}

Ops(q) == {q[i].op : i \in DOMAIN q}
Queued == Ops(pendings) \cup Ops(tmp_pendings)

-----------------------------------------------------------------------------
(* The inductive invariant.                                                *)

ObjectType ==
  /\ conn \in ConnType /\ sock \in SockType
  /\ base \in {"inmap", "removing", "removed"}
  /\ accepted \in Seq(AllBytes) /\ pendings \in Seq(Functors)
  /\ ups \in Nat /\ downs \in Nat
  /\ received \in Nat /\ received + sock.inq <= InMax

LoopType ==
  /\ lp \in {"poll", "active", "write", "events", "calling"}
  /\ revents \subseteq Interests \cup {"HUP"}
  /\ tmp_pendings \in Seq(Functors) /\ batch_ref \in BOOLEAN

UserType ==
  /\ call \in [Threads -> Calls] /\ held \in BOOLEAN /\ delayed \in BOOLEAN
  /\ sent \subseteq Messages /\ calls \in 0 .. CallsMax

\* StreamIntegrity, WriteEventIffOutput, ShutdownAfterOutput and ChannelConsistent of a
\* connection given by its fields, and no output before the connection is up.
Flow(state, channel, output, wire, shut, taken) ==
  /\ taken = wire \o output
  /\ state # "Disconnected" => (IsWriteEvent(channel) <=> output # <<>>)
  /\ shut /\ state # "Disconnected" => output = <<>>
  /\ Consistent(channel)
  /\ state = "Connecting" => output = <<>>

FlowInv ==
  Flow(conn.state, conn.channel, conn.output_buffer, sock.wire, sock.shut, accepted)

\* ConnectionEstablished is queued once and is the first functor of the connection;
\* nobody else knows the connection before it has run. ConnectionDestroyed is queued
\* only when the server has let go of the connection. The loop swaps its queue only
\* when it has called the whole batch before.
LifeInv ==
  /\ ups = 0 => /\ conn.state = "Connecting" /\ ~held
                /\ \A t \in Threads : call[t] = Idle
                /\ \/ pendings = <<Task("established")>> /\ tmp_pendings = <<>>
                   \/ pendings = <<>> /\ tmp_pendings = <<Task("established")>>
  /\ ups = 1 => conn.state # "Connecting" /\ "established" \notin Queued
  /\ "destroyed" \in Queued => base = "removed"
  /\ tmp_pendings # <<>> => lp = "calling"

IInv == ObjectType /\ LoopType /\ UserType /\ FlowInv /\ LifeInv /\ CallbackProtocol

Removed(ch) == ch.index = "New" /\ ~ch.added

\* The way out, while reads are started and stopped on the loop thread: a closed connection wants no events; ConnectionDestroyed is queued
\* once the server has let go, and stays queued until the channel has left the loop.
EndInv ==
  /\ failed = {}
  /\ Queued \cap ReadOps = {} /\ \A t \in Threads : call[t].op \notin ReadOps
  /\ conn.state = "Disconnected" => IsNoneEvent(conn.channel)
  /\ base = "removed" => "destroyed" \in Queued \/ Removed(conn.channel)
  /\ tmp_pendings # <<>> => batch_ref
  /\ lp = "active" => base # "removed" \/ "destroyed" \in Ops(pendings)

-----------------------------------------------------------------------------
(* The channel.                                                            *)

\* update_events keeps Channel, EPoller and the kernel in agreement.
LEMMA SetEventsKeeps ==
  ASSUME NEW ch \in Channels, Consistent(ch), NEW ev \in SUBSET Interests
  PROVE  /\ SetEvents(ch, ev) \in Channels /\ Consistent(SetEvents(ch, ev))
         /\ SetEvents(ch, ev).events = ev
<1> DEFINE c == [ch EXCEPT !.events = ev, !.added = TRUE]
<1>1. /\ c \in Channels /\ c.events = ev /\ c.added = TRUE
      /\ c.index = ch.index /\ c.mapped = ch.mapped /\ c.registered = ch.registered
      /\ c.fatal = ch.fatal
  BY ZenonT(30) DEF Channels
<1>2. /\ c.registered <=> c.index = "Added"
      /\ c.mapped <=> c.index # "New"
      /\ ~c.fatal /\ c.index \in {"New", "Added", "Deleted"}
  BY <1>1, Zenon DEF Consistent, Channels
<1> HIDE DEF c
<1>3. SetEvents(ch, ev) = UpdateChannel(c)
  BY Zenon DEF SetEvents, c
<1>4. CASE c.index = "New"
  <2>1. UpdateChannel(c) = [EpollAdd(c) EXCEPT !.index = "Added", !.mapped = TRUE]
    BY <1>4, Zenon DEF UpdateChannel
  <2>2. /\ UpdateChannel(c).events = ev /\ UpdateChannel(c).added = TRUE
        /\ UpdateChannel(c).registered = TRUE /\ UpdateChannel(c).index = "Added"
        /\ UpdateChannel(c).mapped = TRUE /\ UpdateChannel(c).interest = ev
        /\ ~UpdateChannel(c).fatal /\ UpdateChannel(c) \in Channels
    BY <2>1, <1>1, <1>2, <1>4, ZenonT(30) DEF EpollAdd, Channels
  <2> QED
    BY <1>3, <2>2, Zenon DEF Consistent
<1>5. CASE c.index = "Deleted"
  <2>1. UpdateChannel(c) = [EpollAdd(c) EXCEPT !.index = "Added"]
    BY <1>5, Zenon DEF UpdateChannel
  <2>2. /\ UpdateChannel(c).events = ev /\ UpdateChannel(c).added = TRUE
        /\ UpdateChannel(c).registered = TRUE /\ UpdateChannel(c).index = "Added"
        /\ UpdateChannel(c).mapped = c.mapped /\ UpdateChannel(c).interest = ev
        /\ ~UpdateChannel(c).fatal /\ UpdateChannel(c) \in Channels
    BY <2>1, <1>1, <1>2, <1>5, ZenonT(30) DEF EpollAdd, Channels
  <2> QED
    BY <1>2, <1>3, <1>5, <2>2, Zenon DEF Consistent
<1>6. CASE c.index = "Added" /\ c.events = {}
  <2>1. UpdateChannel(c) = [EpollDel(c) EXCEPT !.index = "Deleted"]
    BY <1>6, Zenon DEF UpdateChannel
  <2>2. /\ UpdateChannel(c).events = ev /\ UpdateChannel(c).added = TRUE
        /\ UpdateChannel(c).registered = FALSE /\ UpdateChannel(c).index = "Deleted"
        /\ UpdateChannel(c).mapped = c.mapped
        /\ ~UpdateChannel(c).fatal /\ UpdateChannel(c) \in Channels
    BY <2>1, <1>1, <1>2, <1>6, ZenonT(30) DEF EpollDel, Channels
  <2> QED
    BY <1>1, <1>2, <1>3, <1>6, <2>2, Zenon DEF Consistent
<1>7. CASE c.index = "Added" /\ c.events # {}
  <2>1. UpdateChannel(c) = EpollMod(c)
    BY <1>7, Zenon DEF UpdateChannel
  <2>2. /\ UpdateChannel(c).events = ev /\ UpdateChannel(c).added = TRUE
        /\ UpdateChannel(c).registered = c.registered /\ UpdateChannel(c).index = "Added"
        /\ UpdateChannel(c).mapped = c.mapped /\ UpdateChannel(c).interest = ev
        /\ ~UpdateChannel(c).fatal /\ UpdateChannel(c) \in Channels
    BY <2>1, <1>1, <1>2, <1>7, ZenonT(30) DEF EpollMod, Channels
  <2> QED
    BY <1>1, <1>2, <1>3, <1>7, <2>2, Zenon DEF Consistent
<1> QED
  BY <1>2, <1>4, <1>5, <1>6, <1>7, Zenon

\* RemoveFromLoop takes the channel out of epoll, of EPoller and of the loop.
LEMMA RemoveKeeps ==
  ASSUME NEW ch \in Channels, Consistent(ch)
  PROVE  /\ RemoveFromLoop(ch) \in Channels /\ Consistent(RemoveFromLoop(ch))
         /\ RemoveFromLoop(ch).events = ch.events /\ Removed(RemoveFromLoop(ch))
<1> DEFINE g == IF ch.index = "Added" THEN EpollDel(ch) ELSE ch
<1> DEFINE r == [g EXCEPT !.index = "New", !.added = FALSE, !.mapped = FALSE]
<1>1. RemoveFromLoop(ch) = r
  BY Zenon DEF RemoveFromLoop
<1>2. g \in Channels /\ g.events = ch.events /\ ~g.registered /\ ~g.fatal
  <2>1. CASE ch.index = "Added"
    BY <2>1, ZenonT(30) DEF Consistent, Channels, EpollDel
  <2>2. CASE ch.index # "Added"
    BY <2>2, ZenonT(30) DEF Consistent, Channels
  <2> QED
    BY <2>1, <2>2, Zenon
<1> HIDE DEF g
<1>3. /\ r \in Channels /\ r.events = g.events /\ r.registered = g.registered
      /\ r.fatal = g.fatal /\ r.index = "New" /\ r.added = FALSE /\ r.mapped = FALSE
  BY <1>2, ZenonT(30) DEF Channels
<1> QED
  BY <1>1, <1>2, <1>3, Zenon DEF Consistent, Removed

\* What the calls of the connection do to its channel.
Kept(ch) == ch \in Channels /\ Consistent(ch)

LEMMA ChannelCalls ==
  ASSUME NEW ch \in Channels, Consistent(ch)
  PROVE  /\ Kept(EnableReadEvent(ch)) /\ Kept(DisableReadEvent(ch))
         /\ Kept(EnableWriteEvent(ch)) /\ Kept(DisableWriteEvent(ch))
         /\ Kept(DisableAllEvent(ch)) /\ Kept(RemoveFromLoop(ch))
         /\ IsWriteEvent(EnableReadEvent(ch)) <=> IsWriteEvent(ch)
         /\ IsWriteEvent(DisableReadEvent(ch)) <=> IsWriteEvent(ch)
         /\ IsWriteEvent(EnableWriteEvent(ch)) /\ ~IsWriteEvent(DisableWriteEvent(ch))
         /\ IsNoneEvent(DisableAllEvent(ch))
         /\ IsWriteEvent(RemoveFromLoop(ch)) <=> IsWriteEvent(ch)
         /\ IsNoneEvent(RemoveFromLoop(ch)) <=> IsNoneEvent(ch)
<1>1. ch.events \subseteq Interests
  BY Zenon DEF Channels
<1>2. /\ ch.events \cup {"R"} \subseteq Interests /\ ch.events \ {"R"} \subseteq Interests
      /\ ch.events \cup {"W"} \subseteq Interests /\ ch.events \ {"W"} \subseteq Interests
  BY <1>1, Zenon DEF Interests
<1>3. /\ Kept(EnableReadEvent(ch)) /\ EnableReadEvent(ch).events = ch.events \cup {"R"}
      /\ Kept(DisableReadEvent(ch)) /\ DisableReadEvent(ch).events = ch.events \ {"R"}
      /\ Kept(EnableWriteEvent(ch)) /\ EnableWriteEvent(ch).events = ch.events \cup {"W"}
      /\ Kept(DisableWriteEvent(ch)) /\ DisableWriteEvent(ch).events = ch.events \ {"W"}
      /\ Kept(DisableAllEvent(ch)) /\ DisableAllEvent(ch).events = {}
  BY <1>2, SetEventsKeeps, Zenon
     DEF EnableReadEvent, DisableReadEvent, EnableWriteEvent, DisableWriteEvent,
         DisableAllEvent, Kept
<1>4. Kept(RemoveFromLoop(ch)) /\ RemoveFromLoop(ch).events = ch.events
  BY RemoveKeeps, Zenon DEF Kept
<1> QED
  BY <1>3, <1>4, Zenon DEF IsWriteEvent, IsNoneEvent

-----------------------------------------------------------------------------
(* Sequences, queues and records.                                          *)

\* A sequence is what its elements make it.
LEMMA Joined ==
  ASSUME NEW S, NEW q \in Seq(S), NEW a \in Seq(S), NEW b \in Seq(S),
         Len(q) = Len(a) + Len(b),
         \A i \in 1 .. Len(a) : q[i] = a[i],
         \A i \in 1 .. Len(b) : q[Len(a) + i] = b[i]
  PROVE  a \o b = q
<1>1. a \o b \in Seq(S) /\ Len(a \o b) = Len(q)
  OBVIOUS
<1>2. ASSUME NEW i \in 1 .. Len(q) PROVE (a \o b)[i] = q[i]
  <2>1. CASE i <= Len(a)
    BY <2>1
  <2>2. CASE i > Len(a)
    <3>1. i - Len(a) \in 1 .. Len(b) /\ Len(a) + (i - Len(a)) = i
      BY <2>2
    <3>2. q[i] = b[i - Len(a)] BY <3>1, Zenon
    <3>3. (a \o b)[i] = b[i - Len(a)] BY <2>2, <3>1
    <3> QED BY <3>2, <3>3, Zenon
  <2> QED BY <2>1, <2>2
<1> QED BY <1>1, <1>2

LEMMA Split ==
  ASSUME NEW S, NEW q \in Seq(S), NEW n \in 0 .. Len(q)
  PROVE  /\ SubSeq(q, 1, n) \in Seq(S) /\ Len(SubSeq(q, 1, n)) = n
         /\ SubSeq(q, n + 1, Len(q)) \in Seq(S)
         /\ Len(SubSeq(q, n + 1, Len(q))) = Len(q) - n
         /\ SubSeq(q, 1, n) \o SubSeq(q, n + 1, Len(q)) = q
<1> DEFINE a == SubSeq(q, 1, n)  b == SubSeq(q, n + 1, Len(q))
<1>0. Len(q) \in Nat /\ n \in Nat /\ n <= Len(q)
  OBVIOUS
<1>1. a \in Seq(S) /\ Len(a) = n /\ \A i \in 1 .. n : a[i] = q[i]
  BY <1>0
<1>2. b \in Seq(S) /\ Len(b) = Len(q) - n /\ \A i \in 1 .. Len(q) - n : b[i] = q[n + i]
  BY <1>0
<1> HIDE DEF a, b
<1>3. a \o b = q
  <2>1. Len(q) = Len(a) + Len(b)
    BY <1>0, <1>1, <1>2
  <2>2. /\ \A i \in 1 .. Len(a) : q[i] = a[i]
        /\ \A i \in 1 .. Len(b) : q[Len(a) + i] = b[i]
    BY <1>1, <1>2, Zenon
  <2>3. a \in Seq(S) /\ b \in Seq(S)
    BY <1>1, <1>2, Zenon
  <2> QED BY <2>1, <2>2, <2>3, Joined, Zenon
<1> QED BY <1>1, <1>2, <1>3 DEF a, b

LEMMA Assoc ==
  ASSUME NEW w \in Seq(AllBytes), NEW a \in Seq(AllBytes), NEW r \in Seq(AllBytes)
  PROVE  (w \o a) \o r = w \o (a \o r)
BY SMTT(30)

LEMMA Concat ==
  ASSUME NEW w \in Seq(AllBytes), NEW a \in Seq(AllBytes)
  PROVE  w \o a \in Seq(AllBytes) /\ w \o <<>> = w /\ <<>> \o w = w
OBVIOUS

\* Output that overtakes nothing: either none waits or none is sent directly.
LEMMA Interleave ==
  ASSUME NEW w \in Seq(AllBytes), NEW o \in Seq(AllBytes), NEW a \in Seq(AllBytes),
         NEW r \in Seq(AllBytes),
         o = <<>> \/ a = <<>>
  PROVE  /\ (w \o o) \o (a \o r) = (w \o a) \o (o \o r)
         /\ (w \o o) \o (a \o r) \in Seq(AllBytes)
<1>a. (w \o a) \o r = w \o (a \o r)
  BY Assoc, ZenonT(40)
<1>o. (w \o o) \o r = w \o (o \o r)
  BY Assoc, ZenonT(40)
<1>2. /\ w \o o \in Seq(AllBytes) /\ a \o r \in Seq(AllBytes) /\ w \o <<>> = w /\ <<>> \o r = r
      /\ (w \o o) \o (a \o r) \in Seq(AllBytes)
  BY Concat, Zenon
<1>3. CASE o = <<>>
  BY <1>a, <1>2, <1>3, Zenon
<1>4. CASE a = <<>>
  BY <1>o, <1>2, <1>4, Zenon
<1> QED BY <1>3, <1>4

LEMMA BytesType ==
  ASSUME NEW m \in Messages
  PROVE  Bytes(m) \in Seq(AllBytes) /\ Len(Bytes(m)) \in Nat
<1>1. MsgLen[m] \in Nat
  BY TcpConnectionAssumption, Zenon
<1>2. \A i \in 1 .. MsgLen[m] : Bytes(m)[i] \in AllBytes
  BY DEF AllBytes
<1>3. Bytes(m) \in [1 .. MsgLen[m] -> AllBytes]
  BY <1>1, <1>2 DEF Bytes
<1> QED
  BY <1>1, <1>3

LEMMA OpsConcat ==
  ASSUME NEW p \in Seq(Functors), NEW q \in Seq(Functors)
  PROVE  Ops(p \o q) = Ops(p) \cup Ops(q)
<1> USE DEF Ops
<1>1. ASSUME NEW i \in DOMAIN (p \o q) PROVE (p \o q)[i].op \in Ops(p) \cup Ops(q)
  <2>1. CASE i <= Len(p)
    <3>1. i \in DOMAIN p /\ (p \o q)[i] = p[i]
      BY <2>1
    <3> QED BY <3>1, Zenon
  <2>2. CASE ~(i <= Len(p))
    <3>1. i - Len(p) \in DOMAIN q /\ (p \o q)[i] = q[i - Len(p)]
      BY <2>2
    <3> QED BY <3>1, Zenon
  <2> QED BY <2>1, <2>2, Zenon
<1>2. ASSUME NEW i \in DOMAIN p PROVE p[i].op \in Ops(p \o q)
  <2>1. i \in DOMAIN (p \o q) /\ (p \o q)[i] = p[i]
    OBVIOUS
  <2> QED BY <2>1, Zenon
<1>3. ASSUME NEW i \in DOMAIN q PROVE q[i].op \in Ops(p \o q)
  <2>1. i + Len(p) \in DOMAIN (p \o q) /\ (p \o q)[i + Len(p)] = q[i]
    OBVIOUS
  <2> QED BY <2>1, Zenon
<1> QED
  BY <1>1, <1>2, <1>3, ZenonT(40)

LEMMA OpsUnit ==
  ASSUME NEW f \in Functors
  PROVE  <<f>> \in Seq(Functors) /\ Ops(<<f>>) = {f.op}
<1>1. <<f>> \in Seq(Functors) /\ DOMAIN <<f>> = {1} /\ <<f>>[1] = f
  OBVIOUS
<1> QED BY <1>1, Zenon DEF Ops

LEMMA OpsAppend ==
  ASSUME NEW q \in Seq(Functors), NEW f \in Functors
  PROVE  Append(q, f) \in Seq(Functors) /\ Ops(Append(q, f)) = Ops(q) \cup {f.op}
<1>1. Append(q, f) \in Seq(Functors) /\ Append(q, f) = q \o <<f>>
  OBVIOUS
<1>2. <<f>> \in Seq(Functors) /\ Ops(<<f>>) = {f.op}
  BY OpsUnit, Zenon
<1> QED
  BY <1>1, <1>2, OpsConcat, ZenonT(40)

LEMMA OpsEmpty == Ops(<<>>) = {} /\ \A q \in Seq(Functors) : Ops(q) = {} => q = <<>>
<1>1. Ops(<<>>) = {}
  BY DEF Ops
<1>2. ASSUME NEW q \in Seq(Functors), q # <<>> PROVE Ops(q) # {}
  <2>1. 1 \in DOMAIN q
    BY <1>2
  <2> QED BY <2>1 DEF Ops
<1> QED
  BY <1>1, <1>2, Zenon

LEMMA OpsHead ==
  ASSUME NEW q \in Seq(Functors), q # <<>>
  PROVE  /\ Head(q) \in Functors /\ Tail(q) \in Seq(Functors)
         /\ Ops(q) = {Head(q).op} \cup Ops(Tail(q))
<1>1. Head(q) \in Functors /\ Tail(q) \in Seq(Functors) /\ q = <<Head(q)>> \o Tail(q)
  OBVIOUS
<1>2. <<Head(q)>> \in Seq(Functors) /\ Ops(<<Head(q)>>) = {Head(q).op}
  BY <1>1, OpsUnit, Zenon
<1>3. Ops(<<Head(q)>> \o Tail(q)) = Ops(<<Head(q)>>) \cup Ops(Tail(q))
  BY <1>1, <1>2, OpsConcat, Zenon
<1> QED
  BY <1>1, <1>2, <1>3, Zenon

LEMMA TaskTypes ==
  /\ \A op \in TaskOps \ {"idle", "send"} : Task(op) \in Functors /\ Task(op).op = op
  /\ \A m \in Messages : SendTask(m) \in Functors /\ SendTask(m).op = "send"
BY Zenon DEF Functors, Tasks, TaskOps, Task, SendTask

\* What the handlers replace in the connection and in the socket.
IsConn(d, st, ch, out, inb) ==
  /\ d \in ConnType /\ d.state = st /\ d.channel = ch /\ d.output_buffer = out
  /\ d.in_base_loop = inb

IsSock(d, p, n, room, w, sh) ==
  /\ d \in SockType /\ d.peer = p /\ d.inq = n /\ d.space = room /\ d.wire = w /\ d.shut = sh

LEMMA ConnFields ==
  ASSUME NEW c \in ConnType
  PROVE  IsConn(c, c.state, c.channel, c.output_buffer, c.in_base_loop)
         /\ c.state \in States /\ c.reading \in BOOLEAN /\ c.channel \in Channels
         /\ c.output_buffer \in Seq(AllBytes) /\ c.in_base_loop \in BOOLEAN
BY Zenon DEF ConnType, IsConn

LEMMA StateSet ==
  ASSUME conn \in ConnType, NEW st \in States,
         conn' = [conn EXCEPT !.state = st]
  PROVE  IsConn(conn', st, conn.channel, conn.output_buffer, conn.in_base_loop)
BY ZenonT(30) DEF ConnType, IsConn

LEMMA StateChannelSet ==
  ASSUME conn \in ConnType, NEW st \in States, NEW ch \in Channels,
         conn' = [conn EXCEPT !.state = st, !.channel = ch]
  PROVE  IsConn(conn', st, ch, conn.output_buffer, conn.in_base_loop)
BY ZenonT(30) DEF ConnType, IsConn

LEMMA ChannelSet ==
  ASSUME conn \in ConnType, NEW ch \in Channels,
         conn' = [conn EXCEPT !.channel = ch]
  PROVE  IsConn(conn', conn.state, ch, conn.output_buffer, conn.in_base_loop)
BY ZenonT(30) DEF ConnType, IsConn

LEMMA ReadingSet ==
  ASSUME conn \in ConnType, NEW ch \in Channels, NEW b \in BOOLEAN,
         conn' = [conn EXCEPT !.channel = ch, !.reading = b]
  PROVE  IsConn(conn', conn.state, ch, conn.output_buffer, conn.in_base_loop)
BY ZenonT(30) DEF ConnType, IsConn

LEMMA OutputSet ==
  ASSUME conn \in ConnType, NEW out \in Seq(AllBytes),
         conn' = [conn EXCEPT !.output_buffer = out]
  PROVE  IsConn(conn', conn.state, conn.channel, out, conn.in_base_loop)
BY ZenonT(30) DEF ConnType, IsConn

LEMMA OutputChannelSet ==
  ASSUME conn \in ConnType, NEW out \in Seq(AllBytes), NEW ch \in Channels,
         conn' = [conn EXCEPT !.output_buffer = out, !.channel = ch]
  PROVE  IsConn(conn', conn.state, ch, out, conn.in_base_loop)
BY ZenonT(30) DEF ConnType, IsConn

LEMMA SockFields ==
  ASSUME NEW k \in SockType
  PROVE  IsSock(k, k.peer, k.inq, k.space, k.wire, k.shut)
         /\ k.peer \in {"open", "fin", "reset"} /\ k.inq \in 0 .. InMax
         /\ k.space \in 0 .. SndBuf /\ k.wire \in Seq(AllBytes) /\ k.shut \in BOOLEAN
BY Zenon DEF SockType, IsSock

LEMMA ShutSet ==
  ASSUME sock \in SockType, NEW sh \in BOOLEAN,
         sock' = [sock EXCEPT !.shut = sh]
  PROVE  IsSock(sock', sock.peer, sock.inq, sock.space, sock.wire, sh)
BY ZenonT(30) DEF SockType, IsSock

LEMMA InqSet ==
  ASSUME sock \in SockType, NEW n \in 0 .. InMax,
         sock' = [sock EXCEPT !.inq = n]
  PROVE  IsSock(sock', sock.peer, n, sock.space, sock.wire, sock.shut)
BY ZenonT(30) DEF SockType, IsSock

LEMMA PeerSet ==
  ASSUME sock \in SockType, NEW p \in {"open", "fin", "reset"},
         sock' = [sock EXCEPT !.peer = p]
  PROVE  IsSock(sock', p, sock.inq, sock.space, sock.wire, sock.shut)
BY ZenonT(30) DEF SockType, IsSock

LEMMA SpaceSet ==
  ASSUME sock \in SockType, NEW r \in 0 .. SndBuf,
         sock' = [sock EXCEPT !.space = r]
  PROVE  IsSock(sock', sock.peer, sock.inq, r, sock.wire, sock.shut)
BY ZenonT(30) DEF SockType, IsSock

LEMMA WireSet ==
  ASSUME sock \in SockType, NEW w \in Seq(AllBytes), NEW r \in 0 .. SndBuf,
         sock' = [sock EXCEPT !.wire = w, !.space = r]
  PROVE  IsSock(sock', sock.peer, sock.inq, r, w, sock.shut)
BY ZenonT(30) DEF SockType, IsSock

LEMMA WireShutSet ==
  ASSUME sock \in SockType, NEW w \in Seq(AllBytes), NEW r \in 0 .. SndBuf, NEW sh \in BOOLEAN,
         sock' = [sock EXCEPT !.wire = w, !.space = r, !.shut = sh]
  PROVE  IsSock(sock', sock.peer, sock.inq, r, w, sh)
BY ZenonT(30) DEF SockType, IsSock

-----------------------------------------------------------------------------
(* What the handlers do.                                                   *)

\* A handler, or a call of user code, closes the connection, or leaves the server and
\* the asserts alone.
Closes ==
  /\ conn.state \in {"Connected", "Disconnecting"} /\ conn'.state = "Disconnected"
  /\ IsNoneEvent(conn'.channel) /\ downs' = downs + 1
  /\ base = "inmap" => failed' = failed
  /\ base' = IF conn.in_base_loop THEN "removed" ELSE "removing"
  /\ pendings' = IF conn.in_base_loop THEN Append(pendings, Task("destroyed")) ELSE pendings

Stays ==
  /\ \/ conn'.state = conn.state
     \/ conn.state \in {"Connected", "Disconnecting"} /\ conn'.state = "Disconnecting"
  /\ UNCHANGED <<base, downs, failed>>
  /\ Ops(pendings) \subseteq Ops(pendings')
  /\ Ops(pendings') \subseteq Ops(pendings) \cup {"writecomplete", "highwater", "forceclose"}
  /\ conn.state = "Connecting" => pendings' = pendings

Handled == ObjectType' /\ FlowInv' /\ ups' = ups /\ (Stays \/ Closes)

\* It does not touch the channel of a closed connection.
Rests ==
  conn.state = "Disconnected" /\ IsNoneEvent(conn.channel) => conn'.channel = conn.channel

\* The part of ObjectType and FlowInv that a handler has to restore.
LEMMA Restored ==
  ASSUME ObjectType, NEW st, NEW ch, NEW out, NEW inb, NEW p, NEW n, NEW r, NEW w, NEW sh,
         IsConn(conn', st, ch, out, inb), IsSock(sock', p, n, r, w, sh),
         Flow(st, ch, out, w, sh, accepted'), accepted' \in Seq(AllBytes),
         base' \in {"inmap", "removing", "removed"}, pendings' \in Seq(Functors),
         ups' \in Nat, downs' \in Nat, received' \in Nat, received' + n <= InMax
  PROVE  ObjectType' /\ FlowInv'
BY Zenon DEF ObjectType, FlowInv, IsConn, IsSock

LEMMA SameHandled ==
  ASSUME ObjectType, FlowInv,
         UNCHANGED <<conn, sock, base, pendings, accepted, ups, downs, received, failed>>
  PROVE  Handled /\ Rests
<1>1. ObjectType' /\ FlowInv'
  BY Zenon DEF ObjectType, FlowInv
<1> QED BY <1>1, Zenon DEF Handled, Stays, Rests

LEMMA CloseHandled ==
  ASSUME ObjectType, FlowInv, handle_close(pendings)
  PROVE  Handled /\ Rests
<1>1. CASE conn.state \in {"Connected", "Disconnecting"}
  <2> DEFINE ch == DisableAllEvent(conn.channel)
  <2>0. conn.channel \in Channels /\ Consistent(conn.channel) /\ conn \in ConnType
    BY ConnFields, Zenon DEF ObjectType, FlowInv, Flow
  <2>1. ch \in Channels /\ Consistent(ch) /\ IsNoneEvent(ch)
    BY <2>0, ChannelCalls, Zenon DEF Kept
  <2>2. conn' = [conn EXCEPT !.state = "Disconnected", !.channel = ch]
    BY <1>1, ZenonT(30) DEF handle_close
  <2> HIDE DEF ch
  <2>3. IsConn(conn', "Disconnected", ch, conn.output_buffer, conn.in_base_loop)
    BY <2>0, <2>1, <2>2, StateChannelSet DEF States
  <2>4. IsSock(sock', sock.peer, sock.inq, sock.space, sock.wire, sock.shut)
    BY SockFields DEF ObjectType, handle_close
  <2>5. Flow("Disconnected", ch, conn.output_buffer, sock.wire, sock.shut, accepted')
    BY <2>1 DEF Flow, FlowInv, handle_close
  <2>6. /\ UNCHANGED <<accepted, received, ups>> /\ downs' = downs + 1
        /\ base = "inmap" => failed' = failed
        /\ base' = IF conn.in_base_loop THEN "removed" ELSE "removing"
        /\ pendings' = IF conn.in_base_loop THEN Append(pendings, Task("destroyed")) ELSE pendings
    BY <1>1 DEF handle_close
  <2>7. pendings' \in Seq(Functors)
    BY <2>6, OpsAppend, TaskTypes, Zenon DEF ObjectType, TaskOps
  <2>8. /\ accepted' \in Seq(AllBytes) /\ base' \in {"inmap", "removing", "removed"}
        /\ ups' \in Nat /\ downs' \in Nat /\ received' \in Nat
        /\ received' + sock.inq <= InMax
    BY <2>6 DEF ObjectType
  <2>9. ObjectType' /\ FlowInv'
    BY <2>3, <2>4, <2>5, <2>7, <2>8, Restored, SMTT(30)
  <2>10. Closes
    BY <1>1, <2>1, <2>3, <2>6, Zenon DEF Closes, IsConn
  <2> QED BY <1>1, <2>6, <2>9, <2>10, Zenon DEF Handled, Rests
<1>2. CASE conn.state \notin {"Connected", "Disconnecting"}
  BY <1>2, SameHandled, Zenon DEF handle_close
<1> QED BY <1>1, <1>2, Zenon

\* The callbacks that a send queues.
LEMMA Notified ==
  ASSUME NEW q \in Seq(Functors), NEW x \in {<<>>, <<Task("writecomplete")>>},
         NEW y \in {<<>>, <<Task("highwater")>>}
  PROVE  /\ q \o x \in Seq(Functors) /\ q \o x \o y \in Seq(Functors)
         /\ Ops(q) \subseteq Ops(q \o x) /\ Ops(q) \subseteq Ops(q \o x \o y)
         /\ Ops(q \o x) \subseteq Ops(q) \cup {"writecomplete", "highwater"}
         /\ Ops(q \o x \o y) \subseteq Ops(q) \cup {"writecomplete", "highwater"}
<1>1. /\ Task("writecomplete") \in Functors /\ Task("writecomplete").op = "writecomplete"
      /\ Task("highwater") \in Functors /\ Task("highwater").op = "highwater"
  BY TaskTypes, Zenon DEF TaskOps
<1>0. <<>> \in Seq(Functors) /\ Ops(<<>>) = {}
  BY OpsEmpty
<1>2. x \in Seq(Functors) /\ Ops(x) \subseteq {"writecomplete"}
  BY <1>0, <1>1, OpsUnit, Zenon
<1>3. y \in Seq(Functors) /\ Ops(y) \subseteq {"highwater"}
  BY <1>0, <1>1, OpsUnit, Zenon
<1>4. q \o x \in Seq(Functors) /\ q \o x \o y \in Seq(Functors)
  BY <1>2, <1>3
<1> QED BY <1>2, <1>3, <1>4, OpsConcat, ZenonT(30)

\* How much ::send takes.
LEMMA SentPart ==
  ASSUME ObjectType, NEW bytes \in Seq(AllBytes)
  PROVE  /\ DirectlySent(bytes) \in 0 .. Len(bytes)
         /\ sock.space - DirectlySent(bytes) \in 0 .. SndBuf
         /\ ~SendsDirectly => DirectlySent(bytes) = 0
<1>1. sock.space \in 0 .. SndBuf /\ Len(bytes) \in Nat /\ SndBuf \in Nat
  BY SockFields, TcpConnectionAssumption DEF ObjectType
<1>2. \A j, k \in Int : Min({j, k}) = IF j <= k THEN j ELSE k
  BY DEF Min
<1>3. Min({Len(bytes), sock.space}) = IF Len(bytes) <= sock.space THEN Len(bytes) ELSE sock.space
  BY <1>1, <1>2
<1> QED BY <1>1, <1>3 DEF DirectlySent

LEMMA TakeOverHandled ==
  ASSUME ObjectType, FlowInv, NEW bytes \in Seq(AllBytes), conn.state = "Connected",
         ~(SendsDirectly /\ Broken), TakeOver(bytes, pendings)
  PROVE  Handled /\ Rests
<1> DEFINE n == DirectlySent(bytes)
           a == SubSeq(bytes, 1, n)
           rest == SubSeq(bytes, n + 1, Len(bytes))
           out == conn.output_buffer
           ch == IF rest = <<>> \/ IsWriteEvent(conn.channel) THEN conn.channel
                 ELSE EnableWriteEvent(conn.channel)
<1>1. /\ conn \in ConnType /\ sock \in SockType /\ conn.channel \in Channels
      /\ Consistent(conn.channel) /\ out \in Seq(AllBytes) /\ sock.wire \in Seq(AllBytes)
  BY ConnFields, SockFields, Zenon DEF ObjectType, FlowInv, Flow
<1>2. /\ n \in 0 .. Len(bytes) /\ sock.space - n \in 0 .. SndBuf
      /\ ~SendsDirectly => n = 0
  BY SentPart, Zenon
<1>3. a \in Seq(AllBytes) /\ Len(a) = n /\ rest \in Seq(AllBytes) /\ a \o rest = bytes
  BY <1>2, Split, ZenonT(40)
<1>4. (IsWriteEvent(conn.channel) <=> out # <<>>) /\ accepted = sock.wire \o out
  BY Zenon DEF FlowInv, Flow
<1>5. ~sock.shut
  <2>1. CASE SendsDirectly
    BY <2>1, Zenon DEF Broken
  <2>2. CASE ~SendsDirectly
    BY <2>2, <1>4, Zenon DEF SendsDirectly, FlowInv, Flow
  <2> QED BY <2>1, <2>2, Zenon
<1>6. out = <<>> \/ a = <<>>
  <2>1. CASE SendsDirectly
    BY <2>1, Zenon DEF SendsDirectly
  <2>2. CASE ~SendsDirectly
    <3>1. Len(a) = 0
      BY <2>2, <1>2, <1>3, Zenon
    <3> QED BY <3>1, <1>3
  <2> QED BY <2>1, <2>2, Zenon
<1>7. ch \in Channels /\ Consistent(ch) /\ (IsWriteEvent(ch) <=> out # <<>> \/ rest # <<>>)
  <2>1. CASE rest = <<>> \/ IsWriteEvent(conn.channel)
    BY <2>1, <1>1, <1>4, Zenon
  <2>2. CASE ~(rest = <<>> \/ IsWriteEvent(conn.channel))
    BY <2>2, <1>1, ChannelCalls, Zenon DEF Kept
  <2> QED BY <2>1, <2>2, Zenon
<1>8. /\ sock' = [sock EXCEPT !.wire = sock.wire \o a, !.space = sock.space - n]
      /\ accepted' = accepted \o bytes
      /\ UNCHANGED <<base, ups, downs, received, failed>>
      /\ conn' = IF rest = <<>> THEN conn
                 ELSE [conn EXCEPT !.output_buffer = out \o rest, !.channel = ch]
  BY ZenonT(30) DEF TakeOver, Buffered
<1>9. \E x \in {<<>>, <<Task("writecomplete")>>} : \E y \in {<<>>, <<Task("highwater")>>} :
        pendings' = pendings \o x \o y
  BY Zenon DEF TakeOver
<1> HIDE DEF n, a, rest, out, ch
<1>10. /\ out \o rest \in Seq(AllBytes) /\ sock.wire \o a \in Seq(AllBytes)
       /\ rest = <<>> => out \o rest = out
       /\ out \o rest # <<>> <=> (out # <<>> \/ rest # <<>>)
  BY <1>1, <1>3
<1>11. IsConn(conn', "Connected", ch, out \o rest, conn.in_base_loop)
  <2>1. CASE rest = <<>>
    BY <2>1, <1>1, <1>8, <1>10, ConnFields, Zenon DEF out, ch
  <2>2. CASE rest # <<>>
    BY <2>2, <1>1, <1>7, <1>8, <1>10, OutputChannelSet, ZenonT(40)
  <2> QED BY <2>1, <2>2, Zenon
<1>12. IsSock(sock', sock.peer, sock.inq, sock.space - n, sock.wire \o a, sock.shut)
  BY <1>1, <1>2, <1>8, <1>10, WireSet
<1>13. accepted' = (sock.wire \o a) \o (out \o rest) /\ accepted' \in Seq(AllBytes)
  <2>1. accepted' = (sock.wire \o out) \o (a \o rest)
    BY <1>3, <1>4, <1>8, SMTT(30)
  <2>2. /\ (sock.wire \o out) \o (a \o rest) = (sock.wire \o a) \o (out \o rest)
        /\ (sock.wire \o out) \o (a \o rest) \in Seq(AllBytes)
    BY <1>1, <1>3, <1>6, Interleave
  <2> QED BY <2>1, <2>2, Zenon
<1>14. Flow("Connected", ch, out \o rest, sock.wire \o a, sock.shut, accepted')
  BY <1>5, <1>7, <1>10, <1>13, Zenon DEF Flow
<1>15. /\ pendings' \in Seq(Functors) /\ Ops(pendings) \subseteq Ops(pendings')
       /\ Ops(pendings') \subseteq Ops(pendings) \cup {"writecomplete", "highwater"}
  <2>1. PICK x \in {<<>>, <<Task("writecomplete")>>} :
          \E y \in {<<>>, <<Task("highwater")>>} : pendings' = pendings \o x \o y
    BY <1>9
  <2>2. PICK y \in {<<>>, <<Task("highwater")>>} : pendings' = pendings \o x \o y
    BY <2>1, Zenon
  <2>3. pendings \in Seq(Functors)
    BY Zenon DEF ObjectType
  <2> QED BY <2>2, <2>3, Notified
<1>16. /\ base' \in {"inmap", "removing", "removed"} /\ ups' \in Nat /\ downs' \in Nat
       /\ received' \in Nat /\ received' + sock.inq <= InMax
  BY <1>8, Zenon DEF ObjectType
<1>17. ObjectType' /\ FlowInv'
  BY <1>11, <1>12, <1>13, <1>14, <1>15, <1>16, Restored, Zenon
<1>18. Stays
  BY <1>8, <1>11, <1>15, Zenon DEF Stays, IsConn
<1> QED BY <1>8, <1>17, <1>18, Zenon DEF Handled, Rests

LEMMA SendHandled ==
  ASSUME ObjectType, FlowInv, NEW m \in Messages, send_in_loop(m, pendings)
  PROVE  Handled /\ Rests
<1>1. CASE handle_close(pendings)
  BY <1>1, CloseHandled, Zenon
<1>2. CASE conn.state = "Connected" /\ ~(SendsDirectly /\ Broken) /\ TakeOver(Bytes(m), pendings)
  BY <1>2, TakeOverHandled, BytesType, Zenon
<1>3. CASE UNCHANGED <<conn, sock, base, pendings, accepted, ups, downs, received, failed>>
  BY <1>3, SameHandled, Zenon
<1> QED BY <1>1, <1>2, <1>3, Zenon DEF send_in_loop

\* The write event is armed: there is output to write.
LEMMA Writing ==
  ASSUME ObjectType, FlowInv, IsWriteEvent(conn.channel), ~Broken
  PROVE  /\ conn.output_buffer \in Seq(AllBytes) /\ sock.wire \in Seq(AllBytes)
         /\ conn \in ConnType /\ sock \in SockType
         /\ conn.state # "Disconnected" => conn.output_buffer # <<>> /\ conn.state # "Connecting"
         /\ ~sock.shut /\ ~IsNoneEvent(conn.channel)
         /\ accepted = sock.wire \o conn.output_buffer
         /\ conn.channel \in Channels /\ Consistent(conn.channel)
<1>1. ~IsNoneEvent(conn.channel)
  BY Zenon DEF IsWriteEvent, IsNoneEvent
<1> QED BY <1>1, ConnFields, SockFields, Zenon DEF ObjectType, FlowInv, Flow, Broken

LEMMA DrainedHandled ==
  ASSUME ObjectType, FlowInv, IsWriteEvent(conn.channel), ~Broken,
         sock.space >= Len(conn.output_buffer), Drained(pendings)
  PROVE  Handled /\ Rests
<1> DEFINE out == conn.output_buffer
           ch == DisableWriteEvent(conn.channel)
           room == sock.space - Len(out)
           sh == sock.shut \/ conn.state = "Disconnecting"
<1>1. /\ out \in Seq(AllBytes) /\ sock.wire \in Seq(AllBytes)
      /\ conn \in ConnType /\ sock \in SockType
      /\ conn.state # "Disconnected" => conn.state # "Connecting"
      /\ ~IsNoneEvent(conn.channel) /\ accepted = sock.wire \o out
  BY Writing, ZenonT(40)
<1>2. ch \in Channels /\ Consistent(ch) /\ ~IsWriteEvent(ch)
  BY Writing, ChannelCalls, Zenon DEF Kept
<1>3. room \in 0 .. SndBuf
  <2>1. sock.space \in 0 .. SndBuf /\ Len(out) \in Nat /\ SndBuf \in Nat
    BY <1>1, SockFields, TcpConnectionAssumption
  <2> QED BY <2>1
<1>4. sh \in BOOLEAN
  BY <1>1, SockFields, Zenon
<1>5. /\ conn' = [conn EXCEPT !.output_buffer = <<>>, !.channel = ch]
      /\ sock' = [sock EXCEPT !.wire = sock.wire \o out, !.space = room, !.shut = sh]
      /\ UNCHANGED <<base, accepted, ups, downs, received, failed>>
  BY Zenon DEF Drained
<1>6. \E x \in {<<>>, <<Task("writecomplete")>>} : pendings' = pendings \o x
  BY Zenon DEF Drained
<1> HIDE DEF out, ch, room, sh
<1>w. sock.wire \o out \in Seq(AllBytes) /\ <<>> \in Seq(AllBytes)
  BY <1>1, Concat
<1>7. (sock.wire \o out) \o <<>> = sock.wire \o out
  BY <1>w, Concat, ZenonT(40)
<1>8. IsConn(conn', conn.state, ch, <<>>, conn.in_base_loop)
  BY <1>1, <1>2, <1>5, <1>w, OutputChannelSet
<1>9. IsSock(sock', sock.peer, sock.inq, room, sock.wire \o out, sh)
  BY <1>1, <1>3, <1>4, <1>5, <1>w, WireShutSet, Zenon
<1>10. accepted' \in Seq(AllBytes) /\ accepted' = (sock.wire \o out) \o <<>>
  BY <1>1, <1>5, <1>w, <1>7, Zenon
<1>11. Flow(conn.state, ch, <<>>, sock.wire \o out, sh, accepted')
  BY <1>2, <1>10, Zenon DEF Flow
<1>12. /\ pendings' \in Seq(Functors) /\ Ops(pendings) \subseteq Ops(pendings')
       /\ Ops(pendings') \subseteq Ops(pendings) \cup {"writecomplete", "highwater"}
  <2>1. PICK x \in {<<>>, <<Task("writecomplete")>>} : pendings' = pendings \o x
    BY <1>6
  <2>2. pendings \in Seq(Functors) /\ <<>> \in {<<>>, <<Task("highwater")>>}
    BY Zenon DEF ObjectType
  <2> QED BY <2>1, <2>2, Notified
<1>13. /\ base' \in {"inmap", "removing", "removed"} /\ ups' \in Nat /\ downs' \in Nat
       /\ received' \in Nat /\ received' + sock.inq <= InMax
  BY <1>5, Zenon DEF ObjectType
<1>14. ObjectType' /\ FlowInv'
  BY <1>8, <1>9, <1>10, <1>11, <1>12, <1>13, Restored, SMTT(30)
<1>15. conn.state # "Connecting"
  BY <1>1, Zenon
<1>16. Stays
  BY <1>5, <1>8, <1>12, <1>15, Zenon DEF Stays, IsConn
<1> QED BY <1>1, <1>5, <1>14, <1>16, SMTT(30) DEF Handled, Rests

LEMMA PartlyHandled ==
  ASSUME ObjectType, FlowInv, IsWriteEvent(conn.channel), ~Broken,
         sock.space < Len(conn.output_buffer), PartlyWritten(pendings)
  PROVE  Handled /\ Rests
<1> DEFINE out == conn.output_buffer
           n == sock.space
           a == SubSeq(out, 1, n)
           rest == SubSeq(out, n + 1, Len(out))
<1>1. /\ out \in Seq(AllBytes) /\ sock.wire \in Seq(AllBytes)
      /\ conn \in ConnType /\ sock \in SockType
      /\ conn.state # "Disconnected" => conn.state # "Connecting"
      /\ ~IsNoneEvent(conn.channel) /\ accepted = sock.wire \o out /\ ~sock.shut
      /\ conn.channel \in Channels /\ Consistent(conn.channel)
  BY Writing
<1>2. n \in 0 .. Len(out) /\ Len(out) \in Nat /\ Len(out) - n > 0 /\ 0 \in 0 .. SndBuf
  <2>1. n \in 0 .. SndBuf /\ Len(out) \in Nat /\ SndBuf \in Nat
    BY <1>1, SockFields, TcpConnectionAssumption
  <2> QED BY <2>1
<1>3. /\ a \in Seq(AllBytes) /\ rest \in Seq(AllBytes) /\ a \o rest = out
      /\ Len(rest) = Len(out) - n
  BY <1>1, <1>2, Split, ZenonT(40)
<1>4. /\ conn' = [conn EXCEPT !.output_buffer = rest]
      /\ sock' = [sock EXCEPT !.wire = sock.wire \o a, !.space = 0]
      /\ pendings' = pendings
      /\ UNCHANGED <<base, accepted, ups, downs, received, failed>>
  BY Zenon DEF PartlyWritten
<1> HIDE DEF out, n, a, rest
<1>5. rest # <<>>
  BY <1>2, <1>3
<1>6. sock.wire \o a \in Seq(AllBytes)
  BY <1>1, <1>3, Concat, Zenon
<1>7. IsConn(conn', conn.state, conn.channel, rest, conn.in_base_loop)
  BY <1>1, <1>3, <1>4, OutputSet
<1>8. IsSock(sock', sock.peer, sock.inq, 0, sock.wire \o a, sock.shut)
  BY <1>1, <1>2, <1>4, <1>6, WireSet
<1>9. accepted' = (sock.wire \o a) \o rest /\ accepted' \in Seq(AllBytes)
  <2>1. (sock.wire \o a) \o rest = sock.wire \o (a \o rest)
    BY <1>1, <1>3, Assoc, ZenonT(40)
  <2> QED BY <2>1, <1>1, <1>3, <1>4, Zenon DEF ObjectType
<1>10. conn.state # "Connecting"
  BY <1>1, Zenon
<1>11. Flow(conn.state, conn.channel, rest, sock.wire \o a, sock.shut, accepted')
  BY <1>1, <1>5, <1>9, <1>10, Zenon DEF Flow
<1>12. /\ base' \in {"inmap", "removing", "removed"} /\ ups' \in Nat /\ downs' \in Nat
       /\ received' \in Nat /\ received' + sock.inq <= InMax /\ pendings' \in Seq(Functors)
  BY <1>4, Zenon DEF ObjectType
<1>13. ObjectType' /\ FlowInv'
  BY <1>7, <1>8, <1>9, <1>11, <1>12, Restored, Zenon
<1>14. Stays
  BY <1>4, <1>7, <1>10, Zenon DEF Stays, IsConn
<1> QED BY <1>1, <1>4, <1>13, <1>14, Zenon DEF Handled, Rests

LEMMA WriteHandled ==
  ASSUME ObjectType, FlowInv, handle_write(pendings)
  PROVE  Handled /\ Rests
<1>1. CASE handle_close(pendings)
  BY <1>1, CloseHandled, Zenon
<1>2. CASE UNCHANGED <<conn, sock, base, pendings, accepted, ups, downs, received, failed>>
  BY <1>2, SameHandled, Zenon
<1>3. CASE /\ IsWriteEvent(conn.channel) /\ ~Broken
           /\ sock.space >= Len(conn.output_buffer) /\ Drained(pendings)
  BY <1>3, DrainedHandled, Zenon
<1>4. CASE /\ IsWriteEvent(conn.channel) /\ ~Broken
           /\ sock.space < Len(conn.output_buffer) /\ PartlyWritten(pendings)
  BY <1>4, PartlyHandled, Zenon
<1> QED BY <1>1, <1>2, <1>3, <1>4, Zenon DEF handle_write

\* A step that changes the socket only, and what has been received.
LEMMA SockHandled ==
  ASSUME ObjectType, FlowInv, NEW p, NEW n \in Nat, NEW r, NEW sh,
         IsSock(sock', p, n, r, sock.wire, sh), received' \in Nat, received' + n <= InMax,
         sh => sock.shut \/ ~IsWriteEvent(conn.channel),
         UNCHANGED <<conn, base, pendings, accepted, ups, downs, failed>>
  PROVE  Handled /\ Rests
<1>1. IsConn(conn', conn.state, conn.channel, conn.output_buffer, conn.in_base_loop)
  BY ConnFields, Zenon DEF ObjectType
<1>2. Flow(conn.state, conn.channel, conn.output_buffer, sock.wire, sh, accepted')
  BY Zenon DEF FlowInv, Flow
<1>3. /\ base' \in {"inmap", "removing", "removed"} /\ ups' \in Nat /\ downs' \in Nat
      /\ accepted' \in Seq(AllBytes) /\ pendings' \in Seq(Functors)
  BY Zenon DEF ObjectType
<1>4. ObjectType' /\ FlowInv'
  BY <1>1, <1>2, <1>3, Restored, Zenon
<1> QED BY <1>4, Zenon DEF Handled, Stays, Rests

LEMMA ReadHandled ==
  ASSUME ObjectType, FlowInv, handle_read(pendings)
  PROVE  Handled /\ Rests
<1>1. CASE handle_close(pendings)
  BY <1>1, CloseHandled
<1>2. CASE UNCHANGED <<conn, sock, base, pendings, accepted, ups, downs, received, failed>>
  BY <1>2, SameHandled
<1>3. ASSUME NEW n \in 1 .. sock.inq, sock' = [sock EXCEPT !.inq = sock.inq - n],
             received' = received + n,
             UNCHANGED <<conn, base, pendings, accepted, ups, downs, failed>>
      PROVE  Handled /\ Rests
  <2>1. /\ sock \in SockType /\ sock.inq \in 0 .. InMax /\ received \in Nat
        /\ received + sock.inq <= InMax /\ InMax \in Nat
    BY SockFields, TcpConnectionAssumption, Zenon DEF ObjectType
  <2>2. PICK k \in 0 .. InMax : k = sock.inq - n
    BY <1>3, <2>1
  <2>3. received' \in Nat /\ received' + k <= InMax /\ k \in Nat
    BY <1>3, <2>1, <2>2
  <2>4. IsSock(sock', sock.peer, k, sock.space, sock.wire, sock.shut)
    BY <1>3, <2>1, <2>2, InqSet, Zenon
  <2> QED BY <1>3, <2>3, <2>4, SockHandled, SMTT(30)
<1> QED BY <1>1, <1>2, <1>3 DEF handle_read

LEMMA ShutdownHandled ==
  ASSUME ObjectType, FlowInv, sock' = ShutdownWrite, received' = received,
         UNCHANGED <<conn, base, pendings, accepted, ups, downs, failed>>
  PROVE  Handled /\ Rests
<1>1. /\ sock \in SockType /\ sock.inq \in Nat /\ received' \in Nat
      /\ received' + sock.inq <= InMax
  BY SockFields, TcpConnectionAssumption DEF ObjectType
<1>2. CASE IsWriteEvent(conn.channel)
  <2>1. sock' = sock
    BY <1>2, Zenon DEF ShutdownWrite
  <2> QED BY <2>1, SameHandled, Zenon
<1>3. CASE ~IsWriteEvent(conn.channel)
  <2>1. sock' = [sock EXCEPT !.shut = TRUE]
    BY <1>3, Zenon DEF ShutdownWrite
  <2>2. IsSock(sock', sock.peer, sock.inq, sock.space, sock.wire, TRUE)
    BY <2>1, <1>1, ShutSet, Zenon
  <2> QED BY <2>2, <1>1, <1>3, SockHandled
<1> QED BY <1>2, <1>3, Zenon

\* A step that changes the connection only, and its output not at all.
LEMMA ConnHandled ==
  ASSUME ObjectType, FlowInv, NEW st, NEW ch, NEW inb,
         IsConn(conn', st, ch, conn.output_buffer, inb), Consistent(ch),
         IsWriteEvent(ch) <=> IsWriteEvent(conn.channel),
         conn.state = "Disconnected" => st = "Disconnected",
         st = "Connecting" => conn.state = "Connecting",
         base' \in {"inmap", "removing", "removed"}, pendings' \in Seq(Functors),
         ups' \in Nat, downs' \in Nat, UNCHANGED <<sock, accepted, received>>
  PROVE  ObjectType' /\ FlowInv'
<1>1. IsSock(sock', sock.peer, sock.inq, sock.space, sock.wire, sock.shut)
  BY SockFields, Zenon DEF ObjectType
<1>2. Flow(st, ch, conn.output_buffer, sock.wire, sock.shut, accepted')
  BY Zenon DEF FlowInv, Flow
<1>3. /\ accepted' \in Seq(AllBytes) /\ received' \in Nat /\ received' + sock.inq <= InMax
  BY ZenonT(40) DEF ObjectType
<1> QED BY <1>1, <1>2, <1>3, Restored, Zenon

LEMMA ReadsHandled ==
  ASSUME ObjectType, FlowInv, start_read_in_loop(pendings) \/ stop_read_in_loop(pendings)
  PROVE  Handled
<1>1. UNCHANGED <<sock, base, accepted, ups, downs, received, failed, pendings>>
  BY Zenon DEF start_read_in_loop, stop_read_in_loop
<1>2. conn.channel \in Channels /\ Consistent(conn.channel) /\ conn \in ConnType
  BY ConnFields, Zenon DEF ObjectType, FlowInv, Flow
<1>3. ASSUME NEW ch \in {EnableReadEvent(conn.channel), DisableReadEvent(conn.channel)},
             NEW b \in BOOLEAN, conn' = [conn EXCEPT !.channel = ch, !.reading = b]
      PROVE  Handled
  <2>1. /\ ch \in Channels /\ Consistent(ch)
        /\ IsWriteEvent(ch) <=> IsWriteEvent(conn.channel)
    <3>1. CASE ch = EnableReadEvent(conn.channel)
      BY <3>1, <1>2, ChannelCalls, ZenonT(40) DEF Kept
    <3>2. CASE ch = DisableReadEvent(conn.channel)
      BY <3>2, <1>2, ChannelCalls, ZenonT(40) DEF Kept
    <3> QED BY <3>1, <3>2, Zenon
  <2>2. IsConn(conn', conn.state, ch, conn.output_buffer, conn.in_base_loop)
    BY <1>2, <1>3, <2>1, ReadingSet
  <2>3. ObjectType' /\ FlowInv'
    BY <1>1, <2>1, <2>2, ConnHandled, Zenon DEF ObjectType
  <2> QED BY <1>1, <2>2, <2>3, Zenon DEF Handled, Stays, IsConn
<1>4. CASE conn' = conn
  BY <1>1, <1>4, SameHandled, Zenon
<1> QED BY <1>3, <1>4 DEF start_read_in_loop, stop_read_in_loop

LEMMA Established ==
  ASSUME ObjectType, FlowInv, conn.state = "Connecting", ConnectionEstablished(pendings)
  PROVE  /\ ObjectType' /\ FlowInv' /\ conn'.state = "Connected" /\ ups' = ups + 1
         /\ UNCHANGED <<base, downs, failed, pendings>>
<1> DEFINE ch == EnableReadEvent(conn.channel)
<1>1. conn.channel \in Channels /\ Consistent(conn.channel) /\ conn \in ConnType
  BY ConnFields, Zenon DEF ObjectType, FlowInv, Flow
<1>2. ch \in Channels /\ Consistent(ch) /\ (IsWriteEvent(ch) <=> IsWriteEvent(conn.channel))
  BY <1>1, ChannelCalls, Zenon DEF Kept
<1>3. /\ conn' = [conn EXCEPT !.state = "Connected", !.channel = ch] /\ ups' = ups + 1
      /\ UNCHANGED <<sock, base, accepted, downs, received, failed, pendings>>
  BY ZenonT(30) DEF ConnectionEstablished
<1> HIDE DEF ch
<1>4. IsConn(conn', "Connected", ch, conn.output_buffer, conn.in_base_loop)
  BY <1>1, <1>2, <1>3, StateChannelSet DEF States
<1>5. ups' \in Nat /\ downs' \in Nat /\ base' \in {"inmap", "removing", "removed"}
  BY <1>3 DEF ObjectType
<1>6. ObjectType' /\ FlowInv'
  BY <1>2, <1>3, <1>4, <1>5, ConnHandled, SMTT(30) DEF ObjectType
<1> QED BY <1>3, <1>4, <1>6, Zenon DEF IsConn

LEMMA Destroyed ==
  ASSUME ObjectType, FlowInv, conn.state = "Disconnected", ConnectionDestroyed(pendings)
  PROVE  /\ ObjectType' /\ FlowInv' /\ conn'.state = "Disconnected"
         /\ IsNoneEvent(conn.channel) => IsNoneEvent(conn'.channel) /\ failed' = failed
         /\ Removed(conn'.channel)
         /\ UNCHANGED <<base, ups, downs, pendings>>
<1> DEFINE ch == RemoveFromLoop(conn.channel)
<1>1. conn.channel \in Channels /\ Consistent(conn.channel) /\ conn \in ConnType
  BY ConnFields, Zenon DEF ObjectType, FlowInv, Flow
<1>2. /\ ch \in Channels /\ Consistent(ch) /\ (IsWriteEvent(ch) <=> IsWriteEvent(conn.channel))
      /\ Removed(ch) /\ (IsNoneEvent(conn.channel) => IsNoneEvent(ch))
  BY <1>1, ChannelCalls, RemoveKeeps, Zenon DEF Kept
<1>3. /\ conn' = [conn EXCEPT !.channel = ch]
      /\ IsNoneEvent(conn.channel) => failed' = failed
      /\ UNCHANGED <<sock, base, accepted, ups, downs, received, pendings>>
  BY Zenon DEF ConnectionDestroyed
<1> HIDE DEF ch
<1>4. IsConn(conn', "Disconnected", ch, conn.output_buffer, conn.in_base_loop)
  BY <1>1, <1>2, <1>3, ChannelSet
<1>5. ups' \in Nat /\ downs' \in Nat /\ base' \in {"inmap", "removing", "removed"}
  BY <1>3, Zenon DEF ObjectType
<1>6. ObjectType' /\ FlowInv'
  BY <1>2, <1>3, <1>4, <1>5, ConnHandled DEF ObjectType
<1> QED BY <1>2, <1>3, <1>4, <1>6, SMTT(30) DEF IsConn

\* Shutdown and ForceClose, on whatever thread.
LEMMA StateHandled ==
  ASSUME ObjectType, FlowInv, conn.state \in {"Connected", "Disconnecting"},
         conn' = [conn EXCEPT !.state = "Disconnecting"], sock' \in {sock, ShutdownWrite},
         pendings' \in {pendings, Append(pendings, Task("forceclose"))},
         UNCHANGED <<base, accepted, ups, downs, received, failed>>
  PROVE  Handled /\ Rests
<1>1. conn \in ConnType /\ sock \in SockType /\ "Disconnecting" \in States
  BY Zenon DEF ObjectType, States
<1>2. IsConn(conn', "Disconnecting", conn.channel, conn.output_buffer, conn.in_base_loop)
  BY <1>1, StateSet, Zenon
<1>3. PICK sh \in BOOLEAN :
        /\ IsSock(sock', sock.peer, sock.inq, sock.space, sock.wire, sh)
        /\ sh => sock.shut \/ ~IsWriteEvent(conn.channel)
  <2>1. CASE sock' = sock
    BY <1>1, <2>1, SockFields, Zenon
  <2>2. CASE sock' # sock
    <3>1. sock' = [sock EXCEPT !.shut = TRUE] /\ ~IsWriteEvent(conn.channel)
      BY <2>2, Zenon DEF ShutdownWrite
    <3>2. IsSock(sock', sock.peer, sock.inq, sock.space, sock.wire, TRUE)
      BY <1>1, <3>1, ShutSet, Zenon
    <3> QED BY <3>1, <3>2, Zenon
  <2> QED BY <2>1, <2>2, Zenon
<1>4. Flow("Disconnecting", conn.channel, conn.output_buffer, sock.wire, sh, accepted')
  BY <1>3, Zenon DEF Flow, FlowInv
<1>5. /\ pendings' \in Seq(Functors) /\ Ops(pendings) \subseteq Ops(pendings')
      /\ Ops(pendings') \subseteq Ops(pendings) \cup {"forceclose"}
  <2>1. Task("forceclose") \in Functors /\ Task("forceclose").op = "forceclose"
    BY TaskTypes, Zenon DEF TaskOps
  <2> QED BY <2>1, OpsAppend DEF ObjectType
<1>6. /\ base' \in {"inmap", "removing", "removed"} /\ ups' \in Nat /\ downs' \in Nat
      /\ accepted' \in Seq(AllBytes) /\ received' \in Nat /\ received' + sock.inq <= InMax
  BY Zenon DEF ObjectType
<1>7. ObjectType' /\ FlowInv'
  BY <1>2, <1>3, <1>4, <1>5, <1>6, Restored, Zenon
<1>8. Stays
  BY <1>2, <1>5, Zenon DEF Stays, IsConn
<1> QED BY <1>7, <1>8, Zenon DEF Handled, Rests
=============================================================================
