--------------------------- MODULE TcpServerProofs --------------------------
(***************************************************************************)
(* What holds of the server with any number of io loops, peers and         *)
(* descriptors, as long as it is the only one of the process: the names of *)
(* its connections are then unique.                                        *)
(***************************************************************************)
EXTENDS TcpServer, TLAPS

-----------------------------------------------------------------------------
(* BaseInv, the part of the inductive invariant about types, names and     *)
(* phases, and what a step leaves of a connection.                         *)

OneServer == \A s, t \in Servers : s = t

Ops == {"established", "remove", "destroyed"}

Functors == [op : Ops, conn : Conns]

Objects ==
  /\ conns \in Seq(ConnType)
  /\ connections_ \in [Servers -> SUBSET Conns]
  /\ queue \in [Loops -> Seq(Functors)]

\* Names are never used twice.
NameInv ==
  /\ \A c \in Conns : conns[c].name < next_conn_id_
  /\ \A s \in Servers : pc[s] = "id" => tmp[s] = next_conn_id_
  /\ \A s \in Servers : pc[s] = "index" => loops_[s] # <<>>
  /\ \A c, d \in Conns : c # d => conns[c].name # conns[d].name

\* Connections exist from Start on, and no loop is destroyed before the server is.
PhaseInv ==
  /\ \A s \in Servers : phase[s] # "running" => pc[s] = "loop"
  /\ \A c \in Conns : phase[conns[c].server] # "new"
  /\ \A s \in Servers : phase[s] \in {"new", "running", "returned"} => stopping = {} /\ closed = {}

\* What the life of the connections does not matter for.
BaseInv == OneServer /\ TypeOK /\ NameInv /\ PhaseInv

\* Of one connection, "established" comes first and "remove" once.
Follows(f, g) ==
  f.conn = g.conn => g.op # "established" /\ ~(f.op = "remove" /\ g.op = "remove")

Ordered(q) ==
  \A l \in Loops : \A j \in 1 .. Len(q[l]) : \A i \in 1 .. j - 1 : Follows(q[l][i], q[l][j])

OrderInv == Ordered(queue)

-----------------------------------------------------------------------------
LEMMA ServersAreLoops == /\ Servers \subseteq Loops
                         /\ \A s \in Servers : IoLoops[s] \in Seq(Loops \ Servers)
<1>1. Servers \subseteq Loops
  BY Zenon DEF Loops
<1>2. ASSUME NEW s \in Servers PROVE IoLoops[s] \in Seq(Loops \ Servers)
  <2>1. Elements(IoLoops[s]) \subseteq Loops
    BY Zenon DEF Loops
  <2>2. Elements(IoLoops[s]) \ Servers \subseteq Loops \ Servers
    BY <2>1, Zenon
  <2>3. IoLoops[s] \in Seq(Elements(IoLoops[s]) \ Servers)
    BY ServerAssumption, Zenon
  <2> QED BY <2>2, <2>3
<1> QED BY <1>1, <1>2, Zenon

LEMMA Widened == ASSUME NEW S, NEW T, S \subseteq T, NEW q \in Seq(S)
                 PROVE  q \in Seq(T)
OBVIOUS

LEMMA Pushed ==
  ASSUME NEW S, NEW q \in [Loops -> Seq(S)], NEW l \in Loops, NEW f \in S,
         NEW p, p = QueueInLoop(q, l, f)
  PROVE  /\ p \in [Loops -> Seq(S)]
         /\ \A m \in Loops : m # l => p[m] = q[m]
         /\ Len(p[l]) = Len(q[l]) + 1
         /\ p[l][Len(q[l]) + 1] = f
         /\ \A i \in 1 .. Len(q[l]) : p[l][i] = q[l][i]
BY DEF QueueInLoop

LEMMA PoppedOne ==
  ASSUME NEW S, queue \in [Loops -> Seq(S)], NEW l \in Loops, queue[l] # <<>>,
         NEW p, p = Popped(l)
  PROVE  /\ p \in [Loops -> Seq(S)]
         /\ \A m \in Loops : m # l => p[m] = queue[m]
         /\ Len(queue[l]) \in Nat \ {0}
         /\ Head(queue[l]) = queue[l][1] /\ Head(queue[l]) \in S
         /\ Len(p[l]) = Len(queue[l]) - 1
         /\ \A i \in 1 .. Len(queue[l]) - 1 : p[l][i] = queue[l][i + 1]
BY DEF Popped

LEMMA Typed ==
  ASSUME conns \in Seq(ConnType), NEW c \in Conns
  PROVE  conns[c] \in ConnType /\ conns[c].loop \in Loops /\ conns[c].server \in Servers
<1>1. conns[c] \in ConnType
  BY DEF Conns
<1> QED BY <1>1, Zenon DEF ConnType

\* The functor at the head of a queue, and its connection.
LEMMA FirstOne ==
  ASSUME conns \in Seq(ConnType), queue \in [Loops -> Seq(Functors)],
         NEW l \in Loops, queue[l] # <<>>
  PROVE  /\ First(l) \in Conns /\ conns[First(l)] \in ConnType
         /\ conns[First(l)].loop \in Loops /\ conns[First(l)].server \in Servers
         /\ Call("destroyed", First(l)) \in Functors
<1>1. Head(queue[l]) \in Functors
  BY PoppedOne, Zenon
<1>2. First(l) \in Conns
  BY <1>1, Zenon DEF First, Functors
<1>3. Call("destroyed", First(l)) \in Functors
  BY <1>2, Zenon DEF Call, Functors, Ops
<1> QED BY <1>2, <1>3, Typed, Zenon

LEMMA ConnectionTypes ==
  ASSUME NEW r \in ConnType
  PROVE  /\ ConnectionEstablished(r) \in ConnType /\ Closed(r) \in ConnType
         /\ ConnectionDestroyed(r) \in ConnType
         /\ [r EXCEPT !.state = "Disconnecting"] \in ConnType
<1>0. PICK n \in Nat : n = r.calls + 1
  BY DEF ConnType
<1>1. ConnectionEstablished(r) \in ConnType
  BY <1>0, ZenonT(30) DEF ConnType, ConnectionEstablished
<1>2. Closed(r) \in ConnType
  BY <1>0, ZenonT(30) DEF ConnType, Closed
<1>3. \A q \in ConnType : [q EXCEPT !.added = FALSE] \in ConnType
  BY Zenon DEF ConnType
<1>4. ConnectionDestroyed(r) \in ConnType
  BY <1>2, <1>3, Zenon DEF ConnectionDestroyed
<1>5. [r EXCEPT !.state = "Disconnecting"] \in ConnType
  BY Zenon DEF ConnType
<1> QED BY <1>1, <1>2, <1>4, <1>5, Zenon

LEMMA ConnectingType ==
  ASSUME NEW s \in Servers, NEW l \in Loops, NEW id \in Nat
  PROVE  Connecting(s, l, id) \in ConnType
BY Zenon DEF ConnType, Connecting

\* What the updates of a connection leave alone, and what they set.
LEMMA Effects ==
  ASSUME NEW r \in ConnType, NEW q,
         q \in {ConnectionEstablished(r), Closed(r), ConnectionDestroyed(r),
                [r EXCEPT !.state = "Disconnecting"]}
  PROVE  /\ q \in ConnType
         /\ q.server = r.server /\ q.loop = r.loop /\ q.name = r.name
<1>1. CASE q = ConnectionEstablished(r)
  BY <1>1, ConnectionTypes, ZenonT(40) DEF ConnType, ConnectionEstablished
<1>2. CASE q = Closed(r)
  BY <1>2, ConnectionTypes, ZenonT(40) DEF ConnType, Closed
<1>3. CASE q = ConnectionDestroyed(r)
  BY <1>3, ConnectionTypes, ZenonT(40) DEF ConnType, ConnectionDestroyed, Closed
<1>4. CASE q = [r EXCEPT !.state = "Disconnecting"]
  BY <1>4, ConnectionTypes, Zenon DEF ConnType
<1> QED BY <1>1, <1>2, <1>3, <1>4, Zenon

LEMMA Updated ==
  ASSUME conns \in Seq(ConnType), NEW c \in Conns, NEW r \in ConnType,
         conns' = [conns EXCEPT ![c] = r]
  PROVE  /\ conns' \in Seq(ConnType) /\ Conns' = Conns
         /\ conns'[c] = r
         /\ \A d \in Conns : d # c => conns'[d] = conns[d]
BY DEF Conns

LEMMA Grown ==
  ASSUME conns \in Seq(ConnType), NEW r \in ConnType, conns' = Append(conns, r)
  PROVE  LET c == Len(conns) + 1
         IN /\ conns' \in Seq(ConnType) /\ Conns' = Conns \cup {c}
            /\ c \notin Conns /\ conns'[c] = r
            /\ \A d \in Conns : conns'[d] = conns[d]
BY DEF Conns

LEMMA BaseInit == OneServer /\ Init => BaseInv
<1> SUFFICES ASSUME OneServer, Init PROVE BaseInv
  BY Zenon
<1>1. conns = <<>> /\ Conns = {}
  <2>1. conns = <<>>
    BY Zenon DEF Init
  <2>2. DOMAIN conns = {}
    BY <2>1
  <2> QED BY <2>1, <2>2, Zenon DEF Conns
<1>2. TypeOK
  <2>1. \A S : <<>> \in Seq(S)
    OBVIOUS
  <2>2. loops_ \in [Servers -> Seq(Loops \ Servers)] /\ queue \in [Loops -> Seq(Functors)]
    BY <2>1, Zenon DEF Init
  <2>3. conns \in Seq(ConnType) /\ connections_ \in [Servers -> SUBSET Conns]
    BY <2>1, <1>1, Zenon DEF Init
  <2>4. io \in [Servers -> Loops]
    BY ServersAreLoops, Zenon DEF Init, InitAcceptor
  <2> QED BY <2>2, <2>3, <2>4, Zenon DEF Init, InitAcceptor, TypeOK, Functors, Ops
<1>3. NameInv /\ PhaseInv
  BY <1>1, Zenon DEF Init, InitAcceptor, NameInv, PhaseInv
<1> QED BY <1>2, <1>3, Zenon DEF BaseInv

\* Most steps of the acceptor and of other code leave the connections alone.
Lives == <<phase, loops_, connections_, conns, queue, stopping, closed>>

LEMMA Steps ==
  ASSUME Next
  PROVE  \/ UNCHANGED Lives
         \/ \E s \in Servers : \/ Start(s) \/ NewConnection(s) \/ LoopReturns(s)
                               \/ DestroyConnection(s) \/ StopThread(s) \/ Gone(s)
         \/ \E l \in Loops : RunEstablished(l) \/ RunRemove(l) \/ RunDestroyed(l) \/ CloseLoop(l)
         \/ \E c \in Conns : HandleClose(c) \/ Shutdown(c)
<1>1. CASE OtherOpens \/ OtherCloses
  BY <1>1, Zenon DEF OtherOpens, OtherCloses, Lives, loopVars
<1>2. ASSUME NEW s \in Servers,
             ListenFatal(s) \/ PeerConnects(s) \/ AcceptAborted(s) \/ AcceptFatal(s)
      PROVE  UNCHANGED Lives
  BY <1>2, Zenon DEF ListenFatal, PeerConnects, AcceptAborted, AcceptFatal, Lives, loopVars
<1>3. ASSUME NEW s \in Servers, AcceptStep(s), ~NewConnection(s)
      PROVE  UNCHANGED Lives
  BY <1>3, Zenon DEF AcceptStep, Accept, AcceptFull, AcceptExcess, CloseExcess, ReopenIdle,
                     GetNextLoop, Lives, loopVars
<1> QED BY <1>1, <1>2, <1>3, Zenon DEF Next, DestroyStep, Run

LEMMA ObjectsStep == TypeOK /\ [Next]_vars => Objects'
<1> SUFFICES ASSUME TypeOK, [Next]_vars PROVE Objects'
  BY Zenon
<1>b. Objects
  BY Zenon DEF TypeOK, Objects, Functors, Ops
<1>c. conns \in Seq(ConnType) /\ queue \in [Loops -> Seq(Functors)]
  BY <1>b, Zenon DEF Objects
<1>d. io \in [Servers -> Loops] /\ tmp \in [Servers -> Nat]
  BY Zenon DEF TypeOK
<1>1. CASE UNCHANGED Lives
  BY <1>b, <1>1, Zenon DEF Lives, Objects, Conns, Functors
<1>2. CASE UNCHANGED vars
  BY <1>b, <1>2, Zenon DEF vars, Objects, Conns, Functors, loopVars
<1>3. ASSUME NEW s \in Servers, Start(s) \/ LoopReturns(s) \/ StopThread(s)
      PROVE  Objects'
  BY <1>b, <1>3, Zenon DEF Start, LoopReturns, StopThread, Objects, Conns, Functors, loopVars
<1>4. ASSUME NEW s \in Servers, NewConnection(s)
      PROVE  Objects'
  <2> DEFINE c == Len(conns) + 1
             r == Connecting(s, io[s], tmp[s])
  <2>1. r \in ConnType /\ ConnectionEstablished(r) \in ConnType /\ r.loop = io[s] /\ io[s] \in Loops
    BY <1>d, ConnectingType, ConnectionTypes, Zenon DEF Connecting
  <2>2. PICK q \in ConnType : conns' = Append(conns, q)
    BY <1>4, <2>1, Zenon DEF NewConnection
  <2> HIDE DEF r
  <2>3. conns' \in Seq(ConnType) /\ Conns' = Conns \cup {c}
    BY <1>c, <2>2, Grown, Zenon
  <2>4. connections_' \in [Servers -> SUBSET Conns']
    BY <1>b, <1>4, <2>3, Zenon DEF NewConnection, Objects
  <2>5. Functors \subseteq Functors' /\ Call("established", c) \in Functors'
    BY <2>3, Zenon DEF Functors, Ops, Call
  <2>6. queue \in [Loops -> Seq(Functors')]
    BY <1>c, <2>5, Widened, Zenon
  <2>7. queue' \in [Loops -> Seq(Functors')]
    <3>1. CASE UNCHANGED queue
      BY <2>6, <3>1, Zenon
    <3>2. CASE queue' = QueueInLoop(queue, r.loop, Call("established", c))
      BY <2>1, <2>5, <2>6, <3>2, Pushed, ZenonT(40)
    <3> QED BY <1>4, <3>1, <3>2, Zenon DEF NewConnection, r
  <2> QED BY <2>3, <2>4, <2>7, Zenon DEF Objects
<1>5. ASSUME NEW s \in Servers, DestroyConnection(s)
      PROVE  Objects'
  <2>1. PICK c \in connections_[s] :
          /\ connections_' = [connections_ EXCEPT ![s] = @ \ {c}]
          /\ IF conns[c].loop = s
               THEN conns' = [conns EXCEPT ![c] = ConnectionDestroyed(@)] /\ UNCHANGED queue
               ELSE queue' = QueueInLoop(queue, conns[c].loop, Call("destroyed", c))
                      /\ UNCHANGED conns
    BY <1>5, Zenon DEF DestroyConnection
  <2>2. c \in Conns
    BY <1>b, <2>1, Zenon DEF Objects
  <2>3. conns[c].loop \in Loops /\ ConnectionDestroyed(conns[c]) \in ConnType
    BY <1>c, <2>2, Typed, ConnectionTypes, Zenon
  <2>4. conns' \in Seq(ConnType) /\ Conns' = Conns
    <3>1. CASE UNCHANGED conns
      BY <1>c, <3>1, Zenon DEF Conns
    <3>2. CASE conns' = [conns EXCEPT ![c] = ConnectionDestroyed(conns[c])]
      BY <1>c, <2>2, <2>3, <3>2, Updated, Zenon
    <3> QED BY <2>1, <3>1, <3>2, Zenon
  <2>5. connections_' \in [Servers -> SUBSET Conns']
    BY <1>b, <2>1, <2>4, Zenon DEF Objects
  <2>6. Call("destroyed", c) \in Functors
    BY <2>2, Zenon DEF Call, Functors, Ops
  <2>7. queue' \in [Loops -> Seq(Functors)]
    <3>1. CASE UNCHANGED queue
      BY <1>c, <3>1, Zenon
    <3>2. CASE queue' = QueueInLoop(queue, conns[c].loop, Call("destroyed", c))
      BY <1>c, <2>3, <2>6, <3>2, Pushed, Zenon
    <3> QED BY <2>1, <3>1, <3>2, Zenon
  <2> QED BY <2>4, <2>5, <2>7, Zenon DEF Objects, Functors
<1>6. ASSUME NEW l \in Loops, queue' = [queue EXCEPT ![l] = <<>>], UNCHANGED <<conns, connections_>>
      PROVE  Objects'
  <2>1. queue' \in [Loops -> Seq(Functors)]
    BY <1>c, <1>6
  <2> QED BY <1>b, <1>6, <2>1, Zenon DEF Objects, Conns, Functors
<1>7. ASSUME NEW s \in Servers, Gone(s)
      PROVE  Objects'
  BY <1>7, <1>6, ServersAreLoops, Zenon DEF Gone
<1>8. ASSUME NEW l \in Loops, CloseLoop(l)
      PROVE  Objects'
  BY <1>8, <1>6, Zenon DEF CloseLoop
<1>9. ASSUME NEW l \in Loops, RunEstablished(l) \/ RunDestroyed(l)
      PROVE  Objects'
  <2>1. queue[l] # <<>> /\ queue' = Popped(l) /\ UNCHANGED connections_
    BY <1>9, Zenon DEF RunEstablished, RunDestroyed, Pending
  <2>2. First(l) \in Conns /\ conns[First(l)] \in ConnType
    BY <1>c, <2>1, FirstOne, Zenon
  <2>3. PICK r \in ConnType : conns' = [conns EXCEPT ![First(l)] = r]
    BY <1>9, <2>2, ConnectionTypes, Zenon DEF RunEstablished, RunDestroyed
  <2>4. conns' \in Seq(ConnType) /\ Conns' = Conns
    BY <1>c, <2>2, <2>3, Updated, Zenon
  <2>5. queue' \in [Loops -> Seq(Functors)]
    BY <1>c, <2>1, PoppedOne, Zenon
  <2> QED BY <1>b, <2>1, <2>4, <2>5, Zenon DEF Objects, Functors
<1>10. ASSUME NEW l \in Loops, RunRemove(l)
       PROVE  Objects'
  <2>1. /\ queue[l] # <<>> /\ connections_' = Erased(First(l)) /\ UNCHANGED conns
        /\ queue' = QueueInLoop(Popped(l), conns[First(l)].loop, Call("destroyed", First(l)))
    BY <1>10, Zenon DEF RunRemove, Pending
  <2>2. /\ First(l) \in Conns /\ conns[First(l)].loop \in Loops
        /\ conns[First(l)].server \in Servers /\ Call("destroyed", First(l)) \in Functors
    BY <1>c, <2>1, FirstOne, Zenon
  <2>3. Popped(l) \in [Loops -> Seq(Functors)]
    BY <1>c, <2>1, PoppedOne, Zenon
  <2>4. queue' \in [Loops -> Seq(Functors)]
    BY <2>1, <2>2, <2>3, Pushed, ZenonT(40)
  <2>5. connections_' \in [Servers -> SUBSET Conns]
    BY <1>b, <2>1, <2>2, Zenon DEF Erased, Objects
  <2> QED BY <1>c, <2>1, <2>4, <2>5, Zenon DEF Objects, Conns, Functors
<1>11. ASSUME NEW c \in Conns, HandleClose(c)
       PROVE  Objects'
  <2>1. conns[c].loop \in Loops /\ conns[c].server \in Servers /\ Closed(conns[c]) \in ConnType
    BY <1>c, Typed, ConnectionTypes, Zenon
  <2>2. conns' \in Seq(ConnType) /\ Conns' = Conns
    BY <1>c, <1>11, <2>1, Updated, Zenon DEF HandleClose
  <2>3. connections_' \in [Servers -> SUBSET Conns]
    BY <1>b, <1>11, <2>1, Zenon DEF Erased, HandleClose, Objects
  <2>4. Call("destroyed", c) \in Functors /\ Call("remove", c) \in Functors
    BY Zenon DEF Call, Functors, Ops
  <2>5. queue' \in [Loops -> Seq(Functors)]
    <3>1. CASE queue' = QueueInLoop(queue, conns[c].loop, Call("destroyed", c))
      BY <1>c, <2>1, <2>4, <3>1, Pushed, Zenon
    <3>2. CASE queue' = QueueInLoop(queue, conns[c].server, Call("remove", c))
      BY <1>c, <2>1, <2>4, <3>2, Pushed, ServersAreLoops, Zenon
    <3> QED BY <1>11, <3>1, <3>2, Zenon DEF HandleClose
  <2> QED BY <2>2, <2>3, <2>5, Zenon DEF Objects, Functors
<1>12. ASSUME NEW c \in Conns, Shutdown(c)
       PROVE  Objects'
  <2>1. [conns[c] EXCEPT !.state = "Disconnecting"] \in ConnType
    BY <1>c, Typed, ConnectionTypes, Zenon
  <2>2. conns' = [conns EXCEPT ![c] = [conns[c] EXCEPT !.state = "Disconnecting"]]
    BY <1>12, Zenon DEF Shutdown
  <2>3. conns' \in Seq(ConnType) /\ Conns' = Conns
    BY <1>c, <2>1, <2>2, Updated, Zenon
  <2> QED BY <1>b, <1>12, <2>3, Zenon DEF Shutdown, Objects, Functors, loopVars
<1> QED BY Steps, <1>1, <1>2, <1>3, <1>4, <1>5, <1>7, <1>8, <1>9, <1>10, <1>11, <1>12, Zenon

LEMMA TypeStep == BaseInv /\ [Next]_vars => TypeOK'
<1> SUFFICES ASSUME BaseInv, [Next]_vars PROVE TypeOK'
  BY Zenon
<1> USE DEF BaseInv
<1> DEFINE Control ==
      /\ phase \in [Servers -> {"new", "running", "returned", "joining", "gone"}]
      /\ pc \in [Servers -> {"loop", "index", "id", "full", "excess", "reopen"}]
      /\ stopping \subseteq Loops /\ closed \subseteq Loops
      /\ exited \in {"", "listen", "accept", "idle"}
    Picks == loops_ \in [Servers -> Seq(Loops \ Servers)] /\ io \in [Servers -> Loops]
    Numbers ==
      /\ tmp \in [Servers -> Nat] /\ backlog \in [Servers -> Nat]
      /\ peers \in Nat /\ next_index_ \in Nat /\ next_conn_id_ \in Nat /\ others \in Nat
    Flags == idle \in [Servers -> BOOLEAN] /\ stolen \in BOOLEAN
<1>0. Control
  BY Zenon DEF TypeOK
<1>a. Flags
  BY Zenon DEF TypeOK
<1>c. Numbers
  BY Zenon DEF TypeOK
<1>d. Picks
  BY Zenon DEF TypeOK
<1>1. Control'
  <2>1. CASE UNCHANGED vars
    BY <1>0, <2>1, Zenon DEF vars, acceptVars, loopVars, fdVars
  <2>2. CASE OtherOpens \/ OtherCloses
    BY <1>0, <2>2, ZenonT(40) DEF OtherOpens, OtherCloses, acceptVars, loopVars
  <2>3. ASSUME NEW s \in Servers,
               \/ Start(s) \/ ListenFatal(s) \/ PeerConnects(s) \/ LoopReturns(s)
               \/ AcceptAborted(s) \/ AcceptFatal(s) \/ DestroyConnection(s)
        PROVE  Control'
    BY <1>0, <2>3, ZenonT(40)
    DEF Start, Listen, ListenFatal, PeerConnects, LoopReturns, AcceptAborted,
         AcceptFatal, DestroyConnection, acceptVars, loopVars, fdVars
  <2>4. ASSUME NEW s \in Servers, AcceptStep(s) PROVE Control'
    BY <1>0, <2>4, ZenonT(40)
    DEF AcceptStep, Accept, AcceptFull, AcceptExcess, CloseExcess, ReopenIdle,
         GetNextLoop, NewConnection, Goto, loopVars, fdVars
  <2>5. ASSUME NEW s \in Servers, StopThread(s) PROVE Control'
    <3>1. PICK i \in DOMAIN loops_[s] : stopping' = stopping \cup {loops_[s][i]}
      BY <2>5, Zenon DEF StopThread
    <3>2. loops_[s][i] \in Loops
      BY <1>d, <3>1, SMTT(30)
    <3> QED BY <1>0, <2>5, <3>1, <3>2, ZenonT(40) DEF StopThread, acceptVars, fdVars
  <2>6. ASSUME NEW s \in Servers, Gone(s) PROVE Control'
    BY <1>0, <2>6, ServersAreLoops, ZenonT(40) DEF Gone, fdVars
  <2>7. ASSUME NEW l \in Loops, Run(l) \/ CloseLoop(l) PROVE Control'
    BY <1>0, <2>7, Zenon
       DEF Run, RunEstablished, RunDestroyed, RunRemove, CloseLoop, acceptVars, fdVars
  <2>8. ASSUME NEW c \in Conns, HandleClose(c) \/ Shutdown(c) PROVE Control'
    BY <1>0, <2>8, Zenon DEF HandleClose, Shutdown, acceptVars, loopVars, fdVars
  <2> HIDE DEF Control
  <2> QED BY <2>1, <2>2, <2>3, <2>4, <2>5, <2>6, <2>7, <2>8, Zenon DEF Next, DestroyStep
<1>4. Picks'
  <2>1. CASE UNCHANGED <<loops_, io>>
    BY <1>d, <2>1, Zenon
  <2>2. ASSUME NEW s \in Servers, Start(s) PROVE Picks'
    <3>1. PICK n \in 0 .. Len(IoLoops[s]) :
            loops_' = [loops_ EXCEPT ![s] = SubSeq(IoLoops[s], 1, n)]
      BY <2>2, Zenon DEF Start
    <3>2. SubSeq(IoLoops[s], 1, n) \in Seq(Loops \ Servers)
      BY ServersAreLoops
    <3> QED BY <1>d, <2>2, <3>1, <3>2, Zenon DEF Start, acceptVars
  <2>3. ASSUME NEW s \in Servers, Accept(s) PROVE Picks'
    BY <1>d, <2>3, ServersAreLoops, Zenon DEF Accept
  <2>4. ASSUME NEW s \in Servers, GetNextLoop(s) PROVE Picks'
    <3>1. loops_[s] # <<>> /\ loops_[s] \in Seq(Loops \ Servers) /\ tmp[s] \in Nat
      BY <2>4, <1>c, <1>d, Zenon DEF GetNextLoop, Handling, NameInv
    <3>2. Len(loops_[s]) \in Nat \ {0}
      BY <3>1
    <3>3. 1 + (tmp[s] % Len(loops_[s])) \in 1 .. Len(loops_[s])
      BY <3>1, <3>2, SMTT(30)
    <3>4. \A i \in 1 .. Len(loops_[s]) : loops_[s][i] \in Loops
      BY <3>1
    <3>5. loops_[s][1 + (tmp[s] % Len(loops_[s]))] \in Loops
      BY <3>3, <3>4, Zenon
    <3> QED BY <1>d, <2>4, <3>5, Zenon DEF GetNextLoop
  <2>5. ASSUME Next, \A s \in Servers : ~(Start(s) \/ Accept(s) \/ GetNextLoop(s))
        PROVE  UNCHANGED <<loops_, io>>
    BY <2>5, ZenonT(40)
    DEF Next, AcceptStep, DestroyStep, Run, OtherOpens, OtherCloses, ListenFatal,
         PeerConnects, LoopReturns, AcceptAborted, AcceptFatal, AcceptFull, AcceptExcess,
         CloseExcess, ReopenIdle, NewConnection, DestroyConnection, StopThread, Gone,
         RunEstablished, RunDestroyed, RunRemove, CloseLoop, HandleClose, Shutdown, acceptVars
  <2>6. CASE UNCHANGED vars
    BY <2>6, <2>1, Zenon DEF vars, acceptVars
  <2> HIDE DEF Picks
  <2> QED BY <2>1, <2>2, <2>3, <2>4, <2>5, <2>6, Zenon
<1>5. Numbers'
  <2>1. CASE UNCHANGED <<tmp, backlog, peers, next_index_, next_conn_id_, others>>
    BY <1>c, <2>1, Zenon
  <2>2. CASE OtherOpens \/ OtherCloses
    <3>1. others \in Nat /\ (others' = others + 1 \/ (others > 0 /\ others' = others - 1))
      BY <1>c, <2>2, Zenon DEF OtherOpens, OtherCloses
    <3>2. others' \in Nat
      BY <3>1
    <3> QED BY <1>c, <2>2, <3>2, Zenon DEF OtherOpens, OtherCloses, acceptVars
  <2>3. ASSUME NEW s \in Servers, PeerConnects(s) PROVE Numbers'
    BY <1>c, <2>3, SMTT(30) DEF PeerConnects, fdVars
  <2>4. ASSUME NEW s \in Servers, Accept(s) \/ AcceptAborted(s) PROVE Numbers'
    <3>1. backlog' \in [Servers -> Nat]
      BY <1>c, <2>4, SMTT(30) DEF Accept, AcceptAborted, TakePeer
    <3>2. tmp' \in [Servers -> Nat]
      BY <1>c, <2>4, Zenon DEF Accept, AcceptAborted
    <3> QED BY <1>c, <2>4, <3>1, <3>2, Zenon DEF Accept, AcceptAborted, fdVars
  <2>5. ASSUME NEW s \in Servers, AcceptExcess(s) PROVE Numbers'
    BY <1>c, <2>5, SMTT(30) DEF AcceptExcess, TakePeer, fdVars
  <2>6. ASSUME NEW s \in Servers, GetNextLoop(s) \/ NewConnection(s) PROVE Numbers'
    <3>1. tmp[s] \in Nat /\ next_conn_id_ \in Nat /\ tmp[s] + 1 \in Nat
      BY <1>c, SMTT(30)
    <3>2. tmp' \in [Servers -> Nat]
      BY <1>c, <2>6, <3>1, SMTT(30) DEF GetNextLoop, NewConnection
    <3>3. next_index_' \in Nat /\ next_conn_id_' \in Nat
      BY <1>c, <2>6, <3>1, Zenon DEF GetNextLoop, NewConnection
    <3> QED BY <1>c, <2>6, <3>2, <3>3, Zenon DEF GetNextLoop, NewConnection, fdVars
  <2>7. ASSUME Next, ~OtherOpens, ~OtherCloses,
               \A s \in Servers : ~(\/ PeerConnects(s) \/ Accept(s) \/ AcceptAborted(s)
                                    \/ AcceptExcess(s) \/ GetNextLoop(s) \/ NewConnection(s))
        PROVE  UNCHANGED <<tmp, backlog, peers, next_index_, next_conn_id_, others>>
    BY <2>7, ZenonT(40)
    DEF Next, AcceptStep, DestroyStep, Run, Start, ListenFatal, LoopReturns, AcceptFatal,
         AcceptFull, CloseExcess, ReopenIdle, DestroyConnection, StopThread, Gone,
         RunEstablished, RunDestroyed, RunRemove, CloseLoop, HandleClose, Shutdown,
         acceptVars, fdVars
  <2>8. CASE UNCHANGED vars
    BY <2>8, <2>1, Zenon DEF vars, acceptVars, fdVars
  <2> HIDE DEF Numbers
  <2> QED BY <2>1, <2>2, <2>3, <2>4, <2>5, <2>6, <2>7, <2>8, Zenon
<1>3. Flags'
  <2>1. CASE UNCHANGED <<idle, stolen>>
    BY <1>a, <2>1, Zenon
  <2>2. CASE OtherOpens
    BY <1>a, <2>2, Zenon DEF OtherOpens, acceptVars
  <2>3. ASSUME NEW s \in Servers, AcceptFull(s) \/ ReopenIdle(s) \/ Gone(s) PROVE Flags'
    BY <1>a, <2>3, Zenon DEF AcceptFull, ReopenIdle, Gone, fdVars
  <2>4. ASSUME Next, ~OtherOpens, \A s \in Servers : ~(AcceptFull(s) \/ ReopenIdle(s) \/ Gone(s))
        PROVE  UNCHANGED <<idle, stolen>>
    BY <2>4, ZenonT(40)
    DEF Next, AcceptStep, DestroyStep, Run, OtherCloses, Start, ListenFatal, PeerConnects,
         LoopReturns, Accept, AcceptAborted, AcceptFatal, AcceptExcess, CloseExcess, GetNextLoop,
         NewConnection, DestroyConnection, StopThread, RunEstablished, RunDestroyed, RunRemove,
         CloseLoop, HandleClose, Shutdown, acceptVars, fdVars
  <2>5. CASE UNCHANGED vars
    BY <2>5, <2>1, Zenon DEF vars, acceptVars, fdVars
  <2> HIDE DEF Flags
  <2> QED BY <2>1, <2>2, <2>3, <2>4, <2>5, Zenon
<1> QED
  BY <1>1, <1>3, <1>4, <1>5, ObjectsStep, Zenon DEF TypeOK, Objects, Functors, Ops

-----------------------------------------------------------------------------
(* Queues as sets of functors.                                             *)

LEMMA PushedSet ==
  ASSUME NEW S, NEW q \in [Loops -> Seq(S)], NEW l \in Loops, NEW f \in S,
         Ordered(q), \A g \in Elements(q[l]) : Follows(g, f)
  PROVE  /\ \A m \in Loops : m # l => Elements(QueueInLoop(q, l, f)[m]) = Elements(q[m])
         /\ Elements(QueueInLoop(q, l, f)[l]) = Elements(q[l]) \cup {f}
         /\ Ordered(QueueInLoop(q, l, f))
<1>0. PICK p : p = QueueInLoop(q, l, f)
  BY Zenon
<1>a. Len(q[l]) \in Nat
  OBVIOUS
<1>b. /\ p \in [Loops -> Seq(S)]
      /\ \A m \in Loops : m # l => p[m] = q[m]
      /\ Len(p[l]) = Len(q[l]) + 1
      /\ p[l][Len(q[l]) + 1] = f
      /\ \A i \in 1 .. Len(q[l]) : p[l][i] = q[l][i]
  BY <1>0, SMTT(30) DEF QueueInLoop
<1>1. /\ p \in [Loops -> Seq(S)] /\ Len(q[l]) \in Nat
      /\ \A m \in Loops : m # l => p[m] = q[m]
      /\ Len(p[l]) = Len(q[l]) + 1
      /\ p[l][Len(q[l]) + 1] = f
      /\ \A i \in 1 .. Len(q[l]) : p[l][i] = q[l][i]
  BY <1>a, <1>b, Zenon
<1>2. DOMAIN p[l] = 1 .. Len(p[l]) /\ DOMAIN q[l] = 1 .. Len(q[l])
  BY <1>1
<1>3. Elements(p[l]) = Elements(q[l]) \cup {f}
  <2>1. Elements(p[l]) = {p[l][i] : i \in 1 .. Len(q[l]) + 1}
    BY <1>1, <1>2, Zenon DEF Elements
  <2>2. Elements(q[l]) = {p[l][i] : i \in 1 .. Len(q[l])}
    BY <1>1, <1>2, Zenon DEF Elements
  <2>3. 1 .. Len(q[l]) + 1 = (1 .. Len(q[l])) \cup {Len(q[l]) + 1}
    BY <1>1
  <2> QED BY <2>1, <2>2, <2>3, <1>1, SMTT(30)
<1>4. Ordered(p)
  <2> SUFFICES ASSUME NEW m \in Loops, NEW j \in 1 .. Len(p[m]), NEW i \in 1 .. j - 1
               PROVE  Follows(p[m][i], p[m][j])
    BY Zenon DEF Ordered
  <2>1. CASE m # l
    BY <1>1, <2>1, Zenon DEF Ordered
  <2>2. CASE m = l /\ j \in 1 .. Len(q[l])
    <3>1. i \in 1 .. Len(q[l])
      BY <1>1, <2>2
    <3>2. p[m][i] = q[l][i] /\ p[m][j] = q[l][j]
      BY <1>1, <2>2, <3>1, Zenon
    <3> QED BY <2>2, <3>2, Zenon DEF Ordered
  <2>3. CASE m = l /\ j \notin 1 .. Len(q[l])
    <3>1. j = Len(q[l]) + 1 /\ i \in 1 .. Len(q[l])
      BY <1>1, <2>3, SMTT(30)
    <3>2. p[m][j] = f /\ p[m][i] = q[l][i] /\ q[l][i] \in Elements(q[l])
      BY <1>1, <1>2, <2>3, <3>1, Zenon DEF Elements
    <3> QED BY <3>2, Zenon
  <2> QED BY <2>1, <2>2, <2>3, Zenon
<1> QED BY <1>0, <1>1, <1>3, <1>4, Zenon

LEMMA PoppedSet ==
  ASSUME queue \in [Loops -> Seq(Functors)], NEW l \in Loops, queue[l] # <<>>, OrderInv
  PROVE  /\ \A m \in Loops : m # l => Elements(Popped(l)[m]) = Elements(queue[m])
         /\ Elements(queue[l]) = Elements(Popped(l)[l]) \cup {queue[l][1]}
         /\ \A g \in Elements(Popped(l)[l]) : Follows(queue[l][1], g)
         /\ Ordered(Popped(l)) /\ queue[l][1] = Head(queue[l])
<1>0. PICK p : p = Popped(l)
  BY Zenon
<1>1. /\ p \in [Loops -> Seq(Functors)] /\ Len(queue[l]) \in Nat \ {0}
      /\ \A m \in Loops : m # l => p[m] = queue[m]
      /\ Head(queue[l]) = queue[l][1]
      /\ Len(p[l]) = Len(queue[l]) - 1
      /\ \A i \in 1 .. Len(queue[l]) - 1 : p[l][i] = queue[l][i + 1]
  BY <1>0, PoppedOne
<1>2. DOMAIN p[l] = 1 .. Len(p[l]) /\ DOMAIN queue[l] = 1 .. Len(queue[l])
  BY <1>1
<1>3. \A g \in Elements(p[l]) : \E i \in 2 .. Len(queue[l]) : g = queue[l][i]
  <2> SUFFICES ASSUME NEW j \in 1 .. Len(queue[l]) - 1
               PROVE  \E i \in 2 .. Len(queue[l]) : p[l][j] = queue[l][i]
    BY <1>1, <1>2 DEF Elements
  <2>1. j + 1 \in 2 .. Len(queue[l]) /\ p[l][j] = queue[l][j + 1]
    BY <1>1
  <2> QED BY <2>1, Zenon
<1>4. \A i \in 2 .. Len(queue[l]) : queue[l][i] \in Elements(p[l])
  <2> SUFFICES ASSUME NEW i \in 2 .. Len(queue[l])
               PROVE  queue[l][i] \in Elements(p[l])
    BY Zenon
  <2>1. PICK j \in 1 .. Len(queue[l]) - 1 : i = j + 1
    BY <1>1
  <2> QED BY <1>1, <1>2, <2>1, Zenon DEF Elements
<1>5. Elements(queue[l]) = {queue[l][i] : i \in 1 .. Len(queue[l])}
  BY <1>2, Zenon DEF Elements
<1>6. 1 .. Len(queue[l]) = {1} \cup (2 .. Len(queue[l]))
  BY <1>1
<1>7. Elements(queue[l]) = Elements(p[l]) \cup {queue[l][1]}
  BY <1>1, <1>3, <1>4, <1>5, <1>6
<1>8. \A g \in Elements(p[l]) : Follows(queue[l][1], g)
  <2>1. ASSUME NEW i \in 2 .. Len(queue[l]) PROVE Follows(queue[l][1], queue[l][i])
    <3>1. i \in 1 .. Len(queue[l]) /\ 1 \in 1 .. i - 1
      BY <1>1
    <3> QED BY <3>1, Zenon DEF OrderInv, Ordered
  <2> QED BY <1>1, <1>3, <2>1, Zenon
<1>9. Ordered(p)
  <2> SUFFICES ASSUME NEW m \in Loops, NEW j \in 1 .. Len(p[m]), NEW i \in 1 .. j - 1
               PROVE  Follows(p[m][i], p[m][j])
    BY Zenon DEF Ordered
  <2>1. CASE m # l
    BY <1>1, <2>1, Zenon DEF OrderInv, Ordered
  <2>2. CASE m = l
    <3>1. j + 1 \in 1 .. Len(queue[l]) /\ i + 1 \in 1 .. (j + 1) - 1
          /\ i \in 1 .. Len(queue[l]) - 1 /\ j \in 1 .. Len(queue[l]) - 1
      BY <1>1, <2>2
    <3>2. p[m][i] = queue[l][i + 1] /\ p[m][j] = queue[l][j + 1]
      BY <1>1, <2>2, <3>1, Zenon
    <3> QED BY <3>1, <3>2, Zenon DEF OrderInv, Ordered
  <2> QED BY <2>1, <2>2, Zenon
<1> QED BY <1>0, <1>1, <1>7, <1>8, <1>9, Zenon

LEMMA ClearedSet ==
  ASSUME NEW S, queue \in [Loops -> Seq(S)], NEW l \in Loops, OrderInv,
         NEW p, p = [queue EXCEPT ![l] = <<>>]
  PROVE  /\ \A m \in Loops : m # l => Elements(p[m]) = Elements(queue[m])
         /\ Elements(p[l]) = {}
         /\ Ordered(p)
<1>1. /\ \A m \in Loops : m # l => p[m] = queue[m]
      /\ p[l] = <<>> /\ Len(p[l]) = 0
  BY Zenon
<1>2. Elements(p[l]) = {}
  BY <1>1 DEF Elements
<1>3. Ordered(p)
  BY <1>1 DEF OrderInv, Ordered
<1> QED BY <1>1, <1>2, <1>3, Zenon

-----------------------------------------------------------------------------
(* Names and phases.                                                       *)

LEMMA EstablishedFields ==
  ASSUME NEW r \in ConnType, NEW q, q = ConnectionEstablished(r)
  PROVE  /\ q \in ConnType /\ q.state = "Connected" /\ q.calls = r.calls + 1
         /\ q.server = r.server /\ q.loop = r.loop
BY ConnectionTypes, ZenonT(40) DEF ConnType, ConnectionEstablished

LEMMA ClosedFields ==
  ASSUME NEW r \in ConnType, NEW q, q = Closed(r)
  PROVE  /\ q \in ConnType /\ q.state = "Disconnected" /\ q.calls = r.calls + 1
         /\ q.server = r.server /\ q.loop = r.loop /\ q.added = r.added
BY ConnectionTypes, Zenon DEF ConnType, Closed

LEMMA DestroyedFields ==
  ASSUME NEW r \in ConnType, NEW q, q = ConnectionDestroyed(r)
  PROVE  /\ q \in ConnType /\ ~q.added
         /\ q.server = r.server /\ q.loop = r.loop
         /\ r.state = "Connected" => q.state = "Disconnected" /\ q.calls = r.calls + 1
         /\ r.state # "Connected" => q.state = r.state /\ q.calls = r.calls
<1>1. q \in ConnType
  BY ConnectionTypes, Zenon
<1>2. CASE r.state = "Connected"
  <2>1. PICK k \in ConnType : k = Closed(r)
    BY ConnectionTypes, Zenon
  <2>2. k.state = "Disconnected" /\ k.calls = r.calls + 1 /\ k.server = r.server /\ k.loop = r.loop
    BY <2>1, ClosedFields
  <2>3. q = [k EXCEPT !.added = FALSE]
    BY <1>2, <2>1, Zenon DEF ConnectionDestroyed
  <2> QED BY <1>1, <1>2, <2>2, <2>3, Zenon DEF ConnType
<1>3. CASE r.state # "Connected"
  <2>1. q = [r EXCEPT !.added = FALSE]
    BY <1>3, Zenon DEF ConnectionDestroyed
  <2> QED BY <1>1, <1>3, <2>1, Zenon DEF ConnType
<1> QED BY <1>2, <1>3, Zenon

LEMMA ShutdownFields ==
  ASSUME NEW r \in ConnType, NEW q, q = [r EXCEPT !.state = "Disconnecting"]
  PROVE  /\ q \in ConnType /\ q.state = "Disconnecting" /\ q.calls = r.calls
         /\ q.server = r.server /\ q.loop = r.loop /\ q.added = r.added
BY ConnectionTypes, Zenon DEF ConnType

LEMMA Kinds ==
  ASSUME TypeOK
  PROVE  /\ conns \in Seq(ConnType) /\ queue \in [Loops -> Seq(Functors)]
         /\ connections_ \in [Servers -> SUBSET Conns]
         /\ \A c \in Conns : conns[c] \in ConnType /\ conns[c].loop \in Loops
                               /\ conns[c].server \in Servers
         /\ \A l \in Loops : \A f \in Elements(queue[l]) :
              f \in Functors /\ f.conn \in Conns /\ f = Call(f.op, f.conn)
<1>1. /\ conns \in Seq(ConnType) /\ queue \in [Loops -> Seq(Functors)]
      /\ connections_ \in [Servers -> SUBSET Conns]
  BY Zenon DEF TypeOK, Functors, Ops
<1>2. ASSUME NEW l \in Loops, NEW f \in Elements(queue[l])
      PROVE  f \in Functors /\ f.conn \in Conns /\ f = Call(f.op, f.conn)
  <2>1. PICK i \in DOMAIN queue[l] : f = queue[l][i]
    BY Zenon DEF Elements
  <2>2. f \in Functors
    BY <1>1, <2>1
  <2> QED BY <2>2, Zenon DEF Functors, Call
<1> QED BY <1>1, <1>2, Typed, Zenon

\* A connection keeps its server, its loop and its name.
LEMMA Identity ==
  ASSUME TypeOK, [Next]_vars
  PROVE  /\ Conns \subseteq Conns'
         /\ \A c \in Conns : /\ conns'[c].server = conns[c].server
                             /\ conns'[c].loop = conns[c].loop
                             /\ conns'[c].name = conns[c].name
         /\ (\A s \in Servers : ~NewConnection(s)) => Conns' = Conns
<1> DEFINE Same ==
      /\ Conns' = Conns
      /\ \A c \in Conns : /\ conns'[c].server = conns[c].server
                          /\ conns'[c].loop = conns[c].loop
                          /\ conns'[c].name = conns[c].name
<1>0. conns \in Seq(ConnType) /\ queue \in [Loops -> Seq(Functors)]
      /\ connections_ \in [Servers -> SUBSET Conns]
  BY Kinds, Zenon
<1>1. ASSUME UNCHANGED conns PROVE Same
  BY <1>1, Zenon DEF Conns
<1>2. ASSUME NEW c \in Conns, NEW q, conns' = [conns EXCEPT ![c] = q],
             q \in {ConnectionEstablished(conns[c]), Closed(conns[c]),
                    ConnectionDestroyed(conns[c]), [conns[c] EXCEPT !.state = "Disconnecting"]}
      PROVE  Same
  <2>1. conns[c] \in ConnType
    BY <1>0, Typed, Zenon
  <2>2. /\ q \in ConnType /\ q.server = conns[c].server
        /\ q.loop = conns[c].loop /\ q.name = conns[c].name
    BY <1>2, <2>1, Effects
  <2>3. Conns' = Conns /\ conns'[c] = q /\ \A d \in Conns : d # c => conns'[d] = conns[d]
    BY <1>0, <1>2, <2>2, Updated, Zenon
  <2> QED BY <2>2, <2>3, Zenon
<1>3. ASSUME NEW s \in Servers, NewConnection(s)
      PROVE  Conns \subseteq Conns' /\ \A c \in Conns : conns'[c] = conns[c]
  <2>1. Connecting(s, io[s], tmp[s]) \in ConnType
    BY ConnectingType, Zenon DEF TypeOK
  <2>2. PICK q \in ConnType : conns' = Append(conns, q)
    BY <1>3, <2>1, ConnectionTypes, Zenon DEF NewConnection
  <2> QED BY <1>0, <2>2, Grown, Zenon
<1>4. ASSUME NEW l \in Loops, RunEstablished(l) \/ RunDestroyed(l)
      PROVE  Same
  <2>1. First(l) \in Conns
    BY <1>0, <1>4, FirstOne DEF RunEstablished, RunDestroyed, Pending
  <2> HIDE DEF Same
  <2> QED BY <1>2, <1>4, <2>1, Zenon DEF RunEstablished, RunDestroyed
<1>5. ASSUME NEW s \in Servers, DestroyConnection(s)
      PROVE  Same
  <2>1. PICK c \in connections_[s] : UNCHANGED conns
                     \/ conns' = [conns EXCEPT ![c] = ConnectionDestroyed(conns[c])]
    BY <1>5 DEF DestroyConnection
  <2>2. c \in Conns
    BY <1>0, <2>1, Zenon
  <2> HIDE DEF Same
  <2> QED BY <1>1, <1>2, <2>1, <2>2, Zenon
<1>6. ASSUME NEW c \in Conns, HandleClose(c) \/ Shutdown(c)
      PROVE  Same
  <2>1. conns' = [conns EXCEPT ![c] = Closed(conns[c])]
          \/ conns' = [conns EXCEPT ![c] = [conns[c] EXCEPT !.state = "Disconnecting"]]
    BY <1>6, Zenon DEF HandleClose, Shutdown
  <2> HIDE DEF Same
  <2> QED BY <1>2, <2>1, Zenon
<1>7. ASSUME NEW s \in Servers, Start(s) \/ LoopReturns(s) \/ StopThread(s) \/ Gone(s)
      PROVE  UNCHANGED conns
  BY <1>7, Zenon DEF Start, LoopReturns, StopThread, Gone
<1>8. ASSUME NEW l \in Loops, RunRemove(l) \/ CloseLoop(l)
      PROVE  UNCHANGED conns
  BY <1>8, Zenon DEF RunRemove, CloseLoop
<1>9. UNCHANGED Lives \/ UNCHANGED vars => UNCHANGED conns
  BY Zenon DEF Lives, vars
<1>10. Same \/ \E s \in Servers : NewConnection(s)
  <2> HIDE DEF Same
  <2> QED BY Steps, <1>1, <1>4, <1>5, <1>6, <1>7, <1>8, <1>9, SMTT(30)
<1> QED BY <1>3, <1>10, Zenon

LEMMA NameStep == BaseInv /\ [Next]_vars => NameInv'
<1> SUFFICES ASSUME BaseInv, [Next]_vars PROVE NameInv'
  OBVIOUS
<1> OneServer /\ TypeOK /\ NameInv /\ PhaseInv
  BY Zenon DEF BaseInv
<1>1. ASSUME \A s \in Servers : ~NewConnection(s), UNCHANGED next_conn_id_,
             \A s \in Servers : pc'[s] = "id" => tmp'[s] = next_conn_id_,
             \A s \in Servers : pc'[s] = "index" => loops_'[s] # <<>>
      PROVE  NameInv'
  BY <1>1, Identity DEF NameInv
<1>2. ASSUME NEW s \in Servers, NewConnection(s)
      PROVE  NameInv'
  <2> DEFINE c == Len(conns) + 1
             r == Connecting(s, io[s], tmp[s])
  <2>1. conns \in Seq(ConnType) /\ io[s] \in Loops /\ tmp[s] \in Nat /\ DOMAIN pc = Servers
    BY Zenon DEF TypeOK
  <2>2. r \in ConnType /\ ConnectionEstablished(r) \in ConnType /\ r.name = tmp[s]
        /\ ConnectionEstablished(r).name = r.name
    BY <2>1, ConnectingType, ConnectionTypes, Effects, Zenon DEF Connecting
  <2>3. PICK q \in ConnType : conns' = Append(conns, q) /\ q.name = tmp[s]
    BY <1>2, <2>2 DEF NewConnection
  <2>4. /\ Conns' = Conns \cup {c} /\ c \notin Conns /\ conns'[c] = q
        /\ \A d \in Conns : conns'[d] = conns[d]
    BY <2>1, <2>3, Grown, ZenonT(40)
  <2> HIDE DEF c, r
  <2>5. tmp[s] = next_conn_id_ /\ next_conn_id_' = tmp[s] + 1 /\ pc' = [pc EXCEPT ![s] = "loop"]
    BY <1>2 DEF NewConnection, Handling, Goto, NameInv
  <2>6. \A d \in Conns : conns[d].name < tmp[s] /\ conns[d].name \in Nat
    BY <2>1, <2>5, Typed, Zenon DEF NameInv, ConnType
  <2>7. \A d \in Conns' : conns'[d].name < next_conn_id_'
    <3>1. conns'[c].name < next_conn_id_'
      BY <2>1, <2>3, <2>4, <2>5
    <3>2. ASSUME NEW d \in Conns PROVE conns'[d].name < next_conn_id_'
      BY <2>1, <2>4, <2>5, <2>6
    <3> QED BY <2>4, <3>1, <3>2, Zenon
  <2>8. \A d, e \in Conns' : d # e => conns'[d].name # conns'[e].name
    <3>1. ASSUME NEW d \in Conns PROVE conns'[d].name # conns'[c].name
      <4>1. conns[d].name # tmp[s]
        BY <2>1, <2>6
      <4> QED BY <2>3, <2>4, <4>1, ZenonT(40)
    <3> QED BY <2>4, <3>1 DEF NameInv
  <2>9. \A t \in Servers : pc'[t] = "loop"
    BY <2>1, <2>5, Zenon DEF OneServer
  <2> QED BY <2>7, <2>8, <2>9, Zenon DEF NameInv
<1>3. ASSUME NEW s \in Servers, Accept(s)
      PROVE  NameInv'
  <2>1. \A t \in Servers : t = s
    BY Zenon DEF OneServer
  <2>2. DOMAIN pc = Servers /\ DOMAIN tmp = Servers
    BY Zenon DEF TypeOK
  <2> QED BY <1>1, <1>3, <2>1, <2>2 DEF Accept, NewConnection, Handling, Goto
<1>4. ASSUME NEW s \in Servers, GetNextLoop(s)
      PROVE  NameInv'
  <2>1. \A t \in Servers : t = s
    BY DEF OneServer
  <2>2. DOMAIN pc = Servers /\ DOMAIN tmp = Servers
    BY ZenonT(40) DEF TypeOK
  <2>3. /\ pc[s] = "index" /\ pc' = [pc EXCEPT ![s] = "id"]
        /\ tmp' = [tmp EXCEPT ![s] = next_conn_id_] /\ UNCHANGED next_conn_id_
    BY <1>4, Zenon DEF GetNextLoop, Handling, Goto
  <2>4. pc'[s] = "id" /\ tmp'[s] = next_conn_id_
    BY <2>2, <2>3, Zenon
  <2>5. ~NewConnection(s)
    BY <2>3, Zenon DEF NewConnection, Handling
  <2> QED BY <1>1, <2>1, <2>3, <2>4, <2>5, SMTT(30)
<1>5. ASSUME NEW s \in Servers,
             AcceptFull(s) \/ AcceptExcess(s) \/ CloseExcess(s) \/ ReopenIdle(s)
      PROVE  NameInv'
  <2>1. \A t \in Servers : t = s
    BY DEF OneServer
  <2>2. DOMAIN pc = Servers
    BY ZenonT(40) DEF TypeOK
  <2>3. pc[s] \in {"loop", "full", "excess", "reopen"} /\ UNCHANGED next_conn_id_
    BY <1>5, ZenonT(40) DEF AcceptFull, AcceptExcess, CloseExcess, ReopenIdle, Handling
  <2>4. pc'[s] \in {"full", "excess", "reopen", "loop"}
    BY <1>5, <2>2, ZenonT(40) DEF AcceptFull, AcceptExcess, CloseExcess, ReopenIdle, Handling, Goto
  <2> QED BY <1>1, <2>1, <2>3, <2>4, ZenonT(40) DEF NewConnection, Handling
<1>6. ASSUME NEW s \in Servers, Start(s)
      PROVE  NameInv'
  <2>1. \A t \in Servers : t = s
    BY DEF OneServer
  <2>2. pc[s] = "loop" /\ pc' = pc /\ UNCHANGED next_conn_id_
    <3>1. phase[s] = "new" /\ UNCHANGED <<pc, next_conn_id_>>
      BY <1>6, Zenon DEF Start, acceptVars
    <3> QED BY <3>1, Zenon DEF PhaseInv
  <2>3. ~NewConnection(s)
    BY <2>2, ZenonT(40) DEF NewConnection, Handling
  <2> QED BY <1>1, <2>1, <2>2, <2>3, Zenon
<1>7. ASSUME UNCHANGED <<pc, tmp, loops_, next_conn_id_>>, \A s \in Servers : ~NewConnection(s)
      PROVE  NameInv'
  BY <1>1, <1>7, Zenon DEF NameInv
<1>8. ASSUME Next,
             \A s \in Servers :
               ~(\/ NewConnection(s) \/ Accept(s) \/ GetNextLoop(s) \/ AcceptFull(s)
                 \/ AcceptExcess(s) \/ CloseExcess(s) \/ ReopenIdle(s) \/ Start(s))
      PROVE  UNCHANGED <<pc, tmp, loops_, next_conn_id_>>
  BY <1>8, ZenonT(40) DEF Next, AcceptStep, DestroyStep, Run, OtherOpens, OtherCloses, ListenFatal,
       PeerConnects, LoopReturns, AcceptAborted, AcceptFatal, DestroyConnection, StopThread, Gone,
       RunEstablished, RunDestroyed, RunRemove, CloseLoop, HandleClose, Shutdown, acceptVars
<1>9. UNCHANGED vars => UNCHANGED <<pc, tmp, loops_, next_conn_id_>>
  BY Zenon DEF vars, acceptVars
<1> QED BY <1>2, <1>3, <1>4, <1>5, <1>6, <1>7, <1>8, <1>9, SMTT(30)

LEMMA PhaseStep == BaseInv /\ [Next]_vars => PhaseInv'
<1> SUFFICES ASSUME BaseInv, [Next]_vars PROVE PhaseInv'
  OBVIOUS
<1>0. OneServer /\ TypeOK /\ PhaseInv
  BY Zenon DEF BaseInv
<1>a. DOMAIN pc = Servers /\ DOMAIN phase = Servers
  BY <1>0, ZenonT(40) DEF TypeOK
<1>b. \A c \in Conns : conns[c].server \in Servers
  BY <1>0, Kinds, Zenon
<1>c. UNCHANGED phase \/ \E s \in Servers : Start(s) \/ LoopReturns(s) \/ StopThread(s) \/ Gone(s)
  <2>1. ASSUME Next, \A s \in Servers : ~(Start(s) \/ LoopReturns(s) \/ StopThread(s) \/ Gone(s))
        PROVE  UNCHANGED phase
    BY <2>1, ZenonT(40)
    DEF Next, AcceptStep, DestroyStep, Run, OtherOpens, OtherCloses, ListenFatal,
         PeerConnects, AcceptAborted, AcceptFatal, DestroyConnection, Accept, AcceptFull,
         AcceptExcess, CloseExcess, ReopenIdle, GetNextLoop, NewConnection,
         RunEstablished, RunDestroyed, RunRemove, CloseLoop, HandleClose, Shutdown
  <2>2. UNCHANGED vars => UNCHANGED phase
    BY Zenon DEF vars
  <2> QED BY <2>1, <2>2, Zenon
<1>1. \A s \in Servers : phase'[s] # "running" => pc'[s] = "loop"
  <2>1. ASSUME NEW s \in Servers, AcceptStep(s) PROVE phase'[s] = "running"
    <3>1. phase' = phase /\ phase[s] = "running"
      BY <2>1, ZenonT(40) DEF AcceptStep, Accept, AcceptFull, AcceptExcess, CloseExcess, ReopenIdle,
           GetNextLoop, NewConnection, Handling
    <3> QED BY <3>1, Zenon
  <2>2. ASSUME Next, \A s \in Servers : ~AcceptStep(s) PROVE UNCHANGED pc
    BY <2>2, ZenonT(40) DEF Next, DestroyStep, Run, OtherOpens, OtherCloses, Start, ListenFatal,
         PeerConnects, LoopReturns, AcceptAborted, AcceptFatal, DestroyConnection, StopThread, Gone,
         RunEstablished, RunDestroyed, RunRemove, CloseLoop, HandleClose, Shutdown, acceptVars
  <2>3. ASSUME NEW s \in Servers, Start(s) \/ LoopReturns(s) \/ StopThread(s) \/ Gone(s)
        PROVE  phase'[s] = "running" \/ (pc[s] = "loop" /\ pc' = pc)
    BY <1>0, <1>a, <2>3, Zenon DEF Start, Listen, LoopReturns, StopThread, Gone, Serving, PhaseInv,
                               acceptVars
  <2>4. UNCHANGED vars => UNCHANGED pc
    BY Zenon DEF vars, acceptVars
  <2> QED BY <1>0, <1>c, <2>1, <2>2, <2>3, <2>4, Zenon DEF PhaseInv, OneServer
<1>2. ASSUME NEW c \in Conns' PROVE phase'[conns'[c].server] # "new"
  <2>1. ASSUME NEW s \in Servers, phase'[s] = "new" PROVE phase[s] = "new"
    <3>1. ASSUME NEW t \in Servers, Start(t) \/ LoopReturns(t) \/ StopThread(t) \/ Gone(t)
          PROVE  phase'[t] # "new" /\ s = t
      BY <1>0, <1>a, <3>1, Zenon DEF Start, Listen, LoopReturns, StopThread, Gone, OneServer
    <3> QED BY <1>c, <2>1, <3>1, Zenon
  <2>2. conns' \in Seq(ConnType) /\ conns'[c] \in ConnType
    BY <1>0, ObjectsStep DEF Objects, Conns
  <2>3. conns'[c].server \in Servers
    BY <2>2, Zenon DEF ConnType
  <2>4. CASE c \in Conns
    BY <1>0, <1>b, <2>1, <2>3, <2>4, Identity, SMTT(30) DEF PhaseInv
  <2>5. CASE c \notin Conns
    <3>1. PICK s \in Servers : NewConnection(s)
      BY <1>0, <2>5, Identity, Zenon
    <3>2. phase[s] = "running" /\ s = conns'[c].server
      BY <1>0, <2>3, <3>1, ZenonT(40) DEF NewConnection, Handling, OneServer
    <3> QED BY <2>1, <3>2, ZenonT(40)
  <2> QED BY <2>4, <2>5, Zenon
<1>3. ASSUME NEW s \in Servers, phase'[s] \in {"new", "running", "returned"}
      PROVE  stopping' = {} /\ closed' = {}
  <2>1. phase[s] \in {"new", "running", "returned"}
    <3>1. ASSUME NEW t \in Servers, Start(t) \/ LoopReturns(t) \/ StopThread(t) \/ Gone(t)
          PROVE  s = t /\ (phase[t] \in {"new", "running"} \/ phase'[t] \in {"joining", "gone"})
      BY <1>0, <1>a, <3>1, Zenon DEF Start, LoopReturns, StopThread, Gone, Serving, OneServer
    <3> QED BY <1>3, <1>c, <3>1, Zenon
  <2>2. stopping = {} /\ closed = {}
    BY <1>0, <2>1, Zenon DEF PhaseInv
  <2>3. ASSUME NEW t \in Servers, StopThread(t) \/ Gone(t)
        PROVE  s = t /\ phase'[t] \in {"joining", "gone"}
    BY <1>0, <1>a, <2>3, Zenon DEF StopThread, Gone, OneServer
  <2>4. \A l \in Loops : ~CloseLoop(l)
    BY <2>2, SMTT(30) DEF CloseLoop
  <2>5. ASSUME Next, \A t \in Servers : ~(StopThread(t) \/ Gone(t)), \A l \in Loops : ~CloseLoop(l)
        PROVE  UNCHANGED <<stopping, closed>>
    BY <2>5, ZenonT(40)
    DEF Next, AcceptStep, DestroyStep, Run, OtherOpens, OtherCloses, Start, LoopReturns,
         ListenFatal, PeerConnects, AcceptAborted, AcceptFatal, DestroyConnection, Accept,
         AcceptFull, AcceptExcess, CloseExcess, ReopenIdle, GetNextLoop, NewConnection,
         RunEstablished, RunDestroyed, RunRemove, HandleClose, Shutdown, loopVars
  <2>6. UNCHANGED vars => UNCHANGED <<stopping, closed>>
    BY Zenon DEF vars, loopVars
  <2> QED BY <1>3, <2>2, <2>3, <2>4, <2>5, <2>6
<1> QED BY <1>1, <1>2, <1>3, Zenon DEF PhaseInv

LEMMA BaseInvariance == OneServer /\ Spec => []BaseInv
<1>1. BaseInv /\ [Next]_vars => BaseInv'
  <2>1. OneServer => OneServer'
    BY Zenon DEF OneServer
  <2> QED BY <2>1, TypeStep, NameStep, PhaseStep, Zenon DEF BaseInv
<1> QED BY <1>1, BaseInit, PTL DEF Spec

\* The variables of a lone server keep their types.
THEOREM TypeCorrect == OneServer /\ Spec => []TypeOK
<1>1. BaseInv => TypeOK
  BY Zenon DEF BaseInv
<1> QED BY <1>1, BaseInvariance, PTL

-----------------------------------------------------------------------------
(* The life of the connections.  LifeInv says that every functor finds its *)
(* connection in the state it asserts, in an order, and that a connection  *)
(* which has yet to enter or to leave the poller has the functor for it.   *)

Has(op, c) == Call(op, c) \in Elements(queue[conns[c].loop])

\* The callback is called once up and once down.
CallsOf(state) == IF state = "Connecting" THEN 0 ELSE IF state = "Disconnected" THEN 2 ELSE 1

CallsInv == \A c \in Conns : conns[c].calls = CallsOf(conns[c].state)

\* A functor finds its connection as FunctorsMatchState says; a removed one has been
\* closed even when the loop no longer runs.
Fits(f, l) ==
  LET r == conns[f.conn]
  IN /\ f.op = "established" => r.state = "Connecting" /\ l = r.loop
     /\ f.op = "remove" =>
          /\ r.state = "Disconnected" /\ l = r.server
          /\ phase[r.server] = "running" => f.conn \in connections_[r.server]
     /\ f.op = "destroyed" => f.conn \notin connections_[r.server] /\ l = r.loop

FitInv == \A l \in Loops : \A f \in Elements(queue[l]) : Fits(f, l)

\* A connection that has yet to enter or to leave the poller has the functor for it.
Awaited(c) ==
  LET r == conns[c]
  IN /\ r.state = "Connecting" => ~r.added /\ r.loop # r.server
     /\ r.state = "Connecting" /\ r.loop \notin closed => Has("established", c)
     /\ c \notin connections_[r.server] =>
          /\ phase[r.server] = "running" => r.state = "Disconnected"
          /\ r.loop \notin closed /\ (r.added \/ r.state = "Connecting") => Has("destroyed", c)

ConnInv == \A c \in Conns : Awaited(c)

LifeInv == CallsInv /\ FitInv /\ OrderInv /\ ConnInv

IInv == BaseInv /\ LifeInv

-----------------------------------------------------------------------------
(* The life of a connection: one lemma per action.                         *)

LEMMA PhaseOnly ==
  ASSUME IInv, UNCHANGED <<conns, connections_, queue, closed>>,
         \A s \in Servers : phase'[s] = "running" => phase[s] = "running" \/ Conns = {}
  PROVE  LifeInv'
<1>0. TypeOK /\ CallsInv /\ FitInv /\ OrderInv /\ ConnInv
  BY Zenon DEF IInv, BaseInv, LifeInv
<1>1. CallsInv' /\ OrderInv'
  BY <1>0, Zenon DEF CallsInv, OrderInv, Ordered, Conns
<1>2. FitInv'
  <2> SUFFICES ASSUME NEW l \in Loops, NEW f \in Elements(queue[l])
               PROVE  Fits(f, l)'
    BY Zenon DEF FitInv
  <2>1. Fits(f, l) /\ f.conn \in Conns /\ conns[f.conn].server \in Servers
    BY <1>0, Kinds, Zenon DEF FitInv
  <2> QED BY <2>1, Zenon DEF Fits
<1>3. ConnInv'
  <2>1. \A c \in Conns : conns[c].server \in Servers
    BY <1>0, Kinds, Zenon
  <2> QED BY <1>0, <2>1, Zenon DEF ConnInv, Awaited, Has, Conns
<1> QED BY <1>1, <1>2, <1>3, Zenon DEF LifeInv

LEMMA ClearStep ==
  ASSUME IInv, NEW l \in Loops, queue' = [queue EXCEPT ![l] = <<>>], closed' = closed \cup {l},
         UNCHANGED <<conns, connections_>>,
         \A s \in Servers : phase'[s] = "running" => phase[s] = "running"
  PROVE  LifeInv'
<1>0. TypeOK /\ CallsInv /\ FitInv /\ OrderInv /\ ConnInv
  BY Zenon DEF IInv, BaseInv, LifeInv
<1>1. /\ \A m \in Loops : m # l => Elements(queue'[m]) = Elements(queue[m])
      /\ Elements(queue'[l]) = {} /\ Ordered(queue')
  BY <1>0, Kinds, ClearedSet, ZenonT(40)
<1>2. CallsInv' /\ OrderInv'
  BY <1>0, <1>1, Zenon DEF CallsInv, OrderInv, Ordered, Conns
<1>3. FitInv'
  <2> SUFFICES ASSUME NEW m \in Loops, NEW f \in Elements(queue'[m])
               PROVE  Fits(f, m)'
    BY Zenon DEF FitInv
  <2>1. Fits(f, m) /\ conns[f.conn].server \in Servers
    BY <1>0, <1>1, Kinds, Zenon DEF FitInv
  <2> QED BY <2>1, Zenon DEF Fits
<1>4. ConnInv'
  <2>1. \A c \in Conns : conns[c].server \in Servers /\ conns[c].loop \in Loops
    BY <1>0, Kinds, Zenon
  <2> QED BY <1>0, <1>1, <2>1, SMTT(30) DEF ConnInv, Awaited, Has, Conns
<1> QED BY <1>2, <1>3, <1>4, Zenon DEF LifeInv

LEMMA PopStep ==
  ASSUME IInv, NEW l \in Loops, NEW op, Pending(l, op)
  PROVE  /\ First(l) \in Conns
         /\ \A m \in Loops : m # l => Elements(Popped(l)[m]) = Elements(queue[m])
         /\ Elements(queue[l]) = Elements(Popped(l)[l]) \cup {Call(op, First(l))}
         /\ \A g \in Elements(Popped(l)[l]) : Follows(Call(op, First(l)), g)
         /\ Ordered(Popped(l)) /\ Popped(l) \in [Loops -> Seq(Functors)]
         /\ Fits(Call(op, First(l)), l)
<1>0. TypeOK /\ FitInv /\ OrderInv /\ queue[l] # <<>> /\ Head(queue[l]).op = op
  BY Zenon DEF IInv, BaseInv, LifeInv, Pending
<1>1. queue \in [Loops -> Seq(Functors)] /\ conns \in Seq(ConnType)
  BY <1>0, Kinds, Zenon
<1>2. First(l) \in Conns
  BY <1>0, <1>1, FirstOne, Zenon
<1>3. Popped(l) \in [Loops -> Seq(Functors)]
  BY <1>0, <1>1, PoppedOne, Zenon
<1>4. /\ \A m \in Loops : m # l => Elements(Popped(l)[m]) = Elements(queue[m])
      /\ Elements(queue[l]) = Elements(Popped(l)[l]) \cup {queue[l][1]}
      /\ \A g \in Elements(Popped(l)[l]) : Follows(queue[l][1], g)
      /\ Ordered(Popped(l)) /\ queue[l][1] = Head(queue[l])
  BY <1>0, <1>1, PoppedSet, ZenonT(40)
<1>5. queue[l][1] \in Elements(queue[l])
  BY <1>4, Zenon
<1>6. queue[l][1] = Call(queue[l][1].op, queue[l][1].conn) /\ Fits(queue[l][1], l)
  BY <1>0, <1>5, Kinds, Zenon DEF FitInv
<1>7. queue[l][1] = Call(op, First(l))
  BY <1>0, <1>4, <1>6, Zenon DEF First
<1> QED BY <1>2, <1>3, <1>4, <1>6, <1>7, Zenon

\* What keeps a connection's functors and its place in the server keeps Awaited.
LEMMA AwaitedKept ==
  ASSUME NEW d, Awaited(d), conns'[d] = conns[d], UNCHANGED <<phase, closed>>,
         d \in connections_[conns[d].server] <=> d \in connections_'[conns[d].server],
         Has("established", d) => Has("established", d)',
         Has("destroyed", d) => Has("destroyed", d)'
  PROVE  Awaited(d)'
BY Zenon DEF Awaited

\* A step that changes no connection but c, queues nothing for another one and takes
\* nothing of another one from a queue.
Only(c) ==
  /\ Conns \subseteq Conns' /\ Conns' \subseteq Conns \cup {c}
  /\ UNCHANGED <<phase, closed>> /\ Ordered(queue')
  /\ \A d \in Conns : d # c =>
       /\ conns'[d] = conns[d]
       /\ d \in connections_[conns[d].server] <=> d \in connections_'[conns[d].server]
  /\ \A l \in Loops : \A g : g.conn # c =>
       (g \in Elements(queue'[l]) <=> g \in Elements(queue[l]))

FitsOf(c) == \A l \in Loops : \A g \in Elements(queue[l]) : g.conn = c => Fits(g, l)

\* Of such a step, only what it does to c is of interest.
LEMMA OthersKept ==
  ASSUME IInv, NEW c, Only(c), FitsOf(c)', Awaited(c)', conns'[c].calls = CallsOf(conns'[c].state)
  PROVE  LifeInv'
<1> TypeOK /\ CallsInv /\ FitInv /\ ConnInv
  BY Zenon DEF IInv, BaseInv, LifeInv
<1>1. \A d \in Conns' : d # c => d \in Conns /\ conns'[d] = conns[d]
  BY Zenon DEF Only
<1>2. CallsInv'
  BY <1>1, Zenon DEF CallsInv
<1>3. FitInv'
  <2> SUFFICES ASSUME NEW m \in Loops, NEW g \in Elements(queue'[m]), g.conn # c
               PROVE  Fits(g, m)'
    BY Zenon DEF FitInv, FitsOf
  <2>1. g \in Elements(queue[m])
    BY Zenon DEF Only
  <2>2. Fits(g, m) /\ g.conn \in Conns
    BY <2>1, Kinds, Zenon DEF FitInv
  <2>3. PICK d \in Conns : d = g.conn /\ d # c
    BY <2>2, Zenon
  <2>4. /\ conns'[d] = conns[d] /\ phase' = phase
        /\ d \in connections_[conns[d].server] <=> d \in connections_'[conns[d].server]
    BY <2>3, Zenon DEF Only
  <2> QED BY <2>2, <2>3, <2>4, Zenon DEF Fits
<1>4. ConnInv'
  <2> SUFFICES ASSUME NEW d \in Conns, d # c PROVE Awaited(d)'
    BY <1>1, Zenon DEF ConnInv
  <2>1. /\ Awaited(d) /\ conns'[d] = conns[d] /\ UNCHANGED <<phase, closed>>
        /\ d \in connections_[conns[d].server] <=> d \in connections_'[conns[d].server]
    BY Zenon DEF ConnInv, Only
  <2>2. conns[d].loop \in Loops
    BY Kinds, Zenon
  <2>3. ASSUME NEW op PROVE Has(op, d) => Has(op, d)'
    <3>1. Call(op, d).conn # c
      BY Zenon DEF Call
    <3>2. Call(op, d) \in Elements(queue'[conns[d].loop])
            <=> Call(op, d) \in Elements(queue[conns[d].loop])
      BY <2>2, <3>1, Zenon DEF Only
    <3> QED BY <2>1, <3>2, Zenon DEF Has, Call
  <2> QED BY <2>1, <2>3, AwaitedKept, Zenon
<1> QED BY <1>2, <1>3, <1>4, Zenon DEF LifeInv, OrderInv, Only

LEMMA EstablishedStep ==
  ASSUME IInv, NEW l \in Loops, RunEstablished(l)
  PROVE  LifeInv'
<1> TypeOK /\ CallsInv /\ FitInv /\ ConnInv
  BY Zenon DEF IInv, BaseInv, LifeInv
<1>1. /\ Pending(l, "established") /\ queue' = Popped(l)
      /\ conns' = [conns EXCEPT ![First(l)] = ConnectionEstablished(conns[First(l)])]
      /\ UNCHANGED <<phase, connections_, closed>>
  BY Zenon DEF RunEstablished
<1>2. PICK c \in Conns : c = First(l)
  BY <1>1, PopStep, Zenon
<1>3. /\ \A m \in Loops : m # l => Elements(queue'[m]) = Elements(queue[m])
      /\ Elements(queue[l]) = Elements(queue'[l]) \cup {Call("established", c)}
      /\ \A g \in Elements(queue'[l]) : Follows(Call("established", c), g)
      /\ Ordered(queue') /\ Fits(Call("established", c), l)
  BY <1>1, <1>2, PopStep, Zenon
<1>4. conns[c].state = "Connecting" /\ l = conns[c].loop
  BY <1>3, Zenon DEF Fits, Call
<1>5. conns \in Seq(ConnType) /\ conns[c] \in ConnType
  BY Kinds, Zenon
<1>6. /\ Conns' = Conns /\ conns'[c] = ConnectionEstablished(conns[c])
      /\ \A d \in Conns : d # c => conns'[d] = conns[d]
  BY <1>1, <1>2, <1>5, ConnectionTypes, Updated, Zenon
<1>7. /\ conns'[c].state = "Connected" /\ conns'[c].calls = conns[c].calls + 1
      /\ conns'[c].loop = conns[c].loop /\ conns'[c].server = conns[c].server
  BY <1>5, <1>6, EstablishedFields, Zenon
<1>8. conns'[c].calls = CallsOf(conns'[c].state)
  BY <1>4, <1>7 DEF CallsInv, CallsOf
<1>9. FitsOf(c)'
  <2> SUFFICES ASSUME NEW m \in Loops, NEW g \in Elements(queue'[m]), g.conn = c
               PROVE  Fits(g, m)'
    BY Zenon DEF FitsOf
  <2>1. g \in Elements(queue[m])
    BY <1>3, Zenon
  <2>2. Fits(g, m)
    BY <2>1, Zenon DEF FitInv
  <2>3. g.op # "remove"
    BY <1>4, <2>2, Zenon DEF Fits
  <2>4. g.op # "established"
    BY <1>3, <1>4, <2>2, ZenonT(40) DEF Fits, Follows, Call
  <2> QED BY <1>1, <1>7, <2>2, <2>3, <2>4, Zenon DEF Fits
<1>10. Awaited(c)'
  <2>1. Awaited(c)
    BY Zenon DEF ConnInv
  <2>2. Call("destroyed", c) # Call("established", c)
    BY Zenon DEF Call
  <2>3. Has("destroyed", c) => Has("destroyed", c)'
    BY <1>3, <1>4, <1>7, <2>2, Zenon DEF Has, Call
  <2> QED BY <1>1, <1>4, <1>7, <2>1, <2>3, SMTT(30) DEF Awaited
<1>11. Only(c)
  <2>1. ASSUME NEW m \in Loops, NEW g, g.conn # c
        PROVE  g \in Elements(queue'[m]) <=> g \in Elements(queue[m])
    BY <1>3, <2>1 DEF Call
  <2> QED BY <1>1, <1>3, <1>6, <2>1, Zenon DEF Only
<1> QED BY <1>8, <1>9, <1>10, <1>11, OthersKept, Zenon

LEMMA DestroyedStep ==
  ASSUME IInv, NEW l \in Loops, RunDestroyed(l)
  PROVE  LifeInv'
<1> TypeOK /\ CallsInv /\ FitInv /\ ConnInv
  BY DEF IInv, BaseInv, LifeInv
<1>1. /\ Pending(l, "destroyed") /\ queue' = Popped(l)
      /\ conns' = [conns EXCEPT ![First(l)] = ConnectionDestroyed(conns[First(l)])]
      /\ UNCHANGED <<phase, connections_, closed>>
  BY Zenon DEF RunDestroyed
<1>2. PICK c \in Conns : c = First(l)
  BY <1>1, PopStep, Zenon
<1>3. /\ \A m \in Loops : m # l => Elements(queue'[m]) = Elements(queue[m])
      /\ Elements(queue[l]) = Elements(queue'[l]) \cup {Call("destroyed", c)}
      /\ \A g \in Elements(queue'[l]) : Follows(Call("destroyed", c), g)
      /\ Ordered(queue') /\ Fits(Call("destroyed", c), l)
  BY <1>1, <1>2, PopStep, Zenon
<1>4. c \notin connections_[conns[c].server] /\ l = conns[c].loop
  BY <1>3, Zenon DEF Fits, Call
<1>5. conns \in Seq(ConnType) /\ conns[c] \in ConnType
  BY Kinds
<1>6. /\ Conns' = Conns /\ conns'[c] = ConnectionDestroyed(conns[c])
      /\ \A d \in Conns : d # c => conns'[d] = conns[d]
  BY <1>1, <1>2, <1>5, ConnectionTypes, Updated, Zenon
<1>7. /\ conns'[c].loop = conns[c].loop /\ conns'[c].server = conns[c].server /\ ~conns'[c].added
      /\ conns[c].state = "Connected" =>
           conns'[c].state = "Disconnected" /\ conns'[c].calls = conns[c].calls + 1
      /\ conns[c].state # "Connected" =>
           conns'[c].state = conns[c].state /\ conns'[c].calls = conns[c].calls
  BY <1>5, <1>6, DestroyedFields, SMTT(30)
<1>8. conns'[c].calls = CallsOf(conns'[c].state)
  BY <1>7 DEF CallsInv, CallsOf
<1>9. FitsOf(c)'
  <2> SUFFICES ASSUME NEW m \in Loops, NEW g \in Elements(queue'[m]), g.conn = c
               PROVE  Fits(g, m)'
    BY DEF FitsOf
  <2>1. g \in Elements(queue[m])
    BY <1>3, Zenon
  <2>2. Fits(g, m)
    BY <2>1 DEF FitInv
  <2>3. g.op # "established"
    BY <1>3, <1>4, <2>2, ZenonT(40) DEF Fits, Follows, Call
  <2> QED BY <1>1, <1>7, <2>2, <2>3, Zenon DEF Fits
<1>10. Awaited(c)'
  <2>1. Awaited(c)
    BY DEF ConnInv
  <2>2. conns[c].state = "Connecting" => conns[c].loop \in closed
    <3>1. SUFFICES ASSUME Has("established", c) PROVE FALSE
      BY <2>1, ZenonT(40) DEF Awaited
    <3>2. Call("established", c) \in Elements(queue'[l])
      BY <1>3, <1>4, <3>1 DEF Has, Call
    <3> QED BY <1>3, <3>2, Zenon DEF Follows, Call
  <2> QED BY <1>1, <1>7, <2>1, <2>2 DEF Awaited
<1>11. Only(c)
  <2>1. ASSUME NEW m \in Loops, NEW g, g.conn # c
        PROVE  g \in Elements(queue'[m]) <=> g \in Elements(queue[m])
    BY <1>3, <2>1 DEF Call
  <2> QED BY <1>1, <1>3, <1>6, <2>1, Zenon DEF Only
<1> QED BY <1>8, <1>9, <1>10, <1>11, OthersKept

LEMMA ErasedOne ==
  ASSUME IInv, NEW c \in Conns, NEW d \in Conns
  PROVE  d \in Erased(c)[conns[d].server] <=> d \in connections_[conns[d].server] /\ d # c
<1>1. OneServer /\ TypeOK /\ NameInv
  BY Zenon DEF IInv, BaseInv
<1>2. conns[c].server = conns[d].server /\ conns[c].server \in Servers
  BY <1>1, Kinds, Zenon DEF OneServer
<1>3. DOMAIN connections_ = Servers
  BY <1>1, Zenon DEF TypeOK
<1>4. d # c <=> conns[d].name # conns[c].name
  BY <1>1, Zenon DEF NameInv
<1> QED BY <1>2, <1>3, <1>4, Zenon DEF Erased

LEMMA RemoveStep ==
  ASSUME IInv, NEW l \in Loops, RunRemove(l)
  PROVE  LifeInv'
<1> TypeOK /\ CallsInv /\ FitInv
  BY Zenon DEF IInv, BaseInv, LifeInv
<1>1. /\ Pending(l, "remove") /\ connections_' = Erased(First(l))
      /\ queue' = QueueInLoop(Popped(l), conns[First(l)].loop, Call("destroyed", First(l)))
      /\ UNCHANGED <<phase, conns, closed>>
  BY Zenon DEF RunRemove
<1>2. PICK c \in Conns : c = First(l)
  BY <1>1, PopStep, Zenon
<1>3. PICK p \in [Loops -> Seq(Functors)] : p = Popped(l)
  BY <1>1, PopStep, Zenon
<1>4. /\ \A m \in Loops : m # l => Elements(p[m]) = Elements(queue[m])
      /\ Elements(queue[l]) = Elements(p[l]) \cup {Call("remove", c)}
      /\ \A g \in Elements(p[l]) : Follows(Call("remove", c), g)
      /\ Ordered(p) /\ Fits(Call("remove", c), l)
  BY <1>1, <1>2, <1>3, PopStep, Zenon
<1>5. conns[c].state = "Disconnected" /\ l = conns[c].server
  BY <1>4, Zenon DEF Fits, Call
<1>6. PICK k \in Loops, h \in Functors : k = conns[c].loop /\ h = Call("destroyed", c)
  <2>1. conns[c].loop \in Loops
    BY Kinds, Zenon
  <2>2. Call("destroyed", c) \in Functors
    BY Zenon DEF Functors, Ops, Call
  <2> QED BY <2>1, <2>2, Zenon
<1>7. /\ \A m \in Loops : m # k => Elements(queue'[m]) = Elements(p[m])
      /\ Elements(queue'[k]) = Elements(p[k]) \cup {h}
      /\ Ordered(queue')
  <2>1. queue' = QueueInLoop(p, k, h)
    BY <1>1, <1>2, <1>3, <1>6, Zenon
  <2>2. \A g \in Elements(p[k]) : Follows(g, h)
    BY <1>6, Zenon DEF Follows, Call
  <2>3. /\ \A m \in Loops : m # k => Elements(QueueInLoop(p, k, h)[m]) = Elements(p[m])
        /\ Elements(QueueInLoop(p, k, h)[k]) = Elements(p[k]) \cup {h}
        /\ Ordered(QueueInLoop(p, k, h))
    BY <1>4, <2>2, PushedSet, ZenonT(40)
  <2> QED BY <2>1, <2>3, Zenon
<1>8. /\ Conns' = Conns
      /\ \A d \in Conns : d \in connections_'[conns[d].server]
                            <=> d \in connections_[conns[d].server] /\ d # c
  BY <1>1, <1>2, ErasedOne, Zenon DEF Conns
<1>9. FitsOf(c)'
  <2> SUFFICES ASSUME NEW m \in Loops, NEW g \in Elements(queue'[m]), g.conn = c
               PROVE  Fits(g, m)'
    BY Zenon DEF FitsOf
  <2>1. CASE g = h /\ m = k
    BY <1>1, <1>6, <1>8, <2>1 DEF Fits, Call
  <2>2. CASE g \in Elements(p[m])
    <3>1. g \in Elements(queue[m])
      BY <1>4, <2>2, Zenon
    <3>2. Fits(g, m)
      BY <3>1, Zenon DEF FitInv
    <3>3. g.op # "remove"
      <4>1. SUFFICES ASSUME g.op = "remove" PROVE FALSE
        BY Zenon
      <4>2. m = l
        BY <1>5, <3>2, <4>1, Zenon DEF Fits
      <4> QED BY <1>4, <2>2, <4>1, <4>2, Zenon DEF Follows, Call
    <3>4. g.op # "established"
      BY <1>5, <3>2, Zenon DEF Fits
    <3> QED BY <1>1, <1>8, <3>2, <3>3, <3>4, Zenon DEF Fits
  <2> QED BY <1>7, <2>1, <2>2, Zenon
<1>10. Awaited(c)'
  <2>1. Has("destroyed", c)'
    BY <1>1, <1>6, <1>7, Zenon DEF Has, Call
  <2> QED BY <1>1, <1>5, <2>1, Zenon DEF Awaited
<1>11. Only(c)
  <2>1. ASSUME NEW m \in Loops, NEW g, g.conn # c
        PROVE  g \in Elements(queue'[m]) <=> g \in Elements(queue[m])
    <3>1. g # h /\ g # Call("remove", c)
      BY <1>6, <2>1 DEF Call
    <3>2. g \in Elements(p[m]) <=> g \in Elements(queue[m])
      BY <1>4, <3>1, SMTT(30)
    <3>3. g \in Elements(queue'[m]) <=> g \in Elements(p[m])
      BY <1>7, <3>1, SMTT(30)
    <3> QED BY <3>2, <3>3
  <2> QED BY <1>1, <1>7, <1>8, <2>1, Zenon DEF Only
<1>12. conns'[c].calls = CallsOf(conns'[c].state)
  BY <1>1, Zenon DEF CallsInv, CallsOf
<1> QED BY <1>9, <1>10, <1>11, <1>12, OthersKept, Zenon

LEMMA ShutdownStep ==
  ASSUME IInv, NEW c \in Conns, Shutdown(c)
  PROVE  LifeInv'
<1> TypeOK /\ CallsInv /\ FitInv /\ OrderInv /\ ConnInv
  BY Zenon DEF IInv, BaseInv, LifeInv
<1>1. conns \in Seq(ConnType) /\ conns[c] \in ConnType
  BY Kinds, Zenon
<1>2. /\ conns[c].state = "Connected"
      /\ conns' = [conns EXCEPT ![c] = [conns[c] EXCEPT !.state = "Disconnecting"]]
      /\ UNCHANGED <<phase, connections_, queue, closed>>
  BY Zenon DEF Shutdown, loopVars
<1>3. /\ Conns' = Conns /\ conns'[c] = [conns[c] EXCEPT !.state = "Disconnecting"]
      /\ \A d \in Conns : d # c => conns'[d] = conns[d]
  BY <1>1, <1>2, ConnectionTypes, Updated, Zenon
<1>4. /\ conns'[c].state = "Disconnecting" /\ conns'[c].calls = conns[c].calls
      /\ conns'[c].loop = conns[c].loop /\ conns'[c].server = conns[c].server
      /\ conns'[c].added = conns[c].added
  BY <1>1, <1>3, ShutdownFields
<1>5. conns'[c].calls = CallsOf(conns'[c].state)
  BY <1>2, <1>4, Zenon DEF CallsInv, CallsOf
<1>6. FitsOf(c)'
  <2> SUFFICES ASSUME NEW m \in Loops, NEW g \in Elements(queue[m]), g.conn = c
               PROVE  Fits(g, m)'
    BY <1>2, Zenon DEF FitsOf
  <2>1. Fits(g, m)
    BY Zenon DEF FitInv
  <2>2. g.op \notin {"established", "remove"}
    BY <1>2, <2>1, Zenon DEF Fits
  <2> QED BY <1>2, <1>4, <2>1, <2>2, Zenon DEF Fits
<1>7. Awaited(c)'
  <2>1. Has("destroyed", c) => Has("destroyed", c)'
    BY <1>2, <1>4, Zenon DEF Has, Call
  <2> QED BY <1>2, <1>4, <2>1 DEF ConnInv, Awaited
<1>8. Only(c)
  BY <1>2, <1>3, Zenon DEF Only, OrderInv
<1> QED BY <1>5, <1>6, <1>7, <1>8, OthersKept, Zenon

LEMMA CloseStep ==
  ASSUME IInv, NEW c \in Conns, HandleClose(c)
  PROVE  LifeInv'
<1> TypeOK /\ CallsInv /\ FitInv /\ OrderInv /\ ConnInv
  BY DEF IInv, BaseInv, LifeInv
<1>1. conns \in Seq(ConnType) /\ conns[c] \in ConnType /\ queue \in [Loops -> Seq(Functors)]
  BY Kinds, Zenon
<1>2. /\ conns[c].state \in {"Connected", "Disconnecting"}
      /\ conns' = [conns EXCEPT ![c] = Closed(conns[c])]
      /\ UNCHANGED <<phase, closed>>
  BY Zenon DEF HandleClose, Closable
<1>3. /\ Conns' = Conns /\ conns'[c] = Closed(conns[c])
      /\ \A d \in Conns : d # c => conns'[d] = conns[d]
  BY <1>1, <1>2, ConnectionTypes, Updated, ZenonT(40)
<1>4. /\ conns'[c].state = "Disconnected" /\ conns'[c].calls = conns[c].calls + 1
      /\ conns'[c].loop = conns[c].loop /\ conns'[c].server = conns[c].server
      /\ conns'[c].added = conns[c].added
  BY <1>1, <1>3, ClosedFields, Zenon
<1>5. conns'[c].calls = CallsOf(conns'[c].state)
  BY <1>2, <1>4 DEF CallsInv, CallsOf
<1>6. PICK k \in Loops, h \in Functors :
        /\ queue' = QueueInLoop(queue, k, h)
        /\ \/ /\ conns[c].loop = conns[c].server /\ k = conns[c].loop /\ h = Call("destroyed", c)
              /\ connections_' = Erased(c)
           \/ k = conns[c].server /\ h = Call("remove", c) /\ UNCHANGED connections_
  <2>1. conns[c].loop \in Loops /\ conns[c].server \in Loops
    BY Kinds, ServersAreLoops, Zenon
  <2>2. Call("destroyed", c) \in Functors /\ Call("remove", c) \in Functors
    BY Zenon DEF Functors, Ops, Call
  <2> QED BY <2>1, <2>2, Zenon DEF HandleClose
<1>7. ASSUME NEW m \in Loops, NEW g \in Elements(queue[m]), g.conn = c
      PROVE  Fits(g, m) /\ g.op \notin {"established", "remove"}
  <2>1. Fits(g, m)
    BY Zenon DEF FitInv
  <2> QED BY <1>2, <1>7, <2>1, Zenon DEF Fits
<1>8. /\ \A m \in Loops : m # k => Elements(queue'[m]) = Elements(queue[m])
      /\ Elements(queue'[k]) = Elements(queue[k]) \cup {h}
      /\ Ordered(queue')
  <2>1. \A g \in Elements(queue[k]) : Follows(g, h)
    BY <1>6, <1>7 DEF Follows, Call
  <2>2. Ordered(queue) /\ queue' = QueueInLoop(queue, k, h)
    BY <1>6, Zenon DEF OrderInv
  <2>3. /\ \A m \in Loops : m # k => Elements(QueueInLoop(queue, k, h)[m]) = Elements(queue[m])
        /\ Elements(QueueInLoop(queue, k, h)[k]) = Elements(queue[k]) \cup {h}
        /\ Ordered(QueueInLoop(queue, k, h))
    BY <1>1, <2>1, <2>2, PushedSet, ZenonT(40)
  <2> QED BY <2>2, <2>3, Zenon
<1>9. \A d \in Conns : d # c => (d \in connections_[conns[d].server]
                                   <=> d \in connections_'[conns[d].server])
  BY <1>6, ErasedOne, Zenon
<1>10. Only(c)
  <2>1. ASSUME NEW m \in Loops, NEW g, g.conn # c
        PROVE  g \in Elements(queue'[m]) <=> g \in Elements(queue[m])
    <3>1. g # h
      BY <1>6, <2>1 DEF Call
    <3> QED BY <1>8, <3>1, Zenon
  <2> QED BY <1>2, <1>3, <1>8, <1>9, <2>1, Zenon DEF Only
<1>11. CASE h = Call("destroyed", c)
  <2>1. k = conns[c].loop /\ c \notin connections_'[conns[c].server]
    BY <1>6, <1>11, ErasedOne, Zenon DEF Call
  <2>2. FitsOf(c)'
    <3> SUFFICES ASSUME NEW m \in Loops, NEW g \in Elements(queue'[m]), g.conn = c
                 PROVE  Fits(g, m)'
      BY Zenon DEF FitsOf
    <3>1. CASE g = h /\ m = k
      BY <1>4, <1>11, <2>1, <3>1, SMTT(30) DEF Fits, Call
    <3>2. CASE g \in Elements(queue[m])
      <4>1. Fits(g, m) /\ g.op \notin {"established", "remove"}
        BY <1>7, <3>2, Zenon
      <4> QED BY <1>4, <2>1, <4>1, Zenon DEF Fits
    <3> QED BY <1>8, <3>1, <3>2, Zenon
  <2>3. Awaited(c)'
    <3>1. Has("destroyed", c)'
      BY <1>4, <1>8, <1>11, <2>1, Zenon DEF Has, Call
    <3> QED BY <1>4, <3>1, Zenon DEF Awaited
  <2> QED BY <1>5, <1>10, <2>2, <2>3, OthersKept, Zenon
<1>12. CASE h = Call("remove", c)
  <2>1. k = conns[c].server /\ connections_' = connections_
    BY <1>6, <1>12, Zenon DEF Call
  <2>2. Awaited(c)
    BY Zenon DEF ConnInv
  <2>3. FitsOf(c)'
    <3> SUFFICES ASSUME NEW m \in Loops, NEW g \in Elements(queue'[m]), g.conn = c
                 PROVE  Fits(g, m)'
      BY DEF FitsOf
    <3>1. CASE g = h /\ m = k
      <4>1. phase[conns[c].server] = "running" => c \in connections_[conns[c].server]
        BY <1>2, <2>2, Zenon DEF Awaited
      <4>2. h.op = "remove" /\ h.conn = c
        BY <1>12, Zenon DEF Call
      <4> QED BY <1>2, <1>4, <2>1, <3>1, <4>1, <4>2, ZenonT(40) DEF Fits
    <3>2. CASE g \in Elements(queue[m])
      <4>1. Fits(g, m) /\ g.op \notin {"established", "remove"}
        BY <1>7, <3>2, SMTT(30)
      <4> QED BY <1>4, <2>1, <4>1, Zenon DEF Fits
    <3> QED BY <1>8, <3>1, <3>2, SMTT(30)
  <2>4. Awaited(c)'
    <3>1. conns[c].loop \in Loops
      BY Kinds, Zenon
    <3>2. Has("destroyed", c) => Has("destroyed", c)'
      BY <1>4, <1>8, <3>1, Zenon DEF Has, Call
    <3> QED BY <1>2, <1>4, <2>1, <2>2, <3>2, SMTT(30) DEF Awaited
  <2> QED BY <1>5, <1>10, <2>3, <2>4, OthersKept, SMTT(30)
<1> QED BY <1>6, <1>11, <1>12, Zenon

LEMMA DestroyConnectionStep ==
  ASSUME IInv, NEW s \in Servers, DestroyConnection(s)
  PROVE  LifeInv'
<1> OneServer /\ TypeOK /\ CallsInv /\ FitInv /\ OrderInv /\ ConnInv
  BY Zenon DEF IInv, BaseInv, LifeInv
<1>1. /\ conns \in Seq(ConnType) /\ queue \in [Loops -> Seq(Functors)]
      /\ connections_ \in [Servers -> SUBSET Conns]
      /\ \A d \in Conns : conns[d].server = s
  BY Kinds, Zenon DEF OneServer
<1>2. PICK c \in connections_[s] :
        /\ connections_' = [connections_ EXCEPT ![s] = @ \ {c}]
        /\ IF conns[c].loop = s
             THEN conns' = [conns EXCEPT ![c] = ConnectionDestroyed(@)] /\ UNCHANGED queue
             ELSE queue' = QueueInLoop(queue, conns[c].loop, Call("destroyed", c))
                    /\ UNCHANGED conns
  BY ZenonT(40) DEF DestroyConnection
<1>3. /\ phase[s] = "returned" /\ UNCHANGED <<phase, closed>>
      /\ connections_'[s] = connections_[s] \ {c}
  BY <1>1, <1>2, Zenon DEF DestroyConnection
<1>4. c \in Conns /\ conns[c].server = s
  BY <1>1, <1>2, Zenon
<1>5. conns[c] \in ConnType /\ conns[c].loop \in Loops
  BY <1>4, Kinds, Zenon
<1>6. \A d \in Conns : d # c => (d \in connections_[conns[d].server]
                                   <=> d \in connections_'[conns[d].server])
  BY <1>1, <1>3, Zenon
<1>7. CASE conns[c].loop = s
  <2>1. conns' = [conns EXCEPT ![c] = ConnectionDestroyed(conns[c])] /\ queue' = queue
    BY <1>2, <1>7, Zenon
  <2>2. /\ Conns' = Conns /\ conns'[c] = ConnectionDestroyed(conns[c])
        /\ \A d \in Conns : d # c => conns'[d] = conns[d]
    BY <1>1, <1>4, <1>5, <2>1, ConnectionTypes, Updated, ZenonT(40)
  <2>3. /\ conns'[c].loop = s /\ conns'[c].server = s /\ ~conns'[c].added
        /\ conns[c].state = "Connected" =>
             conns'[c].state = "Disconnected" /\ conns'[c].calls = conns[c].calls + 1
        /\ conns[c].state # "Connected" =>
             conns'[c].state = conns[c].state /\ conns'[c].calls = conns[c].calls
    BY <1>4, <1>5, <1>7, <2>2, DestroyedFields, SMTT(30)
  <2>4. conns'[c].calls = CallsOf(conns'[c].state)
    BY <1>4, <2>3 DEF CallsInv, CallsOf
  <2>5. conns[c].state # "Connecting"
    BY <1>4, <1>7, Zenon DEF ConnInv, Awaited
  <2>6. FitsOf(c)'
    <3> SUFFICES ASSUME NEW m \in Loops, NEW g \in Elements(queue[m]), g.conn = c
                 PROVE  Fits(g, m)'
      BY <2>1, Zenon DEF FitsOf
    <3>1. Fits(g, m)
      BY Zenon DEF FitInv
    <3> QED BY <1>3, <1>4, <1>7, <2>3, <2>5, <3>1, Zenon DEF Fits
  <2>7. Awaited(c)'
    BY <1>3, <2>3, <2>5, Zenon DEF Awaited
  <2>8. Only(c)
    BY <1>3, <1>6, <2>1, <2>2, Zenon DEF Only, OrderInv
  <2> QED BY <2>4, <2>6, <2>7, <2>8, OthersKept, Zenon
<1>8. CASE conns[c].loop # s
  <2>1. PICK k \in Loops, h \in Functors :
          k = conns[c].loop /\ h = Call("destroyed", c) /\ queue' = QueueInLoop(queue, k, h)
    <3>1. Call("destroyed", c) \in Functors
      BY <1>4, Zenon DEF Functors, Ops, Call
    <3> QED BY <1>2, <1>5, <1>8, <3>1, Zenon
  <2>2. conns' = conns /\ Conns' = Conns
    BY <1>2, <1>8, Zenon DEF Conns
  <2>3. /\ \A m \in Loops : m # k => Elements(queue'[m]) = Elements(queue[m])
        /\ Elements(queue'[k]) = Elements(queue[k]) \cup {h}
        /\ Ordered(queue')
    <3>1. \A g \in Elements(queue[k]) : Follows(g, h)
      BY <2>1, Zenon DEF Follows, Call
    <3>2. Ordered(queue) /\ queue' = QueueInLoop(queue, k, h)
      BY <2>1, Zenon DEF OrderInv
    <3>3. /\ \A m \in Loops : m # k => Elements(QueueInLoop(queue, k, h)[m]) = Elements(queue[m])
          /\ Elements(QueueInLoop(queue, k, h)[k]) = Elements(queue[k]) \cup {h}
          /\ Ordered(QueueInLoop(queue, k, h))
      BY <1>1, <3>1, <3>2, PushedSet, ZenonT(40)
    <3> QED BY <3>2, <3>3, Zenon
  <2>4. FitsOf(c)'
    <3> SUFFICES ASSUME NEW m \in Loops, NEW g \in Elements(queue'[m]), g.conn = c
                 PROVE  Fits(g, m)'
      BY ZenonT(40) DEF FitsOf
    <3>1. CASE g = h /\ m = k
      BY <1>3, <1>4, <2>1, <2>2, <3>1, SMTT(30) DEF Fits, Call
    <3>2. CASE g \in Elements(queue[m])
      <4>1. Fits(g, m)
        BY <3>2, Zenon DEF FitInv
      <4> QED BY <1>3, <1>4, <2>2, <4>1, Zenon DEF Fits
    <3> QED BY <2>3, <3>1, <3>2, Zenon
  <2>5. Awaited(c)'
    <3>1. Awaited(c)
      BY <1>4, Zenon DEF ConnInv
    <3>2. Has("destroyed", c)'
      BY <2>1, <2>2, <2>3, Zenon DEF Has, Call
    <3>3. Has("established", c) => Has("established", c)'
      BY <2>1, <2>2, <2>3, Zenon DEF Has, Call
    <3> QED BY <1>3, <1>4, <2>2, <3>1, <3>2, <3>3, ZenonT(40) DEF Awaited
  <2>6. Only(c)
    <3>1. ASSUME NEW m \in Loops, NEW g, g.conn # c
          PROVE  g \in Elements(queue'[m]) <=> g \in Elements(queue[m])
      <4>1. g # h
        BY <2>1, <3>1 DEF Call
      <4> QED BY <2>3, <4>1, Zenon
    <3> QED BY <1>3, <1>6, <2>2, <2>3, <3>1, Zenon DEF Only
  <2>7. conns'[c].calls = CallsOf(conns'[c].state)
    BY <1>4, <2>2, Zenon DEF CallsInv, CallsOf
  <2> QED BY <2>4, <2>5, <2>6, <2>7, OthersKept, Zenon
<1> QED BY <1>7, <1>8, Zenon

LEMMA NewConnectionStep ==
  ASSUME IInv, NEW s \in Servers, NewConnection(s)
  PROVE  LifeInv'
<1> OneServer /\ TypeOK /\ NameInv /\ FitInv /\ OrderInv
  BY Zenon DEF IInv, BaseInv, LifeInv
<1>1. /\ conns \in Seq(ConnType) /\ queue \in [Loops -> Seq(Functors)]
      /\ connections_ \in [Servers -> SUBSET Conns] /\ \A d \in Conns : conns[d].server = s
  BY Kinds, Zenon DEF OneServer
<1>2. io[s] \in Loops /\ tmp[s] \in Nat
  BY Zenon DEF TypeOK
<1>3. PICK r \in ConnType, c \in Nat : c = Len(conns) + 1 /\ r = Connecting(s, io[s], tmp[s])
  <2>1. Connecting(s, io[s], tmp[s]) \in ConnType
    BY <1>2, ConnectingType, Zenon
  <2>2. Len(conns) + 1 \in Nat
    BY <1>1
  <2> QED BY <2>1, <2>2, Zenon
<1>4. /\ r.server = s /\ r.loop = io[s] /\ r.name = tmp[s] /\ r.state = "Connecting"
      /\ ~r.added /\ r.calls = 0
  BY <1>3, Zenon DEF Connecting
<1>5. UNCHANGED <<phase, closed>>
  BY Zenon DEF NewConnection
<1>6. connections_'[s] = connections_[s] \cup {c}
  <2>1. connections_'[s] = {d \in connections_[s] : conns[d].name # r.name} \cup {c}
    BY <1>1, <1>3, <1>4, ZenonT(40) DEF NewConnection
  <2>2. ASSUME NEW d \in connections_[s] PROVE conns[d].name # r.name
    <3>1. d \in Conns /\ r.name = next_conn_id_
      BY <1>1, <1>4, ZenonT(40) DEF NewConnection, Handling, NameInv
    <3>2. conns[d].name < next_conn_id_ /\ conns[d].name \in Nat /\ next_conn_id_ \in Nat
      BY <1>1, <3>1, Typed, ZenonT(40) DEF NameInv, TypeOK, ConnType
    <3> QED BY <3>1, <3>2
  <2> QED BY <2>1, <2>2, Zenon
<1>7. ASSUME NEW q \in ConnType, conns' = Append(conns, q)
      PROVE  /\ Conns' = Conns \cup {c} /\ c \notin Conns /\ conns'[c] = q
             /\ \A d \in Conns : conns'[d] = conns[d]
  BY <1>1, <1>3, <1>7, Grown, ZenonT(40)
<1>8. \A m \in Loops : \A g \in Elements(queue[m]) : g.conn \in Conns
  BY Kinds, Zenon
<1>9. CASE io[s] = s
  <2>1. conns' = Append(conns, ConnectionEstablished(r)) /\ queue' = queue
    BY <1>3, <1>4, <1>9, Zenon DEF NewConnection
  <2>2. PICK q \in ConnType :
          /\ q = ConnectionEstablished(r) /\ q.state = "Connected" /\ q.calls = r.calls + 1
          /\ q.server = r.server
    BY EstablishedFields, Zenon
  <2>3. /\ Conns' = Conns \cup {c} /\ c \notin Conns /\ conns'[c] = q
        /\ \A d \in Conns : conns'[d] = conns[d]
    BY <1>7, <2>1, <2>2, Zenon
  <2>4. FitsOf(c)'
    BY <1>8, <2>1, <2>3, Zenon DEF FitsOf
  <2>5. Awaited(c)'
    BY <1>4, <1>6, <2>2, <2>3, Zenon DEF Awaited
  <2>6. Only(c)
    BY <1>1, <1>5, <1>6, <2>1, <2>3, Zenon DEF Only, OrderInv
  <2>7. conns'[c].calls = CallsOf(conns'[c].state)
    BY <1>4, <2>2, <2>3 DEF CallsOf
  <2> QED BY <2>4, <2>5, <2>6, <2>7, OthersKept, Zenon
<1>10. CASE io[s] # s
  <2>1. conns' = Append(conns, r) /\ queue' = QueueInLoop(queue, io[s], Call("established", c))
    BY <1>3, <1>4, <1>10 DEF NewConnection
  <2>2. /\ Conns' = Conns \cup {c} /\ c \notin Conns /\ conns'[c] = r
        /\ \A d \in Conns : conns'[d] = conns[d]
    BY <1>7, <2>1, Zenon
  <2>3. PICK k \in Loops, h \in Functors' : k = io[s] /\ h = Call("established", c)
    <3>1. Call("established", c) \in Functors'
      BY <2>2, Zenon DEF Functors, Ops, Call
    <3> QED BY <1>2, <3>1, Zenon
  <2>4. queue \in [Loops -> Seq(Functors')]
    <3>1. Functors \subseteq Functors'
      BY <2>2, Zenon DEF Functors
    <3> QED BY <1>1, <3>1, Widened, Zenon
  <2>5. /\ \A m \in Loops : m # k => Elements(queue'[m]) = Elements(queue[m])
        /\ Elements(queue'[k]) = Elements(queue[k]) \cup {h}
        /\ Ordered(queue')
    <3>1. \A g \in Elements(queue[k]) : Follows(g, h)
      BY <1>8, <2>2, <2>3, Zenon DEF Follows, Call
    <3>2. Ordered(queue) /\ queue' = QueueInLoop(queue, k, h)
      BY <2>1, <2>3, Zenon DEF OrderInv
    <3>3. /\ \A m \in Loops : m # k => Elements(QueueInLoop(queue, k, h)[m]) = Elements(queue[m])
          /\ Elements(QueueInLoop(queue, k, h)[k]) = Elements(queue[k]) \cup {h}
          /\ Ordered(QueueInLoop(queue, k, h))
      BY <2>4, <3>1, <3>2, PushedSet, ZenonT(40)
    <3> QED BY <3>2, <3>3, Zenon
  <2>6. FitsOf(c)'
    <3> SUFFICES ASSUME NEW m \in Loops, NEW g \in Elements(queue'[m]), g.conn = c
                 PROVE  Fits(g, m)'
      BY Zenon DEF FitsOf
    <3>1. g = h /\ m = k
      BY <1>8, <2>2, <2>5, ZenonT(40)
    <3>2. h.op = "established" /\ h.conn = c
      BY <2>3, SMTT(30) DEF Call
    <3> QED BY <1>4, <2>2, <2>3, <3>1, <3>2 DEF Fits
  <2>7. Awaited(c)'
    <3>1. Has("established", c)'
      BY <1>4, <2>2, <2>3, <2>5, ZenonT(40) DEF Has, Call
    <3> QED BY <1>4, <1>6, <1>10, <2>2, <3>1 DEF Awaited
  <2>8. Only(c)
    <3>1. ASSUME NEW m \in Loops, NEW g, g.conn # c
          PROVE  g \in Elements(queue'[m]) <=> g \in Elements(queue[m])
      <4>1. g # h
        BY <2>3, <3>1 DEF Call
      <4> QED BY <2>5, <4>1, Zenon
    <3> QED BY <1>1, <1>5, <1>6, <2>2, <2>5, <3>1, SMTT(30) DEF Only
  <2>9. conns'[c].calls = CallsOf(conns'[c].state)
    BY <1>4, <2>2, Zenon DEF CallsOf
  <2> QED BY <2>6, <2>7, <2>8, <2>9, OthersKept, ZenonT(40)
<1> QED BY <1>9, <1>10, Zenon

LEMMA LifeStep == IInv /\ [Next]_vars => LifeInv'
<1> SUFFICES ASSUME IInv, [Next]_vars PROVE LifeInv'
  BY Zenon
<1> OneServer /\ TypeOK /\ PhaseInv
  BY Zenon DEF IInv, BaseInv
<1>1. CASE UNCHANGED Lives \/ UNCHANGED vars
  BY <1>1, PhaseOnly, Zenon DEF Lives, vars, loopVars
<1>2. ASSUME NEW s \in Servers, Start(s) PROVE LifeInv'
  <2>1. Conns = {}
    <3>1. SUFFICES ASSUME NEW c \in Conns PROVE FALSE
      BY Zenon
    <3>2. conns[c].server = s /\ phase[s] = "new"
      BY <1>2, Kinds, Zenon DEF OneServer, Start
    <3> QED BY <3>2, Zenon DEF PhaseInv
  <2> QED BY <1>2, <2>1, PhaseOnly, Zenon DEF Start, loopVars
<1>3. ASSUME NEW s \in Servers, LoopReturns(s) \/ StopThread(s) PROVE LifeInv'
  <2>1. \A t \in Servers : phase'[t] # "running"
    BY <1>3, ZenonT(40) DEF OneServer, TypeOK, LoopReturns, StopThread
  <2> QED BY <1>3, <2>1, PhaseOnly, Zenon DEF LoopReturns, StopThread, loopVars
<1>4. ASSUME NEW s \in Servers, Gone(s) PROVE LifeInv'
  <2>1. \A t \in Servers : phase'[t] # "running"
    BY <1>4, Zenon DEF OneServer, TypeOK, Gone
  <2> QED BY <1>4, <2>1, ClearStep, ServersAreLoops, Zenon DEF Gone
<1>5. ASSUME NEW l \in Loops, CloseLoop(l) PROVE LifeInv'
  BY <1>5, ClearStep, Zenon DEF CloseLoop
<1> QED BY <1>1, <1>2, <1>3, <1>4, <1>5, Steps, EstablishedStep, DestroyedStep, RemoveStep,
           ShutdownStep, CloseStep, DestroyConnectionStep, NewConnectionStep, SMTT(30)

LEMMA LifeInit == Init => LifeInv
<1> SUFFICES ASSUME Init PROVE LifeInv
  BY Zenon
<1>1. conns = <<>> /\ \A l \in Loops : queue[l] = <<>> /\ Len(queue[l]) = 0
  BY Zenon DEF Init
<1>2. Conns = {}
  BY <1>1 DEF Conns
<1>3. \A l \in Loops : Elements(queue[l]) = {}
  BY <1>1 DEF Elements
<1>4. OrderInv
  BY <1>1 DEF OrderInv, Ordered
<1> QED BY <1>2, <1>3, <1>4, Zenon DEF LifeInv, CallsInv, FitInv, ConnInv

LEMMA Invariance == OneServer /\ Spec => []IInv
<1>1. Init => LifeInv
  BY LifeInit, Zenon
<1>2. BaseInv /\ LifeInv /\ [Next]_vars => LifeInv'
  BY LifeStep, Zenon DEF IInv
<1>3. BaseInv /\ LifeInv => IInv
  BY Zenon DEF IInv
<1> QED BY <1>1, <1>2, <1>3, BaseInvariance, PTL DEF Spec

LEMMA Consequences == IInv => RegisteredIsHeld /\ DestroyedAtEnd /\ FunctorsMatchState
<1> SUFFICES ASSUME IInv PROVE RegisteredIsHeld /\ DestroyedAtEnd /\ FunctorsMatchState
  BY Zenon
<1> TypeOK /\ PhaseInv /\ CallsInv /\ FitInv /\ ConnInv
  BY Zenon DEF IInv, BaseInv, LifeInv
<1>1. ASSUME NEW c \in Conns, Has("destroyed", c) PROVE Alive(c)
  <2>1. conns[c].loop \in Loops
    BY Kinds, Zenon
  <2>2. PICK i \in DOMAIN queue[conns[c].loop] : queue[conns[c].loop][i] = Call("destroyed", c)
    BY <1>1, Zenon DEF Has, Elements
  <2> QED BY <2>1, <2>2, SMTT(30) DEF Alive, Queued, Call
<1>2. RegisteredIsHeld
  BY <1>1, Zenon DEF RegisteredIsHeld, ConnInv, Awaited, Alive
<1>3. DestroyedAtEnd
  <2> SUFFICES ASSUME NEW c \in Conns, ~Alive(c), phase[conns[c].server] = "running"
               PROVE  conns[c].state = "Disconnected" /\ ~conns[c].added /\ conns[c].calls = 2
    BY Zenon DEF DestroyedAtEnd
  <2>1. closed = {}
    BY Kinds, Zenon DEF PhaseInv
  <2>2. c \notin connections_[conns[c].server] /\ ~Has("destroyed", c)
    BY <1>1, Zenon DEF Alive
  <2>3. conns[c].state = "Disconnected" /\ ~conns[c].added
    BY <2>1, <2>2, Zenon DEF ConnInv, Awaited
  <2>4. conns[c].calls = CallsOf(conns[c].state)
    BY Zenon DEF CallsInv
  <2> QED BY <2>3, <2>4, Zenon DEF CallsOf
<1>4. FunctorsMatchState
  <2>1. ASSUME NEW l \in Loops, NEW i \in DOMAIN queue[l] PROVE Fits(queue[l][i], l)
    <3>1. queue[l][i] \in Elements(queue[l])
      BY DEF Elements
    <3> QED BY <3>1 DEF FitInv
  <2> QED BY <2>1, ZenonT(40) DEF FunctorsMatchState, Fits
<1> QED BY <1>2, <1>3, <1>4, Zenon

-----------------------------------------------------------------------------
(* The life of a connection as ConnectionLife has it.                      *)

Lived(c) == Life(c)!Next \/ UNCHANGED Life(c)!vars

LEMMA LivedKept ==
  ASSUME NEW c, c \in Conns' <=> c \in Conns,
         c \in Conns =>
           /\ conns'[c] = conns[c]
           /\ c \in connections_'[conns[c].server] <=> c \in connections_[conns[c].server]
           /\ phase'[conns[c].server] = phase[conns[c].server]
  PROVE  Lived(c)
<1>1. StateOf(c)' = StateOf(c)
  BY Zenon DEF StateOf
<1>2. CallbacksOf(c)' = CallbacksOf(c)
  BY Zenon DEF CallbacksOf
<1>3. EntryOf(c)' = EntryOf(c)
  BY Zenon DEF EntryOf
<1>4. ServedOf(c)' = ServedOf(c)
  BY Zenon DEF ServedOf
<1> QED BY <1>1, <1>2, <1>3, <1>4, Zenon DEF Lived, Life!vars

\* A step that changes only the connection c, and what it may do to it.
LEMMA LivedOne ==
  ASSUME TypeOK, NEW c \in Conns, NEW q \in ConnType,
         Conns' = Conns, conns'[c] = q, q.server = conns[c].server, UNCHANGED phase,
         c \in connections_'[conns[c].server] => c \in connections_[conns[c].server],
         \/ /\ conns[c].state = "Connecting" /\ q.state = "Connected"
            /\ q.calls = conns[c].calls + 1
            /\ c \in connections_[conns[c].server] => c \in connections_'[conns[c].server]
         \/ /\ conns[c].state = "Connected" /\ q.state = "Disconnecting"
            /\ q.calls = conns[c].calls
            /\ c \in connections_[conns[c].server] => c \in connections_'[conns[c].server]
         \/ /\ conns[c].state \in {"Connected", "Disconnecting"} /\ q.state = "Disconnected"
            /\ q.calls = conns[c].calls + 1
         \/ /\ q.state = conns[c].state /\ q.calls = conns[c].calls
            /\ \/ conns[c].state = "Disconnected"
               \/ phase[conns[c].server] \notin {"new", "running"}
               \/ c \in connections_[conns[c].server] => c \in connections_'[conns[c].server]
  PROVE  Lived(c)
<1>1. StateOf(c) = conns[c].state /\ StateOf(c)' = q.state
  BY Zenon DEF StateOf
<1>2. CallbacksOf(c) = conns[c].calls /\ CallbacksOf(c)' = q.calls
  BY Zenon DEF CallbacksOf
<1>3. /\ EntryOf(c) <=> c \in connections_[conns[c].server]
      /\ EntryOf(c)' <=> c \in connections_'[conns[c].server]
      /\ EntryOf(c) \in BOOLEAN /\ EntryOf(c)' \in BOOLEAN
  BY Zenon DEF EntryOf
<1>4. /\ ServedOf(c) <=> phase[conns[c].server] \in {"new", "running"}
      /\ ServedOf(c)' = ServedOf(c)
  BY Zenon DEF ServedOf
<1>5. CASE StateOf(c) = "Connecting" /\ StateOf(c)' = "Connected"
  <2>1. EntryOf(c)' = EntryOf(c)
    BY <1>1, <1>3, <1>5, Zenon
  <2>2. CallbacksOf(c)' = CallbacksOf(c) + 1
    BY <1>1, <1>2, <1>5, Zenon
  <2> QED BY <1>4, <1>5, <2>1, <2>2, Zenon DEF Lived, Life!Next, Life!Establish
<1>6. CASE StateOf(c) = "Connected" /\ StateOf(c)' = "Disconnecting"
  <2>1. EntryOf(c)' = EntryOf(c)
    BY <1>1, <1>3, <1>6, Zenon
  <2>2. CallbacksOf(c)' = CallbacksOf(c)
    BY <1>1, <1>2, <1>6, Zenon
  <2> QED BY <1>4, <1>6, <2>1, <2>2, Zenon DEF Lived, Life!Next, Life!Shutdown
<1>7. CASE StateOf(c) \in {"Connected", "Disconnecting"} /\ StateOf(c)' = "Disconnected"
  <2>1. EntryOf(c)' \in {EntryOf(c), FALSE}
    BY <1>3, Zenon
  <2>2. CallbacksOf(c)' = CallbacksOf(c) + 1
    BY <1>1, <1>2, <1>7, Zenon
  <2> QED BY <1>4, <1>7, <2>1, <2>2, Zenon DEF Lived, Life!Next, Life!Close
<1>8. CASE StateOf(c)' = StateOf(c)
  <2>1. CallbacksOf(c)' = CallbacksOf(c)
    BY <1>1, <1>2, <1>8, Zenon
  <2>2. CASE EntryOf(c)' = EntryOf(c)
    BY <1>4, <1>8, <2>1, <2>2, Zenon DEF Lived, Life!vars
  <2>3. CASE EntryOf(c) /\ EntryOf(c)' = FALSE
    <3>1. ServedOf(c) => StateOf(c) = "Disconnected"
      BY <1>1, <1>3, <1>4, <1>8, <2>3, Zenon
    <3> QED BY <1>4, <1>8, <2>1, <2>3, <3>1, Zenon DEF Lived, Life!Next, Life!Forget
  <2> QED BY <1>3, <2>2, <2>3, Zenon
<1> QED BY <1>1, <1>5, <1>6, <1>7, <1>8, Zenon

\* Phases only move towards the end.
LEMMA LivedPhase ==
  ASSUME IInv, NEW c, UNCHANGED <<conns, connections_>>,
         \A s \in Servers : phase'[s] \in {"new", "running"} => phase[s] \in {"new", "running"}
  PROVE  Lived(c)
<1>1. StateOf(c)' = StateOf(c) /\ CallbacksOf(c)' = CallbacksOf(c) /\ EntryOf(c)' = EntryOf(c)
  BY Zenon DEF StateOf, CallbacksOf, EntryOf, Conns
<1>2. ServedOf(c)' => ServedOf(c) \/ c \notin Conns
  BY Kinds, Zenon DEF ServedOf, Conns, IInv, BaseInv
<1>3. c \notin Conns => ServedOf(c)' /\ ServedOf(c)
  BY Zenon DEF ServedOf, Conns
<1>4. ServedOf(c) \in BOOLEAN /\ ServedOf(c)' \in BOOLEAN
  BY Zenon DEF ServedOf
<1>5. CASE ServedOf(c)' = ServedOf(c)
  BY <1>1, <1>5, Zenon DEF Lived, Life!vars
<1>6. CASE ServedOf(c) /\ ServedOf(c)' = FALSE
  BY <1>1, <1>6, Zenon DEF Lived, Life!Next, Life!EndServing
<1> QED BY <1>2, <1>3, <1>4, <1>5, <1>6, Zenon

LEMMA LivedNew ==
  ASSUME IInv, NEW s \in Servers, NewConnection(s), NEW c
  PROVE  Lived(c)
<1> DEFINE n == Len(conns) + 1
           r == Connecting(s, io[s], tmp[s])
<1>1. OneServer /\ TypeOK /\ NameInv
  BY Zenon DEF IInv, BaseInv
<1>2. conns \in Seq(ConnType) /\ io[s] \in Loops /\ tmp[s] \in Nat /\ DOMAIN connections_ = Servers
  BY <1>1, Zenon DEF TypeOK
<1>3. r \in ConnType /\ r.state = "Connecting" /\ r.calls = 0 /\ r.server = s /\ r.name = tmp[s]
  BY <1>2, ConnectingType, Zenon DEF Connecting
<1>4. PICK q \in ConnType :
        /\ conns' = Append(conns, q) /\ q.server = s
        /\ \/ q.state = "Connecting" /\ q.calls = 0
           \/ q.state = "Connected" /\ q.calls = 0 + 1
  <2>1. PICK e \in ConnType : /\ e = ConnectionEstablished(r)
                              /\ e.state = "Connected" /\ e.calls = r.calls + 1 /\ e.server = r.server
    BY <1>3, EstablishedFields, Zenon
  <2>2. conns' = Append(conns, r) \/ conns' = Append(conns, e)
    BY <2>1, Zenon DEF NewConnection
  <2> HIDE DEF r
  <2> QED BY <1>3, <2>1, <2>2, Zenon
<1>5. /\ Conns' = Conns \cup {n} /\ n \notin Conns /\ conns'[n] = q
      /\ \A d \in Conns : conns'[d] = conns[d]
  BY <1>2, <1>4, Grown, ZenonT(40)
<1>6. /\ phase' = phase /\ phase[s] = "running" /\ pc[s] = "id"
      /\ connections_' = [connections_ EXCEPT ![s] = {d \in @ : conns[d].name # r.name} \cup {n}]
  BY Zenon DEF NewConnection, Handling
<1> HIDE DEF n, r
<1>7. CASE c = n
  <2>1. StateOf(c) = "Connecting" /\ StateOf(c)' = q.state
    BY <1>5, <1>7, Zenon DEF StateOf
  <2>2. CallbacksOf(c) = 0 /\ CallbacksOf(c)' = q.calls
    BY <1>5, <1>7, Zenon DEF CallbacksOf
  <2>3. EntryOf(c) = TRUE /\ EntryOf(c)' = TRUE
    BY <1>2, <1>4, <1>5, <1>6, <1>7, Zenon DEF EntryOf
  <2>4. ServedOf(c) = TRUE /\ ServedOf(c)' = TRUE
    BY <1>4, <1>5, <1>6, <1>7, Zenon DEF ServedOf
  <2>5. CASE q.state = "Connecting" /\ q.calls = 0
    BY <2>1, <2>2, <2>3, <2>4, <2>5, Zenon DEF Lived, Life!vars
  <2>6. CASE q.state = "Connected" /\ q.calls = 0 + 1
    BY <2>1, <2>2, <2>3, <2>4, <2>6, Zenon DEF Lived, Life!Next, Life!Establish
  <2> QED BY <1>4, <2>5, <2>6, Zenon
<1>8. CASE c # n
  <2>1. ASSUME c \in Conns
        PROVE  c \in connections_'[conns[c].server] <=> c \in connections_[conns[c].server]
    <3>1. conns[c].server = s
      BY <1>1, <2>1, Kinds, Zenon DEF OneServer
    <3>2. conns[c].name < tmp[s] /\ conns[c].name \in Nat
      BY <1>1, <1>2, <1>6, <2>1, Typed, Zenon DEF NameInv, ConnType
    <3>3. conns[c].name # r.name
      BY <1>2, <1>3, <3>2
    <3> QED BY <1>2, <1>6, <1>8, <3>1, <3>3, Zenon
  <2> QED BY <1>5, <1>6, <1>8, <2>1, LivedKept, Zenon
<1> QED BY <1>7, <1>8, Zenon

LEMMA LivedUpdate ==
  ASSUME IInv, NEW d \in Conns, NEW q \in ConnType, conns' = [conns EXCEPT ![d] = q],
         UNCHANGED phase, NEW c, c # d,
         c \in Conns => ( c \in connections_'[conns[c].server]
                          <=> c \in connections_[conns[c].server] )
  PROVE  Lived(c)
<1>1. conns \in Seq(ConnType)
  BY Zenon DEF IInv, BaseInv, TypeOK
<1>2. Conns' = Conns /\ \A e \in Conns : e # d => conns'[e] = conns[e]
  BY <1>1, Updated, Zenon
<1> QED BY <1>2, LivedKept, Zenon

LEMMA LivedRun ==
  ASSUME IInv, NEW l \in Loops, RunEstablished(l) \/ RunDestroyed(l), NEW c
  PROVE  Lived(c)
<1>1. TypeOK /\ conns \in Seq(ConnType)
  BY Kinds, Zenon DEF IInv, BaseInv
<1>2. PICK d \in Conns : d = First(l)
  BY PopStep, Zenon DEF RunEstablished, RunDestroyed
<1>3. conns[d] \in ConnType
  BY <1>1, Kinds, Zenon
<1>4. UNCHANGED <<phase, connections_>>
  BY Zenon DEF RunEstablished, RunDestroyed
<1>5. PICK q \in ConnType :
        /\ conns' = [conns EXCEPT ![d] = q] /\ q.server = conns[d].server
        /\ \/ /\ conns[d].state = "Connecting" /\ q.state = "Connected"
              /\ q.calls = conns[d].calls + 1
           \/ /\ conns[d].state = "Connected" /\ q.state = "Disconnected"
              /\ q.calls = conns[d].calls + 1
           \/ q.state = conns[d].state /\ q.calls = conns[d].calls
  <2>1. CASE RunEstablished(l)
    <3>1. conns[d].state = "Connecting"
      BY <1>2, <2>1, PopStep, Zenon DEF RunEstablished, Fits, Call
    <3> QED BY <1>2, <1>3, <2>1, <3>1, EstablishedFields, Zenon DEF RunEstablished
  <2>2. CASE RunDestroyed(l)
    <3>1. conns' = [conns EXCEPT ![d] = ConnectionDestroyed(conns[d])]
      BY <1>2, <2>2, Zenon DEF RunDestroyed
    <3> QED BY <1>3, <3>1, DestroyedFields, Zenon
  <2> QED BY <2>1, <2>2, Zenon
<1>6. CASE c = d
  <2>1. Conns' = Conns /\ conns'[d] = q
    BY <1>1, <1>5, Updated, Zenon
  <2> QED BY <1>1, <1>4, <1>5, <1>6, <2>1, LivedOne, Zenon
<1> QED BY <1>4, <1>5, <1>6, LivedUpdate, Zenon

LEMMA LivedShutdown ==
  ASSUME IInv, NEW d \in Conns, Shutdown(d), NEW c
  PROVE  Lived(c)
<1>1. TypeOK /\ conns \in Seq(ConnType) /\ conns[d] \in ConnType
  BY Kinds, Zenon DEF IInv, BaseInv
<1>2. PICK q \in ConnType :
        /\ q = [conns[d] EXCEPT !.state = "Disconnecting"] /\ q.state = "Disconnecting"
        /\ q.calls = conns[d].calls /\ q.server = conns[d].server
  BY <1>1, ShutdownFields, Zenon
<1>3. /\ conns' = [conns EXCEPT ![d] = q] /\ conns[d].state = "Connected"
      /\ UNCHANGED <<phase, connections_>>
  BY <1>2, Zenon DEF Shutdown
<1>4. CASE c = d
  <2>1. Conns' = Conns /\ conns'[d] = q
    BY <1>1, <1>3, Updated, Zenon
  <2> QED BY <1>1, <1>2, <1>3, <1>4, <2>1, LivedOne, Zenon
<1> QED BY <1>3, <1>4, LivedUpdate, Zenon

LEMMA LivedRemove ==
  ASSUME IInv, NEW l \in Loops, RunRemove(l), NEW c
  PROVE  Lived(c)
<1>1. TypeOK /\ conns \in Seq(ConnType)
  BY Kinds, Zenon DEF IInv, BaseInv
<1>2. PICK d \in Conns : d = First(l)
  BY PopStep, Zenon DEF RunRemove
<1>3. connections_' = Erased(d) /\ UNCHANGED <<phase, conns>> /\ Conns' = Conns
  BY <1>2, Zenon DEF RunRemove, Conns
<1>4. conns[d].state = "Disconnected" /\ conns[d] \in ConnType
  BY <1>1, <1>2, PopStep, Kinds, Zenon DEF RunRemove, Fits, Call
<1>5. \A e \in Conns : e \in connections_'[conns[e].server]
                         <=> e \in connections_[conns[e].server] /\ e # d
  BY <1>3, ErasedOne, Zenon
<1>6. CASE c = d
  BY <1>1, <1>3, <1>4, <1>5, <1>6, LivedOne, Zenon
<1>7. CASE c # d
  BY <1>3, <1>5, <1>7, LivedKept, Zenon
<1> QED BY <1>6, <1>7, Zenon

LEMMA LivedClose ==
  ASSUME IInv, NEW d \in Conns, HandleClose(d), NEW c
  PROVE  Lived(c)
<1>1. TypeOK /\ conns \in Seq(ConnType) /\ conns[d] \in ConnType
  BY Kinds, Zenon DEF IInv, BaseInv
<1>2. PICK q \in ConnType :
        /\ q = Closed(conns[d]) /\ q.state = "Disconnected"
        /\ q.calls = conns[d].calls + 1 /\ q.server = conns[d].server
  BY <1>1, ClosedFields, Zenon
<1>3. /\ conns' = [conns EXCEPT ![d] = q] /\ conns[d].state \in {"Connected", "Disconnecting"}
      /\ connections_' = Erased(d) \/ connections_' = connections_
      /\ UNCHANGED phase
  BY <1>2, Zenon DEF HandleClose, Closable
<1>4. \A e \in Conns : /\ e \in connections_'[conns[e].server] => e \in connections_[conns[e].server]
                       /\ e # d /\ e \in connections_[conns[e].server]
                            => e \in connections_'[conns[e].server]
  BY <1>3, ErasedOne, Zenon
<1>5. CASE c = d
  <2>1. Conns' = Conns /\ conns'[d] = q
    BY <1>1, <1>3, Updated, Zenon
  <2> QED BY <1>1, <1>2, <1>3, <1>4, <1>5, <2>1, LivedOne, Zenon
<1> QED BY <1>3, <1>4, <1>5, LivedUpdate, Zenon

LEMMA LivedDestroyConnection ==
  ASSUME IInv, NEW s \in Servers, DestroyConnection(s), NEW c
  PROVE  Lived(c)
<1>1. OneServer /\ TypeOK /\ conns \in Seq(ConnType) /\ connections_ \in [Servers -> SUBSET Conns]
  BY Kinds, Zenon DEF IInv, BaseInv
<1>2. PICK d \in connections_[s] :
        /\ connections_' = [connections_ EXCEPT ![s] = @ \ {d}]
        /\ conns' = [conns EXCEPT ![d] = ConnectionDestroyed(@)] \/ UNCHANGED conns
  BY Zenon DEF DestroyConnection
<1>3. d \in Conns /\ conns[d] \in ConnType
  BY <1>1, <1>2, Kinds, Zenon
<1>4. UNCHANGED phase /\ phase[s] = "returned"
  BY Zenon DEF DestroyConnection
<1>5. \A e \in Conns : /\ conns[e].server = s
                       /\ e \in connections_'[s] <=> e \in connections_[s] /\ e # d
  BY <1>1, <1>2, Kinds, Zenon DEF OneServer
<1>6. PICK q \in ConnType :
        /\ Conns' = Conns /\ conns'[d] = q /\ \A e \in Conns : e # d => conns'[e] = conns[e]
        /\ q.server = conns[d].server
        /\ \/ /\ conns[d].state = "Connected" /\ q.state = "Disconnected"
              /\ q.calls = conns[d].calls + 1
           \/ q.state = conns[d].state /\ q.calls = conns[d].calls
  <2>1. CASE UNCHANGED conns
    BY <1>3, <2>1, Zenon DEF Conns
  <2>2. CASE conns' = [conns EXCEPT ![d] = ConnectionDestroyed(conns[d])]
    <3>1. PICK q \in ConnType :
            /\ q = ConnectionDestroyed(conns[d]) /\ q.server = conns[d].server
            /\ \/ /\ conns[d].state = "Connected" /\ q.state = "Disconnected"
                  /\ q.calls = conns[d].calls + 1
               \/ q.state = conns[d].state /\ q.calls = conns[d].calls
      BY <1>3, DestroyedFields, Zenon
    <3>2. /\ Conns' = Conns /\ conns'[d] = q
          /\ \A e \in Conns : e # d => conns'[e] = conns[e]
      BY <1>1, <1>3, <2>2, <3>1, Updated, Zenon
    <3> QED BY <3>1, <3>2, Zenon
  <2> QED BY <1>2, <2>1, <2>2, Zenon
<1>7. CASE c = d
  BY <1>1, <1>3, <1>4, <1>5, <1>6, <1>7, LivedOne, Zenon
<1>8. CASE c # d
  BY <1>4, <1>5, <1>6, <1>8, LivedKept, Zenon
<1> QED BY <1>7, <1>8, Zenon

LEMMA LivedStep == ASSUME IInv, [Next]_vars, NEW c PROVE Lived(c)
<1> OneServer /\ TypeOK
  BY Zenon DEF IInv, BaseInv
<1>1. CASE UNCHANGED Lives \/ UNCHANGED vars
  BY <1>1, LivedPhase, Zenon DEF Lives, vars
<1>2. ASSUME NEW s \in Servers, Start(s) \/ LoopReturns(s) \/ StopThread(s) \/ Gone(s)
      PROVE  Lived(c)
  <2>1. \A t \in Servers : phase'[t] \in {"new", "running"} => phase[t] \in {"new", "running"}
    BY <1>2, ZenonT(40) DEF OneServer, TypeOK, Start, Listen, LoopReturns, StopThread, Gone
  <2> QED BY <1>2, <2>1, LivedPhase, Zenon DEF Start, LoopReturns, StopThread, Gone
<1>3. ASSUME NEW l \in Loops, CloseLoop(l) PROVE Lived(c)
  BY <1>3, LivedPhase, Zenon DEF CloseLoop
<1> QED BY <1>1, <1>2, <1>3, Steps, LivedNew, LivedRun, LivedRemove, LivedClose, LivedShutdown,
           LivedDestroyConnection, Zenon

LEMMA LivedInit == ASSUME Init, NEW c PROVE Life(c)!Init
<1>1. conns = <<>>
  BY Zenon DEF Init
<1>2. Conns = {}
  BY <1>1 DEF Conns
<1> QED BY <1>2, Zenon DEF Life!Init, StateOf, CallbacksOf, EntryOf, ServedOf

-----------------------------------------------------------------------------
\* A channel that is registered belongs to a connection that is held, through close,
\* removal, shutdown of the server and the end of its loops.
THEOREM RegisteredCorrect == OneServer /\ Spec => []RegisteredIsHeld
<1>1. IInv => RegisteredIsHeld
  BY Consequences, Zenon
<1> QED BY <1>1, Invariance, PTL

\* While the server runs, a connection is destroyed Disconnected, out of the poller and
\* after both calls of the user's callback.
THEOREM DestroyedCorrect == OneServer /\ Spec => []DestroyedAtEnd
<1>1. IInv => DestroyedAtEnd
  BY Consequences, Zenon
<1> QED BY <1>1, Invariance, PTL

\* Every functor finds its connection in the state it asserts.
THEOREM FunctorsCorrect == OneServer /\ Spec => []FunctorsMatchState
<1>1. IInv => FunctorsMatchState
  BY Consequences, Zenon
<1> QED BY <1>1, Invariance, PTL

\* Every connection of a lone server lives the life of ConnectionLife.
THEOREM LifeCorrect == OneServer /\ Spec => ConnectionsLive
<1> DEFINE Step == \A c \in 1 .. PeersMax : Life(c)!Next \/ UNCHANGED Life(c)!vars
<1>1. Init => \A c \in 1 .. PeersMax : Life(c)!Init
  BY LivedInit, Zenon
<1>2. IInv /\ [Next]_vars => Step
  BY LivedStep, Zenon DEF Lived
<1>3. IInv /\ [Next]_vars => [Step]_vars
  BY <1>2, Zenon
<1>4. ConnectionsLive <=> (\A c \in 1 .. PeersMax : Life(c)!Init) /\ [][Step]_vars
  BY Zenon DEF ConnectionsLive
<1> HIDE DEF Step
<1> QED BY <1>1, <1>3, <1>4, Invariance, PTL DEF Spec
=============================================================================
