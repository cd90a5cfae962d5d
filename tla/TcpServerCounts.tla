--------------------------- MODULE TcpServerCounts --------------------------
(***************************************************************************)
(* What a lone server counts: the descriptors of the process, of which one *)
(* is kept for the acceptor, and the connections of every io loop.         *)
(***************************************************************************)
EXTENDS TcpServerProofs

-----------------------------------------------------------------------------
(* Sizes.  The library's theorems on finite sets come in at the end of the *)
(* module; until then what they say is a hypothesis of the lemmas.         *)

Size(S) == Cardinality(S)

LEMMA SizeIs ==
  ASSUME NEW S
  PROVE  Size(S) = LET CS[T \in SUBSET S] ==
                         IF T = {} THEN 0 ELSE 1 + CS[T \ {CHOOSE x : x \in T}]
                   IN CS[S]
BY Zenon DEF Size, Cardinality

-----------------------------------------------------------------------------
(* Connections that somebody holds.                                        *)

Held == {c \in Conns : Alive(c)}

LEMMA QueuedIsHeld ==
  ASSUME TypeOK, NEW l \in Loops, NEW f \in Elements(queue[l])
  PROVE  f.conn \in Held
<1>1. PICK i \in DOMAIN queue[l] : queue[l][i] = f
  BY Zenon DEF Elements
<1>2. f.conn \in Conns
  BY Kinds, Zenon
<1> QED BY <1>1, <1>2, Zenon DEF Held, Alive, Queued

\* What neither the maps nor the queues hold anew is not held anew.
LEMMA HeldShrinks ==
  ASSUME TypeOK, [Next]_vars, \A s \in Servers : ~NewConnection(s),
         \A s \in Servers : connections_'[s] \subseteq connections_[s],
         \A l \in Loops : \A f \in Elements(queue'[l]) : f.conn \in Held
  PROVE  Held' \subseteq Held
<1> SUFFICES ASSUME NEW c \in Conns', Alive(c)' PROVE c \in Held
  BY Zenon DEF Held
<1>1. /\ c \in Conns /\ conns'[c].server = conns[c].server /\ conns[c].server \in Servers
  BY Identity, Kinds, Zenon
<1>2. CASE c \in connections_'[conns'[c].server]
  BY <1>1, <1>2, Zenon DEF Held, Alive
<1>3. CASE Queued(c)'
  <2>1. PICK l \in Loops : \E i \in DOMAIN queue'[l] : queue'[l][i].conn = c
    BY <1>3, Zenon DEF Queued
  <2>2. PICK i \in DOMAIN queue'[l] : queue'[l][i].conn = c
    BY <2>1, Zenon
  <2>3. queue'[l][i] \in Elements(queue'[l])
    BY Zenon DEF Elements
  <2> QED BY <2>2, <2>3, Zenon
<1> QED BY <1>2, <1>3, Zenon DEF Alive

LEMMA PushedElements ==
  ASSUME NEW S, NEW q \in [Loops -> Seq(S)], NEW l \in Loops, NEW f \in S, NEW m \in Loops
  PROVE  Elements(QueueInLoop(q, l, f)[m]) \subseteq Elements(q[m]) \cup {f}
<1>0. PICK p : p = QueueInLoop(q, l, f)
  BY Zenon
<1>a. Len(q[l]) \in Nat
  OBVIOUS
<1>b. /\ p \in [Loops -> Seq(S)] /\ \A k \in Loops : k # l => p[k] = q[k]
      /\ Len(p[l]) = Len(q[l]) + 1 /\ p[l][Len(q[l]) + 1] = f
      /\ \A i \in 1 .. Len(q[l]) : p[l][i] = q[l][i]
  BY <1>0 DEF QueueInLoop
<1>1. /\ p \in [Loops -> Seq(S)] /\ (m # l => p[m] = q[m])
      /\ Len(p[l]) = Len(q[l]) + 1 /\ p[l][Len(q[l]) + 1] = f /\ Len(q[l]) \in Nat
      /\ \A i \in 1 .. Len(q[l]) : p[l][i] = q[l][i]
  BY <1>a, <1>b, Zenon
<1>2. CASE m # l
  BY <1>0, <1>1, <1>2, Zenon
<1>3. CASE m = l
  <2> SUFFICES ASSUME NEW i \in DOMAIN p[l] PROVE p[l][i] \in Elements(q[l]) \cup {f}
    BY <1>0, <1>3 DEF Elements
  <2>1. i \in 1 .. Len(q[l]) \/ i = Len(q[l]) + 1
    BY <1>1
  <2>2. CASE i \in 1 .. Len(q[l])
    <3>1. i \in DOMAIN q[l]
      BY <2>2
    <3> QED BY <1>1, <2>2, <3>1, Zenon DEF Elements
  <2>3. CASE i = Len(q[l]) + 1
    BY <1>1, <2>3, Zenon
  <2> QED BY <2>1, <2>2, <2>3, Zenon
<1> QED BY <1>2, <1>3, Zenon

LEMMA PoppedElements ==
  ASSUME queue \in [Loops -> Seq(Functors)], NEW l \in Loops, queue[l] # <<>>, NEW m \in Loops
  PROVE  /\ Popped(l) \in [Loops -> Seq(Functors)]
         /\ Elements(Popped(l)[m]) \subseteq Elements(queue[m])
<1>0. PICK p : p = Popped(l)
  BY Zenon
<1>1. /\ p \in [Loops -> Seq(Functors)] /\ (m # l => p[m] = queue[m])
      /\ Len(queue[l]) \in Nat /\ Len(p[l]) = Len(queue[l]) - 1
      /\ \A i \in 1 .. Len(queue[l]) - 1 : p[l][i] = queue[l][i + 1]
  BY <1>0, PoppedOne
<1>2. CASE m # l
  BY <1>0, <1>1, <1>2, Zenon
<1>3. CASE m = l
  <2> SUFFICES ASSUME NEW i \in DOMAIN p[l] PROVE p[l][i] \in Elements(queue[l])
    BY <1>0, <1>1, <1>3 DEF Elements
  <2>1. i \in 1 .. Len(queue[l]) - 1 /\ i + 1 \in DOMAIN queue[l]
    BY <1>1, SMTT(30)
  <2> QED BY <1>1, <2>1, Zenon DEF Elements
<1> QED BY <1>0, <1>1, <1>2, <1>3, Zenon

\* Only NewConnection makes a connection.
LEMMA HeldStep ==
  ASSUME OneServer, TypeOK, [Next]_vars, \A s \in Servers : ~NewConnection(s)
  PROVE  Held' \subseteq Held
<1> /\ conns \in Seq(ConnType) /\ queue \in [Loops -> Seq(Functors)]
      /\ connections_ \in [Servers -> SUBSET Conns] /\ Servers \subseteq Loops
  BY Kinds, ServersAreLoops, Zenon
<1>1. ASSUME NEW s \in Servers, NEW S, S \subseteq connections_[s],
             connections_' = [connections_ EXCEPT ![s] = S]
      PROVE  \A t \in Servers : connections_'[t] \subseteq connections_[t]
  BY <1>1, Zenon
<1>2. ASSUME NEW l \in Loops, NEW q \in [Loops -> Seq(Functors)], NEW c \in Held,
             NEW op \in Ops, queue' = QueueInLoop(q, l, Call(op, c)),
             \A m \in Loops : Elements(q[m]) \subseteq Elements(queue[m])
      PROVE  \A m \in Loops : \A f \in Elements(queue'[m]) : f.conn \in Held
  <2>1. Call(op, c) \in Functors /\ Call(op, c).conn = c
    BY Zenon DEF Call, Functors, Held
  <2>2. ASSUME NEW m \in Loops PROVE Elements(queue'[m]) \subseteq Elements(q[m]) \cup {Call(op, c)}
    BY <1>2, <2>1, PushedElements, ZenonT(40)
  <2>3. ASSUME NEW m \in Loops, NEW f \in Elements(queue'[m]) PROVE f.conn \in Held
    <3>1. CASE f = Call(op, c)
      BY <2>1, <3>1, Zenon
    <3>2. CASE f \in Elements(queue[m])
      BY <3>2, QueuedIsHeld, Zenon
    <3> QED BY <1>2, <2>2, <3>1, <3>2, Zenon
  <2> QED BY <2>3, Zenon
<1>3. ASSUME NEW c \in Conns, connections_' = Erased(c)
      PROVE  \A t \in Servers : connections_'[t] \subseteq connections_[t]
  <2>1. conns[c].server \in Servers
    BY Kinds, Zenon
  <2> QED BY <1>1, <1>3, <2>1, Zenon DEF Erased
<1>4. CASE UNCHANGED <<connections_, queue>>
  BY <1>4, HeldShrinks, QueuedIsHeld, Zenon
<1>5. ASSUME NEW l \in Loops, RunEstablished(l) \/ RunDestroyed(l)
      PROVE  Held' \subseteq Held
  <2>1. queue[l] # <<>> /\ queue' = Popped(l) /\ UNCHANGED connections_
    BY <1>5, Zenon DEF RunEstablished, RunDestroyed, Pending
  <2> QED BY <2>1, PoppedElements, QueuedIsHeld, HeldShrinks, Zenon
<1>6. ASSUME NEW l \in Loops, RunRemove(l)
      PROVE  Held' \subseteq Held
  <2>1. /\ queue[l] # <<>> /\ connections_' = Erased(First(l))
        /\ queue' = QueueInLoop(Popped(l), conns[First(l)].loop, Call("destroyed", First(l)))
    BY <1>6, Zenon DEF RunRemove, Pending
  <2>2. First(l) \in Held /\ First(l) \in Conns /\ conns[First(l)].loop \in Loops
    <3>1. Head(queue[l]) \in Elements(queue[l])
      BY <2>1, PoppedOne DEF Elements
    <3> QED BY <2>1, <3>1, FirstOne, QueuedIsHeld, Zenon DEF First
  <2>3. /\ Popped(l) \in [Loops -> Seq(Functors)]
        /\ \A m \in Loops : Elements(Popped(l)[m]) \subseteq Elements(queue[m])
    BY <2>1, PoppedElements, Zenon
  <2>4. \A m \in Loops : \A f \in Elements(queue'[m]) : f.conn \in Held
    BY <1>2, <2>1, <2>2, <2>3, ZenonT(40) DEF Ops
  <2> QED BY <1>3, <2>1, <2>2, <2>4, HeldShrinks, Zenon
<1>7. ASSUME NEW c \in Conns, HandleClose(c)
      PROVE  Held' \subseteq Held
  <2>1. c \in Held /\ conns[c].loop \in Loops /\ conns[c].server \in Loops
    BY <1>7, Kinds, Zenon DEF HandleClose, Held
  <2>2. \A t \in Servers : connections_'[t] \subseteq connections_[t]
    BY <1>3, <1>7, Zenon DEF HandleClose
  <2>3. \A m \in Loops : \A f \in Elements(queue'[m]) : f.conn \in Held
    BY <1>2, <1>7, <2>1, Zenon DEF HandleClose, Ops
  <2> QED BY <2>2, <2>3, HeldShrinks, Zenon
<1>8. ASSUME NEW s \in Servers, DestroyConnection(s)
      PROVE  Held' \subseteq Held
  <2>1. PICK c \in connections_[s] :
          /\ connections_' = [connections_ EXCEPT ![s] = connections_[s] \ {c}]
          /\ \/ UNCHANGED queue
             \/ queue' = QueueInLoop(queue, conns[c].loop, Call("destroyed", c))
    BY <1>8, ZenonT(40) DEF DestroyConnection
  <2>2. c \in Held /\ conns[c].loop \in Loops
    <3>1. c \in Conns /\ conns[c].server = s /\ conns[c].loop \in Loops
      BY Kinds, Zenon DEF OneServer
    <3> QED BY <3>1, Zenon DEF Held, Alive
  <2>3. \A t \in Servers : connections_'[t] \subseteq connections_[t]
    BY <1>1, <2>1, Zenon
  <2>4. \A m \in Loops : \A f \in Elements(queue'[m]) : f.conn \in Held
    BY <1>2, <2>1, <2>2, QueuedIsHeld, ZenonT(40) DEF Ops
  <2> QED BY <2>3, <2>4, HeldShrinks, Zenon
<1>9. ASSUME NEW l \in Loops, queue' = [queue EXCEPT ![l] = <<>>], UNCHANGED connections_
      PROVE  Held' \subseteq Held
  <2>1. \A m \in Loops : Elements(queue'[m]) \subseteq Elements(queue[m])
    BY <1>9 DEF Elements
  <2> QED BY <1>9, <2>1, QueuedIsHeld, HeldShrinks, Zenon
<1>10. CASE UNCHANGED vars
  BY <1>4, <1>10, Zenon DEF vars, loopVars
<1>11. CASE Next
  <2>1. CASE UNCHANGED Lives
    BY <1>4, <2>1, Zenon DEF Lives
  <2>2. ASSUME NEW s \in Servers, Start(s) \/ LoopReturns(s) \/ StopThread(s)
        PROVE  Held' \subseteq Held
    BY <1>4, <2>2, Zenon DEF Start, LoopReturns, StopThread, loopVars
  <2>3. ASSUME NEW s \in Servers, Gone(s) PROVE Held' \subseteq Held
    BY <1>9, <2>3, Zenon DEF Gone
  <2>4. ASSUME NEW l \in Loops, CloseLoop(l) PROVE Held' \subseteq Held
    BY <1>9, <2>4, ZenonT(40) DEF CloseLoop
  <2>5. ASSUME NEW c \in Conns, Shutdown(c) PROVE Held' \subseteq Held
    BY <1>4, <2>5, Zenon DEF Shutdown, loopVars
  <2> QED BY <1>11, Steps, <1>5, <1>6, <1>7, <1>8, <2>1, <2>2, <2>3, <2>4, <2>5, Zenon
<1> QED BY <1>10, <1>11, Zenon

LEMMA NewHeld ==
  ASSUME OneServer, TypeOK, NEW s \in Servers, NewConnection(s)
  PROVE  Held' \subseteq Held \cup {Len(conns) + 1}
<1> DEFINE r == Connecting(s, io[s], tmp[s])
<1>0. /\ conns \in Seq(ConnType) /\ queue \in [Loops -> Seq(Functors)]
      /\ connections_ \in [Servers -> SUBSET Conns]
      /\ \A d \in Conns : conns[d].server = s
      /\ io[s] \in Loops /\ tmp[s] \in Nat
  <2>1. io[s] \in Loops /\ tmp[s] \in Nat
    BY Zenon DEF TypeOK
  <2> QED BY <2>1, Kinds, Zenon DEF OneServer
<1>1. r \in ConnType /\ ConnectionEstablished(r) \in ConnType /\ r.loop = io[s]
  BY <1>0, ConnectingType, ConnectionTypes, Zenon DEF Connecting
<1>2. PICK c : c = Len(conns) + 1
  BY Zenon
<1>3. PICK q \in ConnType :
        /\ conns' = Append(conns, q)
        /\ UNCHANGED queue \/ queue' = QueueInLoop(queue, io[s], Call("established", c))
  BY <1>1, <1>2, Zenon DEF NewConnection
<1>4. Conns' = Conns \cup {c} /\ \A d \in Conns : conns'[d] = conns[d]
  BY <1>0, <1>2, <1>3, Grown, ZenonT(40)
<1>5. connections_'[s] \subseteq connections_[s] \cup {c}
  BY <1>0, <1>2, Zenon DEF NewConnection
<1>6. ASSUME NEW m \in Loops, NEW f \in Elements(queue'[m]), f.conn # c
      PROVE  f.conn \in Held
  <2>1. Functors \subseteq Functors' /\ Call("established", c) \in Functors'
    BY <1>4, Zenon DEF Functors, Ops, Call
  <2>2. queue \in [Loops -> Seq(Functors')]
    BY <1>0, <2>1, Widened, Zenon
  <2>3. CASE queue' = QueueInLoop(queue, io[s], Call("established", c))
    <3>1. Elements(queue'[m]) \subseteq Elements(queue[m]) \cup {Call("established", c)}
      BY <1>0, <2>1, <2>2, <2>3, PushedElements, ZenonT(40)
    <3>2. f # Call("established", c)
      BY <1>6 DEF Call
    <3> QED BY <3>1, <3>2, QueuedIsHeld, Zenon
  <2>4. CASE UNCHANGED queue
    BY <2>4, QueuedIsHeld, Zenon
  <2> QED BY <1>3, <2>3, <2>4, Zenon
<1> SUFFICES ASSUME NEW d \in Conns, d # c, Alive(d)' PROVE d \in Held
  BY <1>2, <1>4, Zenon DEF Held
<1>7. CASE d \in connections_'[conns'[d].server]
  BY <1>0, <1>4, <1>5, <1>7, Zenon DEF Held, Alive
<1>8. CASE Queued(d)'
  <2>1. PICK m \in Loops : \E i \in DOMAIN queue'[m] : queue'[m][i].conn = d
    BY <1>8, Zenon DEF Queued
  <2>2. PICK i \in DOMAIN queue'[m] : queue'[m][i].conn = d
    BY <2>1, Zenon
  <2>3. queue'[m][i] \in Elements(queue'[m])
    BY Zenon DEF Elements
  <2> QED BY <1>6, <2>2, <2>3, Zenon
<1> QED BY <1>7, <1>8, Zenon DEF Alive

-----------------------------------------------------------------------------
(* Counting descriptors.                                                   *)

\* What a step does to the number of connections that are held.
HeldGrows ==
  /\ Size(Held) \in Nat /\ Size(Held') \in Nat
  /\ Size(Held') <= Size(Held) + 1
  /\ (\A s \in Servers : ~NewConnection(s)) => Size(Held') <= Size(Held)

Bit(b) == IF b THEN 1 ELSE 0

\* The descriptors in use when s is the only server.
Used(s) == Size(Held) + Bit(idle[s]) + Bit(HoldsFd(s)) + others

Full(s) == pc[s] \in {"full", "excess", "reopen"}

\* While the idle descriptor is given up, its slot stays free for the excess
\* connection and then for the idle descriptor again, unless other code has taken it.
Reserved(s) ==
  /\ Used(s) <= FdMax
  /\ ~Full(s) /\ phase[s] # "gone" => idle[s]
  /\ Full(s) => ~idle[s]
  /\ Full(s) /\ ~stolen => Size(Held) + others < FdMax

DescInv == (\A s \in Servers : Reserved(s)) /\ (exited = "idle" => stolen)

\* A lone server's acceptor sees the descriptors Used counts.
LEMMA Counted ==
  ASSUME OneServer, TypeOK, NEW s \in Servers, Size({}) = 0, Size({s}) = 1
  PROVE  FdsOpen = Used(s)
<1>1. Servers = {s}
  BY Zenon DEF OneServer
<1>2. Size({t \in Servers : idle[t]}) = Bit(idle[s])
  <2>1. CASE idle[s]
    <3>1. {t \in Servers : idle[t]} = {s}
      BY <1>1, <2>1, Zenon
    <3> QED BY <2>1, <3>1, Zenon DEF Bit
  <2>2. CASE ~idle[s]
    <3>1. {t \in Servers : idle[t]} = {}
      BY <1>1, <2>2, Zenon
    <3> QED BY <2>2, <3>1, Zenon DEF Bit
  <2> QED BY <2>1, <2>2, Zenon
<1>3. Size({t \in Servers : HoldsFd(t)}) = Bit(HoldsFd(s))
  <2>1. CASE HoldsFd(s)
    <3>1. {t \in Servers : HoldsFd(t)} = {s}
      BY <1>1, <2>1, Zenon
    <3> QED BY <2>1, <3>1, Zenon DEF Bit
  <2>2. CASE ~HoldsFd(s)
    <3>1. {t \in Servers : HoldsFd(t)} = {}
      BY <1>1, <2>2, Zenon
    <3> QED BY <2>2, <3>1, Zenon DEF Bit
  <2> QED BY <2>1, <2>2, Zenon
<1> QED BY <1>2, <1>3, Zenon DEF FdsOpen, Used, Held, Size

\* A step that opens nothing and leaves the idle descriptor alone.
LEMMA NothingOpened ==
  ASSUME TypeOK, HeldGrows, \A s \in Servers : ~NewConnection(s),
         NEW s \in Servers, Reserved(s), UNCHANGED <<idle, stolen>>,
         others' \in Nat, others' <= others,
         HoldsFd(s)' => HoldsFd(s), Full(s)' <=> Full(s), phase'[s] # "gone" => phase[s] # "gone"
  PROVE  Reserved(s)'
<1>1. PICK n, m, a, b \in Nat :
        /\ n = Size(Held) /\ m = Size(Held') /\ m <= n
        /\ a = Bit(idle[s]) /\ a = Bit(idle'[s])
        /\ b = Bit(HoldsFd(s)) /\ Bit(HoldsFd(s)') \in Nat /\ Bit(HoldsFd(s)') <= b
  <2>1. Bit(HoldsFd(s)) \in Nat /\ Bit(idle[s]) \in Nat
    BY Zenon DEF Bit
  <2>2. Bit(HoldsFd(s)') \in Nat /\ Bit(HoldsFd(s)') <= Bit(HoldsFd(s))
    BY DEF Bit
  <2> QED BY <2>1, <2>2, Zenon DEF HeldGrows
<1>2. others \in Nat /\ FdMax \in Nat
  BY ServerAssumption, ZenonT(40) DEF TypeOK
<1>3. n + a + b + others <= FdMax
  BY <1>1, Zenon DEF Reserved, Used
<1>4. Used(s)' <= FdMax
  BY <1>1, <1>2, <1>3 DEF Used
<1>5. Full(s) /\ ~stolen => m + others' < FdMax
  BY <1>1, <1>2 DEF Reserved
<1>6. (~Full(s)' /\ phase'[s] # "gone" => idle'[s]) /\ (Full(s)' => ~idle'[s])
  BY Zenon DEF Reserved
<1> QED BY <1>1, <1>4, <1>5, <1>6, Zenon DEF Reserved

LEMMA ReservedStep ==
  ASSUME BaseInv, DescInv, [Next]_vars, NEW s \in Servers, HeldGrows, FdsOpen = Used(s)
  PROVE  Reserved(s)' /\ (exited' = "idle" => stolen')
<1>0. /\ OneServer /\ TypeOK /\ Reserved(s) /\ (exited = "idle" => stolen)
      /\ \A t \in Servers : t = s
  BY Zenon DEF BaseInv, DescInv, OneServer
<1>a. /\ others \in Nat /\ FdMax \in Nat /\ DOMAIN pc = Servers /\ DOMAIN idle = Servers
      /\ DOMAIN tmp = Servers /\ DOMAIN phase = Servers /\ stolen \in BOOLEAN
  BY <1>0, ServerAssumption, ZenonT(40) DEF TypeOK
<1>b. PICK a, a1, b, b1 \in {0, 1} :
        /\ a = Bit(idle[s]) /\ (idle[s] <=> a = 1)
        /\ a1 = Bit(idle'[s]) /\ (idle'[s] <=> a1 = 1)
        /\ b = Bit(HoldsFd(s)) /\ (HoldsFd(s) <=> b = 1)
        /\ b1 = Bit(HoldsFd(s)') /\ (HoldsFd(s)' <=> b1 = 1)
  <2>1. ASSUME NEW c \in BOOLEAN PROVE Bit(c) \in {0, 1} /\ (c <=> Bit(c) = 1)
    BY DEF Bit
  <2>2. idle[s] \in BOOLEAN /\ idle'[s] \in BOOLEAN
    BY <1>0, TypeStep, ZenonT(40) DEF TypeOK
  <2>3. HoldsFd(s) \in BOOLEAN /\ HoldsFd(s)' \in BOOLEAN
    BY ZenonT(40) DEF HoldsFd
  <2>4. /\ Bit(idle[s]) \in {0, 1} /\ (idle[s] <=> Bit(idle[s]) = 1)
        /\ Bit(idle'[s]) \in {0, 1} /\ (idle'[s] <=> Bit(idle'[s]) = 1)
    BY <2>1, <2>2, Zenon
  <2>5. /\ Bit(HoldsFd(s)) \in {0, 1} /\ (HoldsFd(s) <=> Bit(HoldsFd(s)) = 1)
        /\ Bit(HoldsFd(s)') \in {0, 1} /\ (HoldsFd(s)' <=> Bit(HoldsFd(s)') = 1)
    BY <2>1, <2>3, Zenon
  <2> QED BY <2>4, <2>5, Zenon
<1>c. PICK n, m \in Nat :
        /\ n = Size(Held) /\ m = Size(Held') /\ m <= n + 1
        /\ (\A t \in Servers : ~NewConnection(t)) => m <= n
  BY Zenon DEF HeldGrows
<1>d. n + a + b + others <= FdMax
  BY <1>0, <1>b, <1>c, Zenon DEF Reserved, Used
<1>e. FdFree <=> n + a + b + others < FdMax
  BY <1>b, <1>c, Zenon DEF FdFree, Used
<1>f. /\ pc[s] \in {"loop", "index", "id"} => ~Full(s)
      /\ pc[s] \in {"loop", "full", "reopen"} => ~HoldsFd(s)
      /\ pc'[s] \in {"loop", "index", "id"} => ~Full(s)'
      /\ pc'[s] \in {"loop", "full", "reopen"} => ~HoldsFd(s)'
  BY Zenon DEF Full, HoldsFd
<1>1. CASE Accept(s)
  <2>1. /\ pc[s] = "loop" /\ pc'[s] \in {"index", "id"} /\ FdFree /\ idle[s]
        /\ UNCHANGED <<idle, others, stolen, exited>> /\ \A t \in Servers : ~NewConnection(t)
    BY <1>0, <1>1, <1>a, <1>f, ZenonT(40)
    DEF Accept, Handling, Goto, fdVars, Reserved, NewConnection
  <2>a. a1 = a /\ b = 0 /\ m <= n /\ n + a + b + others < FdMax
    BY <1>b, <1>c, <1>e, <1>f, <2>1, ZenonT(40)
  <2>2. m + a1 + b1 + others <= FdMax
    BY <1>a, <2>a
  <2> QED BY <1>0, <1>b, <1>c, <1>f, <2>1, <2>2, Zenon DEF Reserved, Used
<1>2. CASE AcceptFull(s)
  <2>1. /\ pc[s] = "loop" /\ pc'[s] = "full" /\ ~FdFree /\ idle[s] /\ ~idle'[s] /\ Full(s)'
        /\ UNCHANGED <<others, stolen, exited>> /\ \A t \in Servers : ~NewConnection(t)
    BY <1>0, <1>2, <1>a, <1>f, ZenonT(40)
    DEF AcceptFull, Handling, Goto, fdVars, Reserved, NewConnection, Full
  <2>a. a = 1 /\ a1 = 0 /\ b1 = 0 /\ m <= n
    BY <1>b, <1>c, <1>f, <2>1, ZenonT(40)
  <2>2. m + others < FdMax /\ m + a1 + b1 + others <= FdMax
    BY <1>a, <1>d, <2>a
  <2> QED BY <1>0, <1>b, <1>c, <2>1, <2>2, ZenonT(40) DEF Reserved, Used
<1>3. CASE AcceptExcess(s)
  <2>1. /\ pc[s] = "full" /\ pc'[s] = "excess" /\ ~idle[s] /\ ~idle'[s] /\ Full(s) /\ Full(s)'
        /\ UNCHANGED <<others, stolen, exited>> /\ \A t \in Servers : ~NewConnection(t)
    BY <1>0, <1>3, <1>a, ZenonT(40)
    DEF AcceptExcess, Handling, Goto, fdVars, Reserved, NewConnection, Full
  <2>2. FdFree \/ ~HoldsFd(s)'
    <3>1. FdFree \/ tmp'[s] = 0
      BY <1>3, <1>a, ZenonT(40) DEF AcceptExcess
    <3> QED BY <2>1, <3>1 DEF HoldsFd
  <2>a. a = 0 /\ a1 = 0 /\ b = 0 /\ m <= n /\ (b1 = 0 \/ n + a + b + others < FdMax)
    BY <1>b, <1>c, <1>e, <1>f, <2>1, <2>2, ZenonT(40)
  <2>3. m + a1 + b1 + others <= FdMax
    BY <1>a, <1>d, <2>a
  <2>4. ~stolen => m + others < FdMax
    BY <1>0, <1>a, <1>c, <2>1, SMTT(30) DEF Reserved
  <2> QED BY <1>0, <1>b, <1>c, <2>1, <2>3, <2>4, ZenonT(40) DEF Reserved, Used
<1>4. CASE CloseExcess(s)
  <2>1. /\ pc[s] = "excess" /\ pc'[s] = "reopen" /\ Full(s) /\ Full(s)' /\ phase' = phase
        /\ UNCHANGED <<idle, others, stolen, exited>> /\ \A t \in Servers : ~NewConnection(t)
    BY <1>0, <1>4, <1>a, Zenon DEF CloseExcess, Handling, Goto, fdVars, NewConnection, Full
  <2> QED BY <1>0, <1>a, <1>f, <2>1, NothingOpened, SMTT(30)
<1>5. CASE ReopenIdle(s)
  <2>1. /\ pc[s] = "reopen" /\ ~idle[s] /\ Full(s) /\ UNCHANGED <<others, stolen, phase>>
        /\ \A t \in Servers : ~NewConnection(t)
    BY <1>0, <1>5, <1>a, ZenonT(40) DEF ReopenIdle, Handling, Goto, Reserved, NewConnection, Full
  <2>2. CASE FdFree
    <3>1. pc'[s] = "loop" /\ idle'[s] /\ exited' = exited
      BY <1>5, <1>a, <2>2, Zenon DEF ReopenIdle, Goto
    <3>a. a = 0 /\ b = 0 /\ b1 = 0 /\ m <= n /\ n + a + b + others < FdMax
      BY <1>b, <1>c, <1>e, <1>f, <2>1, <2>2, <3>1, Zenon
    <3>2. m + a1 + b1 + others <= FdMax
      BY <1>a, <3>a
    <3> QED BY <1>0, <1>b, <1>c, <1>f, <2>1, <3>1, <3>2, ZenonT(40) DEF Reserved, Used
  <2>3. CASE ~FdFree
    <3>1. UNCHANGED <<pc, idle, tmp>>
      BY <1>5, <2>3, Zenon DEF ReopenIdle
    <3>2. stolen
      <4>0. a = 0 /\ b = 0 /\ ~(n + a + b + others < FdMax)
        BY <1>b, <1>e, <1>f, <2>1, <2>3, Zenon
      <4>1. ~(n + others < FdMax)
        BY <1>a, <4>0
      <4> QED BY <1>0, <1>c, <2>1, <4>1, ZenonT(40) DEF Reserved
    <3>3. Reserved(s)'
      BY <1>0, <1>a, <2>1, <3>1, NothingOpened, SMTT(30) DEF HoldsFd, Full
    <3> QED BY <2>1, <3>2, <3>3, ZenonT(40)
  <2> QED BY <2>2, <2>3, Zenon
<1>6. CASE NewConnection(s)
  <2>1. /\ pc[s] = "id" /\ pc'[s] = "loop" /\ HoldsFd(s) /\ idle[s]
        /\ UNCHANGED <<idle, others, stolen, exited>>
    BY <1>0, <1>6, <1>a, <1>f, ZenonT(40)
    DEF NewConnection, Handling, Goto, fdVars, Reserved, HoldsFd
  <2>a. a1 = a /\ b = 1 /\ b1 = 0 /\ m <= n + 1
    BY <1>b, <1>c, <1>f, <2>1, ZenonT(40)
  <2>2. m + a1 + b1 + others <= FdMax
    BY <1>a, <1>d, <2>a
  <2> QED BY <1>0, <1>b, <1>c, <1>f, <2>1, <2>2, Zenon DEF Reserved, Used
<1>7. CASE OtherOpens
  <2>1. /\ FdFree /\ others' = others + 1 /\ UNCHANGED <<pc, tmp, idle, phase, exited>>
        /\ (stolen => stolen') /\ (~idle[s] /\ pc[s] # "loop" => stolen')
    BY <1>7, ZenonT(40) DEF OtherOpens, acceptVars
  <2>2. (\A t \in Servers : ~NewConnection(t)) /\ (Full(s) => stolen')
    BY <1>0, <1>7, <1>a, <2>1, SMTT(30) DEF Full, Reserved, NewConnection, OtherOpens, fdVars
  <2>3. Full(s)' <=> Full(s)
    BY <2>1, Zenon DEF Full
  <2>4. HoldsFd(s)' <=> HoldsFd(s)
    BY <2>1, ZenonT(40) DEF HoldsFd
  <2>5. m + a1 + b1 + others' <= FdMax
    BY <1>a, <1>b, <1>c, <1>e, <2>1, <2>2, <2>4, SMTT(30)
  <2> QED BY <1>0, <1>b, <1>c, <2>1, <2>2, <2>3, <2>5, ZenonT(40) DEF Reserved, Used
<1>8. CASE OtherCloses
  <2>1. /\ others' = others - 1 /\ others > 0 /\ UNCHANGED <<pc, tmp, idle, phase, stolen, exited>>
        /\ \A t \in Servers : ~NewConnection(t)
    <3>1. others' = others - 1 /\ others > 0 /\ UNCHANGED <<pc, tmp, idle, phase, stolen, exited>>
      BY <1>8, Zenon DEF OtherCloses, acceptVars
    <3>2. UNCHANGED conns /\ \A t \in Servers : NewConnection(t) => pc[t] = "id" /\ pc'[t] = "loop"
      BY <1>8, <1>a, ZenonT(40) DEF OtherCloses, NewConnection, Handling, Goto
    <3> QED BY <3>1, <3>2, Zenon
  <2>2. others' \in Nat /\ others' <= others
    BY <1>a, <2>1
  <2> QED BY <1>0, <2>1, <2>2, NothingOpened, ZenonT(40) DEF HoldsFd, Full
<1>9. CASE Gone(s)
  <2>1. /\ ~idle'[s] /\ pc[s] = "loop" /\ phase'[s] = "gone" /\ \A t \in Servers : ~NewConnection(t)
        /\ UNCHANGED <<pc, others, stolen, exited>>
    BY <1>9, <1>a, ZenonT(40) DEF Gone, fdVars, BaseInv, PhaseInv, NewConnection, Handling
  <2>a. a1 = 0 /\ b1 = 0 /\ m <= n
    BY <1>b, <1>c, <1>f, <2>1, ZenonT(40)
  <2>2. m + a1 + b1 + others <= FdMax
    BY <1>a, <1>d, <2>a, SMTT(30)
  <2> QED BY <1>0, <1>b, <1>c, <1>f, <2>1, <2>2, ZenonT(40) DEF Reserved, Used
<1>10. CASE GetNextLoop(s)
  <2>1. /\ pc[s] = "index" /\ pc'[s] = "id" /\ phase' = phase
        /\ UNCHANGED <<idle, others, stolen, exited>> /\ \A t \in Servers : ~NewConnection(t)
    BY <1>0, <1>10, <1>a, ZenonT(40) DEF GetNextLoop, Handling, Goto, fdVars, NewConnection
  <2> QED BY <1>0, <1>a, <1>f, <2>1, NothingOpened, SMTT(30) DEF HoldsFd
<1>11. ASSUME UNCHANGED <<pc, tmp, idle, others, stolen>>, phase'[s] # "gone" => phase[s] # "gone",
              \A t \in Servers : ~NewConnection(t), exited' = "idle" => exited = "idle"
       PROVE  Reserved(s)' /\ (exited' = "idle" => stolen')
  BY <1>0, <1>11, <1>a, NothingOpened, SMTT(30) DEF HoldsFd, Full
<1>12. CASE \/ UNCHANGED vars \/ Start(s) \/ ListenFatal(s) \/ PeerConnects(s) \/ LoopReturns(s)
            \/ AcceptAborted(s) \/ AcceptFatal(s) \/ DestroyConnection(s) \/ StopThread(s)
            \/ (\E l \in Loops : Run(l) \/ CloseLoop(l))
            \/ \E c \in Conns : HandleClose(c) \/ Shutdown(c)
  <2>1. UNCHANGED <<pc, tmp, idle, others, stolen>>
    BY <1>12, ZenonT(40)
    DEF vars, Start, ListenFatal, PeerConnects, LoopReturns, AcceptAborted, AcceptFatal,
        DestroyConnection, StopThread, Run, RunEstablished, RunDestroyed, RunRemove, CloseLoop,
        HandleClose, Shutdown, acceptVars, fdVars
  <2>2. exited' = "idle" => exited = "idle"
    BY <1>12, ZenonT(40)
    DEF vars, Start, ListenFatal, PeerConnects, LoopReturns, AcceptAborted, AcceptFatal,
        DestroyConnection, StopThread, Run, RunEstablished, RunDestroyed, RunRemove, CloseLoop,
        HandleClose, Shutdown, acceptVars, fdVars
  <2>3. phase'[s] # "gone" => phase[s] # "gone"
    BY <1>12, <1>a, ZenonT(40)
    DEF vars, Start, ListenFatal, PeerConnects, LoopReturns, AcceptAborted, AcceptFatal,
        DestroyConnection, StopThread, Run, RunEstablished, RunDestroyed, RunRemove, CloseLoop,
        HandleClose, Shutdown, Serving
  <2>4. \A t \in Servers : ~NewConnection(t)
    BY <1>0, <1>a, <2>1, ZenonT(40) DEF NewConnection, Handling, Goto
  <2> QED BY <1>11, <2>1, <2>2, <2>3, <2>4, ZenonT(40)
<1> QED BY <1>0, <1>1, <1>2, <1>3, <1>4, <1>5, <1>6, <1>7, <1>8, <1>9, <1>10, <1>12, ZenonT(40)
        DEF Next, AcceptStep, DestroyStep

LEMMA ReservedInit ==
  ASSUME OneServer, Init, NEW s \in Servers, Size({}) = 0, Size({s}) = 1
  PROVE  Reserved(s)
<1>1. FdMax \in Nat /\ FdMax >= 1
  <2>1. Servers = {s}
    BY Zenon DEF OneServer
  <2> QED BY <2>1, IdleAssumption, ServerAssumption DEF Size
<1>2. Held = {}
  <2>1. conns = <<>>
    BY Zenon DEF Init
  <2>2. Conns = {}
    BY <2>1 DEF Conns
  <2> QED BY <2>2, Zenon DEF Held
<1>3. idle[s] /\ ~Full(s) /\ ~HoldsFd(s) /\ others = 0
  <2>1. idle[s] /\ pc[s] = "loop" /\ others = 0
    BY Zenon DEF Init, InitAcceptor
  <2> QED BY <2>1, Zenon DEF Full, HoldsFd
<1>4. Used(s) = 1
  BY <1>2, <1>3 DEF Used, Bit
<1> QED BY <1>1, <1>3, <1>4, Zenon DEF Reserved

-----------------------------------------------------------------------------
(* Taking turns.                                                           *)

LEMMA Division ==
  ASSUME NEW x \in Nat, NEW n \in Nat \ {0}
  PROVE  \E d \in Nat, r \in 0 .. n - 1 : x = n * d + r /\ r = x % n
<1>1. x \div n \in Nat /\ x = n * (x \div n) + (x % n)
  OBVIOUS
<1>2. x % n \in 0 .. n - 1
  OBVIOUS
<1> QED BY <1>1, <1>2, Zenon

LEMMA Multiples ==
  ASSUME NEW n \in Nat \ {0}, NEW p \in Nat, NEW q \in Nat, p < q
  PROVE  n * p + n <= n * q
<1>1. PICK k \in Nat : q = p + 1 + k
  OBVIOUS
<1>2. n * q = n * p + n + n * k /\ n * k >= 0 /\ n * p \in Nat
  BY <1>1
<1> QED BY <1>2

LEMMA OneRemainder ==
  ASSUME NEW n \in Nat \ {0}, NEW p \in Nat, NEW q \in Nat,
         NEW r \in 0 .. n - 1, NEW t \in 0 .. n - 1, n * p + r = n * q + t
  PROVE  r = t
<1>0. n * p \in Nat /\ n * q \in Nat
  OBVIOUS
<1>1. CASE p < q
  BY <1>0, <1>1, Multiples, SMTT(30)
<1>2. CASE q < p
  BY <1>0, <1>2, Multiples
<1>3. CASE q = p
  BY <1>0, <1>3
<1> QED BY <1>1, <1>2, <1>3

\* The index of GetNextLoop goes up by one and starts over at the end.
LEMMA NextTurn ==
  ASSUME NEW x \in Nat, NEW n \in Nat \ {0}
  PROVE  /\ x % n \in 0 .. n - 1 /\ 0 % n = 0
         /\ (x % n) + 1 = n => (x + 1) % n = 0
         /\ (x % n) + 1 # n => (x + 1) % n = (x % n) + 1
<1>0. x % n \in 0 .. n - 1 /\ 0 % n = 0
  OBVIOUS
<1>1. PICK d \in Nat, r \in 0 .. n - 1 : x = n * d + r /\ r = x % n
  BY Division, ZenonT(40)
<1>2. PICK e \in Nat, t \in 0 .. n - 1 : x + 1 = n * e + t /\ t = (x + 1) % n
  <2>1. x + 1 \in Nat
    OBVIOUS
  <2> QED BY <2>1, Division, Zenon
<1>3. n * d \in Nat /\ n * e \in Nat
  OBVIOUS
<1>4. CASE r + 1 = n
  <2>1. n * (d + 1) = n * d + n /\ d + 1 \in Nat
    OBVIOUS
  <2>2. n * (d + 1) + 0 = n * e + t
    BY <1>1, <1>2, <1>3, <1>4, <2>1, SMTT(30)
  <2>3. t = 0
    BY <2>1, <2>2, OneRemainder
  <2> QED BY <1>0, <1>1, <1>2, <1>4, <2>3, Zenon
<1>5. CASE r + 1 # n
  <2>1. r + 1 \in 0 .. n - 1
    BY <1>5
  <2>2. n * d + (r + 1) = n * e + t
    BY <1>1, <1>2, <1>3
  <2>3. t = r + 1
    BY <2>1, <2>2, OneRemainder, Zenon
  <2> QED BY <1>0, <1>1, <1>2, <1>5, <2>3, Zenon
<1> QED BY <1>4, <1>5, Zenon

-----------------------------------------------------------------------------
(* Connections per loop.                                                   *)

\* The connections given to a loop.
Given(l) == {c \in Conns : conns[c].loop = l}

\* Turns taken: GetNextLoop counts one before the connection exists.
Taken(s) == IF pc[s] = "id" THEN next_index_ - 1 ELSE next_index_

Turn(s) == 1 + (Taken(s) % Len(loops_[s]))

Spread(s, n, t, q) ==
  \A i \in 1 .. n : Size(Given(loops_[s][i])) = IF i < t THEN q + 1 ELSE q

\* The loops before the one whose turn it is have one connection more than the others.
Even(s) == \E q \in Nat : Spread(s, Len(loops_[s]), Turn(s), q)

Fair(s) ==
  /\ \A i, j \in 1 .. Len(loops_[s]) : i # j => loops_[s][i] # loops_[s][j]
  /\ phase[s] = "new" => next_index_ = 0 /\ loops_[s] = <<>>
  /\ loops_[s] # <<>> =>
       /\ pc[s] = "index" => tmp[s] = next_index_
       /\ pc[s] = "id" => next_index_ > 0 /\ io[s] = loops_[s][Turn(s)]
       /\ Even(s)

RoundInv == \A s \in Servers : Fair(s)

\* What a new connection does to the number of those given to a loop.
GivenGrows(s, l) ==
  Size(Given(l)') = IF l = io[s] THEN Size(Given(l)) + 1 ELSE Size(Given(l))

LEMMA GivenKept ==
  ASSUME TypeOK, [Next]_vars, \A s \in Servers : ~NewConnection(s), NEW l
  PROVE  Given(l)' = Given(l)
BY Identity, Zenon DEF Given

\* A step that takes no turn.
LEMMA NoTurn ==
  ASSUME TypeOK, [Next]_vars, \A s \in Servers : ~NewConnection(s), NEW s \in Servers, Fair(s),
         loops_'[s] = loops_[s], Taken(s)' = Taken(s),
         phase'[s] = "new" => phase[s] = "new" /\ UNCHANGED next_index_,
         loops_[s] # <<>> /\ pc'[s] = "index" => tmp'[s] = next_index_',
         loops_[s] # <<>> /\ pc'[s] = "id" => next_index_' > 0 /\ io'[s] = loops_[s][Turn(s)]
  PROVE  Fair(s)'
<1>1. Turn(s)' = Turn(s)
  BY Zenon DEF Turn
<1>2. loops_[s] # <<>> => Even(s)'
  <2> SUFFICES ASSUME Even(s) PROVE Even(s)'
    BY ZenonT(40) DEF Fair
  <2>1. PICK q \in Nat : \A i \in 1 .. Len(loops_[s]) :
          Size(Given(loops_[s][i])) = IF i < Turn(s) THEN q + 1 ELSE q
    BY ZenonT(40) DEF Even, Spread
  <2>2. \A i \in 1 .. Len(loops_[s]) : Given(loops_[s][i])' = Given(loops_[s][i])
    BY GivenKept, ZenonT(40)
  <2> QED BY <1>1, <2>1, <2>2, ZenonT(40) DEF Even, Spread
<1> QED BY <1>1, <1>2, Zenon DEF Fair

LEMMA RoundStep ==
  ASSUME BaseInv, RoundInv, [Next]_vars, NEW s \in Servers, Size({}) = 0,
         NewConnection(s) => \A l \in Loops : GivenGrows(s, l)
  PROVE  Fair(s)'
<1>0. OneServer /\ TypeOK /\ PhaseInv /\ Fair(s) /\ \A t \in Servers : t = s
  BY Zenon DEF BaseInv, RoundInv, OneServer
<1>a. /\ loops_ \in [Servers -> Seq(Loops \ Servers)] /\ next_index_ \in Nat
      /\ DOMAIN pc = Servers /\ DOMAIN tmp = Servers /\ DOMAIN io = Servers
      /\ DOMAIN phase = Servers /\ DOMAIN loops_ = Servers
  BY <1>0, ZenonT(40) DEF TypeOK
<1>b. loops_[s] # <<>> => Len(loops_[s]) \in Nat \ {0}
  BY <1>a
<1>c. phase[s] # "running" => pc[s] = "loop"
  BY <1>0, Zenon DEF PhaseInv
<1>1. CASE Start(s)
  <2>1. PICK n \in 0 .. Len(IoLoops[s]) : loops_' = [loops_ EXCEPT ![s] = SubSeq(IoLoops[s], 1, n)]
    BY <1>1, ZenonT(40) DEF Start
  <2>2. /\ phase[s] = "new" /\ pc[s] = "loop" /\ next_index_ = 0
        /\ UNCHANGED <<pc, next_index_, conns>>
        /\ phase'[s] = "running" /\ loops_'[s] = SubSeq(IoLoops[s], 1, n)
    BY <1>0, <1>1, <1>a, <1>c, <2>1, Zenon DEF Start, Listen, acceptVars, Fair
  <2>3. IoLoops[s] \in Seq(Loops \ Servers) /\ Len(IoLoops[s]) \in Nat
    BY ServersAreLoops
  <2>4. /\ Len(loops_'[s]) = n
        /\ \A i \in 1 .. n : loops_'[s][i] = IoLoops[s][i] /\ i \in DOMAIN IoLoops[s]
    BY <2>2, <2>3, SMTT(30)
  <2>5. \A i, j \in 1 .. Len(loops_'[s]) : i # j => loops_'[s][i] # loops_'[s][j]
    BY <2>4, PoolAssumption, SMTT(30)
  <2>6. Even(s)'
    <3>1. Conns = {} /\ Conns' = {}
      BY <1>0, <2>2, Kinds, ZenonT(40) DEF PhaseInv, Conns
    <3>2. \A i \in 1 .. n : Size(Given(loops_[s][i])') = 0
      BY <3>1, Zenon DEF Given
    <3>3. \A i \in 1 .. n : ~(i < Turn(s)')
      <4> SUFFICES ASSUME NEW i \in 1 .. n PROVE ~(i < Turn(s)')
        BY Zenon
      <4>1. n \in Nat \ {0}
        BY <2>3
      <4>2. 0 % n = 0
        BY <4>1
      <4>3. Turn(s)' = 1 + (0 % n)
        BY <2>2, <2>4, Zenon DEF Turn, Taken
      <4> QED BY <4>2, <4>3
    <3>4. 0 \in Nat
      OBVIOUS
    <3> QED BY <2>4, <3>2, <3>3, <3>4, Zenon DEF Even, Spread
  <2> QED BY <2>2, <2>5, <2>6, ZenonT(40) DEF Fair
<1>2. CASE Accept(s)
  <2>1. /\ UNCHANGED <<phase, loops_, next_index_, conns>> /\ phase[s] = "running" /\ pc[s] = "loop"
        /\ \A t \in Servers : ~NewConnection(t)
        /\ loops_[s] # <<>> => pc'[s] = "index" /\ tmp'[s] = next_index_
    BY <1>0, <1>2, <1>a, ZenonT(40) DEF Accept, Handling, Goto, NewConnection
  <2>2. loops_[s] # <<>> => Fair(s)'
    BY <1>0, <2>1, NoTurn, ZenonT(40) DEF Taken
  <2>3. loops_[s] = <<>> => Fair(s)'
    BY <1>0, <2>1 DEF Fair
  <2> QED BY <2>2, <2>3, Zenon
<1>3. CASE GetNextLoop(s)
  <2>1. /\ UNCHANGED <<phase, loops_>> /\ phase[s] = "running" /\ pc[s] = "index" /\ pc'[s] = "id"
        /\ \A t \in Servers : ~NewConnection(t)
        /\ next_index_' = tmp[s] + 1 /\ io'[s] = loops_[s][1 + (tmp[s] % Len(loops_[s]))]
    BY <1>0, <1>3, <1>a, ZenonT(40) DEF GetNextLoop, Handling, Goto, NewConnection
  <2>2. loops_[s] # <<>> /\ tmp[s] = next_index_
    BY <1>0, <2>1, Zenon DEF Fair, BaseInv, NameInv
  <2>3. Taken(s)' = next_index_ /\ Taken(s) = next_index_ /\ next_index_' > 0
    BY <1>a, <2>1, <2>2, SMTT(30) DEF Taken
  <2>4. io'[s] = loops_[s][Turn(s)]
    BY <2>1, <2>2, <2>3, Zenon DEF Turn
  <2> QED BY <1>0, <2>1, <2>3, <2>4, NoTurn, Zenon
<1>4. CASE NewConnection(s)
  <2>1. /\ UNCHANGED <<phase, loops_, next_index_>> /\ phase[s] = "running" /\ pc[s] = "id"
        /\ pc'[s] = "loop"
    BY <1>0, <1>4, <1>a, ZenonT(40) DEF NewConnection, Handling, Goto
  <2>2. CASE loops_[s] = <<>>
    BY <1>0, <2>1, <2>2, SMTT(30) DEF Fair
  <2>3. CASE loops_[s] # <<>>
    <3>1. PICK n \in Nat \ {0} : n = Len(loops_[s])
      BY <1>b, <2>3, ZenonT(40)
    <3>2. PICK x \in Nat : x = Taken(s) /\ Taken(s)' = x + 1
      BY <1>0, <1>a, <2>1, <2>3, SMTT(30) DEF Taken, Fair
    <3>3. PICK r \in 0 .. n - 1 :
            /\ Turn(s) = 1 + r /\ 1 + r \in 1 .. n
            /\ r + 1 = n => Turn(s)' = 1
            /\ r + 1 # n => Turn(s)' = 1 + (r + 1)
      <4>1. Turn(s) = 1 + (x % n) /\ Turn(s)' = 1 + ((x + 1) % n)
        BY <2>1, <3>1, <3>2, ZenonT(40) DEF Turn
      <4>2. PICK r \in 0 .. n - 1 :
              /\ r = x % n
              /\ r + 1 = n => (x + 1) % n = 0
              /\ r + 1 # n => (x + 1) % n = r + 1
        BY NextTurn, Zenon
      <4> QED BY <4>1, <4>2
    <3>4. PICK q \in Nat : Spread(s, n, 1 + r, q)
      BY <1>0, <2>3, <3>1, <3>3, ZenonT(40) DEF Fair, Even
    <3>5. io[s] = loops_[s][1 + r] /\ \A i \in 1 .. n : i # 1 + r => loops_[s][i] # loops_[s][1 + r]
      BY <1>0, <2>1, <2>3, <3>1, <3>3, ZenonT(40) DEF Fair
    <3>6. \A i \in 1 .. n : Size(Given(loops_[s][i])') = IF i <= 1 + r THEN q + 1 ELSE q
      <4> SUFFICES ASSUME NEW i \in 1 .. n
                   PROVE  Size(Given(loops_[s][i])') = IF i <= 1 + r THEN q + 1 ELSE q
        BY Zenon
      <4>1. PICK l \in Loops : l = loops_[s][i] /\ l = loops_'[s][i]
        BY <1>a, <2>1, <3>1
      <4>2. Size(Given(l)') = IF l = io[s] THEN Size(Given(l)) + 1 ELSE Size(Given(l))
        <5>1. GivenGrows(s, l)
          BY <1>4, Zenon
        <5> QED BY <5>1, Zenon DEF GivenGrows
      <4>3. l = io[s] <=> i = 1 + r
        BY <3>5, <4>1, Zenon
      <4>4. Given(loops_[s][i])' = Given(l)' /\ Given(loops_[s][i]) = Given(l)
        BY <4>1, Zenon DEF Given
      <4>5. Size(Given(l)) = IF i < 1 + r THEN q + 1 ELSE q
        BY <3>4, <4>4, Zenon DEF Spread
      <4> QED BY <4>2, <4>3, <4>4, <4>5, SMTT(30)
    <3>7. Even(s)'
      <4>1. CASE r + 1 = n
        <5>1. q + 1 \in Nat /\ \A i \in 1 .. n : i <= 1 + r /\ ~(i < Turn(s)')
          BY <3>3, <4>1
        <5> QED BY <2>1, <3>1, <3>6, <5>1, Zenon DEF Even, Spread
      <4>2. CASE r + 1 # n
        <5>1. \A i \in 1 .. n : i <= 1 + r <=> i < Turn(s)'
          BY <3>3, <4>2
        <5> QED BY <2>1, <3>1, <3>6, <5>1, ZenonT(40) DEF Even, Spread
      <4> QED BY <4>1, <4>2, Zenon
    <3> QED BY <1>0, <2>1, <3>7 DEF Fair
  <2> QED BY <2>2, <2>3, Zenon
<1>5. ASSUME UNCHANGED <<loops_, next_index_>>, \A t \in Servers : ~NewConnection(t),
             phase'[s] = "new" => phase[s] = "new",
             pc'[s] \in {"index", "id"} => UNCHANGED <<pc, tmp, io>>,
             pc[s] = "id" => UNCHANGED pc
      PROVE  Fair(s)'
  <2>1. Taken(s)' = Taken(s)
    BY <1>5, Zenon DEF Taken
  <2>2. loops_[s] # <<>> /\ pc'[s] = "index" => tmp'[s] = next_index_'
    BY <1>0, <1>5, ZenonT(40) DEF Fair
  <2>3. loops_[s] # <<>> /\ pc'[s] = "id" => next_index_' > 0 /\ io'[s] = loops_[s][Turn(s)]
    BY <1>0, <1>5, Zenon DEF Fair
  <2> QED BY <1>0, <1>5, <2>1, <2>2, <2>3, NoTurn, ZenonT(40)
<1>6. CASE AcceptFull(s) \/ AcceptExcess(s) \/ CloseExcess(s) \/ ReopenIdle(s)
  <2>1. UNCHANGED <<phase, loops_, next_index_, conns>> /\ pc[s] # "id"
    BY <1>6, ZenonT(40) DEF AcceptFull, AcceptExcess, CloseExcess, ReopenIdle, Handling
  <2>2. pc'[s] \notin {"index", "id"}
    BY <1>6, <1>a, ZenonT(40) DEF AcceptFull, AcceptExcess, CloseExcess, ReopenIdle, Handling, Goto
  <2>3. \A t \in Servers : ~NewConnection(t)
    BY <1>0, <2>1, ZenonT(40) DEF NewConnection, Handling
  <2> QED BY <1>5, <2>1, <2>2, <2>3, Zenon
<1>7. CASE \/ UNCHANGED vars \/ ListenFatal(s) \/ PeerConnects(s) \/ LoopReturns(s)
           \/ AcceptAborted(s) \/ AcceptFatal(s) \/ DestroyStep(s) \/ OtherOpens \/ OtherCloses
           \/ (\E l \in Loops : Run(l) \/ CloseLoop(l))
           \/ \E c \in Conns : HandleClose(c) \/ Shutdown(c)
  <2>1. UNCHANGED <<pc, tmp, io, loops_, next_index_>>
    BY <1>7, ZenonT(40)
    DEF vars, ListenFatal, PeerConnects, LoopReturns, AcceptAborted, AcceptFatal, DestroyStep,
        DestroyConnection, StopThread, Gone, OtherOpens, OtherCloses, Run, RunEstablished,
        RunDestroyed, RunRemove, CloseLoop, HandleClose, Shutdown, acceptVars
  <2>2. phase'[s] = "new" => phase[s] = "new"
    BY <1>7, <1>a, ZenonT(40)
    DEF vars, ListenFatal, PeerConnects, LoopReturns, AcceptAborted, AcceptFatal, DestroyStep,
        DestroyConnection, StopThread, Gone, OtherOpens, OtherCloses, Run, RunEstablished,
        RunDestroyed, RunRemove, CloseLoop, HandleClose, Shutdown
  <2>3. \A t \in Servers : ~NewConnection(t)
    BY <1>0, <1>a, <2>1, ZenonT(40) DEF NewConnection, Handling, Goto
  <2> QED BY <1>5, <2>1, <2>2, <2>3, ZenonT(40)
<1> QED BY <1>0, <1>1, <1>2, <1>3, <1>4, <1>6, <1>7, ZenonT(40) DEF Next, AcceptStep

LEMMA RoundEven == TypeOK /\ RoundInv => RoundRobin
<1> SUFFICES ASSUME TypeOK, RoundInv, NEW s \in Servers, NEW l \in Elements(loops_[s]),
                    NEW m \in Elements(loops_[s])
             PROVE  Size(Given(l)) <= Size(Given(m)) + 1
  BY Zenon DEF RoundRobin, Given, Size
<1>1. loops_[s] \in Seq(Loops \ Servers)
  BY ZenonT(40) DEF TypeOK
<1>2. PICK i \in 1 .. Len(loops_[s]), j \in 1 .. Len(loops_[s]) :
        l = loops_[s][i] /\ m = loops_[s][j]
  BY <1>1 DEF Elements
<1>3. loops_[s] # <<>>
  BY <1>1, <1>2
<1>4. PICK q \in Nat : \A k \in 1 .. Len(loops_[s]) :
        Size(Given(loops_[s][k])) = IF k < Turn(s) THEN q + 1 ELSE q
  BY <1>3, ZenonT(40) DEF RoundInv, Fair, Even, Spread
<1>5. Size(Given(l)) \in {q, q + 1} /\ Size(Given(m)) \in {q, q + 1}
  BY <1>2, <1>4, Zenon
<1> QED BY <1>5

LEMMA RoundInit == Init => RoundInv
<1> SUFFICES ASSUME Init, NEW s \in Servers PROVE Fair(s)
  BY Zenon DEF RoundInv
<1>1. next_index_ = 0 /\ loops_[s] = <<>>
  BY Zenon DEF Init, InitAcceptor
<1>2. 1 .. Len(loops_[s]) = {}
  BY <1>1
<1> QED BY <1>1, <1>2, Zenon DEF Fair

-----------------------------------------------------------------------------
(* Finite sets.  The library's Cardinality is a copy of the one above.     *)

LOCAL INSTANCE FiniteSetTheorems

LEMMA SizeIsCardinality ==
  ASSUME NEW S
  PROVE  Size(S) = Cardinality(S)
<1>1. Cardinality(S) = LET CS[T \in SUBSET S] ==
                             IF T = {} THEN 0 ELSE 1 + CS[T \ {CHOOSE x : x \in T}]
                       IN CS[S]
  BY ZenonT(40) DEF Cardinality
<1> QED BY <1>1, SizeIs, ZenonT(40)

LEMMA SmallSizes ==
  ASSUME NEW x
  PROVE  Size({}) = 0 /\ Size({x}) = 1
BY SizeIsCardinality, FS_EmptySet, FS_Singleton, ZenonT(40)

LEMMA SubsetSize ==
  ASSUME NEW S, IsFiniteSet(S), NEW T \in SUBSET S
  PROVE  IsFiniteSet(T) /\ Size(S) \in Nat /\ Size(T) \in Nat /\ Size(T) <= Size(S)
<1>1. IsFiniteSet(T) /\ Cardinality(T) <= Cardinality(S)
  BY FS_Subset, ZenonT(40)
<1>2. Cardinality(S) \in Nat /\ Cardinality(T) \in Nat
  BY <1>1, FS_CardinalityType, ZenonT(40)
<1> QED BY <1>1, <1>2, SizeIsCardinality, ZenonT(40)

LEMMA AddedSize ==
  ASSUME NEW S, IsFiniteSet(S), NEW x
  PROVE  /\ IsFiniteSet(S \cup {x})
         /\ Size(S \cup {x}) = IF x \in S THEN Size(S) ELSE Size(S) + 1
<1>1. /\ IsFiniteSet(S \cup {x})
      /\ Cardinality(S \cup {x}) = IF x \in S THEN Cardinality(S) ELSE Cardinality(S) + 1
  BY FS_AddElement, ZenonT(40)
<1> QED BY <1>1, SizeIsCardinality, ZenonT(40)

LEMMA ConnsFinite ==
  ASSUME TypeOK
  PROVE  IsFiniteSet(Conns)
<1>1. conns \in Seq(ConnType)
  BY Kinds, ZenonT(40)
<1>2. Conns = 1 .. Len(conns) /\ Len(conns) \in Int
  BY <1>1, SMTT(30) DEF Conns
<1> QED BY <1>2, FS_Interval, SMTT(30)

LEMMA HeldCount ==
  ASSUME OneServer, TypeOK, [Next]_vars
  PROVE  HeldGrows
<1>1. IsFiniteSet(Held) /\ Size(Held) \in Nat
  BY ConnsFinite, SubsetSize, ZenonT(40) DEF Held
<1>2. CASE \A s \in Servers : ~NewConnection(s)
  <2>1. Size(Held') \in Nat /\ Size(Held') <= Size(Held)
    BY <1>1, <1>2, HeldStep, SubsetSize, ZenonT(40)
  <2>2. Size(Held') <= Size(Held) + 1
    BY <1>1, <2>1, SMTT(30)
  <2> QED BY <1>1, <2>1, <2>2, ZenonT(40) DEF HeldGrows
<1>3. CASE \E s \in Servers : NewConnection(s)
  <2>1. PICK c : Held' \in SUBSET (Held \cup {c})
    BY <1>3, NewHeld, ZenonT(40)
  <2>2. /\ IsFiniteSet(Held \cup {c})
        /\ Size(Held \cup {c}) = Size(Held) \/ Size(Held \cup {c}) = Size(Held) + 1
    BY <1>1, AddedSize, ZenonT(40)
  <2>3. Size(Held') \in Nat /\ Size(Held') <= Size(Held \cup {c})
    BY <2>1, <2>2, SubsetSize, ZenonT(40)
  <2>4. Size(Held') <= Size(Held) + 1
    BY <1>1, <2>2, <2>3, SMTT(30)
  <2> QED BY <1>1, <1>3, <2>3, <2>4, ZenonT(40) DEF HeldGrows
<1> QED BY <1>2, <1>3, ZenonT(40)

LEMMA DescInit == OneServer /\ Init => DescInv
<1> SUFFICES ASSUME OneServer, Init, NEW s \in Servers PROVE Reserved(s)
  BY ZenonT(40) DEF DescInv, Init
<1> QED BY ReservedInit, SmallSizes, ZenonT(40)

LEMMA DescStep == BaseInv /\ DescInv /\ [Next]_vars => DescInv'
<1> SUFFICES ASSUME BaseInv, DescInv, [Next]_vars PROVE DescInv'
  BY ZenonT(40)
<1>1. ASSUME Servers = {} PROVE exited' = exited /\ (stolen => stolen')
  <2>1. Conns = {}
    BY <1>1, Kinds, ZenonT(40) DEF BaseInv
  <2>2. Loops = {}
    BY <1>1, ZenonT(40) DEF Loops
  <2>3. OtherOpens \/ OtherCloses \/ UNCHANGED vars
    BY <1>1, <2>1, <2>2, ZenonT(40) DEF Next
  <2>4. CASE OtherOpens
    BY <2>4, ZenonT(40) DEF OtherOpens
  <2>5. CASE OtherCloses
    BY <2>5, ZenonT(40) DEF OtherCloses
  <2>6. CASE UNCHANGED vars
    BY <2>6, ZenonT(40) DEF vars, fdVars
  <2> QED BY <2>3, <2>4, <2>5, <2>6, ZenonT(40)
<1>2. ASSUME NEW s \in Servers PROVE Reserved(s)' /\ (exited' = "idle" => stolen')
  <2>1. FdsOpen = Used(s)
    BY Counted, SmallSizes, ZenonT(40) DEF BaseInv
  <2>2. HeldGrows
    BY HeldCount, ZenonT(40) DEF BaseInv
  <2> QED BY <2>1, <2>2, ReservedStep, ZenonT(40)
<1>3. exited = "idle" => stolen
  BY ZenonT(40) DEF DescInv
<1>4. exited' = "idle" => stolen'
  <2>1. CASE Servers = {}
    BY <1>1, <1>3, <2>1, ZenonT(40)
  <2>2. CASE \E s \in Servers : TRUE
    BY <1>2, <2>2, ZenonT(40)
  <2> QED BY <2>1, <2>2, ZenonT(40)
<1> QED BY <1>2, <1>4, ZenonT(40) DEF DescInv

LEMMA GivenOne ==
  ASSUME TypeOK, NEW s \in Servers, NewConnection(s), NEW l
  PROVE  GivenGrows(s, l)
<1> DEFINE r == Connecting(s, io[s], tmp[s])
<1>0. conns \in Seq(ConnType) /\ io[s] \in Loops /\ tmp[s] \in Nat
  BY ZenonT(40) DEF TypeOK
<1>1. r \in ConnType /\ ConnectionEstablished(r) \in ConnType /\ r.loop = io[s]
  BY <1>0, ConnectingType, ConnectionTypes, ZenonT(40) DEF Connecting
<1>2. ConnectionEstablished(r).loop = io[s]
  BY <1>1, Effects, ZenonT(40)
<1>3. PICK q \in ConnType : conns' = Append(conns, q) /\ q.loop = io[s]
  BY <1>1, <1>2, ZenonT(40) DEF NewConnection
<1>4. PICK c : c = Len(conns) + 1
  BY ZenonT(40)
<1>5. /\ Conns' = Conns \cup {c} /\ c \notin Conns /\ conns'[c] = q
      /\ \A d \in Conns : conns'[d] = conns[d]
  BY <1>0, <1>3, <1>4, Grown, ZenonT(40)
<1>6. CASE l = io[s]
  <2>1. Given(l)' = Given(l) \cup {c} /\ c \notin Given(l)
    BY <1>3, <1>5, <1>6, ZenonT(40) DEF Given
  <2>2. IsFiniteSet(Given(l))
    BY ConnsFinite, SubsetSize, ZenonT(40) DEF Given
  <2> QED BY <1>6, <2>1, <2>2, AddedSize, ZenonT(40) DEF GivenGrows
<1>7. CASE l # io[s]
  <2>1. Given(l)' = Given(l)
    BY <1>3, <1>5, <1>7, ZenonT(40) DEF Given
  <2> QED BY <1>7, <2>1, ZenonT(40) DEF GivenGrows
<1> QED BY <1>6, <1>7, ZenonT(40)

LEMMA RoundKept == BaseInv /\ RoundInv /\ [Next]_vars => RoundInv'
<1> SUFFICES ASSUME BaseInv, RoundInv, [Next]_vars, NEW s \in Servers PROVE Fair(s)'
  BY ZenonT(40) DEF RoundInv
<1>1. NewConnection(s) => \A l \in Loops : GivenGrows(s, l)
  BY GivenOne, ZenonT(40) DEF BaseInv
<1> QED BY <1>1, SmallSizes, RoundStep, ZenonT(40)

-----------------------------------------------------------------------------
\* Connections are given to the loops of the pool in turn: no loop ever has two more
\* than another, however many loops there are and however accepts are interrupted.
THEOREM RoundRobinCorrect == OneServer /\ Spec => []RoundRobin
<1>1. Init => RoundInv
  BY RoundInit, Zenon
<1>2. BaseInv /\ RoundInv /\ [Next]_vars => RoundInv'
  BY RoundKept, SMTT(30)
<1>3. BaseInv /\ RoundInv => RoundRobin
  BY RoundEven, Zenon DEF BaseInv
<1> QED BY <1>1, <1>2, <1>3, BaseInvariance, PTL DEF Spec

\* Whatever the limit on descriptors, close_excessfd_with_idlefd gives the acceptor its
\* idle descriptor back, unless other code took the slot while it was free.
THEOREM IdleCorrect == OneServer /\ Spec => []IdleSurvivesFull
<1>1. OneServer /\ Init => DescInv
  BY DescInit, Zenon
<1>2. BaseInv /\ DescInv /\ [Next]_vars => DescInv'
  BY DescStep, Zenon
<1>3. DescInv => IdleSurvivesFull
  BY Zenon DEF DescInv, Reserved, Full, IdleSurvivesFull
<1> QED BY <1>1, <1>2, <1>3, BaseInvariance, PTL DEF Spec
=============================================================================
