------------------------------ MODULE TcpServer ------------------------------
(***************************************************************************)
(* benet::TcpServer with its Acceptor, the loop its pool picks for every   *)
(* connection and the connections it keeps, from Start to the end of the   *)
(* destructor.  Several servers may live in one process, each in a thread  *)
(* of its own; they share two function-local statics and the limit on open *)
(* descriptors.  A server's base loop has the server's name.  A loop is a  *)
(* LoopExecutor, a connection the life cycle of TcpConnection.             *)
(***************************************************************************)
EXTENDS Integers, Sequences, FiniteSets

CONSTANTS
  Servers,
  IoLoops,      \* per server: the loops its pool has with the most threads
  FdMax,        \* descriptors left for idle fds, connections and other code
  OthersMax,    \* bound: descriptors other code of the process may hold
  PeersMax,     \* bound: peers that connect, over the whole run
  FatalErrors   \* bind, listen and accept4 may fail for want of resources or rights

Elements(seq) == {seq[i] : i \in DOMAIN seq}
Loops == Servers \cup UNION {Elements(IoLoops[s]) : s \in Servers}

ASSUME ServerAssumption ==
  /\ FdMax \in Nat /\ OthersMax \in Nat /\ PeersMax \in Nat /\ FatalErrors \in BOOLEAN
  /\ \A s \in Servers : IoLoops[s] \in Seq(Elements(IoLoops[s]) \ Servers)
  /\ \A s, t \in Servers : s # t => Elements(IoLoops[s]) \cap Elements(IoLoops[t]) = {}

\* Every Acceptor has got its idle descriptor.
ASSUME IdleAssumption == IsFiniteSet(Servers) /\ Cardinality(Servers) <= FdMax

\* Every thread of a pool has a loop of its own.
ASSUME PoolAssumption ==
  \A s \in Servers : \A i, j \in DOMAIN IoLoops[s] : i # j => IoLoops[s][i] # IoLoops[s][j]

VARIABLES
  phase,         \* per server: new, running, returned (its loop), joining, gone
  loops_,        \* per server: the loops of its pool
  pc, tmp, io,   \* per server: where its thread is in the accept handler, and its locals
  backlog,       \* per server: peers the kernel has queued
  peers,         \* history: how many peers have connected
  idle,          \* per server: idle_fd_ is open
  connections_,  \* per server: the connections its map holds
  next_index_,   \* static of GetNextLoop
  next_conn_id_, \* static of new_connection
  conns,         \* the TcpConnections created so far
  queue,         \* per loop: functors not called yet
  stopping,      \* io loops told to stop
  closed,        \* loops destroyed
  others,        \* descriptors held by other code
  stolen,        \* history: other code opened one while idle_fd_ was closed
  exited         \* "" or why the process called exit(2)

acceptVars == <<pc, tmp, io, backlog, peers, idle, next_index_, next_conn_id_>>
loopVars == <<queue, stopping, closed>>
fdVars == <<others, stolen, exited>>
vars == <<phase, loops_, acceptVars, connections_, conns, loopVars, fdVars>>

\* A constructed Acceptor: a bound socket and the idle descriptor.
InitAcceptor ==
  /\ pc = [s \in Servers |-> "loop"] /\ tmp = [s \in Servers |-> 0] /\ io = [s \in Servers |-> s]
  /\ backlog = [s \in Servers |-> 0] /\ peers = 0
  /\ idle = [s \in Servers |-> TRUE]

Init ==
  /\ InitAcceptor
  /\ phase = [s \in Servers |-> "new"]
  /\ loops_ = [s \in Servers |-> <<>>]
  /\ connections_ = [s \in Servers |-> {}]
  /\ next_index_ = 0 /\ next_conn_id_ = 0
  /\ conns = <<>>
  /\ queue = [l \in Loops |-> <<>>]
  /\ stopping = {} /\ closed = {}
  /\ others = 0 /\ stolen = FALSE /\ exited = ""

-----------------------------------------------------------------------------
(* References, descriptors and loops.                                      *)

Conns == DOMAIN conns

Queued(c) == \E l \in Loops : \E i \in DOMAIN queue[l] : queue[l][i].conn = c

\* The map or a functor holds a shared_ptr to c.
Alive(c) == c \in connections_[conns[c].server] \/ Queued(c)

HoldsFd(s) == pc[s] \in {"index", "id"} \/ (pc[s] = "excess" /\ tmp[s] = 1)

FdsOpen ==
  Cardinality({c \in Conns : Alive(c)}) + Cardinality({s \in Servers : idle[s]})
    + Cardinality({s \in Servers : HoldsFd(s)}) + others

FdFree == FdsOpen < FdMax

\* BELOG_CRITICAL has not ended the process.
Up == exited = ""

\* The loop's thread is between two handlers or functors.
Serving(l) ==
  Up /\ IF l \in Servers THEN phase[l] = "running" /\ pc[l] = "loop" ELSE l \notin closed

Call(op, c) == [op |-> op, conn |-> c]

QueueInLoop(q, l, f) == [q EXCEPT ![l] = Append(@, f)]

-----------------------------------------------------------------------------
(* The connection, as far as the server is concerned.                      *)

Connecting(s, l, id) ==
  [server |-> s, loop |-> l, name |-> id, state |-> "Connecting", added |-> FALSE,
   calls |-> 0]

ConnectionEstablished(r) ==
  [r EXCEPT !.state = "Connected", !.added = TRUE, !.calls = @ + 1]

Closed(r) == [r EXCEPT !.state = "Disconnected", !.calls = @ + 1]

\* Mutant: the callback is called whatever the state.
ConnectionDestroyedCalls(r) == [Closed(r) EXCEPT !.added = FALSE]

\* Only a Connected one is closed here; the channel leaves the poller in any case.
ConnectionDestroyed(r) ==
  [(IF r.state = "Connected" THEN Closed(r) ELSE r) EXCEPT !.added = FALSE]

-----------------------------------------------------------------------------
(* Start, peers and other users of descriptors.                            *)

\* Acceptor::Listen: from now on the channel of the listening socket is read.
Listen(s) == phase' = [phase EXCEPT ![s] = "running"]

\* InitThreadsNumber(n), then Start: the pool's threads run and the acceptor listens.
Start(s) ==
  /\ Up /\ phase[s] = "new"
  /\ Listen(s)
  /\ \E n \in 0 .. Len(IoLoops[s]) : loops_' = [loops_ EXCEPT ![s] = SubSeq(IoLoops[s], 1, n)]
  /\ UNCHANGED <<acceptVars, connections_, conns, loopVars, fdVars>>

\* bind_or_die or listen_or_die ends the process.
ListenFatal(s) ==
  /\ Up /\ phase[s] = "new" /\ FatalErrors
  /\ exited' = "listen"
  /\ UNCHANGED <<phase, loops_, acceptVars, connections_, conns, loopVars, others, stolen>>

PeerConnects(s) ==
  /\ Up /\ phase[s] = "running"
  /\ peers < PeersMax
  /\ peers' = peers + 1
  /\ backlog' = [backlog EXCEPT ![s] = @ + 1]
  /\ UNCHANGED <<phase, loops_, pc, tmp, io, idle, next_index_, next_conn_id_, connections_,
                 conns, loopVars, fdVars>>

OtherOpens ==
  /\ Up /\ FdFree /\ others < OthersMax
  /\ others' = others + 1
  /\ stolen' = (stolen \/ \E s \in Servers : ~idle[s] /\ pc[s] # "loop")
  /\ UNCHANGED <<phase, loops_, acceptVars, connections_, conns, loopVars, exited>>

OtherCloses ==
  /\ Up /\ others > 0
  /\ others' = others - 1
  /\ UNCHANGED <<phase, loops_, acceptVars, connections_, conns, loopVars, stolen, exited>>

-----------------------------------------------------------------------------
(* The acceptor's read handler: one accept per event.                      *)

Handling(s, at) == Up /\ phase[s] = "running" /\ pc[s] = at
Goto(s, at) == pc' = [pc EXCEPT ![s] = at]

TakePeer(s) == backlog[s] > 0 /\ backlog' = [backlog EXCEPT ![s] = @ - 1]

\* A descriptor: on_new_connection_ runs, and GetNextLoop reads its static.
Accept(s) ==
  /\ Handling(s, "loop") /\ FdFree
  /\ TakePeer(s)
  /\ IF loops_[s] = <<>>
       THEN Goto(s, "id") /\ io' = [io EXCEPT ![s] = s] /\ tmp' = [tmp EXCEPT ![s] = next_conn_id_]
       ELSE Goto(s, "index") /\ tmp' = [tmp EXCEPT ![s] = next_index_] /\ UNCHANGED io
  /\ UNCHANGED <<phase, loops_, peers, idle, next_index_, next_conn_id_, connections_, conns,
                 loopVars, fdVars>>

\* The peer has gone: ECONNABORTED, or EAGAIN, is logged and the handler returns.
AcceptAborted(s) ==
  /\ Handling(s, "loop")
  /\ TakePeer(s)
  /\ UNCHANGED <<phase, loops_, peers, pc, tmp, io, idle, next_index_, next_conn_id_,
                 connections_, conns, loopVars, fdVars>>

\* Any error sockets::accept does not tolerate ends the process.
AcceptFatal(s) ==
  /\ Handling(s, "loop") /\ FatalErrors /\ backlog[s] > 0
  /\ exited' = "accept"
  /\ UNCHANGED <<phase, loops_, acceptVars, connections_, conns, loopVars, others, stolen>>

\* Mutant: EMFILE is logged and nothing more.
AcceptFullIgnored(s) == Handling(s, "loop") /\ UNCHANGED vars

\* EMFILE: close_excessfd_with_idlefd gives up the idle descriptor...
AcceptFull(s) ==
  /\ Handling(s, "loop") /\ backlog[s] > 0 /\ ~FdFree
  /\ Goto(s, "full")
  /\ idle' = [idle EXCEPT ![s] = FALSE]
  /\ UNCHANGED <<phase, loops_, peers, tmp, io, backlog, next_index_, next_conn_id_,
                 connections_, conns, loopVars, fdVars>>

\* ...accepts the excess connection into its place, if it still can...
AcceptExcess(s) ==
  /\ Handling(s, "full")
  /\ Goto(s, "excess")
  /\ IF FdFree /\ backlog[s] > 0 THEN TakePeer(s) /\ tmp' = [tmp EXCEPT ![s] = 1]
                                 ELSE tmp' = [tmp EXCEPT ![s] = 0] /\ UNCHANGED backlog
  /\ UNCHANGED <<phase, loops_, peers, io, idle, next_index_, next_conn_id_, connections_,
                 conns, loopVars, fdVars>>

\* Mutant: the excess connection stays open.
CloseExcessKeeps(s) ==
  /\ Handling(s, "excess")
  /\ Goto(s, "reopen")
  /\ others' = others + tmp[s]
  /\ UNCHANGED <<phase, loops_, peers, tmp, io, backlog, idle, next_index_, next_conn_id_,
                 connections_, conns, loopVars, stolen, exited>>

\* ...closes it...
CloseExcess(s) ==
  /\ Handling(s, "excess")
  /\ Goto(s, "reopen")
  /\ UNCHANGED <<phase, loops_, peers, tmp, io, backlog, idle, next_index_, next_conn_id_,
                 connections_, conns, loopVars, fdVars>>

\* ...and opens the idle descriptor again, or ends the process.
ReopenIdle(s) ==
  /\ Handling(s, "reopen")
  /\ IF FdFree THEN Goto(s, "loop") /\ idle' = [idle EXCEPT ![s] = TRUE] /\ UNCHANGED exited
               ELSE exited' = "idle" /\ UNCHANGED <<pc, idle>>
  /\ UNCHANGED <<phase, loops_, peers, tmp, io, backlog, next_index_, next_conn_id_,
                 connections_, conns, loopVars, others, stolen>>

-----------------------------------------------------------------------------
(* TcpServer::new_connection.  The statics are loaded in one step and      *)
(* stored in the next: nothing orders the threads of two servers.          *)

\* Mutant: the index is not advanced.
GetNextLoopSame(s) ==
  /\ Handling(s, "index")
  /\ Goto(s, "id")
  /\ io' = [io EXCEPT ![s] = loops_[s][1 + (tmp[s] % Len(loops_[s]))]]
  /\ tmp' = [tmp EXCEPT ![s] = next_conn_id_]
  /\ UNCHANGED <<phase, loops_, peers, next_index_, backlog, idle, next_conn_id_, connections_,
                 conns, loopVars, fdVars>>

\* loops_[next_index_ % loops_.size()], next_index_ += 1; then next_conn_id_ is read.
GetNextLoop(s) ==
  /\ Handling(s, "index")
  /\ Goto(s, "id")
  /\ io' = [io EXCEPT ![s] = loops_[s][1 + (tmp[s] % Len(loops_[s]))]]
  /\ next_index_' = tmp[s] + 1
  /\ tmp' = [tmp EXCEPT ![s] = next_conn_id_]
  /\ UNCHANGED <<phase, loops_, peers, backlog, idle, next_conn_id_, connections_, conns,
                 loopVars, fdVars>>

\* The connection enters the map under its name, in place of one of the same name, and
\* ConnectionEstablished runs in its loop, which may be this thread's.
NewConnection(s) ==
  LET c == Len(conns) + 1
      r == Connecting(s, io[s], tmp[s])
  IN /\ Handling(s, "id")
     /\ Goto(s, "loop")
     /\ next_conn_id_' = tmp[s] + 1
     /\ connections_' = [connections_ EXCEPT ![s] = {d \in @ : conns[d].name # r.name} \cup {c}]
     /\ IF r.loop = s
          THEN conns' = Append(conns, ConnectionEstablished(r)) /\ UNCHANGED queue
          ELSE /\ conns' = Append(conns, r)
               /\ queue' = QueueInLoop(queue, r.loop, Call("established", c))
     /\ tmp' = [tmp EXCEPT ![s] = 0]
     /\ UNCHANGED <<phase, loops_, peers, io, backlog, idle, next_index_, stopping, closed, fdVars>>

-----------------------------------------------------------------------------
(* Functors and events of the loops.                                       *)

\* Mutant: the last functor waits for another one.
PendingLate(l, op) == Serving(l) /\ Len(queue[l]) > 1 /\ Head(queue[l]).op = op

Pending(l, op) == Serving(l) /\ queue[l] # <<>> /\ Head(queue[l]).op = op
Popped(l) == [queue EXCEPT ![l] = Tail(@)]
First(l) == Head(queue[l]).conn

RunEstablished(l) ==
  /\ Pending(l, "established")
  /\ conns' = [conns EXCEPT ![First(l)] = ConnectionEstablished(@)]
  /\ queue' = Popped(l)
  /\ UNCHANGED <<phase, loops_, acceptVars, connections_, stopping, closed, fdVars>>

RunDestroyed(l) ==
  /\ Pending(l, "destroyed")
  /\ conns' = [conns EXCEPT ![First(l)] = ConnectionDestroyed(@)]
  /\ queue' = Popped(l)
  /\ UNCHANGED <<phase, loops_, acceptVars, connections_, stopping, closed, fdVars>>

Erased(c) == LET s == conns[c].server
             IN [connections_ EXCEPT ![s] = {d \in @ : conns[d].name # conns[c].name}]

\* Mutant: the connection is only forgotten.
RunRemoveForgets(l) ==
  /\ Pending(l, "remove")
  /\ connections_' = Erased(First(l))
  /\ queue' = Popped(l)
  /\ UNCHANGED <<phase, loops_, acceptVars, conns, stopping, closed, fdVars>>

\* The functor of remove_connection: erase, then QueueInLoop of ConnectionDestroyed.
RunRemove(l) ==
  /\ Pending(l, "remove")
  /\ connections_' = Erased(First(l))
  /\ queue' = QueueInLoop(Popped(l), conns[First(l)].loop, Call("destroyed", First(l)))
  /\ UNCHANGED <<phase, loops_, acceptVars, conns, stopping, closed, fdVars>>

\* Mutant: handle_close does not check the state.
ClosableAlways(r) == r.state # "Connecting"

Closable(r) == r.state \in {"Connected", "Disconnecting"}

\* handle_close in the connection's loop, on an event (the tie still finds the connection)
\* or in a functor; remove_connection runs at once when that is the base loop.
HandleClose(c) ==
  LET r == conns[c]
  IN /\ Closable(r) /\ Alive(c) /\ Serving(r.loop)
     /\ conns' = [conns EXCEPT ![c] = Closed(@)]
     /\ IF r.loop = r.server
          THEN /\ connections_' = Erased(c)
               /\ queue' = QueueInLoop(queue, r.loop, Call("destroyed", c))
          ELSE queue' = QueueInLoop(queue, r.server, Call("remove", c)) /\ UNCHANGED connections_
     /\ UNCHANGED <<phase, loops_, acceptVars, stopping, closed, fdVars>>

\* Shutdown by any thread: only the state changes here.
Shutdown(c) ==
  /\ Up /\ conns[c].state = "Connected" /\ Alive(c)
  /\ conns' = [conns EXCEPT ![c].state = "Disconnecting"]
  /\ UNCHANGED <<phase, loops_, acceptVars, connections_, loopVars, fdVars>>

-----------------------------------------------------------------------------
(* The end.                                                                *)

\* The base loop was stopped: Start returns between two rounds, whatever is queued.
LoopReturns(s) ==
  /\ Serving(s)
  /\ phase' = [phase EXCEPT ![s] = "returned"]
  /\ UNCHANGED <<loops_, acceptVars, connections_, conns, loopVars, fdVars>>

\* ~TcpServer, one round of its loop over connections_.
DestroyConnection(s) ==
  /\ Up /\ phase[s] = "returned"
  /\ \E c \in connections_[s] :
       /\ connections_' = [connections_ EXCEPT ![s] = @ \ {c}]
       /\ IF conns[c].loop = s
            THEN conns' = [conns EXCEPT ![c] = ConnectionDestroyed(@)] /\ UNCHANGED queue
            ELSE queue' = QueueInLoop(queue, conns[c].loop, Call("destroyed", c)) /\ UNCHANGED conns
  /\ UNCHANGED <<phase, loops_, acceptVars, stopping, closed, fdVars>>

\* Mutant: the last thread is only joined.
StopThreadJoins(s) ==
  /\ Up /\ phase[s] \in {"returned", "joining"} /\ connections_[s] = {}
  /\ \E i \in 1 .. Len(loops_[s]) - 1 :
       /\ \A j \in 1 .. i - 1 : loops_[s][j] \in closed
       /\ loops_[s][i] \notin stopping
       /\ stopping' = stopping \cup {loops_[s][i]}
  /\ phase' = [phase EXCEPT ![s] = "joining"]
  /\ UNCHANGED <<loops_, acceptVars, connections_, conns, queue, closed, fdVars>>

\* ~EventLoopThreadPool stops the next thread's loop and joins the thread.
StopThread(s) ==
  /\ Up /\ phase[s] \in {"returned", "joining"} /\ connections_[s] = {}
  /\ \E i \in DOMAIN loops_[s] :
       /\ \A j \in 1 .. i - 1 : loops_[s][j] \in closed
       /\ loops_[s][i] \notin stopping
       /\ stopping' = stopping \cup {loops_[s][i]}
  /\ phase' = [phase EXCEPT ![s] = "joining"]
  /\ UNCHANGED <<loops_, acceptVars, connections_, conns, queue, closed, fdVars>>

\* A stopping loop returns and is destroyed, with the functors it has not called.
CloseLoop(l) ==
  /\ Up /\ l \in stopping \ closed
  /\ closed' = closed \cup {l}
  /\ queue' = [queue EXCEPT ![l] = <<>>]
  /\ UNCHANGED <<phase, loops_, acceptVars, connections_, conns, stopping, fdVars>>

\* ~Acceptor; the base loop goes after the server, with the functors it has not called.
Gone(s) ==
  /\ Up /\ phase[s] \in {"returned", "joining"} /\ connections_[s] = {}
  /\ Elements(loops_[s]) \subseteq closed
  /\ phase' = [phase EXCEPT ![s] = "gone"]
  /\ idle' = [idle EXCEPT ![s] = FALSE]
  /\ queue' = [queue EXCEPT ![s] = <<>>]
  /\ closed' = closed \cup {s}
  /\ UNCHANGED <<loops_, peers, pc, tmp, io, backlog, next_index_, next_conn_id_, connections_,
                 conns, stopping, fdVars>>

-----------------------------------------------------------------------------
AcceptStep(s) ==
  \/ Accept(s) \/ AcceptFull(s)
  \/ AcceptExcess(s) \/ CloseExcess(s) \/ ReopenIdle(s)
  \/ GetNextLoop(s) \/ NewConnection(s)

Run(l) == RunEstablished(l) \/ RunRemove(l) \/ RunDestroyed(l)

DestroyStep(s) == DestroyConnection(s) \/ StopThread(s) \/ Gone(s)

Next ==
  \/ \E s \in Servers : \/ Start(s) \/ ListenFatal(s) \/ PeerConnects(s) \/ LoopReturns(s)
                        \/ AcceptStep(s) \/ AcceptAborted(s) \/ AcceptFatal(s) \/ DestroyStep(s)
  \/ \E l \in Loops : Run(l) \/ CloseLoop(l)
  \/ \E c \in Conns : HandleClose(c) \/ Shutdown(c)
  \/ OtherOpens \/ OtherCloses

Spec == Init /\ [][Next]_vars

\* A loop serves its events and, in every round, its functors too (so the fairness of
\* Run is strong: accept handlers interrupt the base loop's functors but cannot keep
\* them out), a stopped loop returns, and a destructor that has begun runs on.
FairSpec ==
  /\ Spec
  /\ \A s \in Servers : WF_vars(AcceptStep(s)) /\ WF_vars(DestroyStep(s))
  /\ \A l \in Loops : SF_vars(Run(l)) /\ WF_vars(CloseLoop(l))

-----------------------------------------------------------------------------
(* Properties.                                                             *)

ConnType ==
  [server : Servers, loop : Loops, name : Nat, added : BOOLEAN, calls : Nat,
   state : {"Connecting", "Connected", "Disconnecting", "Disconnected"}]

TypeOK ==
  /\ phase \in [Servers -> {"new", "running", "returned", "joining", "gone"}]
  /\ loops_ \in [Servers -> Seq(Loops \ Servers)]
  /\ pc \in [Servers -> {"loop", "index", "id", "full", "excess", "reopen"}]
  /\ tmp \in [Servers -> Nat] /\ io \in [Servers -> Loops]
  /\ backlog \in [Servers -> Nat] /\ peers \in Nat
  /\ idle \in [Servers -> BOOLEAN]
  /\ next_index_ \in Nat /\ next_conn_id_ \in Nat
  /\ conns \in Seq(ConnType)
  /\ connections_ \in [Servers -> SUBSET Conns]
  /\ queue \in [Loops -> Seq([op : {"established", "remove", "destroyed"}, conn : Conns])]
  /\ stopping \subseteq Loops /\ closed \subseteq Loops
  /\ others \in Nat /\ stolen \in BOOLEAN /\ exited \in {"", "listen", "accept", "idle"}

\* A connection's channel is in a poller only while something holds the connection:
\* no poller, and no event it has returned, refers to a destroyed Channel.  This is the
\* reason why remove_connection queues ConnectionDestroyed with a reference of its own.
RegisteredIsHeld == \A c \in Conns : conns[c].added /\ conns[c].loop \notin closed => Alive(c)

\* While its server runs, a connection is destroyed only at the end of its life: it was
\* Disconnected (the assert of ~TcpConnection), its channel was removed (the assert of
\* ~Channel) and the user's connection callback was called once up and once down.
DestroyedAtEnd ==
  \A c \in Conns : ~Alive(c) /\ phase[conns[c].server] = "running" =>
    conns[c].state = "Disconnected" /\ ~conns[c].added /\ conns[c].calls = 2

\* The functors of one connection come in the order established, remove, destroyed, each
\* at most once while the server runs, so ConnectionEstablished finds it Connecting and
\* erase() finds its name (`assert(n == 1)`).
FunctorsMatchState ==
  \A l \in Loops : \A i \in DOMAIN queue[l] :
    LET f == queue[l][i]
        r == conns[f.conn]
    IN /\ f.op = "established" => r.state = "Connecting" /\ l = r.loop
       /\ f.op = "remove" /\ phase[r.server] = "running" =>
            f.conn \in connections_[r.server] /\ r.state = "Disconnected" /\ l = r.server
       /\ f.op = "destroyed" => f.conn \notin connections_[r.server] /\ l = r.loop

\* "round-robin": the connections of a server that is alone in its process are spread
\* evenly over its loops.  (next_index_ is static: two servers take turns out of each
\* other's index, and nothing is said of them.)
RoundRobin ==
  LET Load(l) == Cardinality({c \in Conns : conns[c].loop = l})
  IN \A s \in Servers :
       Servers = {s} => \A l, m \in Elements(loops_[s]) : Load(l) <= Load(m) + 1

\* The idle descriptor gets the acceptor through EMFILE: outside that handler it is open,
\* and the process ends for want of one only if other code took the freed slot.
IdleSurvivesFull ==
  /\ exited = "idle" => stolen
  /\ \A s \in Servers : pc[s] = "loop" /\ phase[s] # "gone" => idle[s]

\* `assert(n == 1)` in remove_connection.
EraseFindsOne == \A s \in Servers : Pending(s, "remove") => Erased(First(s)) # connections_

\* `assert(!added_in_loop_)` in ~Channel: whenever a connection is destroyed, its channel
\* has left the poller.
DestroyedRemoved == \A c \in Conns : ~Alive(c) => ~conns[c].added

\* What ConnectionLife shows of a connection; one that is not created yet is Connecting.
StateOf(c) == IF c \in Conns THEN conns[c].state ELSE "Connecting"
CallbacksOf(c) == IF c \in Conns THEN conns[c].calls ELSE 0
EntryOf(c) == c \in Conns => c \in connections_[conns[c].server]
ServedOf(c) == c \in Conns => phase[conns[c].server] \in {"new", "running"}

Life(c) == INSTANCE ConnectionLife WITH
  state <- StateOf(c), calls <- CallbacksOf(c), entry <- EntryOf(c), serving <- ServedOf(c)

\* Every connection lives the life of ConnectionLife, as TcpConnection does, whether its
\* io loop, the base loop, a thread that shuts it down or the destructor of the server
\* acts on it next.
ConnectionsLive ==
  /\ \A c \in 1 .. PeersMax : Life(c)!Init
  /\ [][\A c \in 1 .. PeersMax : Life(c)!Next \/ UNCHANGED Life(c)!vars]_vars

\* Every peer in the kernel's queue is accepted or turned away, at the descriptor limit
\* too, although the handler accepts one per event; other code that keeps taking the slot
\* of the idle descriptor is the exception.
PeersServed ==
  \A s \in Servers :
    backlog[s] > 0 ~> backlog[s] = 0 \/ phase[s] # "running" \/ stolen \/ exited # ""

\* A closed connection is released, whether the server runs on or is destroyed while the
\* functors are on their way.
ClosedReleased ==
  \A c \in 1 .. PeersMax :
    (c \in Conns /\ conns[c].state = "Disconnected") ~> c \in Conns /\ (exited # "" \/ ~Alive(c))

\* ~TcpServer ends: the join of every io thread returns and nothing holds a connection of
\* the server any more.
DestructorEnds ==
  \A s \in Servers : phase[s] = "returned" ~>
    exited # "" \/ (phase[s] = "gone" /\ \A c \in Conns : conns[c].server = s => ~Alive(c))
=============================================================================
