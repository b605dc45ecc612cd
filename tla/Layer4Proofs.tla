---------------------------- MODULE Layer4Proofs ----------------------------
(***************************************************************************)
(* Proofs about Layer4 and the two proxies it runs, for every set of       *)
(* clients, every pool of workers and every limit and timeout.             *)
(***************************************************************************)
EXTENDS Layer4, FiniteSetTheorems, TLAPS

-----------------------------------------------------------------------------
(* The UDP proxy.                                                          *)

\* Before Serve starts them, the workers have received nothing.
WorkersOff == udpServe = "start" => \A w \in UWorkers : uworker[w].pc = "off"

\* Between DialUDP and the second look at the table a worker is the only one
\* to know its socket: it is open, in no table and on no list.
DialledPrivately ==
    \A w \in UWorkers :
        uworker[w].pc = "install" =>
            /\ upstream[uworker[w].sock].state = "open"
            /\ ~InTable(uworker[w].sock) /\ uworker[w].sock \notin expiring
            /\ \A v \in UWorkers \ {w} :
                  uworker[v].pc = "install" => uworker[v].sock # uworker[w].sock

\* A session on the sweeper's list has left the table, for good.
ExpiredLeftTable ==
    \A k \in expiring : ~InTable(k) /\ upstream[k].state # "unused"

UdpInv ==
    /\ UdpTypeOK /\ WorkersOff
    /\ TableHoldsLiveSessions /\ NoLeakedSocket /\ DialledPrivately /\ ExpiredLeftTable

\* No dialled socket is the null session, and no client is a point of Serve.
LEMMA UdpConstants ==
    /\ NoSocket \notin Sockets
    /\ UClients \cap {"start", "reading", "draining", "returned"} = {}
    /\ NoClient \notin UClients
BY UdpAssumption DEF UdpAssumption, NoSocket, Sockets

\* What the program point of a worker says about the rest of its state.
LEMMA UWorkerFields ==
    ASSUME NEW x \in UWorkerState
    PROVE  /\ x.pc \in {"off", "receive", "exited", "lookup", "dial", "install", "forward"}
           /\ x.pc \in {"off", "receive", "exited"} => x.client = NoClient /\ x.sock = NoSocket
           /\ x.pc \in {"lookup", "dial"} => x.client \in UClients /\ x.sock = NoSocket
           /\ x.pc \in {"install", "forward"} => x.client \in UClients /\ x.sock \in Sockets
           /\ x.pc = "off" => [x EXCEPT !.pc = "receive"] \in UWorkerState
BY DEF UWorkerState

\* The states a worker may be put in.
LEMMA UWorkerValues ==
    /\ \A p \in {"off", "receive", "exited"} :
          [pc |-> p, client |-> NoClient, sock |-> NoSocket] \in UWorkerState
    /\ \A p \in {"lookup", "dial"}, c \in UClients :
          [pc |-> p, client |-> c, sock |-> NoSocket] \in UWorkerState
    /\ \A p \in {"install", "forward"}, c \in UClients, k \in Sockets :
          [pc |-> p, client |-> c, sock |-> k] \in UWorkerState
BY DEF UWorkerState

\* Moving one worker leaves the others where they were.
LEMMA UWorkerMoved ==
    ASSUME UdpTypeOK, NEW w \in UWorkers, NEW p, NEW c, NEW k, UWorkerAt(w, p, c, k),
           [pc |-> p, client |-> c, sock |-> k] \in UWorkerState
    PROVE  /\ uworker' \in [UWorkers -> UWorkerState]
           /\ uworker'[w].pc = p /\ uworker'[w].client = c /\ uworker'[w].sock = k
           /\ \A v \in UWorkers \ {w} : uworker'[v] = uworker[v]
BY DEF UdpTypeOK, UWorkerAt

\* Setting the state of one socket.
LEMMA SocketSet ==
    ASSUME UdpTypeOK, NEW k \in Sockets, NEW s \in {"open", "closed"},
           upstream' = [upstream EXCEPT ![k].state = s]
    PROVE  /\ upstream' \in [Sockets -> UpstreamState]
           /\ upstream'[k].state = s
           /\ \A j \in Sockets : upstream'[j].client = upstream[j].client
           /\ \A j \in Sockets \ {k} : upstream'[j].state = upstream[j].state
<1> DEFINE x == [upstream[k] EXCEPT !.state = s]
<1>1. upstream \in [Sockets -> UpstreamState] /\ upstream[k] \in UpstreamState
  BY DEF UdpTypeOK
<1>2. x \in UpstreamState /\ x.state = s /\ x.client = upstream[k].client
  BY <1>1 DEF UpstreamState
<1>3. upstream' = [upstream EXCEPT ![k] = x]
  BY <1>1
<1> HIDE DEF x
<1> QED
  BY <1>1, <1>2, <1>3

\* A touch, or the end of a reader, changes neither a socket's state nor its
\* owner.
LEMMA SocketTouched ==
    ASSUME UdpTypeOK, NEW k \in Sockets,
           \/ upstream' = [upstream EXCEPT ![k].age = 0]
           \/ upstream' = [upstream EXCEPT ![k].reader = "ended"]
    PROVE  /\ upstream' \in [Sockets -> UpstreamState]
           /\ \A j \in Sockets : /\ upstream'[j].client = upstream[j].client
                                 /\ upstream'[j].state = upstream[j].state
<1> DEFINE x == [upstream[k] EXCEPT !.age = 0]
           y == [upstream[k] EXCEPT !.reader = "ended"]
<1>1. upstream \in [Sockets -> UpstreamState] /\ upstream[k] \in UpstreamState
  BY DEF UdpTypeOK
<1>2. x \in UpstreamState /\ x.state = upstream[k].state /\ x.client = upstream[k].client
  BY <1>1, UdpAssumption DEF UdpAssumption, UpstreamState
<1>3. y \in UpstreamState /\ y.state = upstream[k].state /\ y.client = upstream[k].client
  BY <1>1 DEF UpstreamState
<1>4. upstream' = [upstream EXCEPT ![k] = x] \/ upstream' = [upstream EXCEPT ![k] = y]
  BY <1>1
<1> HIDE DEF x, y
<1> QED
  BY <1>1, <1>2, <1>3, <1>4

\* A worker that goes back to the queue.
LEMMA WorkerIdle ==
    ASSUME UdpTypeOK, NEW w \in UWorkers, Idle(w)
    PROVE  /\ uworker' \in [UWorkers -> UWorkerState]
           /\ uworker'[w].pc = "receive"
           /\ \A v \in UWorkers \ {w} : uworker'[v] = uworker[v]
BY UWorkerMoved, UWorkerValues DEF Idle

-----------------------------------------------------------------------------
(* Types: a worker has a client and a socket exactly where forwardPacket   *)
(* uses them, and the queue is as long as make(chan) allows.               *)


\* The rest of the state is typed when the parts a worker moves are.
LEMMA UdpTypesFrom ==
    ASSUME UdpTypeOK, WorkerUnchanged,
           uworker' \in [UWorkers -> UWorkerState], upstream' \in [Sockets -> UpstreamState],
           sessions' \in [UClients -> Sockets \cup {NoSocket}],
           queue' \in Seq(UClients), Len(queue') <= Cardinality(UWorkers)
    PROVE  UdpTypeOK'
BY DEF UdpTypeOK, WorkerUnchanged

\* The steps of the workers.
LEMMA UWorkerTypes ==
    ASSUME UdpTypeOK, NEW w \in UWorkers, UWorkerStep(w)
    PROVE  UdpTypeOK'
<1> DEFINE c == uworker[w].client
           k == uworker[w].sock
<1>1. /\ uworker \in [UWorkers -> UWorkerState] /\ upstream \in [Sockets -> UpstreamState]
      /\ sessions \in [UClients -> Sockets \cup {NoSocket}] /\ queue \in Seq(UClients)
      /\ uworker[w] \in UWorkerState /\ Len(queue) <= Cardinality(UWorkers)
  BY DEF UdpTypeOK
<1>2. CASE TakeDatagram(w)
  <2>1. CASE queue # <<>> /\ queue' = Tail(queue) /\ UWorkerAt(w, "lookup", Head(queue), NoSocket)
    <3>1. Head(queue) \in UClients /\ queue' \in Seq(UClients) /\ Len(queue') = Len(queue) - 1
      BY <1>1, <2>1
    <3>2. Len(queue') <= Cardinality(UWorkers)
      BY <1>1, <3>1, FS_CardinalityType, UdpAssumption DEF UdpAssumption
    <3>3. uworker' \in [UWorkers -> UWorkerState]
      BY <2>1, <3>1, UWorkerValues, UWorkerMoved
    <3> QED
      BY <1>1, <1>2, <3>1, <3>2, <3>3, UdpTypesFrom DEF TakeDatagram
  <2>2. CASE queue' = queue /\ UWorkerAt(w, "exited", NoClient, NoSocket)
    <3>1. uworker' \in [UWorkers -> UWorkerState]
      BY <2>2, UWorkerValues, UWorkerMoved
    <3> QED
      BY <1>1, <1>2, <2>2, <3>1, UdpTypesFrom DEF TakeDatagram
  <2> QED
    BY <1>2, <2>1, <2>2 DEF TakeDatagram
<1>3. CASE Lookup(w)
  <2>1. c \in UClients
    BY <1>1, <1>3, UWorkerFields DEF Lookup
  <2>2. uworker' \in [UWorkers -> UWorkerState]
    <3>1. CASE sessions[c] # NoSocket
      BY <1>1, <1>3, <2>1, <3>1, UWorkerValues, UWorkerMoved DEF Lookup
    <3>2. CASE sessions[c] = NoSocket
      BY <1>3, <2>1, <3>2, UWorkerValues, UWorkerMoved DEF Lookup
    <3> QED
      BY <3>1, <3>2
  <2> QED
    BY <1>1, <1>3, <2>2, UdpTypesFrom DEF Lookup
<1>4. CASE DialUDP(w)
  <2>1. c \in UClients
    BY <1>1, <1>4, UWorkerFields DEF DialUDP
  <2>2. CASE upstream' = upstream /\ Idle(w)
    BY <1>1, <1>4, <2>2, WorkerIdle, UdpTypesFrom DEF DialUDP
  <2>3. ASSUME NEW j \in Sockets, upstream' = [upstream EXCEPT ![j].state = "open"],
               UWorkerAt(w, "install", c, j)
        PROVE  UdpTypeOK'
    <3>1. upstream' \in [Sockets -> UpstreamState]
      BY <2>3, SocketSet
    <3>2. uworker' \in [UWorkers -> UWorkerState]
      BY <2>1, <2>3, UWorkerValues, UWorkerMoved
    <3> QED
      BY <1>1, <1>4, <3>1, <3>2, UdpTypesFrom DEF DialUDP
  <2> QED
    BY <1>4, <2>2, <2>3 DEF DialUDP
<1>5. CASE InstallLost(w)
  <2>1. c \in UClients /\ k \in Sockets
    BY <1>1, <1>5, UWorkerFields DEF InstallLost
  <2>2. upstream' \in [Sockets -> UpstreamState]
    BY <1>5, <2>1, SocketSet DEF InstallLost
  <2>3. uworker' \in [UWorkers -> UWorkerState]
    BY <1>1, <1>5, <2>1, UWorkerValues, UWorkerMoved DEF InstallLost
  <2> QED
    BY <1>1, <1>5, <2>2, <2>3, UdpTypesFrom DEF InstallLost
<1>6. CASE InstallRefused(w)
  <2>1. k \in Sockets
    BY <1>1, <1>6, UWorkerFields DEF InstallRefused
  <2>2. upstream' \in [Sockets -> UpstreamState]
    BY <1>6, <2>1, SocketSet DEF InstallRefused
  <2> QED
    BY <1>1, <1>6, <2>2, WorkerIdle, UdpTypesFrom DEF InstallRefused
<1>7. CASE InstallSession(w)
  <2>1. c \in UClients /\ k \in Sockets
    BY <1>1, <1>7, UWorkerFields DEF InstallSession
  <2>2. [state |-> "open", client |-> c, age |-> 0, reader |-> "running"] \in UpstreamState
    BY <2>1, UdpAssumption DEF UdpAssumption, UpstreamState
  <2>3. /\ upstream' \in [Sockets -> UpstreamState]
        /\ sessions' \in [UClients -> Sockets \cup {NoSocket}]
    BY <1>1, <1>7, <2>1, <2>2 DEF InstallSession
  <2>4. uworker' \in [UWorkers -> UWorkerState]
    BY <1>1, <1>7, <2>1, UWorkerValues, UWorkerMoved DEF InstallSession
  <2> QED
    BY <1>1, <1>7, <2>3, <2>4, UdpTypesFrom DEF InstallSession
<1>8. CASE Forward(w)
  <2>1. k \in Sockets
    BY <1>1, <1>8, UWorkerFields DEF Forward
  <2>2. upstream' \in [Sockets -> UpstreamState]
    BY <1>8, <2>1, SocketTouched DEF Forward
  <2> QED
    BY <1>1, <1>8, <2>2, WorkerIdle, UdpTypesFrom DEF Forward
<1> QED
  BY <1>2, <1>3, <1>4, <1>5, <1>6, <1>7, <1>8 DEF UWorkerStep

\* The clock: ages stay below the idle limit plus one.
LEMMA TickSets ==
    ASSUME UdpTypeOK, UdpTick
    PROVE  /\ upstream' \in [Sockets -> UpstreamState]
           /\ \A k \in Sockets : /\ upstream'[k].state = upstream[k].state
                                 /\ upstream'[k].client = upstream[k].client
<1>1. ASSUME NEW k \in Sockets
      PROVE  /\ upstream'[k] \in UpstreamState /\ upstream'[k].state = upstream[k].state
             /\ upstream'[k].client = upstream[k].client
  <2>1. upstream[k] \in UpstreamState
    BY DEF UdpTypeOK
  <2>2. upstream'[k] = [upstream[k] EXCEPT !.age =
                           IF InTable(k) /\ @ <= SessionIdle THEN @ + 1 ELSE @]
    BY DEF UdpTick
  <2> QED
    BY <2>1, <2>2, UdpAssumption DEF UdpAssumption, UpstreamState
<1> QED
  BY <1>1 DEF UdpTick

\* Close marks the sockets of the table closed.
LEMMA CloseSets ==
    ASSUME UdpTypeOK, UdpCloseSessions
    PROVE  /\ upstream' \in [Sockets -> UpstreamState]
           /\ \A k \in Sockets : IF InTable(k) THEN upstream'[k].state = "closed"
                                               ELSE upstream'[k] = upstream[k]
<1>1. ASSUME NEW k \in Sockets
      PROVE  /\ upstream'[k] \in UpstreamState
             /\ IF InTable(k) THEN upstream'[k].state = "closed"
                              ELSE upstream'[k] = upstream[k]
  <2>1. upstream[k] \in UpstreamState
    BY DEF UdpTypeOK
  <2> QED
    BY <2>1 DEF UdpCloseSessions, UpstreamState
<1> QED
  BY <1>1 DEF UdpCloseSessions

\* Every step keeps the types.
LEMMA UdpTypeStep == UdpTypeOK /\ WorkersOff /\ [UdpNext]_udpVars => UdpTypeOK'
<1> SUFFICES ASSUME UdpTypeOK, WorkersOff, [UdpNext]_udpVars PROVE UdpTypeOK'
  OBVIOUS
<1>1. CASE UdpStart
  <2>1. uworker' \in [UWorkers -> UWorkerState]
    BY <1>1, UWorkerFields DEF UdpStart, UdpTypeOK, WorkersOff
  <2> QED
    BY <1>1, <2>1 DEF UdpStart, UdpTypeOK
<1>2. ASSUME NEW c \in UClients, ReadDatagram(c) PROVE UdpTypeOK'
  BY <1>2, UdpAssumption DEF UdpAssumption, ReadDatagram, UdpTypeOK
<1>3. CASE Enqueue
  <2>1. Cardinality(UWorkers) \in Nat /\ Len(queue) \in Nat
    BY FS_CardinalityType, UdpAssumption DEF UdpAssumption, UdpTypeOK
  <2>2. queue' \in Seq(UClients) /\ Len(queue') <= Cardinality(UWorkers)
    <3>1. CASE queue' = queue
      BY <3>1 DEF UdpTypeOK
    <3>2. CASE ~QueueFull /\ queue' = Append(queue, udpServe)
      <4>1. queue \in Seq(UClients) /\ udpServe \in UClients /\ Len(queue) <= Cardinality(UWorkers)
        BY <1>3 DEF UdpTypeOK, Enqueue
      <4> QED
        BY <2>1, <3>2, <4>1 DEF QueueFull
    <3> QED
      BY <1>3, <3>1, <3>2 DEF Enqueue
  <2> QED
    BY <1>3, <2>2 DEF Enqueue, UdpTypeOK
<1>4. CASE ReceiveError \/ UdpReturn \/ UdpClose \/ SweeperStops
  BY <1>4 DEF ReceiveError, UdpReturn, UdpClose, SweeperStops, UdpTypeOK
<1>5. ASSUME NEW w \in UWorkers, UWorkerStep(w) PROVE UdpTypeOK'
  BY <1>5, UWorkerTypes
<1>6. ASSUME NEW k \in Sockets, Reply(k) PROVE UdpTypeOK'
  <2>1. upstream' \in [Sockets -> UpstreamState]
    BY <1>6, SocketTouched DEF Reply
  <2> QED
    BY <1>6, <2>1, UdpAssumption DEF UdpAssumption, Reply, UdpTypeOK
<1>7. ASSUME NEW k \in Sockets, ReaderEnds(k) PROVE UdpTypeOK'
  <2>1. upstream' \in [Sockets -> UpstreamState]
    BY <1>7, SocketTouched DEF ReaderEnds
  <2> QED
    BY <1>7, <2>1 DEF ReaderEnds, UdpTypeOK
<1>8. CASE SweepTable
  BY <1>8 DEF SweepTable, UdpTypeOK
<1>9. CASE SweepClose
  <2>1. PICK k \in expiring : /\ upstream' = [upstream EXCEPT ![k].state = "closed"]
                              /\ expiring' = expiring \ {k}
    BY <1>9 DEF SweepClose
  <2>2. upstream' \in [Sockets -> UpstreamState]
    BY <2>1, SocketSet DEF UdpTypeOK
  <2> QED
    BY <1>9, <2>1, <2>2 DEF SweepClose, UdpTypeOK
<1>10. CASE UdpTick
  BY <1>10, TickSets DEF UdpTick, UdpTypeOK
<1>11. CASE UdpCloseSessions
  BY <1>11, CloseSets DEF UdpCloseSessions, UdpTypeOK
<1>12. CASE UNCHANGED udpVars
  BY <1>12 DEF udpVars, UdpTypeOK
<1> QED
  BY <1>1, <1>2, <1>3, <1>4, <1>5, <1>6, <1>7, <1>8, <1>9, <1>10, <1>11, <1>12
     DEF UdpNext, UdpSystemStep

\* The workers are started once.
LEMMA WorkersOffStep == UdpTypeOK /\ WorkersOff /\ [UdpNext]_udpVars => WorkersOff'
<1> SUFFICES ASSUME UdpTypeOK, WorkersOff, [UdpNext]_udpVars, udpServe' = "start"
             PROVE  \A w \in UWorkers : uworker'[w].pc = "off"
  BY DEF WorkersOff
<1>1. udpServe = "start" /\ (uworker' = uworker \/ \E w \in UWorkers : UWorkerStep(w))
  BY UdpConstants DEF UdpNext, udpVars, UdpSystemStep, UdpStart, ReadDatagram, Enqueue,
     ReceiveError, UdpReturn, Reply, ReaderEnds, SweepTable, SweepClose, SweeperStops,
     UdpTick, UdpClose, UdpCloseSessions, UWorkerStep, TakeDatagram, Lookup, DialUDP,
     InstallLost, InstallRefused, InstallSession, Forward, WorkerUnchanged
<1>2. ASSUME NEW w \in UWorkers, UWorkerStep(w) PROVE FALSE
  BY <1>1, <1>2 DEF WorkersOff, UWorkerStep, TakeDatagram, Lookup, DialUDP, InstallLost,
     InstallRefused, InstallSession, Forward
<1> QED
  BY <1>1, <1>2 DEF WorkersOff

-----------------------------------------------------------------------------
(* Who owns a socket.                                                      *)

Ownership == TableHoldsLiveSessions /\ NoLeakedSocket /\ DialledPrivately /\ ExpiredLeftTable

\* A step that moves no session, closes no socket and leaves every dialled
\* socket in the same hands keeps the ownership.
LEMMA OwnershipFrame ==
    ASSUME UdpInv, UNCHANGED <<sessions, expiring>>,
           \A k \in Sockets : /\ upstream'[k].state = upstream[k].state
                              /\ upstream'[k].client = upstream[k].client,
           \A w \in UWorkers : /\ uworker'[w].pc = "install" <=> uworker[w].pc = "install"
                               /\ uworker[w].pc = "install" => uworker'[w].sock = uworker[w].sock
    PROVE  Ownership'
<1>1. \A k \in Sockets : InTable(k)' = InTable(k)
  BY DEF InTable
<1>2. TableHoldsLiveSessions'
  BY DEF UdpInv, UdpTypeOK, TableHoldsLiveSessions
<1>3. NoLeakedSocket'
  BY <1>1 DEF UdpInv, NoLeakedSocket
<1>4. \A w \in UWorkers : uworker[w].pc = "install" => uworker[w].sock \in Sockets
  BY UWorkerFields DEF UdpInv, UdpTypeOK
<1>5. DialledPrivately'
  BY <1>1, <1>4 DEF UdpInv, DialledPrivately
<1>6. ExpiredLeftTable'
  BY <1>1 DEF UdpInv, UdpTypeOK, ExpiredLeftTable
<1> QED
  BY <1>2, <1>3, <1>5, <1>6 DEF Ownership

\* The steps of a worker.
LEMMA OwnershipWorker ==
    ASSUME UdpInv, NEW w \in UWorkers, UWorkerStep(w)
    PROVE  Ownership'
<1> DEFINE c == uworker[w].client
           k == uworker[w].sock
<1>1. /\ UdpTypeOK /\ uworker \in [UWorkers -> UWorkerState] /\ uworker[w] \in UWorkerState
      /\ upstream \in [Sockets -> UpstreamState]
      /\ sessions \in [UClients -> Sockets \cup {NoSocket}]
  BY DEF UdpInv, UdpTypeOK
<1>2. \A v \in UWorkers : uworker[v].pc = "install" => uworker[v].sock \in Sockets
  BY <1>1, UWorkerFields
<1>3. UNCHANGED expiring
  BY DEF UWorkerStep, TakeDatagram, Lookup, DialUDP, InstallLost, InstallRefused,
     InstallSession, Forward, WorkerUnchanged
<1>4. CASE TakeDatagram(w)
  <2>1. /\ uworker'[w].pc # "install" /\ uworker[w].pc # "install"
        /\ \A v \in UWorkers \ {w} : uworker'[v] = uworker[v]
    BY <1>1, <1>4 DEF TakeDatagram, UWorkerAt
  <2> QED
    BY <1>3, <1>4, <2>1, OwnershipFrame DEF TakeDatagram
<1>5. CASE Lookup(w)
  <2>1. /\ uworker'[w].pc # "install" /\ uworker[w].pc # "install"
        /\ \A v \in UWorkers \ {w} : uworker'[v] = uworker[v]
    BY <1>1, <1>5 DEF Lookup, UWorkerAt
  <2> QED
    BY <1>3, <1>5, <2>1, OwnershipFrame DEF Lookup
<1>6. CASE Forward(w)
  <2>1. /\ uworker'[w].pc # "install" /\ uworker[w].pc # "install" /\ k \in Sockets
        /\ \A v \in UWorkers \ {w} : uworker'[v] = uworker[v]
    BY <1>1, <1>6, WorkerIdle, UWorkerFields DEF Forward
  <2>2. \A j \in Sockets : /\ upstream'[j].client = upstream[j].client
                           /\ upstream'[j].state = upstream[j].state
    BY <1>1, <1>6, <2>1, SocketTouched DEF Forward
  <2> QED
    BY <1>3, <1>6, <2>1, <2>2, OwnershipFrame DEF Forward
<1>7. CASE DialUDP(w)
  <2>1. CASE upstream' = upstream /\ Idle(w)
    <3>1. /\ uworker'[w].pc # "install" /\ uworker[w].pc # "install"
          /\ \A v \in UWorkers \ {w} : uworker'[v] = uworker[v]
      BY <1>1, <1>7, <2>1, WorkerIdle DEF DialUDP
    <3> QED
      BY <1>3, <1>7, <2>1, <3>1, OwnershipFrame DEF DialUDP
  <2>2. ASSUME NEW j \in Sockets, upstream[j].state = "unused",
               upstream' = [upstream EXCEPT ![j].state = "open"],
               UWorkerAt(w, "install", c, j)
        PROVE  Ownership'
    <3>1. c \in UClients /\ uworker[w].pc # "install" /\ UNCHANGED <<sessions, queue>>
      BY <1>1, <1>7, UWorkerFields DEF DialUDP
    <3>2. /\ uworker'[w].pc = "install" /\ uworker'[w].sock = j
          /\ \A v \in UWorkers \ {w} : uworker'[v] = uworker[v]
      <4>1. [pc |-> "install", client |-> c, sock |-> j] \in UWorkerState
        BY <3>1, UWorkerValues
      <4> QED
        BY <1>1, <2>2, <4>1, UWorkerMoved
    <3>3. /\ upstream'[j].state = "open"
          /\ \A i \in Sockets : upstream'[i].client = upstream[i].client
          /\ \A i \in Sockets \ {j} : upstream'[i].state = upstream[i].state
      BY <1>1, <2>2, SocketSet
    <3>4. ~InTable(j) /\ j \notin expiring
      BY <1>1, <2>2, UdpConstants
         DEF UdpInv, TableHoldsLiveSessions, InTable, ExpiredLeftTable
    <3>5. \A i \in Sockets : InTable(i)' = InTable(i)
      BY <3>1 DEF InTable
    <3>6. \A v \in UWorkers : uworker[v].pc = "install" => uworker[v].sock # j
      BY <2>2 DEF UdpInv, DialledPrivately
    <3>7. TableHoldsLiveSessions'
      BY <1>1, <3>1, <3>3, <3>4 DEF UdpInv, TableHoldsLiveSessions, InTable
    <3>8. NoLeakedSocket'
      BY <1>3, <3>1, <3>2, <3>3, <3>5 DEF UdpInv, NoLeakedSocket
    <3>9. DialledPrivately'
      BY <1>2, <1>3, <3>2, <3>3, <3>4, <3>5, <3>6 DEF UdpInv, DialledPrivately
    <3>10. ExpiredLeftTable'
      BY <1>1, <1>3, <3>3, <3>4, <3>5 DEF UdpInv, UdpTypeOK, ExpiredLeftTable
    <3> QED
      BY <3>7, <3>8, <3>9, <3>10 DEF Ownership
  <2> QED
    BY <1>7, <2>1, <2>2 DEF DialUDP
<1>8. CASE InstallLost(w) \/ InstallRefused(w)
  <2>1. /\ uworker[w].pc = "install" /\ UNCHANGED sessions
        /\ upstream' = [upstream EXCEPT ![k].state = "closed"]
    BY <1>8 DEF InstallLost, InstallRefused
  <2>2. c \in UClients /\ k \in Sockets
    BY <1>1, <2>1, UWorkerFields
  <2>3. uworker'[w].pc # "install" /\ \A v \in UWorkers \ {w} : uworker'[v] = uworker[v]
    BY <1>1, <1>8 DEF InstallLost, InstallRefused, Idle, UWorkerAt
  <2>4. /\ upstream'[k].state = "closed"
        /\ \A i \in Sockets : upstream'[i].client = upstream[i].client
        /\ \A i \in Sockets \ {k} : upstream'[i].state = upstream[i].state
    BY <1>1, <2>1, <2>2, SocketSet
  <2>5. \A i \in Sockets : InTable(i)' = InTable(i)
    BY <2>1 DEF InTable
  <2>6. /\ ~InTable(k) /\ k \notin expiring
        /\ \A v \in UWorkers \ {w} : uworker[v].pc = "install" => uworker[v].sock # k
    BY <2>1 DEF UdpInv, DialledPrivately
  <2>7. TableHoldsLiveSessions'
    BY <1>1, <2>1, <2>2, <2>4, <2>6 DEF UdpInv, TableHoldsLiveSessions, InTable
  <2>8. NoLeakedSocket'
    BY <1>3, <2>2, <2>3, <2>4, <2>5 DEF UdpInv, NoLeakedSocket
  <2>9. DialledPrivately'
    BY <1>2, <1>3, <2>2, <2>3, <2>4, <2>5, <2>6 DEF UdpInv, DialledPrivately
  <2>10. ExpiredLeftTable'
    BY <1>1, <1>3, <2>4, <2>5, <2>6 DEF UdpInv, UdpTypeOK, ExpiredLeftTable
  <2> QED
    BY <2>7, <2>8, <2>9, <2>10 DEF Ownership
<1>9. CASE InstallSession(w)
  <2>1. uworker[w].pc = "install" /\ c \in UClients /\ k \in Sockets /\ sessions[c] = NoSocket
    BY <1>1, <1>9, UWorkerFields DEF InstallSession
  <2>2. uworker'[w].pc # "install" /\ \A v \in UWorkers \ {w} : uworker'[v] = uworker[v]
    BY <1>1, <1>9 DEF InstallSession, UWorkerAt
  <2>3. /\ upstream'[k].state = "open" /\ upstream'[k].client = c
        /\ \A i \in Sockets \ {k} : upstream'[i] = upstream[i]
    BY <1>1, <1>9, <2>1 DEF InstallSession
  <2>4. sessions'[c] = k /\ \A d \in UClients \ {c} : sessions'[d] = sessions[d]
    BY <1>1, <1>9, <2>1 DEF InstallSession
  <2>5. \A i \in Sockets : InTable(i)' <=> InTable(i) \/ i = k
    BY <2>1, <2>4, UdpConstants DEF InTable
  <2>6. /\ ~InTable(k) /\ k \notin expiring
        /\ \A v \in UWorkers \ {w} : uworker[v].pc = "install" => uworker[v].sock # k
    BY <2>1 DEF UdpInv, DialledPrivately
  <2>7. TableHoldsLiveSessions'
    BY <1>1, <2>1, <2>3, <2>4, <2>6 DEF UdpInv, TableHoldsLiveSessions, InTable
  <2>8. NoLeakedSocket'
    BY <1>3, <2>1, <2>2, <2>3, <2>5 DEF UdpInv, NoLeakedSocket
  <2>9. DialledPrivately'
    BY <1>2, <1>3, <2>1, <2>2, <2>3, <2>5, <2>6 DEF UdpInv, DialledPrivately
  <2>10. ExpiredLeftTable'
    BY <1>1, <1>3, <2>3, <2>5, <2>6 DEF UdpInv, UdpTypeOK, ExpiredLeftTable
  <2> QED
    BY <2>7, <2>8, <2>9, <2>10 DEF Ownership
<1> QED
  BY <1>4, <1>5, <1>6, <1>7, <1>8, <1>9 DEF UWorkerStep

\* Every step keeps the ownership.
LEMMA OwnershipStep == UdpInv /\ [UdpNext]_udpVars => Ownership'
<1> SUFFICES ASSUME UdpInv, [UdpNext]_udpVars PROVE Ownership'
  OBVIOUS
<1>1. /\ UdpTypeOK /\ uworker \in [UWorkers -> UWorkerState]
      /\ upstream \in [Sockets -> UpstreamState]
      /\ sessions \in [UClients -> Sockets \cup {NoSocket}] /\ expiring \subseteq Sockets
  BY DEF UdpInv, UdpTypeOK
<1>2. \A v \in UWorkers : uworker[v].pc = "install" => uworker[v].sock \in Sockets
  BY <1>1, UWorkerFields
<1>3. CASE UdpStart
  <2>1. ASSUME NEW w \in UWorkers
        PROVE  uworker[w].pc # "install" /\ uworker'[w].pc # "install"
    <3>1. uworker[w] \in UWorkerState /\ uworker[w].pc = "off"
      BY <1>1, <1>3 DEF UdpStart, UdpInv, WorkersOff
    <3>2. uworker'[w] = [uworker[w] EXCEPT !.pc = "receive"]
      BY <1>3 DEF UdpStart
    <3> QED
      BY <3>1, <3>2 DEF UWorkerState
  <2> QED
    BY <1>3, <2>1, OwnershipFrame DEF UdpStart
<1>4. CASE UNCHANGED <<sessions, expiring, upstream, uworker>>
  BY <1>4, OwnershipFrame
<1>5. ASSUME NEW w \in UWorkers, UWorkerStep(w) PROVE Ownership'
  BY <1>5, OwnershipWorker
<1>6. ASSUME NEW k \in Sockets, Reply(k) \/ ReaderEnds(k) PROVE Ownership'
  BY <1>1, <1>6, SocketTouched, OwnershipFrame DEF Reply, ReaderEnds
<1>7. CASE UdpTick
  BY <1>1, <1>7, TickSets, OwnershipFrame DEF UdpTick
<1>8. CASE SweepTable
  <2>1. UNCHANGED <<upstream, uworker>> /\ expiring = {} /\ expiring' = {k \in Sockets : Expired(k)}
    BY <1>8 DEF SweepTable
  <2>2. \A c \in UClients :
           sessions'[c] = IF sessions[c] \in expiring' THEN NoSocket ELSE sessions[c]
    BY <1>8 DEF SweepTable
  <2>3. \A k \in Sockets : InTable(k)' <=> InTable(k) /\ k \notin expiring'
    BY <2>2, UdpConstants DEF InTable
  <2>4. \A k \in expiring' : k \in Sockets /\ InTable(k)
    BY <2>1 DEF Expired
  <2>5. TableHoldsLiveSessions'
    BY <2>1, <2>2 DEF UdpInv, TableHoldsLiveSessions
  <2>6. NoLeakedSocket'
    BY <2>1, <2>3 DEF UdpInv, NoLeakedSocket
  <2>7. DialledPrivately'
    BY <1>2, <2>1, <2>3, <2>4 DEF UdpInv, DialledPrivately
  <2>8. ExpiredLeftTable'
    BY <1>1, <2>1, <2>3, <2>4, UdpConstants
       DEF UdpInv, ExpiredLeftTable, TableHoldsLiveSessions, InTable
  <2> QED
    BY <2>5, <2>6, <2>7, <2>8 DEF Ownership
<1>9. CASE SweepClose
  <2>1. PICK k \in expiring : /\ upstream' = [upstream EXCEPT ![k].state = "closed"]
                              /\ expiring' = expiring \ {k}
    BY <1>9 DEF SweepClose
  <2>2. k \in Sockets /\ UNCHANGED <<sessions, uworker>> /\ ~InTable(k)
    BY <1>1, <1>9, <2>1 DEF SweepClose, UdpInv, ExpiredLeftTable
  <2>3. /\ upstream'[k].state = "closed"
        /\ \A i \in Sockets : upstream'[i].client = upstream[i].client
        /\ \A i \in Sockets \ {k} : upstream'[i].state = upstream[i].state
    BY <1>1, <2>1, <2>2, SocketSet
  <2>4. \A i \in Sockets : InTable(i)' = InTable(i)
    BY <2>2 DEF InTable
  <2>5. TableHoldsLiveSessions'
    BY <1>1, <2>2, <2>3 DEF UdpInv, TableHoldsLiveSessions, InTable
  <2>6. NoLeakedSocket'
    BY <2>1, <2>2, <2>3, <2>4 DEF UdpInv, NoLeakedSocket
  <2>7. DialledPrivately'
    BY <1>2, <2>1, <2>2, <2>3, <2>4 DEF UdpInv, DialledPrivately
  <2>8. ExpiredLeftTable'
    BY <1>1, <2>1, <2>3, <2>4 DEF UdpInv, ExpiredLeftTable
  <2> QED
    BY <2>5, <2>6, <2>7, <2>8 DEF Ownership
<1>10. CASE UdpCloseSessions
  <2>1. UNCHANGED <<uworker, expiring>> /\ \A c \in UClients : sessions'[c] = NoSocket
    BY <1>10 DEF UdpCloseSessions
  <2>2. \A k \in Sockets : IF InTable(k) THEN upstream'[k].state = "closed"
                                         ELSE upstream'[k] = upstream[k]
    BY <1>1, <1>10, CloseSets
  <2>3. \A k \in Sockets : ~InTable(k)'
    BY <2>1, UdpConstants DEF InTable
  <2>4. TableHoldsLiveSessions'
    BY <2>1 DEF TableHoldsLiveSessions
  <2>5. NoLeakedSocket'
    BY <2>1, <2>2 DEF UdpInv, NoLeakedSocket
  <2>6. DialledPrivately'
    BY <1>2, <2>1, <2>2, <2>3 DEF UdpInv, DialledPrivately
  <2>7. ExpiredLeftTable'
    BY <1>1, <2>1, <2>2, <2>3 DEF UdpInv, ExpiredLeftTable
  <2> QED
    BY <2>4, <2>5, <2>6, <2>7 DEF Ownership
<1> QED
  BY <1>3, <1>4, <1>5, <1>6, <1>7, <1>8, <1>9, <1>10
     DEF UdpNext, UdpSystemStep, udpVars, ReadDatagram, Enqueue, ReceiveError, UdpReturn,
         SweeperStops, UdpClose

\* A proxy that NewUDPProxy has just returned satisfies the invariant.
LEMMA UdpInvInit == UdpInit => UdpInv
<1> SUFFICES ASSUME UdpInit PROVE UdpInv
  OBVIOUS
<1>1. UdpTypeOK
  <2>1. uworker \in [UWorkers -> UWorkerState]
    BY UWorkerValues DEF UdpInit
  <2>2. upstream \in [Sockets -> UpstreamState]
    BY UdpAssumption DEF UdpAssumption, UdpInit, UpstreamState
  <2>3. queue \in Seq(UClients) /\ Len(queue) <= Cardinality(UWorkers)
    BY FS_CardinalityType, UdpAssumption DEF UdpAssumption, UdpInit
  <2> QED
    BY <2>1, <2>2, <2>3, UdpAssumption DEF UdpAssumption, UdpInit, UdpTypeOK
<1>2. WorkersOff /\ DialledPrivately
  BY DEF UdpInit, WorkersOff, DialledPrivately
<1>3. TableHoldsLiveSessions /\ NoLeakedSocket /\ ExpiredLeftTable
  BY DEF UdpInit, TableHoldsLiveSessions, NoLeakedSocket, ExpiredLeftTable
<1> QED
  BY <1>1, <1>2, <1>3 DEF UdpInv

\* The invariant of the UDP proxy is inductive.
LEMMA UdpInvStep == UdpInv /\ [UdpNext]_udpVars => UdpInv'
BY UdpTypeStep, WorkersOffStep, OwnershipStep DEF UdpInv, Ownership

-----------------------------------------------------------------------------
(* The TCP proxy.                                                          *)

\* From the add in Serve to the decrement of its deferred function, a handler
\* occupies one of the maxConnections slots.
Slotted == {"register", "dial", "registerUp", "relay", "unregister", "exit", "decrement"}

Occupied == {c \in Conns : handler[c].pc \in Slotted}

\* p.activeConns counts them, and Serve holds the connection it has accepted.
SlotsCounted ==
    /\ activeConns = Cardinality(Occupied)
    /\ \A c \in Conns : handler[c].pc = "accepted" <=> serving = c

Live(c, s) == handler[c].sock[s] \in {"open", "reset"}

\* A socket is open only between its Accept or Dial and its Close, and it is
\* registered wherever Close must find it.
LiveRegistered ==
    \A c \in Conns :
        /\ Live(c, "client") =>
              /\ handler[c].pc \notin {"none", "refused", "decrement", "done"}
              /\ handler[c].pc \in {"dial", "registerUp", "relay", "unregister"} =>
                    <<c, "client">> \in connSet
        /\ Live(c, "upstream") =>
              /\ handler[c].pc \in {"registerUp", "relay"}
              /\ handler[c].pc = "relay" => <<c, "upstream">> \in connSet

\* Close closes p.closed before it sweeps, and nothing registers afterwards.
CloseOrder ==
    /\ tcpClosed <=> tcpCloser # "idle"
    /\ tcpCloser = "done" => connSet = {}

\* Where the bytes of one direction are: sent, not yet read, and given to the
\* other end; in between they are in the buffer of copyDirection.  The other
\* end hears of the FIN only when nothing is in between any more.
InFlight(x, p, q) ==
    /\ p.pending <= p.sent
    /\ x.pc \in {"top", "read"} => p.sent - p.pending = q.got
    /\ x.pc = "write" /\ x.eof => p.fin /\ p.pending = 0
    /\ q.finGot => p.fin /\ p.pending = 0 /\ q.got = p.sent /\ x.pc = "stopped"

BytesAccounted ==
    \A c \in Conns, s \in Sides :
        InFlight(handler[c].copy[s], peer[c][s], peer[c][Other(s)])

TcpInv ==
    /\ TcpTypeOK /\ SlotsCounted /\ LiveRegistered /\ CloseOrder /\ BytesAccounted

\* What a step does to one handler: the others stay as they are.
HandlerTo(c, pc, cl, up, copy) ==
    /\ handler' \in [Conns -> HandlerState]
    /\ handler'[c].pc = pc /\ handler'[c].copy = copy
    /\ handler'[c].sock["client"] = cl /\ handler'[c].sock["upstream"] = up
    /\ \A d \in Conns \ {c} : handler'[d] = handler[d]

\* The new value of one handler determines the step.
LEMMA HandlerSet ==
    ASSUME TcpTypeOK, NEW c \in Conns, NEW h \in HandlerState,
           handler' = [handler EXCEPT ![c] = h]
    PROVE  HandlerTo(c, h.pc, h.sock["client"], h.sock["upstream"], h.copy)
BY DEF TcpTypeOK, HandlerTo

\* handleConn moves on without touching a socket or a direction.
LEMMA HandlerGoes ==
    ASSUME TcpTypeOK, NEW c \in Conns, NEW pc \in HandlerPC,
           handler' = [handler EXCEPT ![c].pc = pc]
    PROVE  HandlerTo(c, pc, handler[c].sock["client"], handler[c].sock["upstream"],
                     handler[c].copy)
<1> DEFINE h == [handler[c] EXCEPT !.pc = pc]
<1>1. handler[c] \in HandlerState /\ handler' = [handler EXCEPT ![c] = h]
  BY DEF TcpTypeOK
<1>2. h \in HandlerState /\ h.pc = pc /\ h.sock = handler[c].sock /\ h.copy = handler[c].copy
  BY <1>1 DEF HandlerState
<1> HIDE DEF h
<1> QED
  BY <1>1, <1>2, HandlerSet

\* handleConn, or Serve, opens or closes one socket and moves on.
LEMMA HandlerGoesWith ==
    ASSUME TcpTypeOK, NEW c \in Conns, NEW pc \in HandlerPC, NEW s \in Sides,
           NEW x \in SocketState,
           handler' = [handler EXCEPT ![c].pc = pc, ![c].sock[s] = x]
    PROVE  HandlerTo(c, pc, IF s = "client" THEN x ELSE handler[c].sock["client"],
                            IF s = "upstream" THEN x ELSE handler[c].sock["upstream"],
                     handler[c].copy)
<1> DEFINE k == [handler[c].sock EXCEPT ![s] = x]
           h == [handler[c] EXCEPT !.pc = pc, !.sock = k]
<1>1. handler[c] \in HandlerState /\ handler' = [handler EXCEPT ![c] = h]
  BY DEF TcpTypeOK
<1>2. /\ k \in [Sides -> SocketState]
      /\ k["client"] = IF s = "client" THEN x ELSE handler[c].sock["client"]
      /\ k["upstream"] = IF s = "upstream" THEN x ELSE handler[c].sock["upstream"]
  BY <1>1 DEF HandlerState, Sides
<1> HIDE DEF k
<1>3. h \in HandlerState /\ h.pc = pc /\ h.sock = k /\ h.copy = handler[c].copy
  BY <1>1, <1>2 DEF HandlerState
<1> HIDE DEF h
<1>4. HandlerTo(c, h.pc, h.sock["client"], h.sock["upstream"], h.copy)
  BY <1>1, <1>3, HandlerSet
<1> QED
  BY <1>2, <1>3, <1>4

\* The two sides, and what the other side of each is.
LEMMA SidesFacts ==
    /\ "client" \in Sides /\ "upstream" \in Sides /\ \A s \in Sides : s \in {"client", "upstream"}
    /\ \A s \in Sides : Other(s) \in Sides /\ Other(s) # s /\ Other(Other(s)) = s
    /\ \A s, t \in Sides : t # s => t = Other(s)
BY DEF Sides, Other

\* A set of connections is finite, and so is the set of occupied slots.
LEMMA OccupiedFinite == IsFiniteSet(Occupied) /\ Cardinality(Occupied) \in Nat
<1>1. IsFiniteSet(Occupied)
  BY FS_Subset, TcpAssumption DEF TcpAssumption, Occupied
<1> QED
  BY <1>1, FS_CardinalityType

\* A step of one connection that neither takes nor gives back a slot.
LEMMA SlotsKeep ==
    ASSUME TcpInv, NEW c \in Conns, NEW pc, NEW cl, NEW up, NEW copy,
           HandlerTo(c, pc, cl, up, copy),
           pc \in Slotted <=> handler[c].pc \in Slotted, activeConns' = activeConns,
           pc = "accepted" <=> serving' = c,
           \A d \in Conns \ {c} : serving' = d <=> serving = d
    PROVE  SlotsCounted'
<1>1. \A d \in Conns : handler'[d].pc \in Slotted <=> handler[d].pc \in Slotted
  BY DEF HandlerTo
<1>2. Occupied' = Occupied
  BY <1>1 DEF Occupied
<1> QED
  BY <1>2 DEF TcpInv, SlotsCounted, HandlerTo

\* The sockets of the other connections stay open, and registered.
LEMMA LiveFrom ==
    ASSUME TcpInv, NEW c \in Conns, NEW pc, NEW cl, NEW up, NEW copy,
           HandlerTo(c, pc, cl, up, copy),
           \A d \in Conns \ {c}, s \in Sides : <<d, s>> \in connSet => <<d, s>> \in connSet',
           cl \in {"open", "reset"} =>
              /\ pc \notin {"none", "refused", "decrement", "done"}
              /\ pc \in {"dial", "registerUp", "relay", "unregister"} =>
                    <<c, "client">> \in connSet',
           up \in {"open", "reset"} =>
              /\ pc \in {"registerUp", "relay"}
              /\ pc = "relay" => <<c, "upstream">> \in connSet'
    PROVE  LiveRegistered'
<1> SUFFICES ASSUME NEW d \in Conns
             PROVE  /\ Live(d, "client")' =>
                          /\ handler'[d].pc \notin {"none", "refused", "decrement", "done"}
                          /\ handler'[d].pc \in {"dial", "registerUp", "relay", "unregister"} =>
                                <<d, "client">> \in connSet'
                    /\ Live(d, "upstream")' =>
                          /\ handler'[d].pc \in {"registerUp", "relay"}
                          /\ handler'[d].pc = "relay" => <<d, "upstream">> \in connSet'
  BY DEF LiveRegistered
<1>1. CASE d = c
  BY <1>1 DEF HandlerTo, Live
<1>2. CASE d # c
  BY <1>2, SidesFacts DEF HandlerTo, Live, TcpInv, LiveRegistered
<1> QED
  BY <1>1, <1>2

\* A step that leaves every direction and every peer alone moves no bytes.
LEMMA BytesKeep ==
    ASSUME TcpInv, NEW c \in Conns, NEW pc, NEW cl, NEW up,
           HandlerTo(c, pc, cl, up, handler[c].copy), peer' = peer
    PROVE  BytesAccounted'
BY DEF HandlerTo, TcpInv, BytesAccounted

\* Bytes of one relay only.
LEMMA BytesFrom ==
    ASSUME TcpInv, NEW c \in Conns, NEW pc, NEW cl, NEW up, NEW copy,
           HandlerTo(c, pc, cl, up, copy), \A d \in Conns \ {c} : peer'[d] = peer[d],
           \A s \in Sides : InFlight(copy[s], peer'[c][s], peer'[c][Other(s)])
    PROVE  BytesAccounted'
BY DEF HandlerTo, TcpInv, BytesAccounted

\* The rest of the state is typed when the parts that a step changes are.
LEMMA TcpTypesFrom ==
    ASSUME TcpInv, NEW c \in Conns, NEW pc, NEW cl, NEW up, NEW copy,
           HandlerTo(c, pc, cl, up, copy),
           UNCHANGED <<tcpClosed, listening, tcpCloser>>,
           serving' \in Conns \cup {"start", "accept", "returned"},
           activeConns' \in 0..MaxConnections, connSet' \in SUBSET (Conns \X Sides),
           peer' \in [Conns -> [Sides -> PeerState]]
    PROVE  TcpTypeOK'
BY DEF TcpInv, TcpTypeOK, HandlerTo

-----------------------------------------------------------------------------
(* The steps of Serve and of handleConn.                                   *)

\* What TcpTypeOK says, and the string constants Serve is at.
LEMMA TcpShape ==
    ASSUME TcpInv
    PROVE  /\ TcpTypeOK
           /\ handler \in [Conns -> HandlerState] /\ peer \in [Conns -> [Sides -> PeerState]]
           /\ connSet \in SUBSET (Conns \X Sides) /\ activeConns \in 0..MaxConnections
           /\ serving \in Conns \cup {"start", "accept", "returned"}
           /\ "start" \notin Conns /\ "accept" \notin Conns /\ "returned" \notin Conns
           /\ MaxConnections \in Nat
BY TcpAssumption DEF TcpAssumption, TcpInv, TcpTypeOK

\* Serve without a connection in hand.
LEMMA ServeMoves ==
    ASSUME TcpInv, TcpSetListener \/ TcpAcceptError
    PROVE  TcpInv'
<1>1. serving \notin Conns /\ serving' \notin Conns /\ serving' \in {"accept", "returned"}
  BY TcpShape DEF TcpSetListener, TcpAcceptError
<1>2. UNCHANGED <<tcpClosed, listening, activeConns, connSet, handler, peer, tcpCloser>>
  BY DEF TcpSetListener, TcpAcceptError
<1>3. TcpTypeOK'
  BY <1>1, <1>2 DEF TcpInv, TcpTypeOK
<1>4. SlotsCounted'
  BY <1>1, <1>2 DEF TcpInv, SlotsCounted, Occupied
<1>5. LiveRegistered' /\ CloseOrder' /\ BytesAccounted'
  BY <1>2 DEF TcpInv, LiveRegistered, Live, CloseOrder, BytesAccounted
<1> QED
  BY <1>3, <1>4, <1>5 DEF TcpInv

\* Accept.
LEMMA AcceptKeeps ==
    ASSUME TcpInv, NEW c \in Conns, TcpAccept(c)
    PROVE  TcpInv'
<1>1. HandlerTo(c, "accepted", "open", handler[c].sock["upstream"], handler[c].copy)
  BY HandlerGoesWith, SidesFacts, TcpShape DEF TcpAccept, HandlerPC, SocketState
<1>2. /\ serving = "accept" /\ serving' = c /\ handler[c].pc = "none"
      /\ UNCHANGED <<tcpClosed, listening, activeConns, connSet, peer, tcpCloser>>
  BY DEF TcpAccept
<1>3. TcpTypeOK'
  BY <1>1, <1>2, TcpShape, TcpTypesFrom
<1>4. SlotsCounted'
  BY <1>1, <1>2, TcpShape, SlotsKeep DEF Slotted
<1>5. handler[c].sock["upstream"] \notin {"open", "reset"}
  BY <1>2 DEF TcpInv, LiveRegistered, Live
<1>6. LiveRegistered'
  BY <1>1, <1>2, <1>5, LiveFrom
<1>7. CloseOrder' /\ BytesAccounted'
  BY <1>1, <1>2, BytesKeep DEF TcpInv, CloseOrder
<1> QED
  BY <1>3, <1>4, <1>6, <1>7 DEF TcpInv

\* The limit: a refused connection is closed, an admitted one takes a slot.
LEMMA AdmitKeeps ==
    ASSUME TcpInv, TcpAdmit
    PROVE  TcpInv'
<1> DEFINE c == serving
<1>1. /\ c \in Conns /\ handler[c].pc = "accepted" /\ serving' = "accept"
      /\ UNCHANGED <<tcpClosed, listening, connSet, peer, tcpCloser>>
  BY DEF TcpAdmit, TcpInv, SlotsCounted
<1>2. handler[c].sock["upstream"] \notin {"open", "reset"}
  BY <1>1 DEF TcpInv, LiveRegistered, Live
<1>3. CASE activeConns >= MaxConnections
  <2>1. HandlerTo(c, "refused", "closed", handler[c].sock["upstream"], handler[c].copy)
    BY <1>1, <1>3, HandlerGoesWith, SidesFacts, TcpShape DEF TcpAdmit, HandlerPC, SocketState
  <2>2. activeConns' = activeConns
    BY <1>3 DEF TcpAdmit
  <2>3. TcpTypeOK'
    BY <1>1, <2>1, <2>2, TcpShape, TcpTypesFrom
  <2>4. SlotsCounted'
    BY <1>1, <2>1, <2>2, TcpShape, SlotsKeep DEF Slotted
  <2>5. LiveRegistered'
    BY <1>1, <1>2, <2>1, LiveFrom
  <2>6. CloseOrder' /\ BytesAccounted'
    BY <1>1, <2>1, BytesKeep DEF TcpInv, CloseOrder
  <2> QED
    BY <2>3, <2>4, <2>5, <2>6 DEF TcpInv
<1>4. CASE ~(activeConns >= MaxConnections)
  <2>1. HandlerTo(c, "register", handler[c].sock["client"], handler[c].sock["upstream"],
                  handler[c].copy)
    BY <1>1, <1>4, HandlerGoes, TcpShape DEF TcpAdmit, HandlerPC
  <2>2. activeConns' = activeConns + 1 /\ activeConns' \in 0..MaxConnections
    BY <1>4, TcpShape DEF TcpAdmit
  <2>3. TcpTypeOK'
    BY <1>1, <2>1, <2>2, TcpShape, TcpTypesFrom
  <2>4. SlotsCounted'
    <3>1. Occupied' = Occupied \cup {c} /\ c \notin Occupied
      BY <1>1, <2>1 DEF Occupied, Slotted, HandlerTo
    <3>2. Cardinality(Occupied') = Cardinality(Occupied) + 1
      BY <3>1, OccupiedFinite, FS_AddElement
    <3>3. \A d \in Conns : handler'[d].pc = "accepted" <=> serving' = d
      BY <1>1, <2>1, TcpShape DEF HandlerTo, TcpInv, SlotsCounted
    <3> QED
      BY <2>2, <3>2, <3>3 DEF TcpInv, SlotsCounted
  <2>5. LiveRegistered'
    BY <1>1, <1>2, <2>1, LiveFrom
  <2>6. CloseOrder' /\ BytesAccounted'
    BY <1>1, <2>1, BytesKeep DEF TcpInv, CloseOrder
  <2> QED
    BY <2>3, <2>4, <2>5, <2>6 DEF TcpInv
<1> QED
  BY <1>3, <1>4

\* handleConn between two points where it occupies its slot.
LEMMA HandlerKeeps ==
    ASSUME TcpInv, NEW c \in Conns, NEW pc \in Slotted, NEW cl, NEW up,
           HandlerTo(c, pc, cl, up, handler[c].copy), handler[c].pc \in Slotted,
           UNCHANGED <<tcpClosed, listening, serving, activeConns, peer, tcpCloser>>,
           connSet' \in SUBSET (Conns \X Sides), tcpCloser = "done" => connSet' = {},
           \A d \in Conns \ {c}, s \in Sides : <<d, s>> \in connSet => <<d, s>> \in connSet',
           cl \in {"open", "reset"} =>
              /\ pc # "decrement"
              /\ pc \in {"dial", "registerUp", "relay", "unregister"} =>
                    <<c, "client">> \in connSet',
           up \in {"open", "reset"} =>
              /\ pc \in {"registerUp", "relay"}
              /\ pc = "relay" => <<c, "upstream">> \in connSet'
    PROVE  TcpInv'
<1>1. TcpTypeOK'
  BY TcpShape, TcpTypesFrom
<1>2. serving # c /\ pc # "accepted" /\ pc \notin {"none", "refused", "done"}
  BY DEF TcpInv, SlotsCounted, Slotted
<1>3. SlotsCounted'
  BY <1>2, SlotsKeep
<1>4. LiveRegistered'
  BY <1>2, LiveFrom
<1>5. CloseOrder' /\ BytesAccounted'
  BY BytesKeep DEF TcpInv, CloseOrder
<1> QED
  BY <1>1, <1>3, <1>4, <1>5 DEF TcpInv

\* registerConn, of either side.
LEMMA RegisterKeeps ==
    ASSUME TcpInv, NEW c \in Conns, RegisterClient(c) \/ RegisterUpstream(c)
    PROVE  TcpInv'
<1> DEFINE cl == handler[c].sock["client"]
           up == handler[c].sock["upstream"]
<1>1. TcpTypeOK /\ (tcpClosed <=> tcpCloser # "idle") /\ connSet \in SUBSET (Conns \X Sides)
      /\ UNCHANGED <<tcpClosed, listening, serving, activeConns, peer, tcpCloser>>
      /\ (tcpCloser = "done" => connSet = {})
  BY TcpShape DEF TcpInv, CloseOrder, RegisterClient, RegisterUpstream
<1>2. CASE RegisterClient(c)
  <2>1. handler[c].pc = "register" /\ up \notin {"open", "reset"}
    BY <1>2 DEF RegisterClient, TcpInv, LiveRegistered, Live
  <2>2. CASE tcpClosed
    <3>1. HandlerTo(c, "exit", "closed", up, handler[c].copy) /\ connSet' = connSet
      BY <1>1, <1>2, <2>2, HandlerGoesWith, SidesFacts
         DEF RegisterClient, RegisterConn, HandlerPC, SocketState
    <3> QED
      BY <1>1, <2>1, <3>1, HandlerKeeps DEF Slotted
  <2>3. CASE ~tcpClosed
    <3>1. HandlerTo(c, "dial", cl, up, handler[c].copy)
      BY <1>1, <1>2, <2>3, HandlerGoes DEF RegisterClient, RegisterConn, HandlerPC
    <3>2. connSet' = connSet \cup {<<c, "client">>} /\ connSet' \in SUBSET (Conns \X Sides)
      BY <1>1, <1>2, <2>3, SidesFacts DEF RegisterClient, RegisterConn
    <3> QED
      BY <1>1, <2>1, <2>3, <3>1, <3>2, HandlerKeeps DEF Slotted
  <2> QED
    BY <2>2, <2>3
<1>3. CASE RegisterUpstream(c)
  <2>1. /\ handler[c].pc = "registerUp"
        /\ cl \in {"open", "reset"} => <<c, "client">> \in connSet
    BY <1>3 DEF RegisterUpstream, TcpInv, LiveRegistered, Live
  <2>2. CASE tcpClosed
    <3>1. HandlerTo(c, "unregister", cl, "closed", handler[c].copy) /\ connSet' = connSet
      BY <1>1, <1>3, <2>2, HandlerGoesWith, SidesFacts
         DEF RegisterUpstream, RegisterConn, HandlerPC, SocketState
    <3> QED
      BY <1>1, <2>1, <3>1, HandlerKeeps DEF Slotted
  <2>3. CASE ~tcpClosed
    <3>1. HandlerTo(c, "relay", cl, up, handler[c].copy)
      BY <1>1, <1>3, <2>3, HandlerGoes DEF RegisterUpstream, RegisterConn, HandlerPC
    <3>2. connSet' = connSet \cup {<<c, "upstream">>} /\ connSet' \in SUBSET (Conns \X Sides)
      BY <1>1, <1>3, <2>3, SidesFacts DEF RegisterUpstream, RegisterConn
    <3> QED
      BY <1>1, <2>1, <2>3, <3>1, <3>2, HandlerKeeps DEF Slotted
  <2> QED
    BY <2>2, <2>3
<1> QED
  BY <1>2, <1>3

\* The dial, and the deferred functions up to the close of the client.
LEMMA DialKeeps ==
    ASSUME TcpInv, NEW c \in Conns, Dial(c) \/ UnregisterClient(c) \/ CloseClient(c)
    PROVE  TcpInv'
<1> DEFINE cl == handler[c].sock["client"]
           up == handler[c].sock["upstream"]
<1>1. TcpTypeOK /\ connSet \in SUBSET (Conns \X Sides) /\ (tcpCloser = "done" => connSet = {})
      /\ UNCHANGED <<tcpClosed, listening, serving, activeConns, peer, tcpCloser>>
  BY TcpShape DEF TcpInv, CloseOrder, Dial, UnregisterClient, CloseClient
<1>2. CASE Dial(c)
  <2>1. /\ handler[c].pc = "dial" /\ up \notin {"open", "reset"} /\ connSet' = connSet
        /\ cl \in {"open", "reset"} => <<c, "client">> \in connSet
    BY <1>2 DEF Dial, TcpInv, LiveRegistered, Live
  <2>2. CASE handler' = [handler EXCEPT ![c].pc = "registerUp", ![c].sock["upstream"] = "open"]
    <3>1. HandlerTo(c, "registerUp", cl, "open", handler[c].copy)
      BY <1>1, <2>2, HandlerGoesWith, SidesFacts DEF HandlerPC, SocketState
    <3> QED
      BY <1>1, <2>1, <3>1, HandlerKeeps DEF Slotted
  <2>3. CASE handler' = [handler EXCEPT ![c].pc = "unregister"]
    <3>1. HandlerTo(c, "unregister", cl, up, handler[c].copy)
      BY <1>1, <2>3, HandlerGoes DEF HandlerPC
    <3> QED
      BY <1>1, <2>1, <3>1, HandlerKeeps DEF Slotted
  <2> QED
    BY <1>2, <2>2, <2>3 DEF Dial
<1>3. CASE UnregisterClient(c)
  <2>1. handler[c].pc = "unregister" /\ up \notin {"open", "reset"}
    BY <1>3 DEF UnregisterClient, TcpInv, LiveRegistered, Live
  <2>2. HandlerTo(c, "exit", cl, up, handler[c].copy) /\ connSet' = connSet \ {<<c, "client">>}
    BY <1>1, <1>3, HandlerGoes DEF UnregisterClient, HandlerPC
  <2> QED
    BY <1>1, <2>1, <2>2, HandlerKeeps DEF Slotted
<1>4. CASE CloseClient(c)
  <2>1. handler[c].pc = "exit" /\ up \notin {"open", "reset"} /\ connSet' = connSet
    BY <1>4 DEF CloseClient, TcpInv, LiveRegistered, Live
  <2>2. HandlerTo(c, "decrement", "closed", up, handler[c].copy)
    BY <1>1, <1>4, HandlerGoesWith, SidesFacts DEF CloseClient, HandlerPC, SocketState
  <2> QED
    BY <1>1, <2>1, <2>2, HandlerKeeps DEF Slotted
<1> QED
  BY <1>2, <1>3, <1>4

\* The slot is given back last.
LEMMA DecrementKeeps ==
    ASSUME TcpInv, NEW c \in Conns, Decrement(c)
    PROVE  TcpInv'
<1> DEFINE cl == handler[c].sock["client"]
           up == handler[c].sock["upstream"]
<1>1. /\ handler[c].pc = "decrement" /\ activeConns' = activeConns - 1
      /\ UNCHANGED <<tcpClosed, listening, serving, connSet, peer, tcpCloser>>
  BY DEF Decrement
<1>2. HandlerTo(c, "done", cl, up, handler[c].copy)
  BY HandlerGoes, TcpShape DEF Decrement, HandlerPC
<1>3. cl \notin {"open", "reset"} /\ up \notin {"open", "reset"}
  BY <1>1 DEF TcpInv, LiveRegistered, Live
<1>4. /\ Occupied' = Occupied \ {c} /\ c \in Occupied
  BY <1>1, <1>2 DEF Occupied, Slotted, HandlerTo
<1>5. Cardinality(Occupied') = Cardinality(Occupied) - 1 /\ Cardinality(Occupied') \in Nat
  <2>1. IsFiniteSet(Occupied') /\ Cardinality(Occupied') = Cardinality(Occupied) - 1
    BY <1>4, OccupiedFinite, FS_RemoveElement
  <2> QED
    BY <2>1, FS_CardinalityType
<1>6. activeConns' = Cardinality(Occupied') /\ activeConns' \in 0..MaxConnections
  BY <1>1, <1>5, OccupiedFinite, TcpShape DEF TcpInv, SlotsCounted
<1>7. TcpTypeOK'
  BY <1>1, <1>2, <1>6, TcpShape, TcpTypesFrom
<1>8. SlotsCounted'
  BY <1>1, <1>2, <1>6 DEF HandlerTo, TcpInv, SlotsCounted
<1>9. LiveRegistered'
  BY <1>1, <1>2, <1>3, LiveFrom
<1>10. CloseOrder' /\ BytesAccounted'
  BY <1>1, <1>2, BytesKeep DEF TcpInv, CloseOrder
<1> QED
  BY <1>7, <1>8, <1>9, <1>10 DEF TcpInv

-----------------------------------------------------------------------------
(* The steps of a relay.                                                   *)

\* The locals of one direction.
At(pc, deadline, eof) == [pc |-> pc, deadline |-> deadline, eof |-> eof]

\* The values they take.
LEMMA CopyValues ==
    /\ \A p \in {"top", "read", "write", "stopped"}, n \in 0..IdleTimeout, e \in BOOLEAN :
          /\ At(p, n, e) \in Copy /\ At(p, n, e).pc = p /\ At(p, n, e).eof = e
    /\ 0 \in 0..IdleTimeout /\ IdleTimeout \in Nat
<1>1. 0 \in 0..IdleTimeout /\ IdleTimeout \in Nat
  BY TcpAssumption DEF TcpAssumption
<1>2. \A p \in {"top", "read", "write", "stopped"}, n \in 0..IdleTimeout, e \in BOOLEAN :
          /\ At(p, n, e) \in Copy /\ At(p, n, e).pc = p /\ At(p, n, e).eof = e
  BY DEF At, Copy
<1> QED
  BY <1>1, <1>2

\* A direction goes on to another point of its loop.
LEMMA CopyToGoes ==
    ASSUME TcpTypeOK, NEW c \in Conns, NEW s \in Sides, NEW x \in Copy,
           handler' = [handler EXCEPT ![c].copy[s] = x]
    PROVE  HandlerTo(c, handler[c].pc, handler[c].sock["client"], handler[c].sock["upstream"],
                     [handler[c].copy EXCEPT ![s] = x])
<1> DEFINE h == [handler[c] EXCEPT !.copy = [handler[c].copy EXCEPT ![s] = x]]
<1>1. handler[c] \in HandlerState /\ handler' = [handler EXCEPT ![c] = h]
  BY DEF TcpTypeOK
<1>2. /\ h \in HandlerState /\ h.pc = handler[c].pc /\ h.sock = handler[c].sock
      /\ h.copy = [handler[c].copy EXCEPT ![s] = x]
  BY <1>1 DEF HandlerState
<1> HIDE DEF h
<1> QED
  BY <1>1, <1>2, HandlerSet

\* Read returns bytes: the direction goes on to Write and the idle clock of
\* the relay starts again.
LEMMA CopyReadGoes ==
    ASSUME TcpTypeOK, NEW c \in Conns, NEW s \in Sides, NEW e, At("write", 0, e) \in Copy,
           handler' = [CopyTo(c, s, "write", 0, e) EXCEPT ![c].age = 0]
    PROVE  HandlerTo(c, handler[c].pc, handler[c].sock["client"], handler[c].sock["upstream"],
                     [handler[c].copy EXCEPT ![s] = At("write", 0, e)])
<1> DEFINE k == [handler[c].copy EXCEPT ![s] = At("write", 0, e)]
           h == [handler[c] EXCEPT !.copy = k, !.age = 0]
<1>1. handler[c] \in HandlerState /\ handler' = [handler EXCEPT ![c] = h]
  BY DEF TcpTypeOK, CopyTo, At
<1>2. k \in [Sides -> Copy]
  BY <1>1 DEF HandlerState
<1> HIDE DEF k
<1>3. h \in HandlerState /\ h.pc = handler[c].pc /\ h.sock = handler[c].sock /\ h.copy = k
  BY <1>1, <1>2, CopyValues DEF HandlerState
<1> HIDE DEF h
<1> QED
  BY <1>1, <1>3, HandlerSet DEF k

\* closeBoth: a direction stops and takes both sockets with it.
LEMMA StopBothGoes ==
    ASSUME TcpTypeOK, NEW c \in Conns, NEW s \in Sides, handler' = StopBoth(c, s)
    PROVE  HandlerTo(c, handler[c].pc, "closed", "closed",
                     [handler[c].copy EXCEPT ![s] = At("stopped", 0, FALSE)])
<1> DEFINE x == At("stopped", 0, FALSE)
           k == [t \in Sides |-> "closed"]
           h == [handler[c] EXCEPT !.copy = [handler[c].copy EXCEPT ![s] = x], !.sock = k]
<1>1. handler[c] \in HandlerState /\ handler' = [handler EXCEPT ![c] = h]
  BY DEF TcpTypeOK, CopyTo, CopyAt, StopBoth, At
<1>2. x \in Copy
  BY CopyValues
<1>3. k \in [Sides -> SocketState] /\ k["client"] = "closed" /\ k["upstream"] = "closed"
  BY SidesFacts DEF SocketState
<1> HIDE DEF x, k
<1>4. /\ h \in HandlerState /\ h.pc = handler[c].pc /\ h.sock = k
      /\ h.copy = [handler[c].copy EXCEPT ![s] = x]
  BY <1>1, <1>2, <1>3 DEF HandlerState
<1> HIDE DEF h
<1> QED
  BY <1>1, <1>3, <1>4, HandlerSet DEF x

\* One end of one connection changes.
LEMMA PeerSet ==
    ASSUME TcpTypeOK, NEW c \in Conns, NEW s \in Sides, NEW p \in PeerState,
           peer' = [peer EXCEPT ![c][s] = p]
    PROVE  /\ peer' \in [Conns -> [Sides -> PeerState]]
           /\ peer'[c][s] = p /\ peer'[c][Other(s)] = peer[c][Other(s)]
           /\ \A d \in Conns \ {c} : peer'[d] = peer[d]
<1>1. peer \in [Conns -> [Sides -> PeerState]]
  BY DEF TcpTypeOK
<1>2. peer' = [peer EXCEPT ![c] = [peer[c] EXCEPT ![s] = p]]
  BY <1>1
<1>3. [peer[c] EXCEPT ![s] = p] \in [Sides -> PeerState]
  BY <1>1
<1>4. [peer[c] EXCEPT ![s] = p][s] = p
  BY <1>1
<1>5. [peer[c] EXCEPT ![s] = p][Other(s)] = peer[c][Other(s)]
  BY <1>1, SidesFacts
<1> QED
  BY <1>1, <1>2, <1>3, <1>4, <1>5

\* A step inside a relay: the handler stays in relay, its sockets do not open,
\* and the bytes of its two directions are accounted for.
LEMMA RelayKeeps ==
    ASSUME TcpInv, NEW c \in Conns, handler[c].pc = "relay", NEW cl, NEW up, NEW copy,
           HandlerTo(c, "relay", cl, up, copy), CopyUnchanged,
           cl \in {"open", "reset"} => Live(c, "client"),
           up \in {"open", "reset"} => Live(c, "upstream"),
           peer' \in [Conns -> [Sides -> PeerState]],
           \A d \in Conns \ {c} : peer'[d] = peer[d],
           \A s \in Sides : InFlight(copy[s], peer'[c][s], peer'[c][Other(s)])
    PROVE  TcpInv'
<1>1. UNCHANGED <<tcpClosed, listening, serving, activeConns, connSet, tcpCloser>>
  BY DEF CopyUnchanged
<1>2. TcpTypeOK'
  BY <1>1, TcpShape, TcpTypesFrom
<1>3. serving # c
  BY DEF TcpInv, SlotsCounted
<1>4. SlotsCounted'
  BY <1>1, <1>3, SlotsKeep DEF Slotted
<1>5. /\ cl \in {"open", "reset"} => <<c, "client">> \in connSet
      /\ up \in {"open", "reset"} => <<c, "upstream">> \in connSet
  BY DEF TcpInv, LiveRegistered
<1>6. LiveRegistered'
  BY <1>1, <1>5, LiveFrom
<1>7. CloseOrder' /\ BytesAccounted'
  BY <1>1, BytesFrom DEF TcpInv, CloseOrder
<1> QED
  BY <1>2, <1>4, <1>6, <1>7 DEF TcpInv

\* The bytes of one direction when the direction itself moves: its loop stops,
\* or goes from one point without a buffer to another.
LEMMA DirectionMoves ==
    ASSUME TcpInv, NEW c \in Conns, NEW s \in Sides, NEW x \in Copy,
           x.pc = "stopped"
              \/ (x.pc \in {"top", "read"} /\ handler[c].copy[s].pc \in {"top", "read"})
    PROVE  \A t \in Sides :
              InFlight([handler[c].copy EXCEPT ![s] = x][t], peer[c][t], peer[c][Other(t)])
<1>1. \A t \in Sides : InFlight(handler[c].copy[t], peer[c][t], peer[c][Other(t)])
  BY DEF TcpInv, BytesAccounted
<1>2. handler[c].copy \in [Sides -> Copy]
  BY TcpShape DEF HandlerState
<1>3. InFlight(x, peer[c][s], peer[c][Other(s)])
  BY <1>1 DEF InFlight
<1> QED
  BY <1>1, <1>2, <1>3

\* Steps of copyDirection that move no bytes.
LEMMA CopyStopsOrWaits ==
    ASSUME TcpInv, NEW c \in Conns, NEW s \in Sides,
           CopyTop(c, s) \/ CopyTimeout(c, s) \/ CopyReadError(c, s) \/ CopyWriteError(c, s)
    PROVE  TcpInv'
<1> DEFINE cl == handler[c].sock["client"]
           up == handler[c].sock["upstream"]
<1>1. /\ TcpTypeOK /\ handler[c].pc = "relay" /\ CopyUnchanged /\ peer' = peer
      /\ peer \in [Conns -> [Sides -> PeerState]] /\ handler[c] \in HandlerState
  BY TcpShape DEF CopyTop, CopyTimeout, CopyReadError, CopyWriteError, Copying
<1>2. ASSUME NEW x \in Copy, HandlerTo(c, "relay", cl, up, [handler[c].copy EXCEPT ![s] = x]),
             x.pc \in {"top", "read"}, handler[c].copy[s].pc \in {"top", "read"}
      PROVE  TcpInv'
  BY <1>1, <1>2, DirectionMoves, RelayKeeps DEF Live
<1>3. CASE handler' = StopBoth(c, s)
  <2> DEFINE x == At("stopped", 0, FALSE)
             k == [handler[c].copy EXCEPT ![s] = x]
  <2>1. HandlerTo(c, "relay", "closed", "closed", k)
    BY <1>1, <1>3, StopBothGoes
  <2>2. x \in Copy /\ x.pc = "stopped"
    BY CopyValues
  <2> HIDE DEF x
  <2>3. \A t \in Sides : InFlight(k[t], peer[c][t], peer[c][Other(t)])
    BY <2>2, DirectionMoves
  <2> HIDE DEF k
  <2> QED
    BY <1>1, <2>1, <2>3, RelayKeeps
<1>4. CASE CopyTimeout(c, s) /\ handler' = CopyAt(c, s, "top")
  <2> DEFINE x == At("top", 0, FALSE)
  <2>1. x \in Copy /\ x.pc = "top"
    BY CopyValues
  <2>2. handler' = [handler EXCEPT ![c].copy[s] = x]
    BY <1>4 DEF CopyAt, CopyTo, At
  <2> HIDE DEF x
  <2>3. HandlerTo(c, "relay", cl, up, [handler[c].copy EXCEPT ![s] = x])
    BY <1>1, <2>1, <2>2, CopyToGoes
  <2>4. handler[c].copy[s].pc = "read"
    BY <1>4 DEF CopyTimeout, Copying
  <2> QED
    BY <1>2, <2>1, <2>3, <2>4
<1>5. CASE CopyTop(c, s) /\ ~(handler[c].age >= IdleTimeout)
  <2> DEFINE x == At("read", IdleTimeout - handler[c].age, FALSE)
  <2>1. handler[c].age \in 0..IdleTimeout /\ handler[c].copy[s].pc = "top"
    BY <1>1, <1>5 DEF HandlerState, CopyTop, Copying
  <2>2. x \in Copy /\ x.pc = "read"
    <3>1. IdleTimeout - handler[c].age \in 0..IdleTimeout
      BY <2>1, CopyValues
    <3> QED
      BY <3>1, CopyValues
  <2>3. handler' = [handler EXCEPT ![c].copy[s] = x]
    BY <1>5 DEF CopyTop, CopyTo, At
  <2> HIDE DEF x
  <2>4. HandlerTo(c, "relay", cl, up, [handler[c].copy EXCEPT ![s] = x])
    BY <1>1, <2>2, <2>3, CopyToGoes
  <2> QED
    BY <1>2, <2>1, <2>2, <2>4
<1> QED
  BY <1>3, <1>4, <1>5 DEF CopyTop, CopyTimeout, CopyReadError, CopyWriteError

\* Read returns bytes: they leave the socket and are in the buffer.
LEMMA CopyReadKeeps ==
    ASSUME TcpInv, NEW c \in Conns, NEW s \in Sides, CopyRead(c, s)
    PROVE  TcpInv'
<1> DEFINE cl == handler[c].sock["client"]
           up == handler[c].sock["upstream"]
           p == [peer[c][s] EXCEPT !.pending = 0]
<1>1. /\ TcpTypeOK /\ handler[c].pc = "relay" /\ CopyUnchanged
      /\ handler[c].copy[s].pc = "read" /\ peer[c][s].pending > 0
      /\ handler[c] \in HandlerState /\ peer[c][s] \in PeerState /\ peer[c][Other(s)] \in PeerState
  BY TcpShape, SidesFacts DEF CopyRead, Copying
<1>2. PICK eof \in {FALSE, peer[c][s].fin} :
         handler' = [CopyTo(c, s, "write", 0, eof) EXCEPT ![c].age = 0]
  BY DEF CopyRead
<1> DEFINE x == At("write", 0, eof)
<1>3. x \in Copy /\ x.pc = "write" /\ x.eof = eof
  <2>1. eof \in BOOLEAN
    BY <1>1 DEF PeerState
  <2> QED
    BY <2>1, CopyValues
<1>5. HandlerTo(c, "relay", cl, up, [handler[c].copy EXCEPT ![s] = x])
  BY <1>1, <1>2, <1>3, CopyReadGoes
<1> HIDE DEF x
<1>6. /\ p \in PeerState /\ p.pending = 0 /\ p.sent = peer[c][s].sent /\ p.fin = peer[c][s].fin
      /\ p.got = peer[c][s].got /\ p.finGot = peer[c][s].finGot
  BY <1>1, TcpAssumption DEF TcpAssumption, PeerState
<1>7. peer' = [peer EXCEPT ![c][s] = p]
  BY TcpShape DEF CopyRead
<1> HIDE DEF p
<1>8. /\ peer' \in [Conns -> [Sides -> PeerState]]
      /\ peer'[c][s] = p /\ peer'[c][Other(s)] = peer[c][Other(s)]
      /\ \A d \in Conns \ {c} : peer'[d] = peer[d]
  BY <1>1, <1>6, <1>7, PeerSet
<1>9. \A t \in Sides : InFlight(handler[c].copy[t], peer[c][t], peer[c][Other(t)])
  BY DEF TcpInv, BytesAccounted
<1>10. InFlight(x, p, peer[c][Other(s)])
  <2>1. ~peer[c][Other(s)].finGot
    BY <1>1, <1>9 DEF InFlight
  <2>2. x.eof => p.fin
    BY <1>2, <1>3, <1>6
  <2>3. p.pending <= p.sent
    BY <1>1, <1>6 DEF PeerState
  <2> QED
    BY <1>3, <1>6, <2>1, <2>2, <2>3 DEF InFlight
<1>11. InFlight(handler[c].copy[Other(s)], peer[c][Other(s)], p)
  BY <1>1, <1>6, <1>9, SidesFacts DEF InFlight
<1>12. \A t \in Sides : InFlight([handler[c].copy EXCEPT ![s] = x][t],
                                 peer'[c][t], peer'[c][Other(t)])
  BY <1>1, <1>8, <1>10, <1>11, SidesFacts DEF HandlerState
<1> QED
  BY <1>1, <1>5, <1>8, <1>12, RelayKeeps DEF Live

\* The end of the stream is passed on when nothing is in flight.
LEMMA CopyEOFKeeps ==
    ASSUME TcpInv, NEW c \in Conns, NEW s \in Sides, CopyEOF(c, s)
    PROVE  TcpInv'
<1> DEFINE cl == handler[c].sock["client"]
           up == handler[c].sock["upstream"]
           x == At("stopped", 0, FALSE)
           o == Other(s)
           q == [peer[c][o] EXCEPT !.finGot = TRUE]
<1>1. /\ TcpTypeOK /\ handler[c].pc = "relay" /\ CopyUnchanged
      /\ handler[c].copy[s].pc = "read" /\ peer[c][s].fin /\ peer[c][s].pending = 0
      /\ handler[c] \in HandlerState /\ peer[c][s] \in PeerState /\ peer[c][o] \in PeerState
      /\ o \in Sides /\ o # s /\ Other(o) = s
  BY TcpShape, SidesFacts DEF CopyEOF, Copying
<1>2. x \in Copy /\ x.pc = "stopped"
  BY CopyValues
<1>3. HandlerTo(c, "relay", cl, up, [handler[c].copy EXCEPT ![s] = x])
  <2>1. handler' = [handler EXCEPT ![c].copy[s] = x]
    BY DEF CopyEOF, CopyAt, CopyTo, At
  <2> HIDE DEF x
  <2> QED
    BY <1>1, <1>2, <2>1, CopyToGoes
<1> HIDE DEF x
<1>4. /\ q \in PeerState /\ q.pending = peer[c][o].pending /\ q.sent = peer[c][o].sent
      /\ q.fin = peer[c][o].fin /\ q.got = peer[c][o].got /\ q.finGot
  BY <1>1 DEF PeerState
<1>5. peer' = [peer EXCEPT ![c][o] = q]
  BY TcpShape DEF CopyEOF, CloseWrite
<1> HIDE DEF q
<1>6. /\ peer' \in [Conns -> [Sides -> PeerState]]
      /\ peer'[c][o] = q /\ peer'[c][s] = peer[c][s]
      /\ \A d \in Conns \ {c} : peer'[d] = peer[d]
  <2> HIDE DEF o
  <2>1. TcpTypeOK /\ o \in Sides /\ q \in PeerState /\ Other(o) = s
    BY <1>1, <1>4
  <2> QED
    BY <1>5, <2>1, PeerSet
<1>7. \A t \in Sides : InFlight(handler[c].copy[t], peer[c][t], peer[c][Other(t)])
  BY DEF TcpInv, BytesAccounted
<1>8. InFlight(x, peer[c][s], q)
  BY <1>1, <1>2, <1>4, <1>7 DEF InFlight, PeerState
<1>9. InFlight(handler[c].copy[o], q, peer[c][s])
  BY <1>1, <1>4, <1>7 DEF InFlight
<1>10. \A t \in Sides : InFlight([handler[c].copy EXCEPT ![s] = x][t],
                                 peer'[c][t], peer'[c][Other(t)])
  BY <1>1, <1>6, <1>8, <1>9, SidesFacts DEF HandlerState
<1> QED
  BY <1>1, <1>3, <1>6, <1>10, RelayKeeps DEF Live

\* Write delivers the buffer, and then the FIN that came with it.
LEMMA CopyWriteKeeps ==
    ASSUME TcpInv, NEW c \in Conns, NEW s \in Sides, CopyWrite(c, s)
    PROVE  TcpInv'
<1> DEFINE cl == handler[c].sock["client"]
           up == handler[c].sock["upstream"]
           eof == handler[c].copy[s].eof
           x == At(IF eof THEN "stopped" ELSE "top", 0, FALSE)
           o == Other(s)
           g == peer[c][s].sent - peer[c][s].pending
           q == [peer[c][o] EXCEPT !.finGot = IF eof THEN TRUE ELSE @, !.got = g]
<1>1. /\ TcpTypeOK /\ handler[c].pc = "relay" /\ CopyUnchanged
      /\ handler[c].copy[s].pc = "write"
      /\ handler[c] \in HandlerState /\ peer[c][s] \in PeerState /\ peer[c][o] \in PeerState
      /\ o \in Sides /\ o # s /\ Other(o) = s
  BY TcpShape, SidesFacts DEF CopyWrite, Copying
<1>2. eof \in BOOLEAN
  BY <1>1 DEF HandlerState, Copy
<1>3. x \in Copy /\ x.pc = IF eof THEN "stopped" ELSE "top"
  BY CopyValues
<1>4. HandlerTo(c, "relay", cl, up, [handler[c].copy EXCEPT ![s] = x])
  <2>1. handler' = [handler EXCEPT ![c].copy[s] = x]
    BY DEF CopyWrite, CopyAt, CopyTo, At
  <2> HIDE DEF x
  <2> QED
    BY <1>1, <1>3, <2>1, CopyToGoes
<1> HIDE DEF x
<1>5. \A t \in Sides : InFlight(handler[c].copy[t], peer[c][t], peer[c][Other(t)])
  BY DEF TcpInv, BytesAccounted
<1>6. g \in 0..MaxBytes
  BY <1>1, <1>5, TcpAssumption DEF TcpAssumption, InFlight, PeerState
<1>7. /\ q \in PeerState /\ q.pending = peer[c][o].pending /\ q.sent = peer[c][o].sent
      /\ q.fin = peer[c][o].fin /\ q.got = g
      /\ q.finGot = (IF eof THEN TRUE ELSE peer[c][o].finGot)
  BY <1>1, <1>2, <1>6 DEF PeerState
<1>8. peer' = [peer EXCEPT ![c][o] = q]
  <2>1. peer[c][o].got + Undelivered(c, s) = g
    BY <1>1 DEF Undelivered, PeerState
  <2>2. peer' = [(IF eof THEN CloseWrite(c, s) ELSE peer)
                    EXCEPT ![c][o].got = @ + Undelivered(c, s)]
    BY DEF CopyWrite
  <2>3. CASE eof
    BY <1>1, <2>1, <2>2, <2>3, TcpShape DEF CloseWrite, PeerState
  <2>4. CASE ~eof
    BY <1>1, <2>1, <2>2, <2>4, TcpShape DEF PeerState
  <2> QED
    BY <2>3, <2>4
<1> HIDE DEF q, g
<1>9. /\ peer' \in [Conns -> [Sides -> PeerState]]
      /\ peer'[c][o] = q /\ peer'[c][s] = peer[c][s]
      /\ \A d \in Conns \ {c} : peer'[d] = peer[d]
  <2> HIDE DEF o
  <2>1. TcpTypeOK /\ o \in Sides /\ q \in PeerState /\ Other(o) = s
    BY <1>1, <1>7
  <2> QED
    BY <1>8, <2>1, PeerSet
<1>10. InFlight(x, peer[c][s], q)
  BY <1>1, <1>2, <1>3, <1>5, <1>7 DEF InFlight, PeerState, g
<1>11. InFlight(handler[c].copy[o], q, peer[c][s])
  BY <1>1, <1>5, <1>7 DEF InFlight
<1>12. \A t \in Sides : InFlight([handler[c].copy EXCEPT ![s] = x][t],
                                 peer'[c][t], peer'[c][Other(t)])
  BY <1>1, <1>9, <1>10, <1>11, SidesFacts DEF HandlerState
<1> QED
  BY <1>1, <1>4, <1>9, <1>12, RelayKeeps DEF Live

\* Time passes for a relay: its directions stay where they are.
LEMMA TickKeeps ==
    ASSUME TcpInv, NEW c \in Conns, RelayTick(c)
    PROVE  TcpInv'
<1> DEFINE k == [s \in Sides |->
                   [handler[c].copy[s] EXCEPT !.deadline = IF @ > 0 THEN @ - 1 ELSE 0]]
           h == [handler[c] EXCEPT !.age = @ + 1, !.copy = k]
<1>1. /\ TcpTypeOK /\ handler[c].pc = "relay" /\ handler[c].age < IdleTimeout
      /\ CopyUnchanged /\ peer' = peer /\ peer \in [Conns -> [Sides -> PeerState]]
      /\ handler[c] \in HandlerState
  BY TcpShape DEF RelayTick
<1>2. handler' = [handler EXCEPT ![c].age = @ + 1, ![c].copy = k]
  BY <1>1 DEF RelayTick, HandlerState
<1>3. ASSUME NEW s \in Sides
      PROVE  k[s] \in Copy /\ k[s].pc = handler[c].copy[s].pc /\ k[s].eof = handler[c].copy[s].eof
  <2>1. handler[c].copy[s] \in Copy
    BY <1>1 DEF HandlerState
  <2> QED
    BY <2>1, CopyValues DEF Copy
<1>4. k \in [Sides -> Copy]
  BY <1>3
<1> HIDE DEF k
<1>5. handler[c].age + 1 \in 0..IdleTimeout
  BY <1>1, CopyValues DEF HandlerState
<1>6. h \in HandlerState /\ h.pc = "relay" /\ h.sock = handler[c].sock /\ h.copy = k
  BY <1>1, <1>4, <1>5 DEF HandlerState
<1>7. handler' = [handler EXCEPT ![c] = h]
  BY <1>1, <1>2, TcpShape
<1> HIDE DEF h
<1>8. HandlerTo(c, "relay", handler[c].sock["client"], handler[c].sock["upstream"], k)
  BY <1>1, <1>6, <1>7, HandlerSet
<1>9. \A s \in Sides : InFlight(k[s], peer'[c][s], peer'[c][Other(s)])
  BY <1>1, <1>3 DEF InFlight, TcpInv, BytesAccounted
<1> QED
  BY <1>1, <1>8, <1>9, RelayKeeps DEF Live

\* A remote end sends bytes, or its FIN after all of them.
LEMMA SendsKeeps ==
    ASSUME TcpInv, NEW c \in Conns, NEW s \in Sides, PeerSends(c, s)
    PROVE  TcpInv'
<1> DEFINE o == Other(s)
           a == [peer[c][s] EXCEPT !.sent = @ + 1, !.pending = @ + 1]
           b == [peer[c][s] EXCEPT !.fin = TRUE]
<1>1. /\ TcpTypeOK /\ handler[c].pc = "relay" /\ ~peer[c][s].fin
      /\ CopyUnchanged /\ handler' = handler /\ handler[c] \in HandlerState
      /\ peer[c][s] \in PeerState /\ peer[c][o] \in PeerState
      /\ o \in Sides /\ o # s /\ Other(o) = s
  BY TcpShape, SidesFacts DEF PeerSends
<1>2. HandlerTo(c, "relay", handler[c].sock["client"], handler[c].sock["upstream"],
                handler[c].copy)
  BY <1>1, TcpShape DEF HandlerTo
<1>3. \A t \in Sides : InFlight(handler[c].copy[t], peer[c][t], peer[c][Other(t)])
  BY DEF TcpInv, BytesAccounted
<1>4. ASSUME NEW p \in PeerState, peer' = [peer EXCEPT ![c][s] = p],
             InFlight(handler[c].copy[s], p, peer[c][o]),
             p.got = peer[c][s].got, p.finGot = peer[c][s].finGot
      PROVE  TcpInv'
  <2>1. /\ peer' \in [Conns -> [Sides -> PeerState]]
        /\ peer'[c][s] = p /\ peer'[c][o] = peer[c][o]
        /\ \A d \in Conns \ {c} : peer'[d] = peer[d]
    BY <1>1, <1>4, PeerSet
  <2>2. InFlight(handler[c].copy[o], peer[c][o], p)
    BY <1>1, <1>3, <1>4 DEF InFlight
  <2>3. \A t \in Sides : InFlight(handler[c].copy[t], peer'[c][t], peer'[c][Other(t)])
    BY <1>1, <1>4, <2>1, <2>2, SidesFacts
  <2> QED
    BY <1>1, <1>2, <2>1, <2>3, RelayKeeps DEF Live
<1>5. CASE peer[c][s].sent < MaxBytes /\ peer' = [peer EXCEPT ![c][s].sent = @ + 1,
                                                           ![c][s].pending = @ + 1]
  <2>1. peer[c][s].pending <= peer[c][s].sent
    BY <1>3 DEF InFlight
  <2>2. /\ a \in PeerState /\ a.sent = peer[c][s].sent + 1 /\ a.pending = peer[c][s].pending + 1
        /\ a.got = peer[c][s].got /\ a.fin = peer[c][s].fin /\ a.finGot = peer[c][s].finGot
    <3>1. peer[c][s].sent + 1 \in 0..MaxBytes /\ peer[c][s].pending + 1 \in 0..MaxBytes
      BY <1>1, <1>5, <2>1, TcpAssumption DEF TcpAssumption, PeerState
    <3> QED
      BY <1>1, <3>1 DEF PeerState
  <2>3. peer' = [peer EXCEPT ![c][s] = a]
    BY <1>1, <1>5, TcpShape
  <2> HIDE DEF a
  <2>4. ~peer[c][o].finGot /\ ~(handler[c].copy[s].pc = "write" /\ handler[c].copy[s].eof)
    BY <1>1, <1>3 DEF InFlight
  <2>5. InFlight(handler[c].copy[s], a, peer[c][o])
    BY <1>1, <1>3, <2>1, <2>2, <2>4 DEF InFlight, PeerState
  <2> QED
    BY <1>4, <2>2, <2>3, <2>5
<1>6. CASE peer' = [peer EXCEPT ![c][s].fin = TRUE]
  <2>1. /\ b \in PeerState /\ b.sent = peer[c][s].sent /\ b.pending = peer[c][s].pending
        /\ b.got = peer[c][s].got /\ b.fin /\ b.finGot = peer[c][s].finGot
    BY <1>1 DEF PeerState
  <2>2. peer' = [peer EXCEPT ![c][s] = b]
    BY <1>1, <1>6, TcpShape
  <2> HIDE DEF b
  <2>3. InFlight(handler[c].copy[s], b, peer[c][o])
    BY <1>1, <1>3, <2>1 DEF InFlight
  <2> QED
    BY <1>4, <2>1, <2>2, <2>3
<1> QED
  BY <1>5, <1>6 DEF PeerSends

\* A remote end resets its connection: the socket stays in the relay's hands.
LEMMA ResetsKeeps ==
    ASSUME TcpInv, NEW c \in Conns, NEW s \in Sides, PeerResets(c, s)
    PROVE  TcpInv'
<1> DEFINE cl == handler[c].sock["client"]
           up == handler[c].sock["upstream"]
<1>1. /\ TcpTypeOK /\ handler[c].pc = "relay" /\ handler[c].sock[s] = "open"
      /\ CopyUnchanged /\ peer' = peer /\ peer \in [Conns -> [Sides -> PeerState]]
      /\ handler[c] \in HandlerState
  BY TcpShape DEF PeerResets
<1>2. handler' = [handler EXCEPT ![c].pc = "relay", ![c].sock[s] = "reset"]
  <2>1. handler' = [handler EXCEPT ![c].sock[s] = "reset"]
    BY DEF PeerResets
  <2>2. [handler[c] EXCEPT !.sock[s] = "reset"]
           = [handler[c] EXCEPT !.pc = "relay", !.sock[s] = "reset"]
    BY <1>1 DEF HandlerState
  <2> QED
    BY <2>1, <2>2, TcpShape
<1>3. HandlerTo(c, "relay", IF s = "client" THEN "reset" ELSE cl,
                            IF s = "upstream" THEN "reset" ELSE up, handler[c].copy)
  BY <1>1, <1>2, HandlerGoesWith DEF HandlerPC, SocketState
<1>4. \A t \in Sides : InFlight(handler[c].copy[t], peer'[c][t], peer'[c][Other(t)])
  BY <1>1 DEF TcpInv, BytesAccounted
<1> QED
  BY <1>1, <1>3, <1>4, RelayKeeps DEF Live

\* The relay has ended: its upstream socket and its buffers are gone.
LEMMA RelayDoneKeeps ==
    ASSUME TcpInv, NEW c \in Conns, RelayDone(c)
    PROVE  TcpInv'
<1> DEFINE cl == handler[c].sock["client"]
           k == [handler[c].sock EXCEPT !["upstream"] = "closed"]
           f == [s \in Sides |-> FreshCopy]
           h == [pc |-> "unregister", sock |-> k, age |-> 0, copy |-> f]
           q == [s \in Sides |-> FreshPeer]
<1>1. /\ TcpTypeOK /\ handler[c].pc = "relay" /\ connSet' = connSet \ {<<c, "upstream">>}
      /\ UNCHANGED <<tcpClosed, listening, serving, activeConns, tcpCloser>>
      /\ handler[c] \in HandlerState /\ connSet \in SUBSET (Conns \X Sides)
      /\ handler' = [handler EXCEPT ![c] = h] /\ peer' = [peer EXCEPT ![c] = q]
  BY TcpShape DEF RelayDone
<1>2. k \in [Sides -> SocketState] /\ k["client"] = cl /\ k["upstream"] = "closed"
  BY <1>1, SidesFacts DEF HandlerState, SocketState
<1>3. FreshCopy \in Copy /\ FreshCopy.pc = "top" /\ f \in [Sides -> Copy]
  BY CopyValues DEF FreshCopy, Copy
<1>4. /\ FreshPeer \in PeerState /\ FreshPeer.sent = 0 /\ FreshPeer.pending = 0
      /\ FreshPeer.got = 0 /\ ~FreshPeer.finGot /\ q \in [Sides -> PeerState]
  BY TcpAssumption DEF TcpAssumption, FreshPeer, PeerState
<1>5. \A s \in Sides : InFlight(f[s], q[s], q[Other(s)])
  <2>1. InFlight(FreshCopy, FreshPeer, FreshPeer)
    BY <1>3, <1>4 DEF InFlight
  <2> QED
    BY <2>1, SidesFacts
<1> HIDE DEF k, f, q
<1>6. h \in HandlerState /\ h.pc = "unregister" /\ h.sock = k /\ h.copy = f
  BY <1>2, <1>3, CopyValues DEF HandlerState, HandlerPC
<1> HIDE DEF h
<1>7. HandlerTo(c, "unregister", cl, "closed", f)
  BY <1>1, <1>2, <1>6, HandlerSet
<1>8. peer' \in [Conns -> [Sides -> PeerState]] /\ peer'[c] = q
      /\ \A d \in Conns \ {c} : peer'[d] = peer[d]
  BY <1>1, <1>4, TcpShape
<1>9. TcpTypeOK'
  BY <1>1, <1>7, <1>8, TcpShape, TcpTypesFrom
<1>10. serving # c
  BY <1>1 DEF TcpInv, SlotsCounted
<1>11. SlotsCounted'
  BY <1>1, <1>7, <1>10, SlotsKeep DEF Slotted
<1>12. cl \in {"open", "reset"} => <<c, "client">> \in connSet
  BY <1>1 DEF TcpInv, LiveRegistered, Live
<1>13. LiveRegistered'
  BY <1>1, <1>7, <1>12, LiveFrom
<1>14. CloseOrder' /\ BytesAccounted'
  BY <1>1, <1>5, <1>7, <1>8, BytesFrom DEF TcpInv, CloseOrder
<1> QED
  BY <1>9, <1>11, <1>13, <1>14 DEF TcpInv

-----------------------------------------------------------------------------
(* Close, and the whole proxy.                                             *)

\* close(p.closed), and the listener.
LEMMA CloseKeeps ==
    ASSUME TcpInv, TcpClose
    PROVE  TcpInv'
<1>1. UNCHANGED <<serving, activeConns, connSet, handler, peer>>
  BY DEF TcpClose
<1>2. TcpTypeOK' /\ CloseOrder'
  BY <1>1 DEF TcpClose, TcpInv, TcpTypeOK, CloseOrder
<1>3. SlotsCounted' /\ LiveRegistered' /\ BytesAccounted'
  BY <1>1 DEF TcpInv, SlotsCounted, Occupied, LiveRegistered, Live, BytesAccounted
<1> QED
  BY <1>2, <1>3 DEF TcpInv

\* The sweep closes what is registered and touches nothing else of a handler.
LEMMA SweepGoes ==
    ASSUME TcpInv, TcpSweep
    PROVE  /\ handler' \in [Conns -> HandlerState]
           /\ \A c \in Conns : handler'[c].pc = handler[c].pc /\ handler'[c].copy = handler[c].copy
           /\ \A c \in Conns, s \in Sides :
                 handler'[c].sock[s] = IF <<c, s>> \in connSet THEN "closed"
                                       ELSE handler[c].sock[s]
<1> DEFINE k(c) == [s \in Sides |-> IF <<c, s>> \in connSet THEN "closed"
                                    ELSE handler[c].sock[s]]
           h(c) == [handler[c] EXCEPT !.sock = k(c)]
<1>1. handler' = [c \in Conns |-> h(c)]
  BY DEF TcpSweep
<1>2. ASSUME NEW c \in Conns
      PROVE  /\ h(c) \in HandlerState /\ h(c).pc = handler[c].pc
             /\ h(c).copy = handler[c].copy /\ h(c).sock = k(c)
  <2>1. handler[c] \in HandlerState
    BY TcpShape
  <2>2. k(c) \in [Sides -> SocketState]
    BY <2>1 DEF HandlerState, SocketState
  <2> HIDE DEF k
  <2> QED
    BY <2>1, <2>2 DEF HandlerState
<1> HIDE DEF h
<1>3. \A c \in Conns : handler'[c] = h(c)
  BY <1>1
<1>4. handler' \in [Conns -> HandlerState]
  BY <1>1, <1>2
<1>5. ASSUME NEW c \in Conns, NEW s \in Sides
      PROVE  handler'[c].sock[s] = IF <<c, s>> \in connSet THEN "closed" ELSE handler[c].sock[s]
  <2>1. k(c)[s] = IF <<c, s>> \in connSet THEN "closed" ELSE handler[c].sock[s]
    OBVIOUS
  <2> HIDE DEF k
  <2> QED
    BY <1>2, <1>3, <2>1
<1> QED
  BY <1>2, <1>3, <1>4, <1>5

\* The sweep.
LEMMA SweepKeeps ==
    ASSUME TcpInv, TcpSweep
    PROVE  TcpInv'
<1>1. /\ tcpCloser = "sweep" /\ tcpCloser' = "done" /\ connSet' = {}
      /\ UNCHANGED <<tcpClosed, listening, serving, activeConns, peer>>
  BY DEF TcpSweep
<1>2. TcpTypeOK' /\ CloseOrder'
  BY <1>1, SweepGoes DEF TcpInv, TcpTypeOK, CloseOrder
<1>3. SlotsCounted'
  <2>1. Occupied' = Occupied
    BY SweepGoes DEF Occupied
  <2> QED
    BY <1>1, <2>1, SweepGoes DEF TcpInv, SlotsCounted
<1>4. LiveRegistered'
  <2>1. \A c \in Conns, s \in Sides : Live(c, s)' => Live(c, s) /\ <<c, s>> \notin connSet
    BY SweepGoes DEF Live
  <2> QED
    BY <2>1, SweepGoes, SidesFacts DEF TcpInv, LiveRegistered
<1>5. BytesAccounted'
  BY <1>1, SweepGoes DEF TcpInv, BytesAccounted
<1> QED
  BY <1>2, <1>3, <1>4, <1>5 DEF TcpInv

\* The proxy starts without connections.
LEMMA TcpInvInit == TcpInit => TcpInv
<1> SUFFICES ASSUME TcpInit
             PROVE  TcpInv
  OBVIOUS
<1> DEFINE k == [s \in Sides |-> "none"]
           f == [s \in Sides |-> FreshCopy]
           h == [pc |-> "none", sock |-> k, age |-> 0, copy |-> f]
           q == [s \in Sides |-> FreshPeer]
<1>1. handler = [c \in Conns |-> h] /\ peer = [c \in Conns |-> q]
  BY DEF TcpInit
<1>2. k \in [Sides -> SocketState] /\ k["client"] = "none" /\ k["upstream"] = "none"
  BY SidesFacts DEF SocketState
<1>3. FreshCopy \in Copy /\ FreshCopy.pc = "top" /\ f \in [Sides -> Copy]
  BY CopyValues DEF FreshCopy, Copy
<1>4. /\ FreshPeer \in PeerState /\ FreshPeer.sent = 0 /\ FreshPeer.pending = 0
      /\ FreshPeer.got = 0 /\ ~FreshPeer.finGot /\ q \in [Sides -> PeerState]
  BY TcpAssumption DEF TcpAssumption, FreshPeer, PeerState
<1>5. \A s \in Sides : InFlight(f[s], q[s], q[Other(s)])
  <2>1. InFlight(FreshCopy, FreshPeer, FreshPeer)
    BY <1>3, <1>4 DEF InFlight
  <2> QED
    BY <2>1, SidesFacts
<1> HIDE DEF k, f, q
<1>6. h \in HandlerState /\ h.pc = "none" /\ h.sock = k /\ h.copy = f
  BY <1>2, <1>3, CopyValues DEF HandlerState, HandlerPC
<1> HIDE DEF h
<1>7. TcpTypeOK
  <2>1. handler \in [Conns -> HandlerState] /\ peer \in [Conns -> [Sides -> PeerState]]
    BY <1>1, <1>4, <1>6
  <2>2. activeConns \in 0..MaxConnections /\ connSet \in SUBSET (Conns \X Sides)
    BY TcpAssumption DEF TcpAssumption, TcpInit
  <2> QED
    BY <2>1, <2>2 DEF TcpInit, TcpTypeOK
<1>8. SlotsCounted
  <2>1. Occupied = {}
    BY <1>1, <1>6 DEF Occupied, Slotted
  <2> QED
    BY <1>1, <1>6, <2>1, FS_EmptySet, TcpAssumption DEF TcpAssumption, TcpInit, SlotsCounted
<1>9. LiveRegistered /\ CloseOrder /\ BytesAccounted
  BY <1>1, <1>2, <1>5, <1>6 DEF TcpInit, LiveRegistered, Live, CloseOrder, BytesAccounted
<1> QED
  BY <1>7, <1>8, <1>9 DEF TcpInv

\* The invariant of the TCP proxy is inductive.
LEMMA TcpInvStep == TcpInv /\ [TcpNext]_tcpVars => TcpInv'
<1> SUFFICES ASSUME TcpInv, [TcpNext]_tcpVars
             PROVE  TcpInv'
  OBVIOUS
<1>1. CASE UNCHANGED tcpVars
  BY <1>1 DEF tcpVars, TcpInv, TcpTypeOK, SlotsCounted, Occupied, LiveRegistered, Live,
              CloseOrder, BytesAccounted
<1>2. CASE TcpSetListener \/ TcpAcceptError \/ TcpClose \/ TcpAdmit \/ TcpSweep
  BY <1>2, ServeMoves, CloseKeeps, AdmitKeeps, SweepKeeps
<1>3. ASSUME NEW c \in Conns, TcpAccept(c) \/ HandlerStep(c) \/ RelayTick(c)
      PROVE  TcpInv'
  BY <1>3, AcceptKeeps, RegisterKeeps, DialKeeps, RelayDoneKeeps, DecrementKeeps, TickKeeps
     DEF HandlerStep
<1>4. ASSUME NEW c \in Conns, NEW s \in Sides,
             CopyStep(c, s) \/ PeerSends(c, s) \/ PeerResets(c, s)
      PROVE  TcpInv'
  BY <1>4, CopyStopsOrWaits, CopyReadKeeps, CopyEOFKeeps, CopyWriteKeeps, SendsKeeps, ResetsKeeps
     DEF CopyStep
<1> QED
  BY <1>1, <1>2, <1>3, <1>4 DEF TcpNext, TcpSystemStep

\* What the invariant of the TCP proxy amounts to.
LEMMA TcpInvSafe == TcpInv => StreamsSafe
<1> SUFFICES ASSUME TcpInv
             PROVE  StreamsSafe
  OBVIOUS
<1>1. SocketsWithinLimit
  <2>1. OpenClients \ {serving} \subseteq Occupied
    <3> SUFFICES ASSUME NEW c \in OpenClients, c # serving
                 PROVE  c \in Occupied
      OBVIOUS
    <3>1. c \in Conns /\ Live(c, "client") /\ handler[c].pc # "accepted"
      BY DEF OpenClients, Live, TcpInv, SlotsCounted
    <3>2. handler[c].pc \notin {"none", "refused", "done"} /\ handler[c].pc \in HandlerPC
      BY <3>1, TcpShape DEF TcpInv, LiveRegistered, HandlerState
    <3> QED
      BY <3>1, <3>2 DEF Occupied, Slotted, HandlerPC
  <2>2. /\ Cardinality(OpenClients \ {serving}) <= Cardinality(Occupied)
        /\ Cardinality(OpenClients \ {serving}) \in Nat
    <3>1. /\ IsFiniteSet(OpenClients \ {serving})
          /\ Cardinality(OpenClients \ {serving}) <= Cardinality(Occupied)
      BY <2>1, OccupiedFinite, FS_Subset
    <3> QED
      BY <3>1, FS_CardinalityType
  <2>3. Cardinality(Occupied) <= MaxConnections
    BY TcpShape DEF TcpInv, SlotsCounted
  <2> QED
    BY <2>2, <2>3, OccupiedFinite, TcpShape DEF SocketsWithinLimit
<1>2. HalfCloseDelivers
  BY DEF HalfCloseDelivers, TcpInv, BytesAccounted, InFlight
<1>3. CloseIsFinal
  <2> SUFFICES ASSUME tcpCloser = "done", NEW c \in Conns, NEW s \in Sides, Live(c, s)
               PROVE  handler[c].pc \in {"accepted", "register", "registerUp", "exit"}
    BY DEF CloseIsFinal, TcpInv, CloseOrder, Live
  <2>1. connSet = {} /\ handler[c].pc \in HandlerPC
    BY TcpShape DEF TcpInv, CloseOrder, HandlerState
  <2>2. CASE s = "client"
    BY <2>1, <2>2 DEF TcpInv, LiveRegistered, HandlerPC
  <2>3. CASE s = "upstream"
    BY <2>1, <2>3 DEF TcpInv, LiveRegistered, HandlerPC
  <2> QED
    BY <2>2, <2>3, SidesFacts
<1> QED
  BY <1>1, <1>2, <1>3 DEF StreamsSafe, TcpInv

\* A step of one connection leaves the handlers of the others alone.
LEMMA OthersUntouched ==
    ASSUME TcpInv, NEW c \in Conns, NEW d \in Conns, d # c,
           \/ TcpAccept(d) \/ HandlerStep(d) \/ RelayTick(d)
           \/ \E s \in Sides : CopyStep(d, s) \/ PeerSends(d, s) \/ PeerResets(d, s)
    PROVE  handler'[c] = handler[c]
<1>1. handler \in [Conns -> HandlerState]
  BY TcpShape
<1>2. CASE TcpAccept(d)
  BY <1>1, <1>2 DEF TcpAccept
<1>3. CASE HandlerStep(d)
  BY <1>1, <1>3 DEF HandlerStep, RegisterClient, RegisterUpstream, RegisterConn, Dial, RelayDone,
                    UnregisterClient, CloseClient, Decrement
<1>4. CASE RelayTick(d)
  BY <1>1, <1>4, SMTT(30) DEF RelayTick
<1>5. ASSUME NEW s \in Sides, CopyStep(d, s) \/ PeerSends(d, s) \/ PeerResets(d, s)
      PROVE  handler'[c] = handler[c]
  BY <1>1, <1>5 DEF CopyStep, CopyTop, CopyRead, CopyEOF, CopyTimeout, CopyReadError, CopyWrite,
                    CopyWriteError, CopyTo, CopyAt, StopBoth, PeerSends, PeerResets
<1> QED
  BY <1>2, <1>3, <1>4, <1>5

\* A relay that is not idle, between open sockets of a running proxy, keeps
\* them while no direction is writing.
LEMMA BusyRelayKeepsSockets ==
    ASSUME TcpInv, [TcpNext]_tcpVars, NEW c \in Conns, ~tcpClosed,
           handler[c].pc = "relay", \A s \in Sides : handler[c].sock[s] = "open",
           \A s \in Sides : handler[c].copy[s].pc # "write", handler[c].age # IdleTimeout
    PROVE  handler'[c].pc = "relay" => \A t \in Sides : handler'[c].sock[t] # "closed"
<1>1. /\ TcpTypeOK /\ handler \in [Conns -> HandlerState] /\ handler[c] \in HandlerState
      /\ ~(handler[c].age >= IdleTimeout)
  <2>1. handler \in [Conns -> HandlerState] /\ TcpTypeOK
    BY TcpShape
  <2>2. handler[c].age \in 0..IdleTimeout
    BY <2>1 DEF HandlerState
  <2> QED
    BY <2>1, <2>2, CopyValues
<1>2. CASE handler' = handler
  BY <1>2
<1>3. CASE TcpAdmit
  BY <1>1, <1>3 DEF TcpAdmit, TcpInv, SlotsCounted
<1>4. CASE TcpSweep
  BY <1>4 DEF TcpSweep, TcpInv, CloseOrder
<1>5. ASSUME NEW d \in Conns, TcpAccept(d) \/ HandlerStep(d) \/ RelayTick(d)
      PROVE  handler'[c].pc = "relay" => \A t \in Sides : handler'[c].sock[t] # "closed"
  <2>1. CASE d # c
    BY <1>5, <2>1, OthersUntouched
  <2>2. CASE d = c /\ RelayDone(c)
    BY <1>1, <2>2 DEF RelayDone
  <2>3. CASE d = c /\ RelayTick(c)
    <3>1. handler'[c].sock = handler[c].sock
      BY <1>1, <2>3 DEF RelayTick, HandlerState
    <3> QED
      BY <3>1
  <2> QED
    BY <1>5, <2>1, <2>2, <2>3 DEF TcpAccept, HandlerStep, RegisterClient, RegisterUpstream, Dial,
                                  UnregisterClient, CloseClient, Decrement
<1>6. ASSUME NEW d \in Conns, NEW s \in Sides,
             CopyStep(d, s) \/ PeerSends(d, s) \/ PeerResets(d, s)
      PROVE  handler'[c].pc = "relay" => \A t \in Sides : handler'[c].sock[t] # "closed"
  <2>1. CASE d # c
    BY <1>6, <2>1, OthersUntouched
  <2>2. CASE d = c /\ (CopyTop(c, s) \/ CopyRead(c, s) \/ CopyEOF(c, s) \/ CopyTimeout(c, s))
    <3>1. handler'[c].sock = handler[c].sock
      BY <1>1, <2>2 DEF CopyTop, CopyRead, CopyEOF, CopyTimeout, CopyAt, CopyTo, HandlerState
    <3> QED
      BY <3>1
  <2>3. CASE d = c /\ PeerSends(c, s)
    BY <2>3 DEF PeerSends
  <2>4. CASE d = c /\ PeerResets(c, s)
    <3>1. handler'[c].sock = [handler[c].sock EXCEPT ![s] = "reset"]
      BY <1>1, <2>4 DEF PeerResets, HandlerState
    <3>2. handler[c].sock \in [Sides -> SocketState]
      BY <1>1 DEF HandlerState
    <3> QED
      BY <3>1, <3>2
  <2> QED
    BY <1>6, <2>1, <2>2, <2>3, <2>4 DEF CopyStep, CopyReadError, CopyWrite, CopyWriteError, Copying
<1> QED
  BY <1>2, <1>3, <1>4, <1>5, <1>6 DEF TcpNext, TcpSystemStep, TcpSetListener, TcpAcceptError,
                                      TcpClose, tcpVars

-----------------------------------------------------------------------------
(* The listener of a route.                                                *)

\* Whichever proxy runs, the other stands still.
LEMMA ListenerStep == [Next]_l4vars => [TcpNext]_tcpVars /\ [UdpNext]_udpVars
BY DEF Next, l4vars

\* Both proxies keep their invariants.
THEOREM ListenerInvariant == Spec => [](TcpInv /\ UdpInv)
<1>1. Init => TcpInv /\ UdpInv
  BY TcpInvInit, UdpInvInit DEF Init
<1>2. (TcpInv /\ UdpInv) /\ [Next]_l4vars => (TcpInv /\ UdpInv)'
  BY ListenerStep, TcpInvStep, UdpInvStep
<1> QED
  BY <1>1, <1>2, PTL DEF Spec

\* tcp.go, for any number of clients, connection limit and idle timeout, with
\* peers that send, end, reset and stall as they like and a Close at any time:
\* no more sockets than maxConnections; a half-close is passed on only after
\* every byte before it; nothing registered survives Close.
THEOREM StreamsStaySafe == Spec => []StreamsSafe
<1> QED
  BY ListenerInvariant, TcpInvSafe, PTL

\* udp.go, for any number of clients, workers and sockets: the session table
\* holds open sessions only, and no upstream socket is open without an owner
\* that will close it, although workers, the sweeper and Close race on it.
THEOREM SessionsStaySafe == Spec => []SessionsSafe
<1>1. UdpInv => SessionsSafe
  BY DEF UdpInv, SessionsSafe
<1> QED
  BY <1>1, ListenerInvariant, PTL

\* relay: a healthy connection is cut only after both directions have been
\* quiet for a whole idle timeout.
THEOREM IdleCutsQuietRelays == Spec => IdleMeansBothQuiet
<1> DEFINE A == \A c \in Conns :
                   TornDown(c) /\ ~tcpClosed /\ (\A s \in Sides : handler[c].copy[s].pc # "write")
                       => handler[c].age = IdleTimeout
<1>1. TcpInv /\ [Next]_l4vars => [A]_tcpVars
  BY ListenerStep, BusyRelayKeepsSockets DEF TornDown
<1> QED
  BY <1>1, ListenerInvariant, PTL DEF Spec, IdleMeansBothQuiet
=============================================================================
