---------------------------- MODULE UdpSessions ----------------------------
(***************************************************************************)
(* pkg/proxy/udp.go: the layer-4 UDP proxy.  Serve queues datagrams for a  *)
(* pool of workers and drops them when the queue is full; a worker finds   *)
(* or creates the client's session (one upstream socket with one response  *)
(* reader) and writes to it; a sweeper expires idle sessions.              *)
(*                                                                         *)
(* The session table is under sessionMu; a session's socket and its        *)
(* lastActivity are not.  A step is one critical section or one call on a  *)
(* socket.  The sockets are numbered in the order in which they are        *)
(* dialled, up to the bound MaxSockets.                                    *)
(***************************************************************************)
EXTENDS Integers, FiniteSets, Sequences

CONSTANTS
    UClients,      \* client addresses
    UWorkers,      \* the worker goroutines; as many as the queue holds
    MaxSockets,    \* bound: upstream sockets that may be dialled
    MaxDatagrams,  \* bound: datagrams that arrive
    MaxReplies,    \* bound: datagrams the targets send back
    SessionIdle,   \* p.idleTimeout, in ticks
    NoClient       \* no client

ASSUME UdpAssumption ==
    /\ IsFiniteSet(UWorkers) /\ UWorkers # {}
    /\ MaxDatagrams \in Nat /\ MaxReplies \in Nat /\ SessionIdle \in Nat
    /\ MaxSockets \in Nat /\ NoClient \notin UClients
    /\ UClients \cap {"start", "reading", "draining", "returned"} = {}

Sockets == 1..MaxSockets
NoSocket == 0

VARIABLES
    udpCloser,  \* Close: "idle", "sessions" (p.closed is closed), "done"
    inbound,    \* the inbound socket is open
    udpServe,   \* Serve: "start", "reading", a datagram's client, "draining", "returned"
    queue,      \* p.packetQueue, the client of each datagram
    uworker,    \* forwardPacket of each worker: pc, client, socket in hand
    sessions,   \* p.sessions: the socket of each client's session
    upstream,   \* the sockets: owner, state, ticks since touch, reader
    expiring,   \* the sweeper's list of expired sessions it has yet to close
    sweeper,    \* startSweeper: "off", "running", "stopped"
    datagrams,  \* datagrams received so far
    replies     \* replies received so far

udpVars == <<udpCloser, inbound, udpServe, queue, uworker, sessions, upstream,
             expiring, sweeper, datagrams, replies>>

udpClosed == udpCloser # "idle"

\* forwardPacket has a client once it has received a datagram, and a socket
\* once it has dialled one or found a session.
UWorkerState ==
    [pc : {"off", "receive", "exited"}, client : {NoClient}, sock : {NoSocket}]
    \cup [pc : {"lookup", "dial"}, client : UClients, sock : {NoSocket}]
    \cup [pc : {"install", "forward"}, client : UClients, sock : Sockets]

UpstreamState == [state : {"unused", "open", "closed"}, client : UClients \cup {NoClient},
                  age : 0..(SessionIdle + 1), reader : {"off", "running", "ended"}]

UdpTypeOK ==
    /\ udpCloser \in {"idle", "sessions", "done"} /\ inbound \in BOOLEAN
    /\ udpServe \in UClients \cup {"start", "reading", "draining", "returned"}
    /\ queue \in Seq(UClients) /\ Len(queue) <= Cardinality(UWorkers)
    /\ uworker \in [UWorkers -> UWorkerState]
    /\ sessions \in [UClients -> Sockets \cup {NoSocket}]
    /\ upstream \in [Sockets -> UpstreamState]
    /\ expiring \in SUBSET Sockets
    /\ sweeper \in {"off", "running", "stopped"}
    /\ datagrams \in 0..MaxDatagrams /\ replies \in 0..MaxReplies

UdpInit ==
    /\ udpCloser = "idle" /\ inbound = TRUE
    /\ udpServe = "start"
    /\ queue = <<>>
    /\ uworker = [w \in UWorkers |-> [pc |-> "off", client |-> NoClient, sock |-> NoSocket]]
    /\ sessions = [c \in UClients |-> NoSocket]
    /\ upstream = [k \in Sockets |-> [state |-> "unused", client |-> NoClient, age |-> 0,
                                      reader |-> "off"]]
    /\ expiring = {}
    /\ sweeper = "off"
    /\ datagrams = 0 /\ replies = 0

-----------------------------------------------------------------------------
(* Serve.                                                                  *)

\* p.conn is set, the workers and the sweeper are started.
UdpStart ==
    /\ udpServe = "start"
    /\ udpServe' = "reading"
    /\ uworker' = [w \in UWorkers |-> [uworker[w] EXCEPT !.pc = "receive"]]
    /\ sweeper' = "running"
    /\ UNCHANGED <<udpCloser, inbound, queue, sessions, upstream, expiring, datagrams, replies>>

ReadDatagram(c) ==
    /\ udpServe = "reading" /\ inbound
    /\ datagrams < MaxDatagrams
    /\ datagrams' = datagrams + 1
    /\ udpServe' = c
    /\ UNCHANGED <<udpCloser, inbound, queue, uworker, sessions, upstream, expiring,
                   sweeper, replies>>

QueueFull == Len(queue) = Cardinality(UWorkers)

\* The select of Serve: queue the datagram, or return because the proxy is
\* closed (either, when both are possible), or else drop it.
Enqueue ==
    /\ udpServe \in UClients
    /\ \/ ~QueueFull /\ queue' = Append(queue, udpServe) /\ udpServe' = "reading"
       \/ udpClosed /\ queue' = queue /\ udpServe' = "draining"
       \/ QueueFull /\ ~udpClosed /\ queue' = queue /\ udpServe' = "reading"
    /\ UNCHANGED <<udpCloser, inbound, uworker, sessions, upstream, expiring, sweeper,
                   datagrams, replies>>

\* Any read error ends Serve; its deferred function closes the queue.
ReceiveError ==
    /\ udpServe = "reading"
    /\ udpServe' = "draining"
    /\ UNCHANGED <<udpCloser, inbound, queue, uworker, sessions, upstream, expiring,
                   sweeper, datagrams, replies>>

\* workerWg.Wait: Serve returns when the workers have.
UdpReturn ==
    /\ udpServe = "draining"
    /\ \A w \in UWorkers : uworker[w].pc = "exited"
    /\ udpServe' = "returned"
    /\ UNCHANGED <<udpCloser, inbound, queue, uworker, sessions, upstream, expiring,
                   sweeper, datagrams, replies>>

-----------------------------------------------------------------------------
(* forwardPacket and getOrCreateSession.                                   *)

WorkerUnchanged ==
    UNCHANGED <<udpCloser, inbound, udpServe, expiring, sweeper, datagrams, replies>>

UWorkerAt(w, pc, c, k) == uworker' = [uworker EXCEPT ![w] = [pc |-> pc, client |-> c, sock |-> k]]

Idle(w) == UWorkerAt(w, "receive", NoClient, NoSocket)

\* Receive from the queue; it is closed once Serve is leaving.
TakeDatagram(w) ==
    /\ uworker[w].pc = "receive"
    /\ \/ /\ queue # <<>>
          /\ queue' = Tail(queue)
          /\ UWorkerAt(w, "lookup", Head(queue), NoSocket)
       \/ /\ queue = <<>> /\ udpServe = "draining"
          /\ queue' = queue
          /\ UWorkerAt(w, "exited", NoClient, NoSocket)
    /\ UNCHANGED <<sessions, upstream>>
    /\ WorkerUnchanged

\* The first look at the table, under the read lock.
Lookup(w) ==
    LET c == uworker[w].client IN
    /\ uworker[w].pc = "lookup"
    /\ IF sessions[c] # NoSocket THEN UWorkerAt(w, "forward", c, sessions[c])
                                 ELSE UWorkerAt(w, "dial", c, NoSocket)
    /\ UNCHANGED <<queue, sessions, upstream>>
    /\ WorkerUnchanged

\* SelectTarget, ResolveUDPAddr and DialUDP; a failure drops the datagram.
DialUDP(w) ==
    /\ uworker[w].pc = "dial"
    /\ \/ \E k \in Sockets :
             /\ upstream[k].state = "unused"
             /\ \A j \in 1..(k - 1) : upstream[j].state # "unused"
             /\ upstream' = [upstream EXCEPT ![k].state = "open"]
             /\ UWorkerAt(w, "install", uworker[w].client, k)
       \/ upstream' = upstream /\ Idle(w)
    /\ UNCHANGED <<queue, sessions>>
    /\ WorkerUnchanged

\* Mutant: the loser of the race keeps its socket open.
Install_Leaks(w) ==
    LET c == uworker[w].client  k == uworker[w].sock IN
    /\ uworker[w].pc = "install"
    /\ sessions[c] # NoSocket
    /\ UWorkerAt(w, "forward", c, sessions[c])
    /\ UNCHANGED <<queue, sessions, upstream>>
    /\ WorkerUnchanged

\* Another worker has installed a session meanwhile: use it, close ours.
InstallLost(w) ==
    LET c == uworker[w].client  k == uworker[w].sock IN
    /\ uworker[w].pc = "install"
    /\ sessions[c] # NoSocket
    /\ upstream' = [upstream EXCEPT ![k].state = "closed"]
    /\ UWorkerAt(w, "forward", c, sessions[c])
    /\ UNCHANGED <<queue, sessions>>
    /\ WorkerUnchanged

\* Close has begun: close ours and drop the datagram.
InstallRefused(w) ==
    LET c == uworker[w].client  k == uworker[w].sock IN
    /\ uworker[w].pc = "install"
    /\ sessions[c] = NoSocket /\ udpClosed
    /\ upstream' = [upstream EXCEPT ![k].state = "closed"]
    /\ Idle(w)
    /\ UNCHANGED <<queue, sessions>>
    /\ WorkerUnchanged

\* Mutant: the table is not checked for p.closed.
InstallSession_Unchecked(w) ==
    LET c == uworker[w].client  k == uworker[w].sock IN
    /\ uworker[w].pc = "install"
    /\ sessions[c] = NoSocket
    /\ sessions' = [sessions EXCEPT ![c] = k]
    /\ upstream' = [upstream EXCEPT ![k] = [state |-> "open", client |-> c, age |-> 0,
                                            reader |-> "running"]]
    /\ UWorkerAt(w, "forward", c, k)
    /\ queue' = queue
    /\ WorkerUnchanged

\* The new session is put in the table and its reader is started.
InstallSession(w) ==
    LET c == uworker[w].client  k == uworker[w].sock IN
    /\ uworker[w].pc = "install"
    /\ sessions[c] = NoSocket /\ ~udpClosed
    /\ sessions' = [sessions EXCEPT ![c] = k]
    /\ upstream' = [upstream EXCEPT ![k] = [state |-> "open", client |-> c, age |-> 0,
                                            reader |-> "running"]]
    /\ UWorkerAt(w, "forward", c, k)
    /\ queue' = queue
    /\ WorkerUnchanged

\* touch and Write.  The session may have been closed since it was found: the
\* write fails and the datagram is lost.
Forward(w) ==
    /\ uworker[w].pc = "forward"
    /\ upstream' = [upstream EXCEPT ![uworker[w].sock].age = 0]
    /\ Idle(w)
    /\ UNCHANGED <<queue, sessions>>
    /\ WorkerUnchanged

-----------------------------------------------------------------------------
(* readUpstreamResponses, the sweeper and the clock.                       *)

\* A reply: touch, and write it to the client.
Reply(k) ==
    /\ upstream[k].reader = "running" /\ upstream[k].state = "open"
    /\ replies < MaxReplies
    /\ replies' = replies + 1
    /\ upstream' = [upstream EXCEPT ![k].age = 0]
    /\ UNCHANGED <<udpCloser, inbound, udpServe, queue, uworker, sessions, expiring,
                   sweeper, datagrams>>

\* Read fails: the socket was closed, or the target refused a datagram (an
\* ICMP error).  The session stays in the table.
ReaderEnds(k) ==
    /\ upstream[k].reader = "running"
    /\ upstream' = [upstream EXCEPT ![k].reader = "ended"]
    /\ UNCHANGED <<udpCloser, inbound, udpServe, queue, uworker, sessions, expiring,
                   sweeper, datagrams, replies>>

InTable(k) == \E c \in UClients : sessions[c] = k

Expired(k) == InTable(k) /\ upstream[k].age > SessionIdle

\* sweepExpiredSessions: first the table, under the lock ...
SweepTable ==
    /\ sweeper = "running" /\ expiring = {}
    /\ expiring' = {k \in Sockets : Expired(k)}
    /\ expiring' # {}
    /\ sessions' = [c \in UClients |->
                      IF sessions[c] \in expiring' THEN NoSocket ELSE sessions[c]]
    /\ UNCHANGED <<udpCloser, inbound, udpServe, queue, uworker, upstream, sweeper,
                   datagrams, replies>>

\* ... then the sockets, one by one, without it.
SweepClose ==
    /\ \E k \in expiring :
          /\ upstream' = [upstream EXCEPT ![k].state = "closed"]
          /\ expiring' = expiring \ {k}
    /\ UNCHANGED <<udpCloser, inbound, udpServe, queue, uworker, sessions, sweeper,
                   datagrams, replies>>

\* select, case <-p.closed.
SweeperStops ==
    /\ sweeper = "running" /\ expiring = {} /\ udpClosed
    /\ sweeper' = "stopped"
    /\ UNCHANGED <<udpCloser, inbound, udpServe, queue, uworker, sessions, upstream,
                   expiring, datagrams, replies>>

UdpTick ==
    /\ \E k \in Sockets : InTable(k) /\ upstream[k].age <= SessionIdle
    /\ upstream' = [k \in Sockets |->
                      [upstream[k] EXCEPT !.age = IF InTable(k) /\ @ <= SessionIdle
                                                  THEN @ + 1 ELSE @]]
    /\ UNCHANGED <<udpCloser, inbound, udpServe, queue, uworker, sessions, expiring,
                   sweeper, datagrams, replies>>

-----------------------------------------------------------------------------
(* Close.                                                                  *)

\* close(p.closed), and p.conn.Close when Serve has set it.
UdpClose ==
    /\ udpCloser = "idle"
    /\ udpCloser' = "sessions"
    /\ inbound' = (udpServe = "start")
    /\ UNCHANGED <<udpServe, queue, uworker, sessions, upstream, expiring, sweeper,
                   datagrams, replies>>

\* Under sessionMu every session is closed and the table replaced.
UdpCloseSessions ==
    /\ udpCloser = "sessions"
    /\ udpCloser' = "done"
    /\ upstream' = [k \in Sockets |->
                      IF InTable(k) THEN [upstream[k] EXCEPT !.state = "closed"] ELSE upstream[k]]
    /\ sessions' = [c \in UClients |-> NoSocket]
    /\ UNCHANGED <<inbound, udpServe, queue, uworker, expiring, sweeper, datagrams, replies>>

-----------------------------------------------------------------------------
UWorkerStep(w) ==
    \/ TakeDatagram(w) \/ Lookup(w) \/ DialUDP(w) \/ InstallLost(w) \/ InstallRefused(w)
    \/ InstallSession(w) \/ Forward(w)

\* What the proxy and the clock do by themselves; the read of a closed socket
\* fails.
UdpSystemStep ==
    \/ Enqueue \/ (~inbound /\ ReceiveError) \/ UdpReturn
    \/ \E w \in UWorkers : UWorkerStep(w)
    \/ \E k \in Sockets : upstream[k].state = "closed" /\ ReaderEnds(k)
    \/ SweepTable \/ SweepClose \/ SweeperStops \/ UdpTick \/ UdpCloseSessions

UdpNext ==
    \/ UdpSystemStep
    \/ UdpStart \/ ReceiveError \/ UdpClose
    \/ \E c \in UClients : ReadDatagram(c)
    \/ \E k \in Sockets : Reply(k) \/ ReaderEnds(k)

\* As for the TCP proxy, one weak condition: between two datagrams the proxy
\* takes a bounded number of steps.
UdpFairness == WF_udpVars(UdpSystemStep)

-----------------------------------------------------------------------------
(* Properties.                                                             *)

\* A worker that looks a client up never finds a session whose socket has
\* been closed: expiry takes a session out of the table before closing it, so
\* an expired client's next datagram opens a new session instead of being
\* written to a dead one for as long as it keeps sending.
TableHoldsLiveSessions ==
    \A c \in UClients :
        sessions[c] # NoSocket =>
            upstream[sessions[c]].state = "open" /\ upstream[sessions[c]].client = c

\* No upstream socket is leaked: an open one is in the table, in the hands of
\* the worker that dialled it, or on the sweeper's list.
NoLeakedSocket ==
    \A k \in Sockets :
        upstream[k].state = "open" =>
            \/ InTable(k)
            \/ k \in expiring
            \/ \E w \in UWorkers : uworker[w].pc = "install" /\ uworker[w].sock = k

\* What udp.go keeps true at every step, with workers, sweeper and Close
\* racing on the session table.
SessionsSafe == UdpTypeOK /\ TableHoldsLiveSessions /\ NoLeakedSocket

\* No session is alive, no datagram is queued, and a Serve whose socket has
\* been closed has returned.
SessionsAtRest ==
    /\ \A k \in Sockets : upstream[k].state # "open"
    /\ udpServe = "reading" => inbound
    /\ queue = <<>>
=============================================================================
