---------------------------- MODULE StreamProxy ----------------------------
(***************************************************************************)
(* pkg/proxy/tcp.go: the layer-4 TCP proxy.  Serve admits connections up   *)
(* to maxConnections, handleConn dials a target and relays both directions *)
(* until each has ended, and Close closes everything that is registered.   *)
(*                                                                         *)
(* A step is one critical section of connsMu, one blocking call or one     *)
(* atomic access with the local code around it.  Time is the number of     *)
(* ticks since a relay's lastActivity, saturating at IdleTimeout; the      *)
(* relays share no timer, so each has its own clock.                       *)
(***************************************************************************)
EXTENDS Integers, FiniteSets

CONSTANTS
    Conns,           \* client connections that may arrive
    MaxConnections,  \* p.maxConnections
    IdleTimeout,     \* p.idleTimeout, in ticks
    MaxBytes         \* bound: reads each peer gives rise to

ASSUME TcpAssumption ==
    /\ IsFiniteSet(Conns)
    /\ MaxConnections \in Nat \ {0}
    /\ IdleTimeout \in Nat \ {0}
    /\ MaxBytes \in Nat
    /\ Conns \cap {"start", "accept", "returned"} = {}

Sides == {"client", "upstream"}
Other(s) == IF s = "client" THEN "upstream" ELSE "client"

VARIABLES
    tcpClosed,    \* p.closed is closed
    listening,    \* the listener accepts
    serving,      \* Serve: "start", "accept", a connection it holds, "returned"
    activeConns,  \* p.activeConns
    connSet,      \* p.activeConnSet, a set of <<connection, side>>
    handler,      \* handleConn of each connection: pc, sockets, clock, copies
    peer,         \* what the two remote ends of each connection have done
    tcpCloser     \* the goroutine running Close

tcpVars == <<tcpClosed, listening, serving, activeConns, connSet, handler, peer,
             tcpCloser>>

HandlerPC == {"none", "accepted", "refused", "register", "dial", "registerUp",
              "relay", "unregister", "exit", "decrement", "done"}

\* copyDirection: at its loop head, in Read with a deadline, in Write, returned.
Copy == [pc : {"top", "read", "write", "stopped"}, deadline : 0..IdleTimeout,
         eof : BOOLEAN]

\* "reset" is open too, but its peer has aborted the connection.
SocketState == {"none", "open", "reset", "closed"}

HandlerState == [pc : HandlerPC, sock : [Sides -> SocketState], age : 0..IdleTimeout,
                 copy : [Sides -> Copy]]

PeerState == [sent : 0..MaxBytes, pending : 0..MaxBytes, got : 0..MaxBytes,
              fin : BOOLEAN, finGot : BOOLEAN]

TcpTypeOK ==
    /\ tcpClosed \in BOOLEAN /\ listening \in BOOLEAN
    /\ serving \in Conns \cup {"start", "accept", "returned"}
    /\ activeConns \in 0..MaxConnections
    /\ connSet \in SUBSET (Conns \X Sides)
    /\ handler \in [Conns -> HandlerState]
    /\ peer \in [Conns -> [Sides -> PeerState]]
    /\ tcpCloser \in {"idle", "sweep", "done"}

FreshCopy == [pc |-> "top", deadline |-> 0, eof |-> FALSE]

FreshPeer == [sent |-> 0, pending |-> 0, got |-> 0, fin |-> FALSE, finGot |-> FALSE]

TcpInit ==
    /\ tcpClosed = FALSE /\ listening = TRUE
    /\ serving = "start"
    /\ activeConns = 0
    /\ connSet = {}
    /\ handler = [c \in Conns |-> [pc |-> "none", sock |-> [s \in Sides |-> "none"],
                                   age |-> 0, copy |-> [s \in Sides |-> FreshCopy]]]
    /\ peer = [c \in Conns |-> [s \in Sides |-> FreshPeer]]
    /\ tcpCloser = "idle"

-----------------------------------------------------------------------------
(* Serve.                                                                  *)

\* p.listener = l
TcpSetListener ==
    /\ serving = "start"
    /\ serving' = "accept"
    /\ UNCHANGED <<tcpClosed, listening, activeConns, connSet, handler, peer, tcpCloser>>

TcpAccept(c) ==
    /\ serving = "accept" /\ listening
    /\ handler[c].pc = "none"
    /\ handler' = [handler EXCEPT ![c].pc = "accepted", ![c].sock["client"] = "open"]
    /\ serving' = c
    /\ UNCHANGED <<tcpClosed, listening, activeConns, connSet, peer, tcpCloser>>

\* Any error of Accept ends Serve; a closed listener causes one.
TcpAcceptError ==
    /\ serving = "accept"
    /\ serving' = "returned"
    /\ UNCHANGED <<tcpClosed, listening, activeConns, connSet, handler, peer, tcpCloser>>

\* The connection limit.  Only Serve adds to activeConns, so its load and its
\* add are one step for everyone else.
TcpAdmit ==
    /\ serving \in Conns
    /\ IF activeConns >= MaxConnections
       THEN /\ handler' = [handler EXCEPT ![serving].pc = "refused",
                                          ![serving].sock["client"] = "closed"]
            /\ activeConns' = activeConns
       ELSE /\ handler' = [handler EXCEPT ![serving].pc = "register"]
            /\ activeConns' = activeConns + 1
    /\ serving' = "accept"
    /\ UNCHANGED <<tcpClosed, listening, connSet, peer, tcpCloser>>

-----------------------------------------------------------------------------
(* handleConn.                                                             *)

\* registerConn: after Close has begun the connection is closed here instead.
RegisterConn(c, s, next, refused) ==
    IF tcpClosed
    THEN /\ connSet' = connSet
         /\ handler' = [handler EXCEPT ![c].pc = refused, ![c].sock[s] = "closed"]
    ELSE /\ connSet' = connSet \cup {<<c, s>>}
         /\ handler' = [handler EXCEPT ![c].pc = next]

RegisterClient(c) ==
    /\ handler[c].pc = "register"
    /\ RegisterConn(c, "client", "dial", "exit")
    /\ UNCHANGED <<tcpClosed, listening, serving, activeConns, peer, tcpCloser>>

\* net.DialTimeout: connected, or failed or timed out.
Dial(c) ==
    /\ handler[c].pc = "dial"
    /\ \/ handler' = [handler EXCEPT ![c].pc = "registerUp", ![c].sock["upstream"] = "open"]
       \/ handler' = [handler EXCEPT ![c].pc = "unregister"]
    /\ UNCHANGED <<tcpClosed, listening, serving, activeConns, connSet, peer, tcpCloser>>

RegisterUpstream(c) ==
    /\ handler[c].pc = "registerUp"
    /\ RegisterConn(c, "upstream", "relay", "unregister")
    /\ UNCHANGED <<tcpClosed, listening, serving, activeConns, peer, tcpCloser>>

\* relay's wg.Wait returns; unregisterConn(upstream) and upstreamConn.Close.
\* The locals of relay, and with them what the peers sent, are gone.
RelayDone(c) ==
    /\ handler[c].pc = "relay"
    /\ \A s \in Sides : handler[c].copy[s].pc = "stopped"
    /\ connSet' = connSet \ {<<c, "upstream">>}
    /\ handler' = [handler EXCEPT ![c] = [pc |-> "unregister",
                                           sock |-> [@.sock EXCEPT !["upstream"] = "closed"],
                                           age |-> 0, copy |-> [s \in Sides |-> FreshCopy]]]
    /\ peer' = [peer EXCEPT ![c] = [s \in Sides |-> FreshPeer]]
    /\ UNCHANGED <<tcpClosed, listening, serving, activeConns, tcpCloser>>

\* The deferred unregisterConn(clientConn).
UnregisterClient(c) ==
    /\ handler[c].pc = "unregister"
    /\ connSet' = connSet \ {<<c, "client">>}
    /\ handler' = [handler EXCEPT ![c].pc = "exit"]
    /\ UNCHANGED <<tcpClosed, listening, serving, activeConns, peer, tcpCloser>>

\* The outermost deferred function: clientConn.Close, then the count.
CloseClient(c) ==
    /\ handler[c].pc = "exit"
    /\ handler' = [handler EXCEPT ![c].pc = "decrement", ![c].sock["client"] = "closed"]
    /\ UNCHANGED <<tcpClosed, listening, serving, activeConns, connSet, peer, tcpCloser>>

Decrement(c) ==
    /\ handler[c].pc = "decrement"
    /\ activeConns' = activeConns - 1
    /\ handler' = [handler EXCEPT ![c].pc = "done"]
    /\ UNCHANGED <<tcpClosed, listening, serving, connSet, peer, tcpCloser>>

-----------------------------------------------------------------------------
(* relay: copyDirection(dst, src), with src the side s.                    *)

Copying(c, s, pc) == handler[c].pc = "relay" /\ handler[c].copy[s].pc = pc

\* The handler after a direction has gone on to program point pc ...
CopyTo(c, s, pc, deadline, eof) ==
    [handler EXCEPT ![c].copy[s] = [pc |-> pc, deadline |-> deadline, eof |-> eof]]

\* ... where it has no deadline to wait for and no io.EOF in hand.
CopyAt(c, s, pc) == CopyTo(c, s, pc, 0, FALSE)

\* closeBoth and return.  closeOnce adds nothing: Close is idempotent.
StopBoth(c, s) ==
    [CopyAt(c, s, "stopped") EXCEPT ![c].sock = [x \in Sides |-> "closed"]]

CopyUnchanged == UNCHANGED <<tcpClosed, listening, serving, activeConns, connSet, tcpCloser>>

\* The idle check at the loop head, and the deadline for what remains.
CopyTop(c, s) ==
    /\ Copying(c, s, "top")
    /\ handler' = IF handler[c].age >= IdleTimeout
                  THEN StopBoth(c, s)
                  ELSE CopyTo(c, s, "read", IdleTimeout - handler[c].age, FALSE)
    /\ peer' = peer
    /\ CopyUnchanged

\* Read returns bytes, possibly together with io.EOF.
CopyRead(c, s) ==
    /\ Copying(c, s, "read")
    /\ handler[c].sock[s] = "open"
    /\ peer[c][s].pending > 0
    /\ \E eof \in {FALSE, peer[c][s].fin} :
          handler' = [CopyTo(c, s, "write", 0, eof) EXCEPT ![c].age = 0]
    /\ peer' = [peer EXCEPT ![c][s].pending = 0]
    /\ CopyUnchanged

\* The destination hears the end of the stream: CloseWrite.
CloseWrite(c, s) == [peer EXCEPT ![c][Other(s)].finGot = TRUE]

\* Read returns io.EOF alone.
CopyEOF(c, s) ==
    /\ Copying(c, s, "read")
    /\ handler[c].sock[s] = "open"
    /\ peer[c][s].fin /\ peer[c][s].pending = 0
    /\ handler' = CopyAt(c, s, "stopped")
    /\ peer' = CloseWrite(c, s)
    /\ CopyUnchanged

\* Mutant: a read deadline alone counts as an idle connection.
CopyTimeout_NoRecheck(c, s) ==
    /\ Copying(c, s, "read")
    /\ handler[c].copy[s].deadline = 0
    /\ handler' = StopBoth(c, s)
    /\ peer' = peer
    /\ CopyUnchanged

\* The read deadline passes.  The other direction may have been active since
\* it was set: lastActivity is looked at again.
CopyTimeout(c, s) ==
    /\ Copying(c, s, "read")
    /\ handler[c].copy[s].deadline = 0
    /\ handler' = IF tcpClosed \/ handler[c].age >= IdleTimeout
                  THEN StopBoth(c, s)
                  ELSE CopyAt(c, s, "top")
    /\ peer' = peer
    /\ CopyUnchanged

\* Read fails: the socket was closed under it, or the peer reset it.
CopyReadError(c, s) ==
    /\ Copying(c, s, "read")
    /\ handler[c].sock[s] \in {"closed", "reset"}
    /\ handler' = StopBoth(c, s)
    /\ peer' = peer
    /\ CopyUnchanged

Undelivered(c, s) == peer[c][s].sent - peer[c][s].pending - peer[c][Other(s)].got

\* Mutant: io.EOF is acted on before the bytes it came with are written.
CopyWrite_EOFFirst(c, s) ==
    /\ Copying(c, s, "write")
    /\ LET eof == handler[c].copy[s].eof IN
       /\ handler' = CopyAt(c, s, IF eof THEN "stopped" ELSE "top")
       /\ peer' = IF eof THEN CloseWrite(c, s)
                  ELSE [peer EXCEPT ![c][Other(s)].got = @ + Undelivered(c, s)]
    /\ CopyUnchanged

\* Write succeeds; an io.EOF that came with the bytes is handled after them.
CopyWrite(c, s) ==
    /\ Copying(c, s, "write")
    /\ handler[c].sock[Other(s)] = "open"
    /\ LET eof == handler[c].copy[s].eof IN
       /\ handler' = CopyAt(c, s, IF eof THEN "stopped" ELSE "top")
       /\ peer' = [(IF eof THEN CloseWrite(c, s) ELSE peer)
                       EXCEPT ![c][Other(s)].got = @ + Undelivered(c, s)]
    /\ CopyUnchanged

\* Write fails: a closed or reset socket, or a peer that does not read before
\* the write deadline.
CopyWriteError(c, s) ==
    /\ Copying(c, s, "write")
    /\ handler' = StopBoth(c, s)
    /\ peer' = peer
    /\ CopyUnchanged

CopyStep(c, s) ==
    \/ CopyTop(c, s) \/ CopyRead(c, s) \/ CopyEOF(c, s) \/ CopyTimeout(c, s)
    \/ CopyReadError(c, s) \/ CopyWrite(c, s) \/ CopyWriteError(c, s)

\* Time passes for a relay: lastActivity ages and read deadlines approach.
RelayTick(c) ==
    /\ handler[c].pc = "relay"
    /\ handler[c].age < IdleTimeout
    /\ handler' = [handler EXCEPT ![c].age = @ + 1,
           ![c].copy = [s \in Sides |->
               [handler[c].copy[s] EXCEPT !.deadline = IF @ > 0 THEN @ - 1 ELSE 0]]]
    /\ peer' = peer
    /\ CopyUnchanged

-----------------------------------------------------------------------------
(* The remote ends, which owe nothing.                                     *)

PeerSends(c, s) ==
    /\ handler[c].pc = "relay"
    /\ handler[c].sock[s] = "open" /\ ~peer[c][s].fin
    /\ \/ /\ peer[c][s].sent < MaxBytes
          /\ peer' = [peer EXCEPT ![c][s].sent = @ + 1, ![c][s].pending = @ + 1]
       \/ peer' = [peer EXCEPT ![c][s].fin = TRUE]
    /\ handler' = handler
    /\ CopyUnchanged

PeerResets(c, s) ==
    /\ handler[c].pc = "relay"
    /\ handler[c].sock[s] = "open"
    /\ handler' = [handler EXCEPT ![c].sock[s] = "reset"]
    /\ peer' = peer
    /\ CopyUnchanged

-----------------------------------------------------------------------------
(* Close.                                                                  *)

\* close(p.closed) and, when Serve has set it, p.listener.Close.
TcpClose ==
    /\ tcpCloser = "idle"
    /\ tcpClosed' = TRUE
    /\ listening' = (serving = "start")
    /\ tcpCloser' = "sweep"
    /\ UNCHANGED <<serving, activeConns, connSet, handler, peer>>

\* Every registered connection is closed and the set replaced, under connsMu.
TcpSweep ==
    /\ tcpCloser = "sweep"
    /\ handler' = [c \in Conns |-> [handler[c] EXCEPT !.sock =
                      [s \in Sides |-> IF <<c, s>> \in connSet THEN "closed" ELSE @[s]]]]
    /\ connSet' = {}
    /\ tcpCloser' = "done"
    /\ UNCHANGED <<tcpClosed, listening, serving, activeConns, peer>>

-----------------------------------------------------------------------------
HandlerStep(c) ==
    \/ RegisterClient(c) \/ Dial(c) \/ RegisterUpstream(c) \/ RelayDone(c)
    \/ UnregisterClient(c) \/ CloseClient(c) \/ Decrement(c)

\* What the proxy and the clock do by themselves.
TcpSystemStep ==
    \/ TcpAdmit \/ TcpSweep
    \/ \E c \in Conns : HandlerStep(c) \/ RelayTick(c) \/ \E s \in Sides : CopyStep(c, s)

TcpNext ==
    \/ TcpSystemStep \/ TcpSetListener \/ TcpAcceptError \/ TcpClose
    \/ \E c \in Conns : TcpAccept(c) \/ \E s \in Sides : PeerSends(c, s) \/ PeerResets(c, s)

\* Goroutines run, DialTimeout and deadlines expire, and time passes.  One weak
\* condition for all of them is enough, and asks least of the scheduler: each
\* relay takes a bounded number of steps between two steps of its peers.  Close
\* is never owed, and neither are a client's connection or its bytes.
TcpFairness == WF_tcpVars(TcpSystemStep)

-----------------------------------------------------------------------------
(* Properties.                                                             *)

OpenClients == {c \in Conns : handler[c].sock["client"] \in {"open", "reset"}}

\* maxConnections bounds the sockets, not only the counter: besides the
\* connection Serve is about to refuse, no more clients are open than that,
\* because a handler closes its socket before it gives the slot back.
SocketsWithinLimit == Cardinality(OpenClients \ {serving}) <= MaxConnections

\* When one end has been told that the stream is over (CloseWrite), it has
\* been given every byte the other end sent before its FIN.
HalfCloseDelivers ==
    \A c \in Conns, s \in Sides :
        peer[c][Other(s)].finGot => peer[c][Other(s)].got = peer[c][s].sent

\* Once Close has swept, nothing is registered again, and a socket that is
\* still open is in the hands of a handler that is about to close it: one that
\* has not yet asked to register it, or has unregistered it already.  A dial
\* that succeeds after the sweep does not start a relay.
CloseIsFinal ==
    tcpCloser = "done" =>
        /\ connSet = {}
        /\ \A c \in Conns, s \in Sides :
              handler[c].sock[s] \in {"open", "reset"} =>
                  handler[c].pc \in {"accepted", "register", "registerUp", "exit"}

\* What tcp.go keeps true at every step, whatever clients, targets and a
\* concurrent Close do: its limit, its half-closes and its Close.
StreamsSafe == TcpTypeOK /\ SocketsWithinLimit /\ HalfCloseDelivers /\ CloseIsFinal

TornDown(c) ==
    /\ handler[c].pc = "relay" /\ \A s \in Sides : handler[c].sock[s] = "open"
    /\ handler'[c].pc = "relay" /\ \E s \in Sides : handler'[c].sock[s] = "closed"

\* A relay between healthy peers of a running proxy is torn down only after a
\* whole IdleTimeout in which neither direction read anything: the deadline of
\* one direction never cuts off the other.
IdleMeansBothQuiet ==
    [][\A c \in Conns :
          TornDown(c) /\ ~tcpClosed /\ (\A s \in Sides : handler[c].copy[s].pc # "write")
              => handler[c].age = IdleTimeout]_tcpVars

\* No connection is in progress, and no client socket is open.
StreamsAtRest ==
    \A c \in Conns : handler[c].pc \in {"none", "refused", "done"} /\ c \notin OpenClients
=============================================================================
