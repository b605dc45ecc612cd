---------------------------- MODULE UpgradeRelay ----------------------------
(***************************************************************************)
(* pkg/server: relayStreams (server.go) over two connections whose         *)
(* deadlines are amortised (deadline.go).  A direction is named after the  *)
(* side it reads from.  Deadlines are the ticks left until they expire.    *)
(***************************************************************************)
EXTENDS Integers

CONSTANTS
    UpgradeIdle,  \* idleTimeout, in ticks
    MaxRelayed    \* bound: reads each side gives rise to

ASSUME RelayAssumption == UpgradeIdle \in Nat \ {0} /\ MaxRelayed \in Nat

Ends == {"client", "upstream"}
Opposite(s) == IF s = "client" THEN "upstream" ELSE "client"

VARIABLES
    copy,        \* copyDirection(s -> Opposite(s)): "top", "read", "write", "stopped"
    deadline,    \* per side: ticks left for reads and writes; forced when set by
                 \* ForceSetReadDeadline, or not at all
    halfClosed,  \* one direction has ended with EOF
    sockets,     \* the connections are open (closeBoth closes both)
    moved,       \* reads of each side so far
    quiet        \* ticks since a byte was read from either side, saturating

relayVars == <<copy, deadline, halfClosed, sockets, moved, quiet>>

Deadline == [read : 0..UpgradeIdle, write : 0..UpgradeIdle,
             readForced : BOOLEAN, writeForced : BOOLEAN]

RelayTypeOK ==
    /\ copy \in [Ends -> {"top", "read", "write", "stopped"}]
    /\ deadline \in [Ends -> Deadline]
    /\ halfClosed \in BOOLEAN /\ sockets \in BOOLEAN
    /\ moved \in [Ends -> 0..MaxRelayed] /\ quiet \in 0..UpgradeIdle

\* Both read deadlines are forced; a write deadline is set by the first write.
RelayInit ==
    /\ copy = [s \in Ends |-> "top"]
    /\ deadline = [s \in Ends |-> [read |-> UpgradeIdle, write |-> UpgradeIdle,
                                   readForced |-> TRUE, writeForced |-> TRUE]]
    /\ halfClosed = FALSE /\ sockets = TRUE
    /\ moved = [s \in Ends |-> 0] /\ quiet = 0

\* SetAmortizedReadDeadline and SetAmortizedWriteDeadline: a deadline that is
\* further away than half the timeout stays, unless it was set otherwise.
Amortized(left, forced) ==
    IF ~forced /\ 2 * left > UpgradeIdle THEN left ELSE UpgradeIdle

ReadRefreshed(d) ==
    [d EXCEPT !.read = Amortized(d.read, d.readForced), !.readForced = FALSE]
WriteRefreshed(d) ==
    [d EXCEPT !.write = Amortized(d.write, d.writeForced), !.writeForced = FALSE]

\* The deadline is refreshed at the head of the loop.
RelayTop(s) ==
    /\ copy[s] = "top"
    /\ deadline' = [deadline EXCEPT ![s] = ReadRefreshed(@)]
    /\ copy' = [copy EXCEPT ![s] = "read"]
    /\ UNCHANGED <<halfClosed, sockets, moved, quiet>>

\* A read that brings data refreshes both deadlines of the other side.
\* Mutant: only the other side's write deadline is refreshed.
RelayRead_WriteOnly(s) ==
    /\ copy[s] = "read" /\ sockets /\ deadline[s].read > 0 /\ moved[s] < MaxRelayed
    /\ moved' = [moved EXCEPT ![s] = @ + 1]
    /\ deadline' = [deadline EXCEPT ![Opposite(s)] = WriteRefreshed(@)]
    /\ copy' = [copy EXCEPT ![s] = "write"]
    /\ quiet' = 0
    /\ UNCHANGED <<halfClosed, sockets>>

RelayRead(s) ==
    /\ copy[s] = "read" /\ sockets /\ deadline[s].read > 0 /\ moved[s] < MaxRelayed
    /\ moved' = [moved EXCEPT ![s] = @ + 1]
    /\ deadline' = [deadline EXCEPT ![Opposite(s)] = WriteRefreshed(ReadRefreshed(@))]
    /\ copy' = [copy EXCEPT ![s] = "write"]
    /\ quiet' = 0
    /\ UNCHANGED <<halfClosed, sockets>>

RelayWrite(s) ==
    /\ copy[s] = "write" /\ sockets /\ deadline[Opposite(s)].write > 0
    /\ copy' = [copy EXCEPT ![s] = "top"]
    /\ UNCHANGED <<deadline, halfClosed, sockets, moved, quiet>>

\* The direction ends with closeBoth.
Stop(s) ==
    /\ copy' = [copy EXCEPT ![s] = "stopped"]
    /\ sockets' = FALSE
    /\ UNCHANGED <<deadline, halfClosed, moved, quiet>>

\* The write deadline has passed, or the connection is closed or reset.
RelayWriteFails(s) == copy[s] = "write" /\ Stop(s)

\* The first EOF is passed on as a half-close, when the other side can do it
\* (a TLS connection or a wrapped one may not); the second one ends the relay.
RelayEOF(s) ==
    /\ copy[s] = "read" /\ sockets /\ deadline[s].read > 0
    /\ IF halfClosed
       THEN Stop(s)
       ELSE /\ halfClosed' = TRUE
            /\ copy' = [copy EXCEPT ![s] = "stopped"]
            /\ sockets' \in BOOLEAN
            /\ UNCHANGED <<deadline, moved, quiet>>

RelayTimeout(s) ==
    copy[s] = "read" /\ sockets /\ deadline[s].read = 0 /\ Stop(s)

\* A reset by the peer, or the other direction has closed both connections.
RelayReadFails(s) == copy[s] = "read" /\ (~sockets \/ deadline[s].read > 0) /\ Stop(s)

\* Time passes while both directions wait for a peer.
RelayWaits(s) ==
    CASE copy[s] = "read"  -> sockets /\ deadline[s].read > 0
      [] copy[s] = "write" -> sockets /\ deadline[Opposite(s)].write > 0
      [] OTHER -> copy[s] = "stopped"

Later(n) == IF n = 0 THEN 0 ELSE n - 1

RelayClock ==
    /\ \A s \in Ends : RelayWaits(s)
    /\ \E s \in Ends : copy[s] # "stopped"
    /\ deadline' = [s \in Ends |-> [deadline[s] EXCEPT !.read = Later(@),
                                                       !.write = Later(@)]]
    /\ quiet' = IF quiet < UpgradeIdle THEN quiet + 1 ELSE quiet
    /\ UNCHANGED <<copy, halfClosed, sockets, moved>>

\* wg.Wait and the deferred closeBoth.
RelayEnded == \A s \in Ends : copy[s] = "stopped"

RelayStep ==
    \/ \E s \in Ends :
          \/ RelayTop(s) \/ RelayRead(s) \/ RelayWrite(s) \/ RelayWriteFails(s)
          \/ RelayEOF(s) \/ RelayTimeout(s) \/ RelayReadFails(s)
    \/ RelayClock

\* The steps no peer has a say in: deadlines expire, and a closed socket fails.
RelayBounded ==
    \/ \E s \in Ends :
          \/ RelayTop(s) \/ RelayTimeout(s)
          \/ ~sockets /\ RelayReadFails(s)
          \/ (~sockets \/ deadline[Opposite(s)].write = 0) /\ RelayWriteFails(s)
    \/ RelayClock

-----------------------------------------------------------------------------
\* A relay is closed for inactivity only when neither side has sent a byte for
\* more than half of the idle timeout: the amortised deadlines may cut the
\* timeout short by half, never more, and what one side sends keeps the other
\* direction alive.
IdleRelayOnly ==
    [][\A s \in Ends : RelayTimeout(s) => 2 * quiet > UpgradeIdle]_relayVars
=============================================================================
