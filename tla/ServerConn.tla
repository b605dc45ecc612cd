----------------------------- MODULE ServerConn -----------------------------
(***************************************************************************)
(* pkg/server: everything that happens on one accepted connection.  The    *)
(* HTTP/1.1 loop ends in a relay when a request is upgraded; a client that *)
(* speaks HTTP/2 is served stream by stream (one of them is followed).     *)
(***************************************************************************)
EXTENDS ConnLoop, UpgradeRelay, H2Stream

vars == <<connVars, relayVars, h2Vars>>

Init == ConnInit /\ RelayInit /\ H2Init

\* relayUpgradedStreams has returned: release, cancel, return.
RelayReturns ==
    /\ pc = "relay" /\ RelayEnded
    /\ up' = "closed"
    /\ held' = FALSE /\ live' = FALSE
    /\ pc' = "done"
    /\ UNCHANGED <<speaks, client, stream, buf, req, body, res, open, replies,
                   relayVars, h2Vars>>

\* http2.Server.ServeConn has returned.
H2Returns ==
    /\ pc = "h2" /\ h2 = "done"
    /\ pc' = "done"
    /\ UNCHANGED <<speaks, client, stream, buf, srvVars, relayVars,
                   h2Vars>>

SystemStep ==
    \/ ServerStep /\ UNCHANGED <<relayVars, h2Vars>>
    \/ pc = "relay" /\ RelayStep /\ UNCHANGED <<connVars, h2Vars>>
    \/ RelayReturns
    \/ pc = "h2" /\ H2Step /\ UNCHANGED <<connVars, relayVars>>
    \/ H2Returns

EnvironmentStep ==
    \/ ClientStep /\ UNCHANGED <<relayVars, h2Vars>>
    \/ pc = "h2" /\ ClientResets /\ UNCHANGED <<connVars, relayVars>>

Next == SystemStep \/ EnvironmentStep

\* The loop waits for an upstream, whose answer to a handshake, whose reading of
\* the request and whose body have no deadline.
UpstreamsTurn ==
    \/ pc = "await"
    \/ pc = "streaming" /\ res.eof = "none"
    \/ pc = "h2" /\ (h2 = "serve" \/ (h2 = "stream" /\ ~h2Gone))

\* http2.Server has no deadline for what its client sends, reads or opens next.
H2ClientsTurn == pc = "h2" /\ (h2 = "done" \/ (h2 \in {"body", "write"} /\ ~h2Gone))

\* The goroutines of a connection run and its timers fire; no client and no
\* upstream owes anything.
BoundedStep ==
    \/ ~UpstreamsTurn /\ ServerStep /\ UNCHANGED <<relayVars, h2Vars>>
    \/ pc = "relay" /\ RelayBounded /\ UNCHANGED <<connVars, h2Vars>>
    \/ RelayReturns
    \/ pc = "h2" /\ H2Bounded /\ UNCHANGED <<connVars, relayVars>>

Spec == Init /\ [][Next]_vars /\ WF_vars(BoundedStep)

-----------------------------------------------------------------------------
\* Whatever happens on a connection, nothing of it survives its requests.
ConnectionSafe == ExchangeSafe /\ RelayTypeOK /\ H2Safe

\* Every connection ends, although the client sends half a request, sends
\* nothing, does not read or keeps its half of an upgraded connection open,
\* and although the goroutines of a relay wait for each other.  Only an
\* upstream that keeps silent, and a client of HTTP/2, can hold it up.
EveryConnectionEnds == <>[](pc = "done" \/ UpstreamsTurn \/ H2ClientsTurn)
=============================================================================
