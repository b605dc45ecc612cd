------------------------------- MODULE Layer4 -------------------------------
(***************************************************************************)
(* The layer-4 listener of one configured route (cmd/toron/main.go): a     *)
(* "tcp" route starts a StreamProxy, a "udp" route a UdpSessions proxy, in *)
(* a goroutine of its own.  Only the proxy of the route's type runs.       *)
(***************************************************************************)
EXTENDS StreamProxy, UdpSessions

VARIABLE routeType  \* pr.IsTCP() or pr.IsUDP()

l4vars == <<routeType, tcpVars, udpVars>>

Init == routeType \in {"tcp", "udp"} /\ TcpInit /\ UdpInit

Next ==
    \/ routeType = "tcp" /\ TcpNext /\ UNCHANGED <<routeType, udpVars>>
    \/ routeType = "udp" /\ UdpNext /\ UNCHANGED <<routeType, tcpVars>>

\* The proxy that is not configured has nothing enabled that it would owe.
Fairness == TcpFairness /\ UdpFairness

Spec == Init /\ [][Next]_l4vars /\ Fairness

-----------------------------------------------------------------------------
\* Nothing that a client opens at layer 4 outlives its traffic (which is
\* bounded here): relays end and give their slots back although peers go
\* quiet, keep half of a connection open or stop reading; sessions expire
\* although their reader has ended on an error or Serve has returned; and what
\* a concurrent Close does not see, it does not leave behind.
NothingOutlivesItsTraffic == []<>(StreamsAtRest /\ SessionsAtRest)
=============================================================================
