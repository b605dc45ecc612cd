---------------------------- MODULE MCRouteTable ----------------------------
(* Small instances of RouteTable: a configured route with a bulkhead of    *)
(* one, and instances that discovery and ingress publish at run time.      *)
EXTENDS RouteBulkhead, TLC

CONSTANTS legacy, d1, k1, oci, poll, ing, q1, q2, nil

\* "oci" and "poll" are the two goroutines of the discovery manager that
\* replace the routes tagged oci-discovery; "ing" is the ingress controller.
MCSourceOf ==
    (legacy :> "config") @@ (d1 :> "oci-discovery") @@ (k1 :> "k8s-ingress")
      @@ (oci :> "oci-discovery") @@ (poll :> "oci-discovery") @@ (ing :> "k8s-ingress")

MCKeyOf == (legacy :> "legacy") @@ (d1 :> "disc") @@ (k1 :> "ingress")

\* Every route matches the uploads, the discovered ones before the configured.
MCMatches == [p \in Paths |-> Routes]

MCRank == [r \in Routes |-> CASE r = d1 -> 0 [] r = k1 -> 1 [] r = legacy -> 2]

\* Discovery and ingress set no max_concurrency.
MCLimit == [r \in Routes |-> IF r = legacy THEN 1 ELSE 0]
=============================================================================
