--------------------------- MODULE RouteBulkhead ---------------------------
(***************************************************************************)
(* RouteTable implements Bulkhead.  A slot is that of the array element a  *)
(* request has kept a pointer to; it is held from the moment the re-check  *)
(* of the gate succeeds until the deferred release, through the second     *)
(* match in ServeHTTP and through every swap of the table.                 *)
(***************************************************************************)
EXTENDS RouteTable

Counters == Gens \X Routes

HeldBy(q) == IF req[q].slot THEN <<req[q].gen, req[q].route>> ELSE <<>>

Gate == INSTANCE Bulkhead WITH
    Users <- Requests,
    Counters <- Counters,
    Cap <- [c \in Counters |-> Limit[c[2]]],
    Free <- <<>>,
    held <- [q \in Requests |-> HeldBy(q)]

\* The load, add, re-check and rollback of the two gates (TryAcquireRouteSlot
\* in handleConn and the gate of ServeHTTP) act, in any interleaving with
\* each other and with swaps of the table, as one atomic acquisition below
\* max_concurrency and one release by the same request.
ImplementsBulkhead == Gate!Spec
=============================================================================
