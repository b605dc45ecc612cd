----------------------------- MODULE MCIngress -----------------------------
(* Two ingresses share a composite key over two services, so that their    *)
(* targets are merged; a third one has a header constraint of its own.     *)
EXTENDS Ingress

MCIngresses == {"a", "b", "canary"}

MCRule == [i \in MCIngresses |->
    [class |-> "toron",
     host |-> "h",
     prefix |-> "/app",
     match |-> IF i = "canary" THEN "X-Canary" ELSE "any",
     service |-> IF i = "b" THEN "svcB" ELSE "svcA"]]
=============================================================================
