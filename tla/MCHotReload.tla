---------------------------- MODULE MCHotReload ----------------------------
(* A small instance: an engine with one rule and one client banned, and an *)
(* edit that denies another one, of which a reload may read a beginning,   *)
(* or nothing it can parse.                                                *)
EXTENDS HotReload

Start == [loads |-> TRUE, enabled |-> TRUE, builds |-> TRUE, excluded |-> {}, trusted |-> {"p"},
          denied |-> {}, allowed |-> {}, rules |-> [sqli |-> 5], threshold |-> 5,
          enforce |-> TRUE, autoBan |-> TRUE, auditLog |-> TRUE]

MCConfigs ==
    [start |-> Start,
     denies |-> [Start EXCEPT !.denied = {"d"}, !.excluded = {"/own"}],
     garbled |-> [Start EXCEPT !.loads = FALSE],
     prefix |-> [Start EXCEPT !.enforce = FALSE, !.autoBan = FALSE, !.auditLog = FALSE]]

MCEdits == <<"denies">>

MCRequests ==
    {[path |-> "/own", peer |-> "p", forwarded |-> "c", marks |-> {"sqli"}, wellFormed |-> TRUE],
     [path |-> "/", peer |-> "d", forwarded |-> "c", marks |-> {"sqli"}, wellFormed |-> TRUE],
     [path |-> "/", peer |-> "e", forwarded |-> "none", marks |-> {}, wellFormed |-> TRUE]}
=============================================================================
