------------------------- MODULE MCMiddlewareChain -------------------------
(* A small instance: two goroutines, two clients of which one is behind a  *)
(* trusted proxy, an open and a guarded path.                              *)
EXTENDS MiddlewareChain

CONSTANTS g1, g2

MCProcs == {g1, g2}
MCSymmetry == Permutations(MCProcs)
MCClients == {"c1", "c2"}

Plain == [gzip |-> 0, br |-> 0]
Gzip == [gzip |-> 1, br |-> 0]
Both == [gzip |-> 1, br |-> 1]

Base == [method |-> "GET", path |-> "open", accept |-> Plain, origin |-> "none",
         token |-> "none", exp |-> 0, key |-> "none", cc |-> {}, acrm |-> FALSE,
         peer |-> "c1", forwarded |-> "none"]

MCRequests ==
    {Base,
     [Base EXCEPT !.accept = Both],
     [Base EXCEPT !.origin = "o1", !.peer = "trusted", !.forwarded = "c2"],
     [Base EXCEPT !.path = "guarded", !.token = "expires", !.exp = 1],
     [Base EXCEPT !.path = "guarded", !.peer = "c2"],
     [Base EXCEPT !.path = "guarded", !.key = "valid"],
     [Base EXCEPT !.cc = {"no-cache"}, !.method = "HEAD"],
     [Base EXCEPT !.method = "OPTIONS", !.acrm = TRUE, !.origin = "o1"]}

OK == [status |-> 200, cc |-> {}, maxAge |-> -1, lines |-> <<>>, cookie |-> TRUE,
       body |-> TRUE, stream |-> FALSE, compressible |-> TRUE]

MCReplies ==
    {OK,
     [OK EXCEPT !.cc = {"public"}, !.maxAge = 1],
     [OK EXCEPT !.cc = {"private"}, !.lines = <<{"cookie"}>>]}

MCKeys == {CacheKey(r) : r \in MCRequests}
=============================================================================
