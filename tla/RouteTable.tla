----------------------------- MODULE RouteTable -----------------------------
(***************************************************************************)
(* The prefix-route table of pkg/router/router.go while it serves traffic  *)
(* and is rewritten by the discovery sources, together with the route      *)
(* bulkhead (max_concurrency) that pkg/server/server.go acquires before a  *)
(* request body is read.                                                   *)
(*                                                                         *)
(* r.prefixRoutes is a Go slice of prefixRoute VALUES: the in-flight       *)
(* counter activeRequests lives inside the slice element, and a request    *)
(* keeps a pointer to the element it matched.  ReplacePrefixRoutesBySource *)
(* builds a new backing array and copies the retained elements, counters   *)
(* included.  A backing array is called a generation here: active[g][r] is *)
(* the counter of route r in generation g, and a request refers to a       *)
(* counter by the pair (generation, route).                                *)
(***************************************************************************)
EXTENDS Integers, FiniteSets

CONSTANTS
    Routes,        \* compiled prefixRoute instances, each with its own proxy
    ConfigRoutes,  \* the instances registered from the configuration file
    Updaters,      \* goroutines that call the runtime mutators of the table
    Requests,      \* client requests that may be in flight together
    Paths,         \* classes of request paths (host, path, method, headers)
    SourceOf,      \* [Routes \cup Updaters -> source tag]
    KeyOf,         \* [Routes -> host and prefix]
    Matches,       \* [Paths -> SUBSET Routes], headersAndHostMatch and prefix
    Rank,          \* [Routes -> Nat], the order comparePrefixRoutes defines
    Limit,         \* [Routes -> Nat], maxConcurrency, 0 when unconstrained
    ExportedOps,   \* subset of {"remove", "reset"}: exported, not called by main
    MaxGen,        \* bound on the number of backing arrays
    NoRoute        \* the "no match" value

ASSUME RouteTableAssumption ==
    /\ IsFiniteSet(Requests)
    /\ IsFiniteSet(Routes)
    /\ Paths # {}
    /\ ConfigRoutes \subseteq Routes
    /\ Matches \in [Paths -> SUBSET Routes]
    /\ Rank \in [Routes -> Nat]
    /\ Limit \in [Routes -> Nat]
    /\ MaxGen \in Nat
    /\ ExportedOps \subseteq {"remove", "reset"}
    /\ NoRoute \notin Routes

VARIABLES
    serving,    \* main has finished registering routes and accepts connections
    table,      \* the routes of the current backing array
    gen,        \* the current backing array
    active,     \* activeRequests, per backing array and route
    inherited,  \* the part of a counter that was copied from an older array
    proxy,      \* life of the ReverseProxy owned by each route instance
    upd,        \* the updater goroutines
    req         \* the requests

vars == <<serving, table, gen, active, inherited, proxy, upd, req>>

Gens == 0 .. MaxGen

ReqPC == {"idle", "gate", "loaded", "added", "dispatch", "serving"}

UpdPC == {"idle", "compiling", "closing"}

UpdaterState == [pc : UpdPC, compiled : SUBSET Routes, evicted : SUBSET Routes]

RequestState == [pc : ReqPC, path : Paths, gen : Gens, route : Routes \cup {NoRoute},
                 seen : Nat, slot : BOOLEAN, served : Routes \cup {NoRoute}]

TypeOK ==
    /\ serving \in BOOLEAN
    /\ table \in SUBSET Routes
    /\ gen \in Gens
    /\ active \in [Gens -> [Routes -> Nat]]
    /\ inherited \in [Gens -> [Routes -> Nat]]
    /\ proxy \in [Routes -> {"none", "open", "closed"}]
    /\ upd \in [Updaters -> UpdaterState]
    /\ req \in [Requests -> RequestState]

IdleUpdater == [pc |-> "idle", compiled |-> {}, evicted |-> {}]

\* A request for path p that has matched element r of backing array g.
Matched(pc, p, g, r) ==
    [pc |-> pc, path |-> p, gen |-> g, route |-> r, seen |-> 0, slot |-> FALSE,
     served |-> NoRoute]

IdleRequest == Matched("idle", CHOOSE p \in Paths : TRUE, 0, NoRoute)

Init ==
    /\ serving = FALSE
    /\ table = {}
    /\ gen = 0
    /\ active = [g \in Gens |-> [r \in Routes |-> 0]]
    /\ inherited = [g \in Gens |-> [r \in Routes |-> 0]]
    /\ proxy = [r \in Routes |-> "none"]
    /\ upd = [u \in Updaters |-> IdleUpdater]
    /\ req = [q \in Requests |-> IdleRequest]

-----------------------------------------------------------------------------
(* Start-up: main registers the configured routes, then serves.            *)

\* RoutePrefixWithSource("config", ...): compile, then append and sort under
\* the lock.  No request is in flight yet, so that the append may or may not
\* move the elements to a larger array makes no difference.
RoutePrefix(r) ==
    /\ ~serving
    /\ r \in ConfigRoutes
    /\ proxy[r] = "none"
    /\ proxy' = [proxy EXCEPT ![r] = "open"]
    /\ table' = table \cup {r}
    /\ UNCHANGED <<serving, gen, active, inherited, upd, req>>

StartServing ==
    /\ ~serving
    /\ \A r \in ConfigRoutes : proxy[r] # "none"
    /\ serving' = TRUE
    /\ UNCHANGED <<table, gen, active, inherited, proxy, upd, req>>

-----------------------------------------------------------------------------
(* The runtime mutators.                                                   *)

\* A compiled instance nobody refers to: its slot may stand for a fresh one.
Fresh(r) ==
    /\ r \notin ConfigRoutes
    /\ proxy[r] # "open"
    /\ \A q \in Requests : req[q].pc # "idle" => r \notin {req[q].route, req[q].served}

\* compilePrefixRoute, outside the lock: a new ReverseProxy with its probes.
Compile(u, r) ==
    /\ upd[u].pc \in {"idle", "compiling"}
    /\ SourceOf[r] = SourceOf[u]
    /\ Fresh(r)
    /\ proxy' = [proxy EXCEPT ![r] = "open"]
    /\ upd' = [upd EXCEPT ![u] = [upd[u] EXCEPT !.pc = "compiling", !.compiled = @ \cup {r}]]
    /\ UNCHANGED <<serving, table, gen, active, inherited, req>>

\* Mutant: the error return forgets the proxies compiled before the bad spec.
CompileError_Leaks(u) ==
    /\ upd[u].pc = "compiling"
    /\ upd' = [upd EXCEPT ![u] = IdleUpdater]
    /\ UNCHANGED <<serving, table, gen, active, inherited, proxy, req>>

\* A spec fails to compile: the proxies compiled so far are closed.
CompileError(u) ==
    /\ upd[u].pc = "compiling"
    /\ proxy' = [r \in Routes |-> IF r \in upd[u].compiled THEN "closed" ELSE proxy[r]]
    /\ upd' = [upd EXCEPT ![u] = IdleUpdater]
    /\ UNCHANGED <<serving, table, gen, active, inherited, req>>

\* The element copies a swap makes: retained routes carry their counter over.
CopiedCounters(retained) ==
    [r \in Routes |-> IF r \in retained THEN active[gen][r] ELSE 0]

\* Mutant: the whole old table is handed over for closing.
Publish_EvictsAll(u, retained, added) ==
    /\ gen < MaxGen
    /\ gen' = gen + 1
    /\ table' = retained \cup added
    /\ active' = [active EXCEPT ![gen + 1] = CopiedCounters(retained)]
    /\ inherited' = [inherited EXCEPT ![gen + 1] = CopiedCounters(retained)]
    /\ upd' = [upd EXCEPT ![u] = [pc |-> "closing", compiled |-> {}, evicted |-> table]]
    /\ UNCHANGED <<serving, proxy, req>>

\* Publish a new backing array holding `retained` and `added` (under r.mu).
Publish(u, retained, added) ==
    /\ gen < MaxGen
    /\ gen' = gen + 1
    /\ table' = retained \cup added
    /\ active' = [active EXCEPT ![gen + 1] = CopiedCounters(retained)]
    /\ inherited' = [inherited EXCEPT ![gen + 1] = CopiedCounters(retained)]
    /\ upd' = [upd EXCEPT ![u] = [pc |-> "closing", compiled |-> {},
                                  evicted |-> table \ retained]]
    /\ UNCHANGED <<serving, proxy, req>>

\* Routes of every other source survive a replacement.
Retained(u) == {r \in table : SourceOf[r] # SourceOf[u]}

\* ReplacePrefixRoutesBySource, the locked part; an empty spec list prunes.
ReplacePrefixRoutesBySource(u) ==
    /\ upd[u].pc \in {"idle", "compiling"}
    /\ Publish(u, Retained(u), upd[u].compiled)

\* RemovePrefixRoute: drop every route with the given host and prefix.
RemovePrefixRoute(u, r) ==
    /\ "remove" \in ExportedOps
    /\ upd[u].pc = "idle"
    /\ r \in table
    /\ Publish(u, {t \in table : KeyOf[t] # KeyOf[r]}, {})

\* Reset: drop every route.
Reset(u) ==
    /\ "reset" \in ExportedOps
    /\ upd[u].pc = "idle"
    /\ Publish(u, {}, {})

\* Mutant: the updater returns without closing what it evicted.
CloseEvicted_Skips(u) ==
    /\ upd[u].pc = "closing"
    /\ upd' = [upd EXCEPT ![u] = IdleUpdater]
    /\ UNCHANGED <<serving, table, gen, active, inherited, proxy, req>>

\* After the unlock: pr.proxy.Close() for each evicted route in turn.
CloseEvicted(u) ==
    /\ upd[u].pc = "closing"
    /\ \/ \E r \in upd[u].evicted :
            /\ proxy' = [proxy EXCEPT ![r] = "closed"]
            /\ upd' = [upd EXCEPT ![u] = [upd[u] EXCEPT !.evicted = @ \ {r}]]
       \/ /\ upd[u].evicted = {}
          /\ upd' = [upd EXCEPT ![u] = IdleUpdater]
          /\ proxy' = proxy
    /\ UNCHANGED <<serving, table, gen, active, inherited, req>>

-----------------------------------------------------------------------------
(* Requests.                                                               *)

\* The scan of the sorted table: the first element that matches.
FirstMatch(p) ==
    LET hits == table \cap Matches[p] IN
    IF hits = {} THEN NoRoute
    ELSE CHOOSE r \in hits : \A s \in hits : Rank[r] <= Rank[s]

Gated(r) == r # NoRoute /\ Limit[r] > 0

\* handleConn, LookupPrefixRoute: remember the element; go through the
\* bulkhead gate only when the route has a limit.
LookupPrefixRoute(q, p) ==
    LET r == FirstMatch(p) IN
    /\ serving
    /\ req[q].pc = "idle"
    /\ req' = [req EXCEPT ![q] =
                 Matched(IF Gated(r) THEN "gate" ELSE "dispatch", p, gen, r)]
    /\ UNCHANGED <<serving, table, gen, active, inherited, proxy, upd>>

Counter(q) == active[req[q].gen][req[q].route]

\* The gate's atomic.LoadInt64: at capacity the answer is a 503.
GateLoad(q) ==
    /\ req[q].pc = "gate"
    /\ req' = [req EXCEPT ![q] = IF Counter(q) >= Limit[req[q].route]
                                 THEN IdleRequest
                                 ELSE [req[q] EXCEPT !.pc = "loaded"]]
    /\ UNCHANGED <<serving, table, gen, active, inherited, proxy, upd>>

\* The gate's atomic.AddInt64(&activeRequests, 1).
GateAdd(q) ==
    /\ req[q].pc = "loaded"
    /\ active' = [active EXCEPT ![req[q].gen][req[q].route] = @ + 1]
    /\ req' = [req EXCEPT ![q] = [req[q] EXCEPT !.pc = "added", !.seen = Counter(q) + 1]]
    /\ UNCHANGED <<serving, table, gen, inherited, proxy, upd>>

\* Where an admitted request goes: on to ServeHTTP when handleConn asked for
\* the slot, to the handler when ServeHTTP itself did (served is then set).
AfterGate(q) == IF req[q].served = NoRoute THEN "dispatch" ELSE "serving"

\* Mutant: the re-check after the add is off by one.
Overshot_OffByOne(q) == req[q].seen > Limit[req[q].route] + 1

\* newVal > maxConcurrency
Overshot(q) == req[q].seen > Limit[req[q].route]

\* Mutant: an overshooting request is refused without the rollback.
GateCheck_NoRollback(q) ==
    /\ req[q].pc = "added"
    /\ req' = [req EXCEPT ![q] =
                 IF Overshot(q) THEN IdleRequest
                 ELSE [req[q] EXCEPT !.slot = TRUE, !.pc = AfterGate(q)]]
    /\ UNCHANGED <<serving, table, gen, active, inherited, proxy, upd>>

\* Roll back and answer 503, or hold the slot and go on.
GateCheck(q) ==
    /\ req[q].pc = "added"
    /\ IF Overshot(q)
       THEN /\ active' = [active EXCEPT ![req[q].gen][req[q].route] = @ - 1]
            /\ req' = [req EXCEPT ![q] = IdleRequest]
       ELSE /\ active' = active
            /\ req' = [req EXCEPT ![q] = [req[q] EXCEPT !.slot = TRUE, !.pc = AfterGate(q)]]
    /\ UNCHANGED <<serving, table, gen, inherited, proxy, upd>>

\* Mutant: ServeHTTP asks for a slot although handleConn holds one.
ServeHTTP_Regates(q) ==
    LET r == FirstMatch(req[q].path) IN
    /\ req[q].pc = "dispatch"
    /\ IF Gated(r)
       THEN req' = [req EXCEPT ![q] = [req[q] EXCEPT !.pc = "gate", !.gen = gen,
                                                     !.route = r, !.served = r]]
       ELSE req' = [req EXCEPT ![q] = [req[q] EXCEPT !.pc = "serving", !.served = r]]
    /\ UNCHANGED <<serving, table, gen, active, inherited, proxy, upd>>

\* Router.ServeHTTP: matches again, against the table of this moment.  The
\* gate is skipped when handleConn already holds a slot.
ServeHTTP(q) ==
    LET r == FirstMatch(req[q].path) IN
    /\ req[q].pc = "dispatch"
    /\ IF Gated(r) /\ ~req[q].slot
       THEN req' = [req EXCEPT ![q] = [req[q] EXCEPT !.pc = "gate", !.gen = gen,
                                                     !.route = r, !.served = r]]
       ELSE req' = [req EXCEPT ![q] = [req[q] EXCEPT !.pc = "serving", !.served = r]]
    /\ UNCHANGED <<serving, table, gen, active, inherited, proxy, upd>>

\* The response is written, or the connection fails: every exit of handleConn
\* and the deferred release of ServeHTTP give the slot back, on the element
\* the request has kept a pointer to.
Finish(q) ==
    /\ req[q].pc = "serving"
    /\ active' = IF req[q].slot
                 THEN [active EXCEPT ![req[q].gen][req[q].route] = @ - 1]
                 ELSE active
    /\ req' = [req EXCEPT ![q] = IdleRequest]
    /\ UNCHANGED <<serving, table, gen, inherited, proxy, upd>>

-----------------------------------------------------------------------------
UpdaterStep(u) ==
    \/ CompileError(u)
    \/ ReplacePrefixRoutesBySource(u)
    \/ CloseEvicted(u)

RequestStep(q) ==
    \/ GateLoad(q)
    \/ GateAdd(q)
    \/ GateCheck(q)
    \/ ServeHTTP(q)
    \/ Finish(q)

Next ==
    \/ \E r \in ConfigRoutes : RoutePrefix(r)
    \/ StartServing
    \/ \E u \in Updaters :
          \/ UpdaterStep(u)
          \/ \E r \in Routes : Compile(u, r) \/ RemovePrefixRoute(u, r)
          \/ Reset(u)
    \/ \E q \in Requests :
          \/ RequestStep(q)
          \/ \E p \in Paths : LookupPrefixRoute(q, p)

\* A goroutine that holds evicted routes is running straight-line code: the Go
\* scheduler lets it finish.
Fairness == \A u \in Updaters : WF_vars(CloseEvicted(u))

Spec == Init /\ [][Next]_vars /\ Fairness

-----------------------------------------------------------------------------
(* Properties.                                                             *)

\* The requests counted by counter (g, r): those that have added 1 to it and
\* not yet taken it back.
Counted(g, r) ==
    {q \in Requests : /\ req[q].gen = g
                      /\ req[q].route = r
                      /\ req[q].pc = "added" \/ req[q].slot}

\* The requests the gate of (g, r) has admitted, or is about to admit.
Admitted(g, r) == {q \in Counted(g, r) : req[q].slot \/ ~Overshot(q)}

\* Every counter is exact up to what was copied into it: it exceeds the
\* number of requests counted on it by the value inherited at the swap.  No
\* interleaving of loads, adds, rollbacks and releases loses an update.
SlotAccounting ==
    \A g \in Gens : \A r \in Routes :
        active[g][r] = inherited[g][r] + Cardinality(Counted(g, r))

\* The load / add / rollback gate of TryAcquireRouteSlot, which is not atomic,
\* never lets more than max_concurrency requests hold slots of one counter.
GateCap ==
    \A g \in Gens : \A r \in Routes :
        Cardinality(Admitted(g, r)) <= Limit[r]

\* AC-173-2: the requests being served by a route are capped at its limit.
InService(r) == {q \in Requests : req[q].pc = "serving" /\ req[q].served = r}

BulkheadCap ==
    \A r \in Routes : Limit[r] > 0 => Cardinality(InService(r)) <= Limit[r]

\* The cap holds, for both gates together and although the route is matched
\* twice, for as long as the table has not been replaced at run time.
BulkheadCapUntilSwap == gen = 0 => BulkheadCap

\* A route that can be matched has a live proxy: a proxy is closed only after
\* its route has left the table, whatever the updaters do concurrently.
TableProxiesOpen == \A r \in table : proxy[r] = "open"

\* No ReverseProxy (and no health-check goroutine it started) is forgotten:
\* an open one is in the table or some updater still has it to publish or
\* to close.
NoProxyLeak ==
    \A r \in Routes :
        proxy[r] = "open" =>
            r \in table \/ \E u \in Updaters : r \in upd[u].compiled \cup upd[u].evicted

\* A route instance belongs to one owner: the table, or one updater that will
\* publish it, or one updater that will close it, so no proxy is closed twice
\* and no closed proxy is published.
SoleOwner ==
    \A u \in Updaters :
        /\ (upd[u].compiled \cup upd[u].evicted) \cap table = {}
        /\ upd[u].compiled \cap upd[u].evicted = {}
        /\ \A v \in Updaters \ {u} :
              (upd[u].compiled \cup upd[u].evicted)
                 \cap (upd[v].compiled \cup upd[v].evicted) = {}

\* The proxy of a route that has left the table is eventually closed.
EvictedEventuallyClosed ==
    \A r \in Routes :
        (\E u \in Updaters : r \in upd[u].evicted) ~> (proxy[r] = "closed")
=============================================================================
