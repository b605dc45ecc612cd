---------------------------- MODULE UpstreamPool ----------------------------
(***************************************************************************)
(* One ReverseProxy of pkg/proxy: its upstream targets with their circuit  *)
(* breakers (circuit_breaker.go), the load balancer that selects among     *)
(* them (proxy.go, sticky.go), the requests that go through                *)
(* ServeHTTPWithPrefix, the background health probes and Close.            *)
(*                                                                         *)
(* NewProxyWithOptions starts the probes on the UpstreamTarget objects it  *)
(* allocates and then builds the balancer; some balancers keep those       *)
(* objects, others keep clones of them.  An object is therefore a pair     *)
(* <<"orig" or "clone", target>> and every breaker operation names the     *)
(* object it is applied to.                                                *)
(***************************************************************************)
EXTENDS Integers, FiniteSets, Functions

CONSTANTS
    N,            \* number of upstream targets, indexed from 0
    Requests,     \* requests that may be in flight together
    Weight,       \* [0..N-1 -> Nat], the configured weights (at least 1)
    Routes        \* the route configurations the proxy may be built from:
                  \*   algorithm    the balancing algorithm
                  \*   maxFailures  consecutive failures that trip a breaker
                  \*   cooldown     CooldownPeriod in ticks
                  \*   probed       health_check_path (or gRPC checking) is set

Targets == 0 .. N - 1

Algorithms == {"round_robin", "sticky_cookie", "ip_hash", "weighted_round_robin",
               "weighted_random", "least_conn", "weighted_least_conn", "least_latency"}

ASSUME UpstreamPoolAssumption ==
    /\ N \in Nat \ {0}
    /\ IsFiniteSet(Requests)
    /\ Weight \in [Targets -> Nat \ {0}]
    /\ Routes \subseteq [algorithm : Algorithms, maxFailures : Nat \ {0},
                          cooldown : Nat \ {0}, probed : BOOLEAN]

None == -1

VARIABLES
    route,      \* the configuration NewProxyWithOptions was given
    brk,        \* [Objects -> breaker]: state, consecutive failures, age of Open
    conns,      \* [Objects -> Nat]: ActiveConns
    cursor,     \* the rotating balancers' counter, modulo N
    credit,     \* [Targets -> Int]: CurrentWeight of the smooth weighted balancer
    lock,       \* requests inside a locked Next
    req,        \* the requests
    up,         \* history: targets that have not been Open since the scan began
    probe,      \* [Targets -> life of the probing goroutine]
    cancelled,  \* [Targets -> BOOLEAN]: the probe's context
    closed      \* ReverseProxy.Close was called

vars == <<route, brk, conns, cursor, credit, lock, req, up, probe, cancelled, closed>>

Algorithm == route.algorithm
MaxFailures == route.maxFailures
Cooldown == route.cooldown

\* Balancers that keep cloneUpstreamTarget copies.
Clones == Algorithm \in {"weighted_round_robin", "weighted_random", "weighted_least_conn"}

\* Balancers whose Next runs under the balancer's mutex.
Locked == Algorithm \in {"weighted_round_robin", "weighted_random"}

\* Balancers whose scan stops at the first healthy target of a rotating order.
Rotating == Algorithm \in {"round_robin", "sticky_cookie"}

Objects == {"orig", "clone"} \X Targets

Balanced(t) == <<IF Clones THEN "clone" ELSE "orig", t>>

Probe(t) == <<"orig", t>>

Breaker == [state : {"Closed", "Open", "HalfOpen"}, fails : 0 .. MaxFailures,
            age : 0 .. Cooldown]

PCs == {"idle", "cookie", "scan", "picked", "upstream", "body", "leaving", "relaying"}

RequestState == [pc : PCs, start : Targets, i : 0 .. N, best : Targets \cup {None},
                 load : Nat, total : Nat]

TypeOK ==
    /\ route \in Routes
    /\ brk \in [Objects -> Breaker]
    /\ conns \in [Objects -> Nat]
    /\ cursor \in Targets
    /\ credit \in [Targets -> Int]
    /\ lock \in SUBSET Requests
    /\ req \in [Requests -> RequestState]
    /\ up \in [Requests -> SUBSET Targets]
    /\ probe \in [Targets -> {"off", "waiting", "probing", "exited"}]
    /\ cancelled \in [Targets -> BOOLEAN]
    /\ closed \in BOOLEAN

Idle == [pc |-> "idle", start |-> 0, i |-> 0, best |-> None, load |-> 0,
         total |-> 0]

Init ==
    /\ route \in Routes
    /\ brk = [o \in Objects |-> [state |-> "Closed", fails |-> 0, age |-> 0]]
    /\ conns = [o \in Objects |-> 0]
    /\ cursor = 0
    /\ credit = [t \in Targets |-> 0]
    /\ lock = {}
    /\ req = [q \in Requests |-> Idle]
    /\ up = [q \in Requests |-> {}]
    /\ probe = [t \in Targets |-> IF route.probed THEN "waiting" ELSE "off"]
    /\ cancelled = [t \in Targets |-> FALSE]
    /\ closed = FALSE

-----------------------------------------------------------------------------
(* The circuit breaker.  Each operation runs under the target's mutex.     *)
(* ConsecutiveFailures is only compared with MaxFailures, so it saturates; *)
(* LastStateChange is only read while Open, so it is an age.               *)

\* Mutant: the breaker trips one failure late.
AfterFailure_Late(b) ==
    LET f == IF b.fails < MaxFailures THEN b.fails + 1 ELSE b.fails IN
    IF b.fails >= MaxFailures THEN [state |-> "Open", fails |-> f, age |-> 0]
    ELSE [b EXCEPT !.fails = f]

\* RecordFailure: count, and trip at the threshold.  A failure that arrives
\* while the breaker is already Open restarts its cooldown.
AfterFailure(b) ==
    LET f == IF b.fails < MaxFailures THEN b.fails + 1 ELSE b.fails IN
    IF f >= MaxFailures THEN [state |-> "Open", fails |-> f, age |-> 0]
    ELSE [b EXCEPT !.fails = f]

\* RecordSuccess: from any state, Open included.
AfterSuccess(b) == [state |-> "Closed", fails |-> 0, age |-> 0]

\* Mutant: every look at an Open breaker renews LastStateChange.
Polled_Renews(b) ==
    IF b.state # "Open" THEN b
    ELSE IF b.age >= Cooldown THEN [b EXCEPT !.state = "HalfOpen", !.age = 0]
    ELSE [b EXCEPT !.age = 0]

\* GetState: an Open breaker whose cooldown has elapsed becomes HalfOpen.
Polled(b) ==
    IF b.state = "Open" /\ b.age >= Cooldown THEN [b EXCEPT !.state = "HalfOpen", !.age = 0]
    ELSE b

Healthy(b) == b.state \in {"Closed", "HalfOpen"}

\* Every breaker update; `up` forgets the targets that are now Open.
SetBreaker(o, b) ==
    /\ brk' = [brk EXCEPT ![o] = b]
    /\ up' = [q \in Requests |-> {t \in up[q] : Healthy(brk'[Balanced(t)])}]

-----------------------------------------------------------------------------
(* LoadBalancer.Next.                                                      *)

\* The targets whose breaker is not Open when the scan begins.
UpNow == {t \in Targets : Healthy(brk[Balanced(t)])}

\* Entering Next: take the mutex, advance the rotation.
StartScan(q) ==
    /\ Locked => lock = {}
    /\ lock' = IF Locked THEN {q} ELSE lock
    /\ cursor' = IF Rotating THEN (cursor + 1) % N ELSE cursor
    /\ req' = [req EXCEPT ![q] = [Idle EXCEPT !.pc = "scan",
                                  !.start = IF Rotating THEN cursor ELSE 0]]
    /\ up' = [up EXCEPT ![q] = UpNow]
    /\ UNCHANGED <<route, brk, conns, credit, probe, cancelled, closed>>

NextCall(q) ==
    /\ req[q].pc = "idle"
    /\ StartScan(q)

\* sticky_cookie: the request carries the cookie of target t.
NextWithCookie(q, t) ==
    /\ Algorithm = "sticky_cookie"
    /\ req[q].pc = "idle"
    /\ req' = [req EXCEPT ![q] = [Idle EXCEPT !.pc = "cookie", !.start = t]]
    /\ UNCHANGED <<route, brk, conns, cursor, credit, lock, up, probe, cancelled, closed>>

\* The cookie's target is used when healthy ...
CookieHit(q) ==
    LET t == req[q].start
        b == Polled(brk[Balanced(t)]) IN
    /\ req[q].pc = "cookie"
    /\ Healthy(b)
    /\ SetBreaker(Balanced(t), b)
    /\ req' = [req EXCEPT ![q] = [req[q] EXCEPT !.pc = "picked", !.best = t]]
    /\ UNCHANGED <<route, conns, cursor, credit, lock, probe, cancelled, closed>>

\* ... and the rotation is the fallback.
CookieMiss(q) ==
    /\ req[q].pc = "cookie"
    /\ ~Healthy(Polled(brk[Balanced(req[q].start)]))
    /\ StartScan(q)

\* The target the scan looks at now.
Cursor(q) == (req[q].start + req[q].i) % N

\* Whether a healthy target t replaces the best one so far.  Hashes, random
\* numbers and measured latencies are data the model does not carry: there
\* the answer may be either.
Replaces(q, t) ==
    LET best == req[q].best IN
    IF best = None THEN {TRUE}
    ELSE CASE Algorithm = "least_conn" -> {conns[Balanced(t)] < req[q].load}
           [] Algorithm = "weighted_least_conn" ->
                {conns[Balanced(t)] * Weight[best] < req[q].load * Weight[t]}
           [] Algorithm = "weighted_round_robin" ->
                {credit[t] + Weight[t] > credit[best]}
           [] OTHER -> BOOLEAN

\* Mutant: the scan gives up before the last target.
ScanDone_Short(q) == req[q].i >= N - 1 \/ (Rotating /\ req[q].best # None)

\* The loop of Next is over.
ScanDone(q) == req[q].i = N \/ (Rotating /\ req[q].best # None)

\* One iteration: GetState of the next target, and the algorithm's comparison.
Examine(q) ==
    LET t == Cursor(q)
        b == Polled(brk[Balanced(t)])
        w == IF Algorithm = "weighted_round_robin" /\ Healthy(b) THEN Weight[t] ELSE 0 IN
    /\ req[q].pc = "scan"
    /\ ~ScanDone(q)
    /\ SetBreaker(Balanced(t), b)
    /\ \E better \in IF Healthy(b) THEN Replaces(q, t) ELSE {FALSE} :
          req' = [req EXCEPT ![q] =
                    [req[q] EXCEPT !.i = @ + 1,
                                   !.total = @ + w,
                                   !.best = IF better THEN t ELSE @,
                                   !.load = IF better THEN conns[Balanced(t)] ELSE @]]
    /\ credit' = [credit EXCEPT ![t] = @ + w]
    /\ UNCHANGED <<route, conns, cursor, lock, probe, cancelled, closed>>

\* Mutant: the smooth weighted balancer forgets to charge the winner.
Charged_Not(q) == credit

\* The smooth weighted balancer charges the winner the total weight.
Charged(q) ==
    IF Algorithm = "weighted_round_robin"
    THEN [credit EXCEPT ![req[q].best] = @ - req[q].total] ELSE credit

\* Next returns a target.
NextReturns(q) ==
    /\ req[q].pc = "scan"
    /\ ScanDone(q)
    /\ req[q].best # None
    /\ credit' = Charged(q)
    /\ lock' = lock \ {q}
    /\ req' = [req EXCEPT ![q] = [Idle EXCEPT !.pc = "picked", !.best = req[q].best]]
    /\ up' = [up EXCEPT ![q] = {}]
    /\ UNCHANGED <<route, brk, conns, cursor, probe, cancelled, closed>>

\* Next finds no healthy target: the client gets 503.
NextFails(q) ==
    /\ req[q].pc = "scan"
    /\ ScanDone(q)
    /\ req[q].best = None
    /\ lock' = lock \ {q}
    /\ req' = [req EXCEPT ![q] = Idle]
    /\ up' = [up EXCEPT ![q] = {}]
    /\ UNCHANGED <<route, brk, conns, cursor, credit, probe, cancelled, closed>>

-----------------------------------------------------------------------------
(* ServeHTTPWithPrefix after the selection.                                *)

Chosen(q) == Balanced(req[q].best)

IncActiveConns(q) ==
    /\ req[q].pc = "picked"
    /\ conns' = [conns EXCEPT ![Chosen(q)] = @ + 1]
    /\ req' = [req EXCEPT ![q].pc = "upstream"]
    /\ UNCHANGED <<route, brk, cursor, credit, lock, up, probe, cancelled, closed>>

\* The request body is refused (501, 413, 431, 400) or the outgoing request
\* cannot be built: no verdict on the target.
RejectBody(q) ==
    /\ req[q].pc = "upstream"
    /\ req' = [req EXCEPT ![q].pc = "leaving"]
    /\ UNCHANGED <<route, brk, conns, cursor, credit, lock, up, probe, cancelled, closed>>

\* Client.Do fails (504, 502), or the WebSocket dial, write or handshake does.
DoError(q) ==
    /\ req[q].pc = "upstream"
    /\ SetBreaker(Chosen(q), AfterFailure(brk[Chosen(q)]))
    /\ req' = [req EXCEPT ![q].pc = "leaving"]
    /\ UNCHANGED <<route, conns, cursor, credit, lock, probe, cancelled, closed>>

\* Response headers arrive: a status of 500 or more is a failure, any other
\* (and a 101 upgrade) a success.
Respond(q) ==
    /\ req[q].pc = "upstream"
    /\ \E after \in {AfterSuccess(brk[Chosen(q)]), AfterFailure(brk[Chosen(q)])} :
          SetBreaker(Chosen(q), after)
    /\ req' = [req EXCEPT ![q].pc = "body"]
    /\ UNCHANGED <<route, conns, cursor, credit, lock, probe, cancelled, closed>>

\* A buffered body outgrows max_payload_size: one more failure, and a 502.
OversizeBody(q) ==
    /\ req[q].pc = "body"
    /\ SetBreaker(Chosen(q), AfterFailure(brk[Chosen(q)]))
    /\ req' = [req EXCEPT ![q].pc = "leaving"]
    /\ UNCHANGED <<route, conns, cursor, credit, lock, probe, cancelled, closed>>

\* Mutant: only the error paths run the deferred decrement.
Leave_ErrorsOnly(q) ==
    /\ req[q].pc \in {"body", "leaving"}
    /\ conns' = IF req[q].pc = "leaving" THEN [conns EXCEPT ![Chosen(q)] = @ - 1] ELSE conns
    /\ req' = [req EXCEPT ![q] = Idle]
    /\ UNCHANGED <<route, brk, cursor, credit, lock, up, probe, cancelled, closed>>

\* The handler returns and the deferred DecActiveConns runs.  A response with a
\* StreamBody (canStream) or an UpgradedConn goes on after that.
Leave(q) ==
    /\ req[q].pc \in {"body", "leaving"}
    /\ conns' = [conns EXCEPT ![Chosen(q)] = @ - 1]
    /\ \/ req' = [req EXCEPT ![q] = Idle]
       \/ /\ req[q].pc = "body"
          /\ req' = [req EXCEPT ![q] = [Idle EXCEPT !.pc = "relaying", !.best = req[q].best]]
    /\ UNCHANGED <<route, brk, cursor, credit, lock, up, probe, cancelled, closed>>

\* The connection loop is done with the stream or the tunnel, which no balancer
\* knows of.
RelayEnds(q) ==
    /\ req[q].pc = "relaying"
    /\ req' = [req EXCEPT ![q] = Idle]
    /\ UNCHANGED <<route, brk, conns, cursor, credit, lock, up, probe, cancelled, closed>>

-----------------------------------------------------------------------------
(* Health probes, time and Close.                                          *)

\* The ticker fires (select may prefer it to a cancelled context).
ProbeTick(t) ==
    /\ probe[t] = "waiting"
    /\ probe' = [probe EXCEPT ![t] = "probing"]
    /\ UNCHANGED <<route, brk, conns, cursor, credit, lock, req, up, cancelled, closed>>

\* The probe succeeds, unless its context is cancelled: then client.Do fails.
ProbeSucceeds(t) ==
    /\ probe[t] = "probing"
    /\ ~cancelled[t]
    /\ SetBreaker(Probe(t), AfterSuccess(brk[Probe(t)]))
    /\ probe' = [probe EXCEPT ![t] = "waiting"]
    /\ UNCHANGED <<route, conns, cursor, credit, lock, req, cancelled, closed>>

ProbeFails(t) ==
    /\ probe[t] = "probing"
    /\ SetBreaker(Probe(t), AfterFailure(brk[Probe(t)]))
    /\ probe' = [probe EXCEPT ![t] = "waiting"]
    /\ UNCHANGED <<route, conns, cursor, credit, lock, req, cancelled, closed>>

\* <-ctx.Done(): the goroutine returns.
ProbeExit(t) ==
    /\ probe[t] = "waiting"
    /\ cancelled[t]
    /\ probe' = [probe EXCEPT ![t] = "exited"]
    /\ UNCHANGED <<route, brk, conns, cursor, credit, lock, req, up, cancelled, closed>>

\* Mutant: Stop returns after the first target.
Stopped_First == [t \in Targets |-> Balanced(t) = Probe(t) /\ t = 0]

\* The probes Balancer.Stop cancels: it calls StopActiveHealthCheck on the
\* balancer's own objects, and a clone has no cancelProbe.
Stopped == [t \in Targets |-> Balanced(t) = Probe(t)]

Close ==
    /\ ~closed
    /\ closed' = TRUE
    /\ cancelled' = Stopped
    /\ UNCHANGED <<route, brk, conns, cursor, credit, lock, req, up, probe>>

\* One tick of the clock, seen by the breakers that are Open.
Tick ==
    /\ \E o \in Objects : brk[o].state = "Open" /\ brk[o].age < Cooldown
    /\ brk' = [o \in Objects |->
                 IF brk[o].state = "Open" /\ brk[o].age < Cooldown
                 THEN [brk[o] EXCEPT !.age = @ + 1] ELSE brk[o]]
    /\ UNCHANGED <<route, conns, cursor, credit, lock, req, up, probe, cancelled, closed>>

-----------------------------------------------------------------------------
Next ==
    \/ \E q \in Requests :
          \/ NextCall(q) \/ CookieHit(q) \/ CookieMiss(q) \/ Examine(q)
          \/ NextReturns(q) \/ NextFails(q) \/ IncActiveConns(q)
          \/ RejectBody(q) \/ DoError(q) \/ Respond(q) \/ OversizeBody(q) \/ Leave(q)
          \/ RelayEnds(q)
          \/ \E t \in Targets : NextWithCookie(q, t)
    \/ \E t \in Targets :
          ProbeTick(t) \/ ProbeSucceeds(t) \/ ProbeFails(t) \/ ProbeExit(t)
    \/ Close
    \/ Tick

\* Time passes; a probe whose context is cancelled ends; a select between a
\* tick and a cancelled context, offered again and again, takes the latter
\* (Go chooses uniformly among ready cases).
Fairness ==
    /\ WF_vars(Tick)
    /\ \A t \in Targets :
          /\ WF_vars(cancelled[t] /\ ProbeFails(t))
          /\ SF_vars(ProbeExit(t))

Spec == Init /\ [][Next]_vars /\ Fairness

-----------------------------------------------------------------------------
(* Properties.                                                             *)

\* The breaker is Closed exactly while fewer than MaxFailures consecutive
\* failures are on record.  In particular a HalfOpen target goes back to Open
\* on its first failure, and a late failure never leaves a target Closed with
\* a full count.  (The state is also well typed.)
BreakerConsistent ==
    /\ TypeOK
    /\ \A o \in Objects : brk[o].state = "Closed" <=> brk[o].fails < MaxFailures

\* ActiveConns, which the least-connection balancers compare, is the number of
\* requests for which ServeHTTPWithPrefix is running on the target: whichever way
\* the handler is left, what it counted it takes back, and once.  (What is relayed
\* after the handler has returned, a streamed body or an upgraded connection, is
\* not counted, though "in-flight" is what REQ-050 has the balancers compare.)
ActiveConnsExact ==
    \A t \in Targets :
        conns[Balanced(t)] =
            Cardinality({q \in Requests : /\ req[q].pc \in {"upstream", "body", "leaving"}
                                          /\ req[q].best = t})

\* A client gets 503 only if no target stayed healthy for the whole scan: the
\* scan is not atomic, but it cannot overlook a target that is never Open.
No503WhileUp ==
    \A q \in Requests :
        (req[q].pc = "scan" /\ ScanDone(q) /\ req[q].best = None) => up[q] = {}

\* Without probes, an Open target always becomes eligible again: only failures
\* of requests already in flight can restart its cooldown.
BecomesEligible ==
    \A t \in Targets :
        (~route.probed /\ brk[Balanced(t)].state = "Open")
           ~> (brk[Balanced(t)].state # "Open" \/ brk[Balanced(t)].age = Cooldown)

\* REQ-014, and the comment of Close: every probing goroutine ends after Close.
\* A balancer that keeps clones holds objects without a cancelProbe, and the
\* probes of the originals go on: the property is about the other balancers.
ProbersStop ==
    \A t \in Targets : (closed /\ ~Clones) ~> (probe[t] \in {"off", "exited"})

\* The smooth weighted balancer conserves credit between selections, however
\* the targets' health flaps, and the credit of a target stays within a range
\* that the number of targets and their weights determine: no target is starved
\* and none is picked in an ever longer burst.  (Flapping health can drive a
\* credit beyond the sum of the weights, from four targets on.)
CreditConserved ==
    lock = {} =>
        /\ SumFunction(credit) = 0
        /\ \A t \in Targets :
              /\ 2 * credit[t] <= (N - 1) * SumFunction(Weight)
              /\ 2 * credit[t] >= -((N - 1) * SumFunction(Weight))
=============================================================================
