# Formal models of Toron

TLA+ models of Toron (the Go reverse proxy in `src/`): its route table, its
upstreams, its connections, its layer-4 proxies, its discovery sources, its
middlewares, its WAF and its reloads. TLC checks them on small instances, and
TLAPS proves the safety of eight of the components for every value of their
constants.
Every definition is translated from the source; the `map` of `PROJECT.json`
gives the lines each one stands for.

    tlc -workers 2 -config RouteTableChurn.cfg MCRouteTable
    tlapm RouteTableProofs.tla

## 1. The system

Toron is one process. `cmd/toron/main.go` loads the configuration, builds the
router, starts the discovery sources and the servers, and stops them on a
signal. A connection is accepted by the reactor, handled by a worker that runs
the HTTP/1.1 loop of `pkg/server`, matched by `pkg/router` and forwarded by the
reverse proxy of `pkg/proxy`; `pkg/waf` looks at it on the way.

| component | state | operations | what makes it correct |
|---|---|---|---|
| `pkg/router` route table, bulkhead | `prefixRoutes` (a slice of values, each with a counter and a proxy), `mu` | RoutePrefix, ReplacePrefixRoutesBySource, RemovePrefixRoute, Reset, LookupPrefixRoute, TryAcquireRouteSlot, ServeHTTP | requests on a route are capped; no slot is lost; a proxy lives exactly as long as its route |
| `pkg/proxy` reverse proxy, balancers, breakers | breaker and connection count per target, rotation, credits, probe goroutines | Next, RecordSuccess/Failure, GetState, ServeHTTPWithPrefix, probes, Close | breakers trip and recover as counted; no 503 while a target is up; probes end with the proxy |
| `pkg/reactor` | task channel, `conns`, `isShutdown`, listener, worker pool | Serve, workerLoop, trackConn, Shutdown | bounded admission; no socket survives; Shutdown ends Serve |
| `pkg/waf` auto-ban | `bans`, `strikes`, whitelist, persistence file | RecordViolation, IsBanned, Ban, Unban, sweeper, UpdateConfig, Close, save and load | bans survive restarts, are not lifted by races, and expire |
| `pkg/discovery` | `activeRoutes`, `events` channel, watcher, two workers | Start, rescan, event handlers, poll, Stop | the routes follow the running containers; Stop returns |
| `pkg/ingress` | `activeRoutes`, debounce timer, watch | syncIngresses, resync, consumeEvents, Stop | the routes end up those of the cluster and never go back; Stop returns |
| `pkg/proxy` TCP and UDP | registered connections, UDP session table and queue | Serve, registerConn, relay, getOrCreateSession, sweeper, Close | limits hold; half-closed streams are delivered; no socket outlives its traffic or Close |
| `pkg/server` connection loop | buffers, deadlines, body reader, slot | handleConn, relayStreamBody, relayStreams, HTTP/2 adapter | requests are parsed where the one before ended; nothing a request holds survives it; a broken answer never looks whole |
| `pkg/httpparser` | parser position, limits | ParseHeader, the body readers and their Close | framing is unambiguous, limits hold |
| `pkg/router` cache, rate limiter, auth, CORS, compression | entries with expiry; token buckets | the middleware chain | a cached response fits whoever gets it and is fresh; the limit holds in every window |
| `pkg/waf` engine | rules, lists and loggers behind a read-write lock | the middleware, Reload | every request gets through; a reload takes effect |
| `pkg/logging` | sinks with open files | getOrCreateSink, Reopen on SIGHUP, Close | every sink follows a rotation |
| `pkg/config` | watcher timer, reloads under way | listen, triggerReload, Stop | the configuration last written comes into force |
| `pkg/sidecar`, `pkg/metrics`, `pkg/acme`, TLS/SNI, HTTP/3, transcoder | proxy cache; counters; certificates | | not modelled (section 8) |

How they interact. Discovery and ingress call
`ReplacePrefixRoutesBySource` from their own goroutines while connections call
`LookupPrefixRoute` and `ServeHTTP`; a replacement closes the proxies it
evicts, which stops their probes. The config watcher reloads the WAF, which
updates or closes the auto-ban manager. The internal API bans and unbans.
Shutdown goes from the reactor to its connections and, by `defer`, to discovery,
ingress and sidecar.

What is hard, and where, is the list `hazards` of `PROJECT.json`: data read
before an unlock and used after it (bulkhead pointers, expired bans, container
lists, token buckets, the clock of the cache), several goroutines publishing in
another order than they computed, scans that are not atomic, crashes in the
middle of a save, files read while they are written, bodies answered before
they are read, deadlines that one goroutine sets for another, shutdowns that
race start-ups and full queues.

## 2. Modules

| module | models | checked by |
|---|---|---|
| `RouteTable` | route table, bulkhead gates, life of the proxies | `MCRouteTable` |
| `Bulkhead` | abstract specification: counting semaphores | |
| `RouteBulkhead` | `RouteTable` implements `Bulkhead` | `MCRouteTable` |
| `RouteTableProofs`, `UpstreamPoolProofs`, `ReactorProofs`, `AutoBanProofs`, `Layer4Proofs`, `IngressProofs`, `MiddlewareChainProofs`, `ServerConnProofs` | theorems about the module of that name, in `RouteTableProofs` also about `Discovery` (section 6) | TLAPS |
| `UpstreamPool` | one reverse proxy: breakers, balancers, requests, probes | `MCUpstreamPool` |
| `Reactor` | accept loop, worker pool, Shutdown | `MCReactor` |
| `AutoBan` | the auto-ban manager and its state file | `MCAutoBan` |
| `Discovery` | container discovery: watcher, event and poll worker | `MCDiscovery` |
| `StreamProxy`, `UdpSessions` | the layer-4 proxies | |
| `Layer4` | the proxy of one layer-4 route, of either kind | `MCLayer4` |
| `Framing` | framing decisions of the parser, the chunked decoder | |
| `ConnLoop` | the HTTP/1.1 loop of one connection, over `Framing` | |
| `UpgradeRelay`, `H2Stream` | the relay of an upgraded connection; one HTTP/2 stream | |
| `ServerConn` | one accepted connection: the three above composed | `MCServerConn` |
| `Ingress` | the Kubernetes ingress controller | `MCIngress` |
| `TokenBuckets`, `ResponseCache` | the rate limiter; the response cache | |
| `MiddlewareChain` | the chain around them: cache, compression, auth, CORS, limiter, upstream | `MCMiddlewareChain` |
| `WafEngine`, `LogSinks` | the WAF's middleware and Reload; the log sinks and SIGHUP | |
| `HotReload` | the config watcher, composed with both and with shutdown | `MCHotReload` |

Each module is a component with its own state; the `MC` modules only give
values to constants. Components that share state or hand over to each other are
composed (`ServerConn`, `MiddlewareChain`, `HotReload`, `Layer4`). Elsewhere the
called one is a single step of the caller: `Discovery`'s `PublishSpecs` is the replacement that
`RouteTable` models step by step; the `Close` of a proxy is a step of
`RouteTable` and a component of `UpstreamPool`. Definitions whose name has the
form `X_Y` and whose comment begins with "Mutant" are variants of `X` with a
plausible mistake; no specification uses them. They exist to show that the
properties would notice.

### RouteTable

`r.prefixRoutes` holds values, so that the counter of a route is a field of a
slice element and a request keeps a pointer to the element it matched. A
replacement builds a new backing array. The model calls a backing array a
generation: `active[g][r]` is the counter of route `r` in generation `g`, a
request carries `(gen, route)`, and `inherited` remembers which part of a
counter was copied. `TryAcquireRouteSlot` is three steps (load, add, check and
roll back), and a request is matched twice, in `handleConn` and in `ServeHTTP`,
possibly against different tables. An updater compiles routes one at a time
outside the lock, publishes under it, and closes what it evicted afterwards.
`RemovePrefixRoute` and `Reset` are exported but not called by `main`; the
constant `ExportedOps` switches them on.

A `Routes` element is a compiled instance. An instance nobody refers to any
more may be compiled again, which stands for a fresh one. That host, prefix,
headers and method of a route match a request is the constant `Matches`, and
the order of `comparePrefixRoutes` is the constant `Rank`. Exact routes and static
files have no state that changes with traffic.

### UpstreamPool

A target exists up to twice: `NewProxyWithOptions` starts probes on the
original objects, and the weighted balancers select among clones. Every
operation names the object it works on. `Next` examines one target per step,
because other requests and probes move the breakers in between; the balancers
that hold a mutex are marked by `Locked`. Failures beyond the threshold and ages
beyond the cooldown are not told apart by the code, so both saturate. What
depends on hashes, random numbers and latencies is a free choice. `Leave` is the
return of the handler with its deferred `DecActiveConns`; a streamed body or an
upgraded connection goes on after that, as a request that is `relaying`, until
the connection loop is done with it (`RelayEnds`). Weights other
than 1 can only come from callers of the exported constructors:
`NewProxyWithOptions` gives every target the weight 1.

### Reactor

One step per atomic access or critical section of `Serve`, `workerLoop` and
`Shutdown`. `life` is the socket itself, `conns` the tracking map. A handler is
one step, except that it may wait for an upstream (`AskUpstream`,
`UpstreamAnswers`): the answer to a WebSocket handshake is read without a deadline
and without the reactor's context, so that closing the client's socket does not
end the wait. Temporary accept errors are retried without a change of state and
are left out.

### AutoBan

The mutex is held from a change to the end of its save, which is why `saving`
doubles as the lock; the steps of a save are the write of the temporary file and
the rename, and a crash or an error may come before either. `acked` and `dirty`
are history: the last completed save, and whether a later one failed (the engine
ignores the error). The times of the violations of an address are appended in the
order of the clock, so that those outside the window are a prefix (`OutOfWindow`).
The whitelist check and the two looks of `IsBanned` are
steps of their own. `UpdateConfig` exchanges the limits (threshold, window, ban
duration, temporary bans) with the whitelist and the path. `LoadState` may find no
file, or one it cannot read or parse, and then starts empty. Left out: the audit entries; a `Close` while another call is
inside the manager; the torn read of the whitelist slices, a data race below the
grain of the model.

### Discovery

The containers of the model are those whose labels are accepted. Because the
specs are a function of `activeRoutes`, the set of containers stands for them.
The listing, the overwrite under `m.mu` and the publication after the unlock
are three steps, taken by `Start`, the event worker or the poll worker. A failed
listing counts as an empty one, as in the code. `polling` is chosen in the
initial state, so that one run covers configurations with and without
`poll_interval`. The replacement always succeeds: a target URL made from an
address and a positive port parses.

### RouteBulkhead

`Bulkhead` says what a bulkhead promises: per counter a semaphore that is taken
in one step, below its cap, by a request that holds none, and given back by the
same request. The refinement mapping takes a request to hold the slot of the
array element it points to from the re-check of the gate to the deferred
release. TLC checks on the instance, and TLAPS proves in general, that every
behaviour of `RouteTable` maps to one of `Bulkhead` (`ImplementsBulkhead`), across
the load, add and roll back of concurrent requests, the second match and the swaps
of the table.

### StreamProxy, UdpSessions, Layer4

One step is a critical section, a blocking call or an atomic access. A TCP
connection has two sockets and two copying goroutines; what each peer has sent,
been given and been told is kept, so that half-closes can be judged. Bytes are
counted and not told apart. The idle clock of a relay is its own, counted in
ticks since `lastActivity`. A UDP session is a socket with a response reader;
sockets are numbered as they are dialled, and the table, the workers in the
middle of a dial and the sweeper's list are who may own one.

### Framing, ConnLoop, UpgradeRelay, H2Stream, ServerConn

The client's bytes are a sequence of symbols, each tagged with the request it
was sent for, so that "parsed where the one before ended" is a statement about
positions. The bufio readers are intervals of that sequence, because each takes
whatever has arrived. `Framing` has `ParseHeader` as a function of the fields it
looks at and the chunked decoder as a function of its state and a symbol; a chunk
has one byte, and `ChunkedBodies` is any set of sequences of symbols, well formed or
not. `ConnLoop` follows `handleConn` through its phases: head, admission, body,
answer (buffered, streamed or upgraded), drain, release. `body.type` is the type of
`req.Body`: the loop's own reader or, once the WAF has inspected the body
(`InspectBody`), its `io.MultiReader`, for which the type assertions of
`server.go:480-531` and `CloseBody` do nothing (`SeenUnread`, `Undrained`). An
upstream may answer any request with a status of 101 (`UpstreamStrays`); the loop
writes such a response as it writes an upgrade (`Announce`) and, without a connection
to relay, once more as an ordinary one. `UpgradeRelay` counts deadlines
in the ticks left, with the amortisation of `deadline.go`. `H2Stream` is the
handler of one stream with the ticker and the pump of its tunnel; the framing of
HTTP/2 is a library's.

### Ingress

A sync lists, fetches the endpoints of each service by a call of its own,
translates and installs; all under `syncMu`. A generation of the cluster tags
what was listed. Events only ask for a sync, so the channel is a number.
`StartWorkers` starts the resync worker or not, as `resync_period` is configured or
left at the code's default of zero.

### TokenBuckets, ResponseCache, MiddlewareChain

The limiter's list and the bucket objects are apart, because a request holds a
bucket that may be evicted before it asks it. Tokens and time are integers.
`admitted`, `displaced` and `lapsed` are history: what a client was given, how often
its bucket was evicted for lack of room, and how often for being idle before it had
refilled. A request is a record of what the
filters look at, its API key in a header of its own included; a response carries, besides, when, for which path and with
which credentials it was fetched (`asOf`, `path`, `credential`), which only the
properties read. `main` attaches the cache outside compression, authentication
and CORS, and so does the model. `AuthType` is the kind of authentication of the
guarded paths.

### WafEngine, LogSinks, HotReload

Each question a request asks the engine is a step under the read lock, and the
lock is kept across the reading of a body. A waiting writer keeps readers out,
as `sync.RWMutex` does. What matches a rule, and whether the protocol was kept,
are attributes of a request. A reload keeps, closes or creates the auto-ban manager
(`ReloadAutoBan`); the creation returns no error in the code as it is
(`auto_ban.go:100-134`). A log file is named by the number of rotations
before it was created. A reload may read a file before the operator has
completed it; what it then sees is one of the configurations `garbled` and
`prefix`. The routes file is loaded with it and is not told apart from it.

## 3. Runs

Passing runs:

| run | instance | shows |
|---|---|---|
| `route_table_churn` | 3 routes, limit 1, 3 updaters, 2 requests, 2 swaps | `SlotAccounting`: no counter update is lost. `GateCap`: the three-step gate does not overshoot on a counter. `ImplementsBulkhead`: it is one atomic semaphore. `BulkheadCapUntilSwap`: both gates together cap the requests in service until the table is replaced. `TableProxiesOpen`, `NoProxyLeak`, `SoleOwner`, `EvictedEventuallyClosed`: the life of the proxies |
| `pool` | 2 targets, 2 requests; a route with sticky cookies, one with least connections and probes, one with smooth weights | `BreakerConsistent`, `No503WhileUp` across the non-atomic scan, `ActiveConnsExact`: a handler takes back what it counted on every path, `CreditConserved` while health flaps, `BecomesEligible` after the cooldown, `ProbersStop` after Close |
| `reactor` | 5 clients, 2 workers, queue of 1, handlers that wait for upstreams | `Backpressure`, `SweptStayClosed`, `ServeReturnsClean`. `ShutdownStopsServe`: a Shutdown that finds the listener makes Serve return, or nothing but handlers of mute upstreams holds it up |
| `auto_ban_durability` | 1 address, 2 calls, 2 whitelists, 2 sets of limits, 2 ticks, failing disk, crashes | `RestartRetainsBans`, `ActiveBanKept`, `ExpiredPurged` |
| `discovery` | 2 containers, 2 changes, 1 failed listing, channel of 1, with and without polling | `EventsSuffice`: the event path alone is complete. `RoutesStabilise`: polling repairs what was missed. `StopAfterStreamEnds` |
| `layer4` | 2 clients on a limit of 1, 1 byte each way; 1 UDP client, 2 workers, 2 sockets | `StreamsSafe`: the limit bounds sockets, a FIN comes after every byte, Close is final. `IdleMeansBothQuiet`: one direction's deadline does not cut the other. `SessionsSafe`: no dead session in the table, no socket leaked. `NothingOutlivesItsTraffic` |
| `conn_loop` | 2 requests, 9 heads, 4 chunked bodies, body limit 1, drain limit 1, inspection limit 2 | `RequestsInSync`: a request is parsed where the one before ended. `ConnectionSafe`: nothing held between requests, answers in order, streams fail closed. `IdleRelayOnly`: amortised deadlines cut at most half of the timeout. `EveryConnectionEnds`: every connection ends, unless it waits for an upstream or an HTTP/2 client, for which there is no deadline |
| `ingress` | 4 ingresses, 2 services, 2 changes, 1 fault, channel of 1, with and without a resync | `SnapshotsInOrder`: an older listing never replaces a newer one. `ControllerSettles`: with a resync the routes end up right though the watch has ended or only pods have changed; without one, there is a route for each ingress as long as no call failed; and Stop returns |
| `middleware` | 2 goroutines, 3 requests out of 8, 3 replies, JWT, 1 bucket, 1 cache entry, 2 ticks | `CacheSafe`: a hit fits its request (path, encoding, origin, cookies, Authorization) and gives no guarded response away. `HitsFresh`. `AdmissionBounded`: the limit in every window, with a burst more for each bucket evicted before it was full |
| `hot_reload` | 1 edit, 2 reloads at once; 2 requests by 2 goroutines, or 2 rotations with 2 sinks, one of them created on demand, and 1 failing reopen | `LatestConfigApplied`. `RequestsGetThrough`: also when a request waits for a reload that waits for the body of another request. `SinksFollowRotation`: also when a signal is dropped because one is pending, and when the files are rotated while `Reopen` is under way |

A type invariant is part of the first property of each run that does not list
one (`BreakerConsistent`, `Backpressure`, `RestartRetainsBans`, `EventsSuffice`,
`StreamsSafe`, `SessionsSafe`, `ConnectionSafe`, `SnapshotsInOrder`, `CacheSafe`,
`AdmissionBounded`, `LatestConfigApplied`); that of `RouteTable` is proved.

Runs that find a disagreement between the code and what the repository says of
it (the texts are quoted under `findings`):

| run | property | what happens |
|---|---|---|
| `conn_loop_inspected` | `RequestsInSync` | The WAF has read the first bytes of a body that is larger than `max_inspect_body_size` and has replaced `req.Body`. The checks for an unread body do not recognise it, so that after an early answer the loop parses the rest of the body as a request. `conn_loop` assumes `MaxInspect > MaxBody` |
| `hot_reload_audit` | `AuditFollowsRotation` | A WAF reload replaces the audit logger that writes through a sink by one that has opened the file itself; `Reopen` does not know it |

## 4. Bounds

- `MaxGen` (2 swaps): a counter can be copied twice and a request can be two
  arrays behind, which is all the distance the counters can tell; the theorems
  are for any number of swaps.
- Two requests on a limit of one are enough for the gate to overshoot and roll
  back; three routes give each source one.
- Two targets let the rotation wrap around and a scan be overtaken. `MaxFailures`
  of 1 or 2 and a cooldown of 1 or 2 ticks show the threshold and the cooldown
  reached and not reached.
- Five clients are one more than two workers, a queue of one and the accept loop
  can hold, so that the loop waits with a connection in its hand while another
  client is waiting to be accepted.
- `MaxTime` of 2 with a ban of one tick and a window of two: strikes leave the
  window, a ban expires, is looked up, swept and renewed, and the second ban is
  permanent.
- `MaxChanges` of 2 from any initial set of containers: a restart (stop, start),
  a short life (start, stop), and changes of two containers. A channel of one is
  full as soon as the event worker is busy. Likewise for ingresses and pods,
  where two ingresses share a key and one sync is behind by a change.
- Two clients on a TCP limit of one: the second is refused or follows the first.
  One byte each way is enough for data before, with and after a FIN. Two workers
  and two datagrams of one client race for its session; a second socket is there
  for the loser of that race or for the session after an expiry.
- Two requests on a connection: whatever the first leaves behind meets the
  second. A limit of one byte is met, exceeded and not reached by the heads, and
  so is the drain limit. An inspection limit of 2 is above the body limit, one of 1
  with a body limit of 2 below it. An idle timeout of 4 ticks tells the half of the
  amortisation from the whole.
- One bucket for two clients forces evictions for room; an idle time of one tick
  out of two, evictions for age. One cache entry forces replacement; lifetimes of
  one tick expire within the clock.
- One edit of two writes and two reloads: a reload between the writes, after
  them, and both at once. Two goroutines with a request each: one reads its
  body under the lock while a reload waits and the other waits behind the reload. Two
  rotations: the second falls before, into or after the `Reopen` for the first, and its
  signal is dropped if that of the first is still pending. `MaxMixed = 0` leaves out
  behaviours with both requests and rotations: the engine and the sinks share no state
  but the audit logger, whose run (`hot_reload_audit`) has one of each.

Deadlock checking is off where the system ends or its bounds run out: `Serve` and
`Shutdown` return, connections end, clocks, changes and requests are bounded. It
is on for `RouteTable` and `UpstreamPool`.

## 5. Fairness

Weak fairness is given to straight-line code of a goroutine that is not blocked,
to time, and to tickers. Strong fairness is given to a `select` case that is
ready again and again (Go chooses at random) and to a mutex waiter (a Go mutex
hands over to a starved waiter): `ProbeExit`, `SweepExpiredBans`, `WorkerExits`,
`WorkerEnds`. Clients, handlers of live connections, upstreams, administrators,
the container engine and the cluster owe nothing: no fairness is assumed for
`Accept`, for `HandleConn` before the connection is closed, for a response, for
an event, for a byte from a peer. Assumptions about the outside: a socket that
has been closed gives errors, so its handler returns if it is not waiting for an
upstream again and again for ever (strong fairness of `HandleConn` on a closed
connection; a wait that never ends disables it); a call that does not fail
succeeds, so that with a bounded number of failures a later poll gets through;
an operator who has begun to write a file completes it, and one who has rotated
the logs signals; the reading of a body under the WAF's lock ends, because the
connection has a read deadline. `HotReload` has one weak fairness condition for all
steps of the program, and `ServerConn` one for `BoundedStep`, the steps that the
program takes by itself or that a deadline ends: their behaviours are bounded, so that
no step can be postponed for ever by others. Not among the latter are the steps of an
upstream (`UpstreamsTurn`: the answer to a handshake or a request, the pieces of a
streamed body) and of an HTTP/2 client (`H2ClientsTurn`), which nothing bounds in time.

## 6. Proofs

Every theorem is about the specification that the runs check and about all values
of its constants that satisfy the assumption named with it. TLC evaluates those
assumptions on the instances.

| module | theorem | states |
|---|---|---|
| `RouteTableProofs` | `TypeCorrect` | `TypeOK`; in particular no counter becomes negative |
| | `SlotsAccounted`, `GateCapHolds`, `CapUntilSwap` | `SlotAccounting`, `GateCap`, `BulkheadCapUntilSwap` |
| | `MatchedProxiesOpen`, `ProxiesNotLeaked`, `ProxiesOwnedOnce` | `TableProxiesOpen`, `NoProxyLeak`, `SoleOwner` |
| | `GateIsSemaphore` | `ImplementsBulkhead`, the refinement |
| | `EventsStaySufficient` | `EventsSuffice` of `Discovery` |
| `UpstreamPoolProofs` | `BreakersStayConsistent`, `ConnsStayExact`, `ScanMissesNoTarget` | `BreakerConsistent`, `ActiveConnsExact`, `No503WhileUp` |
| | `CreditStaysConserved` | `CreditConserved` |
| `ReactorProofs` | `AdmissionBoundHolds`, `SweepIsFinal`, `ServeLeavesNothing` | `Backpressure`, `SweptStayClosed`, `ServeReturnsClean` |
| `AutoBanProofs` | `RestartsRetainBans`, `BansInForceStay` | `RestartRetainsBans`, `ActiveBanKept` |
| `Layer4Proofs` | `StreamsStaySafe`, `IdleCutsQuietRelays`, `SessionsStaySafe` | `StreamsSafe`, `IdleMeansBothQuiet`, `SessionsSafe` |
| `IngressProofs` | `SnapshotsStayInOrder` | `SnapshotsInOrder` |
| `MiddlewareChainProofs` | `CacheStaysSafe`, `HitsStayFresh` | `CacheSafe`, `HitsFresh` |
| | `AdmissionStaysBounded`, `QuickLimitsNeverLapse` | `AdmissionBounded`; `FullWhenPurged`, for limits that refill within the idle time |
| `ServerConnProofs` | `RelayIdle` | `IdleRelayOnly` |
| | `LoopRequestsInSync`, `ConnectionStaysSafe` | `RequestsInSync`, `ConnectionSafe`, under three conditions |
| | `AlwaysReleased`, `H2StreamSafe` | the parts of `ConnectionSafe` that need no condition |

Each module first proves an inductive invariant (`CounterInvariant`,
`OwnerInvariant`, `PoolInvariant`, `CreditInvariant`, `ReactorInvariant`,
`AutoBanInvariant`, `ListenerInvariant`, `ControllerInvariant`, `EventInvariant`,
`ChainInvariant`, `AdmissionInvariant`, `RelayInvariant`, `LoopInvariant`) with one
lemma per action, and derives the properties from it.

### RouteTable

From `RouteTableAssumption` (finite routes and requests, well-typed constants),
for any number of swaps. `CounterInv` is `TypeOK`, `RequestOK`, `SlotAccounting`
and `GateCap`. `TypeOK` alone is not inductive, because a decrement of a natural
number is one only if the counter is positive; it is positive because
`SlotAccounting` says that the request that gives a slot back is counted.
`RequestOK` says which fields go with which program counter: a request in the gate
refers to a limited route, and one past it holds a slot only for a route. `GateCap`
is about the requests that are admitted or will be: a request in the window between
add and check counts if the value it saw is within the limit. When a request enters
that window with a value within the limit, `SlotAccounting` bounds the number of
those already counted by that value minus one. The lemmas `BulkheadUncounted`,
`BulkheadHolder`, `BulkheadEnter`, `BulkheadExit` and `BulkheadPublish` treat the
five ways in which a step can change who is counted where.

`CapUntilSwap` adds `SteadyInv`: before the first swap a request meets the same
route at both matches, so that one in service of a limited route holds a slot of it.
`GateIsSemaphore` shows step by step that an action changes at most one request's
holding: the re-check of the gate takes a slot, and `GateCap` says that there was
one; the deferred release gives it back; all others are stutters.

`OwnerInv` is `TypeOK`, `UpdaterOK`, `Disjoint`, `TableProxiesOpen` and
`NoProxyLeak`. Neither of the last two is inductive: that closing an evicted
proxy leaves the table alone needs the owners to be disjoint (`Disjoint`), and
that a published route is open needs compiled routes to be open (`UpdaterOK`).

### Discovery

In `RouteTableProofs` too, where the routes go; the two share no state. From
`DiscoveryAssumption`. `EventInv` speaks of the runs in which the events have to be
enough (`Calm`: no polling, no failed listing, no change between the first listing and
the watch, not stopped). Before the watch `ScanFirst` holds: nothing has changed since
`Start` listed. After it `Following`: every container is accounted for
(`Accounted`), either by an event of it that is on its way or by what the event worker
knows or is about to read, and the last event of it on its way tells the truth. The
order is what matters: an event overtaken by a later change says something false, and
does no harm only because a later event of the same container is behind it in the
stream, in the hands of the watcher or in the channel (`Truthful`). That an event of
a running container does not only say `start` but also shows it running is due to the
lookup between the two queues. When everything is quiet no event is on its way, and
what the worker knows was published.

### UpstreamPool

From `UpstreamPoolAssumption` (at least one target, finite requests, positive
weights, thresholds and cooldowns). `PoolInv` is `TypeOK`, `BreakersOK`, `Placed`,
`ActiveConnsExact` and `ScanCovers`. `ScanCovers` is what makes a scan complete: a
target that has been healthy since the scan began is among those still to be looked
at. With it goes arithmetic about rotations: one round from any start meets every
target (`RoundMeetsAll`). `Placed` says which request has chosen a target, without
which the counters could not be followed from one program point to the next.

`CreditConserved` needs more than a bound per target, since what one target is
charged depends on what all of them got. The invariant is about sets: `Fair(c)` says
that the credits add up to zero and that twice the credit of any set `S` of targets is
at most `|S| (N - |S|)` times the weight of all targets. A selection keeps it
(`RoundFair`): if the set contains the chosen target, or no other healthy one, it has
not gained; otherwise it has a healthy member `s` with no more credit than the chosen
`b`, and the bounds for `S` with `b` and for `S` without `s` together give that for
`S` (`Exchange`). `CreditInv` carries this through the scan, which raises the credits
one by one under the mutex (`Scanned`): they are those of the last selection plus the
weights of the healthy targets seen so far, of which `best` has most. For one target
and for all others together `Fair` gives the two sides of `CreditConserved`. The
search for this invariant corrected the property: a credit may exceed the sum of the
weights. With weights 1, 1, 8, 8 and flapping health one reaches 19.

The sums are folds of the community modules. What such a fold computes is proved
from its definition by a minimal counterexample (`SmallestSet`): its recursion has
one solution on the finite subsets of a set (`SumExists`, `SumUnique`), so any
element may be split off (`SumFacts`).

### Reactor

From `ReactorAssumption` (finite connections, a finite pool of at least one worker,
a queue of at least one). `Backpressure` counts open sockets, which no single step
bounds: `OpenHeld` says who holds each of them (a worker, the channel or the accept
loop), and the bound is the cardinality of that union. `OpenTracked` says that an
open connection that is not tracked is about to be tracked or closed, by the accept
loop or by a worker that discards it, `Accepted` that
what is held was accepted, and `Remains` what is left when `Serve` returns.
`Control` fixes the order of Shutdown, of the pool and of the channel.

### AutoBan

From `AutoBanAssumption`, and for one persistence path (`OnePath`). The hypothesis is
necessary: with two paths TLC finds both properties violated, because `UpdateConfig`
of a new path loads that file over the bans in memory and saves nothing (section 7).
`BanInv` is `TypeOK`, `Filed` (the file is at every instant the last completed save,
since the rename is the only write of it), `Retained` (the property itself) and
`Dated`: the time a lookup has noted is not in the future, so that a ban it found
expired still is when it gets the mutex.

### Layer4

From `TcpAssumption` and `UdpAssumption` (finite connections and workers, positive
limit and timeout; names of clients are no program points of `Serve`). `TcpInv` is
`TcpTypeOK`, `SlotsCounted` (the connections counted are those between the check of
the limit and the deferred decrement), `LiveRegistered` (the sockets Close must find
are registered, or their handler will look at `closed` first), `CloseOrder` and
`BytesAccounted` (bytes are unread, in the buffer of `copyDirection`, or delivered;
a FIN is passed on only when nothing is in between). `UdpInv` is `UdpTypeOK`,
`WorkersOff`, the two parts of the property, `DialledPrivately` (between the dial and
the second look at the table a worker alone knows its socket) and `ExpiredLeftTable`.

### Ingress

From `IngressAssumption`. `IngressInv` is `IngressTypeOK`, `Serialised` (`syncMu` is
held from the listing to the end) and `Ordered`: what is installed is no newer than
what the sync under way has listed, which is no newer than the cluster. Without
`Serialised` a worker could install what it had listed before another one did.

### MiddlewareChain

From `ChainAssumption`, `CacheAssumption` and `LimiterAssumption`. `ChainInv` says of
every entry of the cache that it is under the key of the request it was fetched for,
sets no cookie, is not private, was fetched with Authorization only if marked public,
is public if its path is guarded by JWT or Basic (`Disclosable`), and lapses when its
lifetime says (`StoreSound`), and of
every goroutine what the response in its hands is at each stage of the chain
(`ProcsSound`): what CORS put into it, what may be stored and, for a hit, that it fits
and that it was fresh when the request arrived. The hit is right
only because what is stored is, and what is stored is right only because of what the
chain did to it since the upstream.

`AdmInv` is about the limiter: its list is well formed (`Listed`) and its books are in
order (`Booked`). Beside what a client was given the books have its stake: what its
bucket could give now, a full burst if it has none, and what the buckets could give
that were evicted while requests of the client hold them (`Detached`). For every window
that ends now, what was given in it and the stake together are within the limit. The
bound on what was given is not inductive without the stake. The eviction of an idle
bucket keeps it if the bucket has refilled to a burst, since the new one promises no
more; if it has not, and if it is evicted for lack of room, the difference is paid for
by `lapsed` and `displaced`. Nothing is assumed about rate, burst and idle time but
that they are natural numbers; `QuickLimitsNeverLapse` adds that with
`Rate * (IdleTTL + 1) >= Burst` there is nothing to pay for idle eviction. A tick adds `Rate` to the
stake and to the limit, and finds no bucket detached. `Sound` keeps this apart for each
client: an object has one client, and a held object in the list was asked for in this
tick. There is always a free object for a new bucket (`FreeObject`), since there are as
many as the list and the goroutines can refer to.

### ServerConn

From `ConnLoopAssumption`, `RelayAssumption` and `H2Assumption`. Unconditional are
`RelayIdle`, `H2StreamSafe` and `AlwaysReleased`. `RelayInv` says that a direction of
the relay waits in a read only with a deadline that had more than half of the timeout
left when it was set (`ReadsGuarded`), which is what amortising guarantees; a cut then
means that more than half of the timeout has passed in silence. `H2Inv` adds to
`H2Safe` which goroutines of the handler exist at which stage. `ReleaseInv` says what
is held at each place of the loop (`Unheld`, which `LoopInv` has too).

`LoopRequestsInSync` and `ConnectionStaysSafe` assume `~EagerAfterChunked`,
`~EarlyStream` and `MaxInspect > MaxBody`, the three things the code does not ensure
(section 7). Each is necessary for `RequestsInSync`: with any one dropped TLC finds it
violated. The third is also what holds of a server without the WAF, whose bodies
nobody inspects.
`LoopInv` has four layers. The client's side: the symbols it has sent come request by
request (`Tagged`), each spells the body it means as far as it was sent (`Spelled`),
and nothing follows a chunked body whose head is unread (`Polite`). The position:
between two requests what was consumed is exactly what belongs to the requests parsed
(`InSync`), and within a body the reader stands where its own state says: so many bytes
into a body of known length, or at the symbol of a chunked body that the decoder's
state expects (`Placed`, `ReaderOf`). The inspection: no more is read than the body
limit, so that a reader of the WAF's has a body behind it that was read to its end
(`Inspected`). The exchange: what is held and what the response
is at each place (`Phases`), and which answers have been given (`Answers`), a stray 101
counting as none to its request (`BehindStray`). That an
accepted head means the same body to sender and parser is a lemma about `Framing`, and
so is that the decoder follows the grammar of chunked bodies symbol by symbol.

### Only model-checked

- All liveness properties: the prover has no fairness. These are the properties of
  the passing runs without a theorem, those of `hot_reload`
  among them, which are all about what happens in the end.

## 7. Assumptions and known limits

What the passing runs take for granted because the code does not ensure it:

- *Pipelining behind a chunked body* (`EagerAfterChunked = FALSE`,
  `server.go:365`): a chunked body is read through a buffered reader of its own, and
  what that has read beyond the body, a pipelined request, is dropped with it. With
  `EagerAfterChunked = TRUE` TLC finds `RequestsInSync` violated. REQ-108.md:73 asks
  that "all buffered unconsumed bytes from previous read operations remain intact in
  `br` across consecutive requests".
- *A streamed answer before the body was read* (`EarlyStream = FALSE`,
  `server.go:473`): the loop goes on with the next request without looking at
  what is left of a body of known length.
- *Bodies larger than the WAF inspects* (`MaxInspect > MaxBody`, `server.go:525`,
  `waf.go:412`): see `conn_loop_inspected`. By default 64 KB are inspected, of POST,
  PUT and PATCH, and larger bodies are admitted. What the WAF has read of the body of
  an upgrade request is not relayed either, since the relay begins with what is in
  `br`; the second half of `RequestsInSync` is about requests it has not inspected.
- *Stray 101* (`server.go:421`): an upstream's 101 to a request that is no upgrade is
  written twice. `AnswersInOrder` allows for the first of the two, and
  `NothingHeldBetweenRequests` for the streamed body that stays open when it cannot be
  written (`server.go:426`).
- *Mute upstreams* (`proxy.go:1679`, `server.go:583`): the answer to a WebSocket
  handshake and the body of a streamed response are read without a deadline, and
  `http2.Server{}` is given no idle timeout. A worker may wait for ever, and with it
  Serve's return after a Shutdown. `ShutdownStopsServe` and `EveryConnectionEnds` say
  what holds besides.
- *Responses in flight* (`proxy.go:1093`): `ActiveConns` is given back when the handler
  returns, but a streamed body (`proxy.go:1462`) and an upgraded connection
  (`proxy.go:1713`) are relayed afterwards, uncounted. `ActiveConnsExact` is about
  handlers; counted with the requests that are `relaying`, it is violated. REQ-050.md:7
  says "Directs traffic to the node handling the fewest active in-flight connections",
  and `load-balancing.md:46` "the fewest in-flight requests".
- *Bulkhead under replacement* (`router.go:756`): a swap copies the counter of a
  retained route. Requests that hold the old element and those that find the new
  one are counted apart, so that the cap holds only up to the first swap, and a
  slot given back on the old element leaves the copy too high.
- *Probers of clones* (`proxy.go:902`): `Stop` of the weighted balancers
  addresses clones, which have no probe to cancel. `ProbersStop` is about the
  others. Failing probes renew the cooldown of an Open breaker, and HalfOpen lets
  every request through, not one; a proxy whose construction fails half-way
  leaves the probes of its first targets running (`proxy.go:799`).
- *Early shutdown* (`reactor.go:282`): a Shutdown that comes after Serve has looked at
  `isShutdown` and before it has assigned the listener closes none; it returns once the
  workers are gone, and Serve goes on waiting in Accept on an open listener. The comment
  at `reactor.go:274` says that Shutdown "stops the reactor listener".
  `ShutdownStopsServe` is about a Shutdown that finds the listener (`~lnOpen`).
- *Resync* (`controller.go:138`): the resync worker is started only if `ResyncPeriod > 0`,
  and the code gives it no default (`config.go:99`), while `kubernetes-ingress.md:90`
  names 30s. Without it a change of pods, one after the watch has ended, and one whose
  sync failed never reach the routes; `ControllerSettles` claims no more than that the
  watch alone brings about.
- *Persistence file* (`auto_ban.go:167`): a reload that changes its path does not
  write the bans there. The whitelist is looked at before the mutex is taken
  (`auto_ban.go:306`), and its slices are replaced without a common lock
  (`auto_ban.go:222`), a data race below the grain of the model.
- *Discovery's Stop* (`unix_provider.go:198`) waits for a read that the context
  does not interrupt; `StopAfterStreamEnds` says what is left.
- *Rate limits per hour*: a bucket evicted for being idle has refilled only if
  `Rate * (IdleTTL + 1) >= Burst`, which limits per second and per minute satisfy with
  the default of ten minutes and limits per hour do not (`rate_limiter.go:48`,
  `:232`); a client that waits for the eviction gets another burst, which
  `AdmissionBounded` counts (`lapsed`). REQ-064.md:37 speaks of buckets "that have remained
  full and untouched". There is at least one client and there are finitely many goroutines. A request
  asks its bucket in the tick in which it got it. The clean-up
  goroutine of a limiter whose route was replaced is never stopped
  (`rate_limiter.go:375`).
- *Cache*: of the credentials only `Authorization` is looked at, so that the part of
  `CacheSafe` about guarded paths is for JWT and Basic. With `AuthType = "apikey"` TLC finds
  `GuardedHits` violated: the key is in a header of its own (`auth.go:253`), so that the
  response it was given for is stored as if it were nobody's (`cache.go:193`) and served
  to a client without one; TC-134.md:364 says that "authenticated responses never leak to
  unauthenticated clients". A hit carries no
  CORS headers for the origin that gets it, since the cache is outside CORS
  (`main.go:151`); upstreams are assumed to send one line of Vary and of
  Cache-Control at most.
- *Reloads*: two that overlap may finish in either order (`overlapped`); an event
  after `Stop` arms the timer again (`watcher.go:183`); a configuration that
  switches the WAF off is ignored; the override of the audit log's path at start
  is not repeated, and replaced audit loggers are not closed.
- *HTTP/2 tunnels*: the upstream's read deadline is set before each read
  (`server.go:1170`) and does not look at the other direction, so a tunnel in
  which only the client speaks is closed after the idle timeout. Properties about
  `H2Stream` do not claim otherwise.

## 8. Not modelled, and the plan

Not modelled: regular expressions and rule contents of the WAF, header and URL
rewriting, YAML parsing and validation (one predicate of `HotReload`), signatures
and passwords, TLS, ACME, QUIC, the REST-to-gRPC transcoder and the JSON views of
the internal API. They are string processing or the work of libraries, without a
protocol of their own. The metrics registry is counters that feed no decision.

Next, in this order:

1. The sidecar's proxy cache and weighted splitter.
2. Abstract specifications of the target choice that the scan implements and of
   the connection pool that `Reactor` implements.
