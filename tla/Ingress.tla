------------------------------ MODULE Ingress ------------------------------
(***************************************************************************)
(* pkg/ingress: the Kubernetes ingress controller.  syncIngresses lists    *)
(* the ingresses of the cluster, fetches the endpoints of their services   *)
(* one by one, and replaces the routes with source "k8s-ingress"; it is    *)
(* called by Start, by the consumer of watch events after a debounce, and  *)
(* by the periodic resync of a configuration that asks for one.            *)
(*                                                                         *)
(* The API server is external: a cluster that changes, and calls that may  *)
(* fail.  An ingress object is one path rule; syncs are serialised by      *)
(* syncMu.                                                                 *)
(***************************************************************************)
EXTENDS Integers, FiniteSets

CONSTANTS
    Ingresses,    \* ingress objects that may exist
    Rule,         \* Ingress -> [class, host, prefix, match, service]; match: the
                  \* method and headers its annotations ask for
    Pods,         \* addresses that may back a service
    MaxChanges,   \* bound: changes of the cluster
    MaxFaults,    \* bound: failures of the API server
    EventCap      \* capacity of the events channel

ASSUME IngressAssumption ==
    /\ IsFiniteSet(Ingresses) /\ IsFiniteSet(Pods)
    /\ MaxChanges \in Nat /\ MaxFaults \in Nat /\ EventCap \in Nat \ {0}

Services == {Rule[i].service : i \in Ingresses}
Workers == {"start", "consume", "resync"}

VARIABLES
    cluster,   \* the ingresses, the pods of each service, and its generation
    faults,    \* failures so far
    life,      \* "new", "starting", "running", "stopping", "stopped"
    cancelled, \* the controller's context is cancelled
    syncMu,    \* the worker inside syncIngresses, or "free"
    worker,    \* per worker: pc, what its sync has listed and fetched
    watch,     \* WatchIngresses: "off", "dial", "read", "send", "ended"
    notices,   \* events the API server has for the watch
    queue,     \* events in c.events
    debounce,  \* debounceTimer: "none", "armed", "fired"
    table      \* installed routes, the generation they were listed at, and
               \* that of c.activeRoutes

kvars == <<cluster, faults, life, cancelled, syncMu, worker, watch, notices, queue,
           debounce, table>>

Unknown == {"unknown"}  \* no entry in endpointsMap

Idle == [pc |-> "none", listed |-> {}, gen |-> 0,
         endpoints |-> [s \in Services |-> Unknown]]

\* makeCompositeKey.
KeyOf(i) == <<Rule[i].host, Rule[i].prefix, Rule[i].match>>

ClusterState == [ingresses : SUBSET Ingresses, pods : [Services -> SUBSET Pods],
                 gen : 0..MaxChanges]

WorkerState == [pc : {"none", "wait", "lock", "endpoints", "publish", "ended"},
                listed : SUBSET Ingresses, gen : 0..MaxChanges,
                endpoints : [Services -> (SUBSET Pods) \cup {Unknown}]]

Route == [key : {KeyOf(i) : i \in Ingresses}, targets : SUBSET (Pods \cup Services)]

TableState == [routes : SUBSET Route, gen : 0..MaxChanges, active : 0..MaxChanges]

IngressTypeOK ==
    /\ cluster \in ClusterState
    /\ faults \in 0..MaxFaults
    /\ life \in {"new", "starting", "running", "stopping", "stopped"}
    /\ cancelled \in BOOLEAN
    /\ syncMu \in Workers \cup {"free"}
    /\ worker \in [Workers -> WorkerState]
    /\ watch \in {"off", "dial", "read", "send", "ended"}
    /\ notices \in Nat /\ queue \in 0..EventCap
    /\ debounce \in {"none", "armed", "fired"}
    /\ table \in TableState

Init ==
    /\ cluster = [ingresses |-> Ingresses, pods |-> [s \in Services |-> Pods],
                  gen |-> 0]
    /\ faults = 0
    /\ life = "new" /\ cancelled = FALSE
    /\ syncMu = "free"
    /\ worker = [w \in Workers |-> Idle]
    /\ watch = "off" /\ notices = 0 /\ queue = 0 /\ debounce = "none"
    /\ table = [routes |-> {}, gen |-> 0, active |-> 0]

-----------------------------------------------------------------------------
(* The cluster.  Only ingresses are watched, one event for each change.    *)

IngressesChange ==
    /\ cluster.gen < MaxChanges
    /\ \E i \in Ingresses :
          cluster' = [cluster EXCEPT !.gen = @ + 1,
                                     !.ingresses = IF i \in @ THEN @ \ {i}
                                                   ELSE @ \cup {i}]
    /\ notices' = IF watch \in {"read", "send"} THEN notices + 1 ELSE notices
    /\ UNCHANGED <<faults, life, cancelled, syncMu, worker, watch, queue, debounce,
                   table>>

PodsChange ==
    /\ cluster.gen < MaxChanges
    /\ \E s \in Services : \E ps \in SUBSET Pods \ {cluster.pods[s]} :
          cluster' = [cluster EXCEPT !.pods[s] = ps, !.gen = @ + 1]
    /\ UNCHANGED <<faults, life, cancelled, syncMu, worker, watch, notices, queue,
                   debounce, table>>

\* A call fails once the context is cancelled, or because of a fault.
CallFails ==
    \/ cancelled /\ UNCHANGED faults
    \/ ~cancelled /\ faults < MaxFaults /\ faults' = faults + 1

-----------------------------------------------------------------------------
(* TranslateIngress and the aggregation by composite key.                  *)

Reserved == {"/internal", "/api/status"}
Probes == {"/health", "/metrics"}

\* The class must match; no route shadows the administrative paths, and one
\* without a host neither the probes nor the root.
Translated(i) ==
    /\ Rule[i].class = "toron"
    /\ Rule[i].prefix \notin Reserved
    /\ Rule[i].host = "" => Rule[i].prefix \notin Probes \cup {"/"}

\* The addresses of the service's endpoints, or its cluster name.
TargetsOf(s, endpoints) ==
    IF endpoints[s] \in {{}, Unknown} THEN {s} ELSE endpoints[s]

\* One route per key, with the targets of every ingress that has the key.
BuildRoutes(is, endpoints) ==
    LET translated == {i \in is : Translated(i)}
    IN  { [key |-> KeyOf(i),
           targets |-> UNION {TargetsOf(Rule[j].service, endpoints) :
                                 j \in {k \in translated : KeyOf(k) = KeyOf(i)}}] :
          i \in translated }

-----------------------------------------------------------------------------
(* syncIngresses, called by w.                                             *)

\* After a sync, Start goes on to start the workers and the others wait.
Return(w) == IF w = "start" THEN "ended" ELSE "wait"

EndSync(w) ==
    /\ syncMu' = "free"
    /\ worker' = [worker EXCEPT ![w] = [Idle EXCEPT !.pc = Return(w)]]

Listing(x) == [x EXCEPT !.pc = "endpoints", !.listed = cluster.ingresses,
                        !.gen = cluster.gen]

\* Mutant: the ingresses are listed before the mutex is taken.
List_Unlocked(w) ==
    /\ worker[w].pc = "lock"
    /\ worker' = [worker EXCEPT ![w] = Listing(worker[w])]
    /\ UNCHANGED <<cluster, faults, life, cancelled, syncMu, watch, notices, queue,
                   debounce, table>>

List(w) ==
    /\ worker[w].pc = "lock" /\ syncMu = "free" /\ ~cancelled
    /\ syncMu' = w
    /\ worker' = [worker EXCEPT ![w] = Listing(worker[w])]
    /\ UNCHANGED <<cluster, faults, life, cancelled, watch, notices, queue, debounce,
                   table>>

\* A failed list leaves the routes as they are.
ListFails(w) ==
    /\ worker[w].pc = "lock" /\ syncMu = "free"
    /\ CallFails
    /\ EndSync(w)
    /\ UNCHANGED <<cluster, life, cancelled, watch, notices, queue, debounce, table>>

Missing(w) == {s \in {Rule[i].service : i \in worker[w].listed} :
                  worker[w].endpoints[s] = Unknown}

GetEndpoints(w, s) ==
    /\ worker[w].pc = "endpoints" /\ s \in Missing(w) /\ ~cancelled
    /\ worker' = [worker EXCEPT ![w].endpoints[s] = cluster.pods[s]]
    /\ UNCHANGED <<cluster, faults, life, cancelled, syncMu, watch, notices, queue,
                   debounce, table>>

\* A service whose endpoints cannot be fetched is left to its cluster name.
GetEndpointsFails(w, s) ==
    /\ worker[w].pc = "endpoints" /\ s \in Missing(w)
    /\ CallFails
    /\ worker' = [worker EXCEPT ![w].endpoints[s] = {}]
    /\ UNCHANGED <<cluster, life, cancelled, syncMu, watch, notices, queue, debounce,
                   table>>

\* ReplacePrefixRoutesBySource.
Install(w) ==
    /\ worker[w].pc = "endpoints" /\ Missing(w) = {}
    /\ table' = [table EXCEPT !.routes = BuildRoutes(worker[w].listed,
                                                     worker[w].endpoints),
                              !.gen = worker[w].gen]
    /\ worker' = [worker EXCEPT ![w].pc = "publish"]
    /\ UNCHANGED <<cluster, faults, life, cancelled, syncMu, watch, notices, queue,
                   debounce>>

\* A route does not compile (an address the API server gave is no URL): the
\* routes and activeRoutes stay as they are.
InstallFails(w) ==
    /\ worker[w].pc = "endpoints" /\ Missing(w) = {}
    /\ faults < MaxFaults /\ faults' = faults + 1
    /\ EndSync(w)
    /\ UNCHANGED <<cluster, life, cancelled, watch, notices, queue, debounce, table>>

\* c.activeRoutes under c.mu, and the deferred unlock.
Publish(w) ==
    /\ worker[w].pc = "publish"
    /\ table' = [table EXCEPT !.active = worker[w].gen]
    /\ EndSync(w)
    /\ UNCHANGED <<cluster, faults, life, cancelled, watch, notices, queue, debounce>>

-----------------------------------------------------------------------------
(* Start, Stop and the workers.                                            *)

Start ==
    /\ life = "new"
    /\ life' = "starting"
    /\ worker' = [worker EXCEPT !["start"].pc = "lock"]
    /\ UNCHANGED <<cluster, faults, cancelled, syncMu, watch, notices, queue, debounce,
                   table>>

\* The resync is started if cfg.ResyncPeriod > 0; it has no default.
StartWorkers ==
    /\ life = "starting" /\ worker["start"].pc = "ended"
    /\ life' = "running"
    /\ \E resync \in {"wait", "none"} :
          worker' = [worker EXCEPT !["consume"].pc = "wait", !["resync"].pc = resync]
    /\ watch' = "dial"
    /\ UNCHANGED <<cluster, faults, cancelled, syncMu, notices, queue, debounce, table>>

Stop ==
    /\ life = "running"
    /\ life' = "stopping" /\ cancelled' = TRUE
    /\ UNCHANGED <<cluster, faults, syncMu, worker, watch, notices, queue, debounce,
                   table>>

\* wg.Wait, for the workers that were started.
StopReturns ==
    /\ life = "stopping" /\ watch = "ended"
    /\ \A w \in Workers : worker[w].pc \in {"none", "ended"}
    /\ life' = "stopped"
    /\ UNCHANGED <<cluster, faults, cancelled, syncMu, worker, watch, notices, queue,
                   debounce, table>>

\* watchWorker: the watch is not started again when it ends.  It names no
\* resource version, so that the API server begins with events for the ingresses
\* there are; one stands for all of them.
WatchConnects ==
    /\ watch = "dial" /\ ~cancelled
    /\ watch' = "read"
    /\ notices' = IF cluster.ingresses = {} THEN 0 ELSE 1
    /\ UNCHANGED <<cluster, faults, life, cancelled, syncMu, worker, queue, debounce,
                   table>>

WatchReads ==
    /\ watch = "read" /\ notices > 0 /\ ~cancelled
    /\ watch' = "send" /\ notices' = notices - 1
    /\ UNCHANGED <<cluster, faults, life, cancelled, syncMu, worker, queue, debounce,
                   table>>

WatchSends ==
    /\ watch = "send" /\ queue < EventCap
    /\ watch' = "read" /\ queue' = queue + 1
    /\ UNCHANGED <<cluster, faults, life, cancelled, syncMu, worker, notices, debounce,
                   table>>

\* The stream breaks; or the context is cancelled, which closes the body under
\* a blocked read and is selected against a blocked send.
\* Mutant: the send into the channel does not look at the context.
WatchEnds_BlockedSend ==
    /\ watch \in {"dial", "read"} /\ CallFails
    /\ watch' = "ended" /\ notices' = 0
    /\ UNCHANGED <<cluster, life, cancelled, syncMu, worker, queue, debounce, table>>

WatchEnds ==
    /\ \/ watch \in {"dial", "read"} /\ CallFails
       \/ watch = "send" /\ cancelled /\ UNCHANGED faults
    /\ watch' = "ended" /\ notices' = 0
    /\ UNCHANGED <<cluster, life, cancelled, syncMu, worker, queue, debounce, table>>

\* consumeEventsWorker: every event restarts the debounce.
ConsumeEvent ==
    /\ worker["consume"].pc = "wait" /\ queue > 0
    /\ queue' = queue - 1
    /\ debounce' = "armed"
    /\ UNCHANGED <<cluster, faults, life, cancelled, syncMu, worker, watch, notices,
                   table>>

DebounceFires ==
    /\ debounce = "armed"
    /\ debounce' = "fired"
    /\ UNCHANGED <<cluster, faults, life, cancelled, syncMu, worker, watch, notices,
                   queue, table>>

ConsumeSyncs ==
    /\ worker["consume"].pc = "wait" /\ debounce = "fired"
    /\ debounce' = "none"
    /\ worker' = [worker EXCEPT !["consume"].pc = "lock"]
    /\ UNCHANGED <<cluster, faults, life, cancelled, syncMu, watch, notices, queue,
                   table>>

\* periodicResyncWorker.
ResyncSyncs ==
    /\ worker["resync"].pc = "wait"
    /\ worker' = [worker EXCEPT !["resync"].pc = "lock"]
    /\ UNCHANGED <<cluster, faults, life, cancelled, syncMu, watch, notices, queue,
                   debounce, table>>

WorkerEnds(w) ==
    /\ worker[w].pc = "wait" /\ cancelled
    /\ worker' = [worker EXCEPT ![w].pc = "ended"]
    /\ debounce' = IF w = "consume" THEN "none" ELSE debounce
    /\ UNCHANGED <<cluster, faults, life, cancelled, syncMu, watch, notices, queue,
                   table>>

-----------------------------------------------------------------------------
SyncStep(w) ==
    \/ List(w) \/ ListFails(w)
    \/ \E s \in Services : GetEndpoints(w, s) \/ GetEndpointsFails(w, s)
    \/ Install(w) \/ InstallFails(w) \/ Publish(w)

WatchStep == WatchConnects \/ WatchReads \/ WatchSends \/ WatchEnds

ConsumeStep == ConsumeEvent \/ DebounceFires \/ ConsumeSyncs \/ WorkerEnds("consume")

ResyncStep == ResyncSyncs \/ WorkerEnds("resync")

Next ==
    \/ IngressesChange \/ PodsChange
    \/ \E w \in Workers : SyncStep(w)
    \/ Start \/ StartWorkers \/ Stop \/ StopReturns
    \/ WatchStep \/ ConsumeStep \/ ResyncStep

\* The goroutines run, the timers fire, and a worker that returns to its select
\* notices in the end that the context is cancelled.  The cluster need not
\* change and nobody need call Stop.
Fairness ==
    /\ \A w \in Workers : WF_kvars(SyncStep(w))
    /\ WF_kvars(StartWorkers) /\ WF_kvars(StopReturns)
    /\ WF_kvars(WatchStep) /\ WF_kvars(ConsumeStep) /\ WF_kvars(ResyncStep)
    /\ SF_kvars(WorkerEnds("resync")) /\ SF_kvars(WorkerEnds("consume"))

Spec == Init /\ [][Next]_kvars /\ Fairness

-----------------------------------------------------------------------------
\* Whoever syncs, with whatever delays between listing, fetching endpoints and
\* installing: the routes of an older listing never replace those of a newer
\* one, and the routes shown by the API (activeRoutes) follow in the same order.
\* (The state of the controller is also well formed.)
SnapshotsInOrder ==
    /\ []IngressTypeOK
    /\ [][ /\ table'.gen >= table.gen
           /\ table'.active >= table.active /\ table'.active <= table'.gen ]_kvars

Settled == table.routes = BuildRoutes(cluster.ingresses, cluster.pods)

\* There is a route for every ingress of the cluster, and no other.
Followed ==
    {r.key : r \in table.routes} = {KeyOf(i) : i \in {j \in cluster.ingresses : Translated(j)}}

\* When the cluster stops changing and the API server recovers, the routes end
\* up those of the cluster and stay so, although the watch has broken, a fetch
\* has failed or only pods have changed, if a resync period is configured.
\* Without one the watch alone has to do: it is not started again, sees no pods,
\* and shows nothing where there is nothing, so that the routes end up those of
\* the ingresses if no call failed.  A controller that is told to stop stops,
\* although its watch is blocked in a read or in a send.
ControllerSettles ==
    <>[] CASE life = "new" -> TRUE
           [] life \in {"starting", "running"} ->
                 /\ life = "running"
                 /\ \/ worker["resync"].pc # "none" /\ Settled
                    \/ /\ worker["resync"].pc = "none"
                       /\ faults = 0 /\ cluster.ingresses # {} => Followed
           [] OTHER -> life = "stopped"
=============================================================================
