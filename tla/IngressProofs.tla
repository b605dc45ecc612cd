--------------------------- MODULE IngressProofs ---------------------------
(***************************************************************************)
(* Proofs about Ingress, for any ingresses, rules, pods and capacity of    *)
(* the event channel: the syncs of the three workers install what they     *)
(* have listed in the order in which they listed it.                       *)
(***************************************************************************)
EXTENDS Ingress, TLAPS

\* A worker between its listing and the end of its sync.
InSync(x) == x.pc \in {"endpoints", "publish"}

\* syncMu is held from the listing to the end.
Serialised == \A w \in Workers : InSync(worker[w]) => syncMu = w

\* What is installed is no newer than what the sync under way has listed, which
\* is no newer than the cluster; activeRoutes comes after the table.
InOrder(x) ==
    InSync(x) => /\ table.gen <= x.gen /\ x.gen <= cluster.gen
                 /\ x.pc = "publish" => x.gen = table.gen

Ordered ==
    /\ table.active <= table.gen /\ table.gen <= cluster.gen
    /\ \A w \in Workers : InOrder(worker[w])

IngressInv == IngressTypeOK /\ Serialised /\ Ordered

-----------------------------------------------------------------------------
(* The records of the state.                                               *)

\* A cluster.
LEMMA ClusterFields ==
    ASSUME NEW c \in ClusterState
    PROVE  /\ c.ingresses \in SUBSET Ingresses /\ c.pods \in [Services -> SUBSET Pods]
           /\ c.gen \in 0..MaxChanges
BY DEF ClusterState

\* What a worker keeps.
LEMMA WorkerFields ==
    ASSUME NEW x \in WorkerState
    PROVE  /\ x.listed \in SUBSET Ingresses /\ x.gen \in 0..MaxChanges
           /\ x.endpoints \in [Services -> (SUBSET Pods) \cup {Unknown}]
BY DEF WorkerState

\* A worker goes on to another point of its loop.
LEMMA WorkerMoves ==
    ASSUME NEW x \in WorkerState,
           NEW p \in {"none", "wait", "lock", "endpoints", "publish", "ended"}
    PROVE  LET y == [x EXCEPT !.pc = p] IN y \in WorkerState /\ y.pc = p /\ y.gen = x.gen
BY DEF WorkerState

\* A worker that has finished its sync.
LEMMA IdleWorker ==
    /\ Idle \in WorkerState /\ ~InSync(Idle)
    /\ \A w \in Workers : LET y == [Idle EXCEPT !.pc = Return(w)]
                          IN  y \in WorkerState /\ ~InSync(y)
<1>1. Idle \in WorkerState /\ ~InSync(Idle)
  BY IngressAssumption DEF Idle, WorkerState, InSync
<1>2. ASSUME NEW w \in Workers
      PROVE  LET y == [Idle EXCEPT !.pc = Return(w)] IN y \in WorkerState /\ ~InSync(y)
  <2>1. Return(w) \in {"ended", "wait"}
    BY DEF Return
  <2> QED BY <1>1, <2>1, WorkerMoves DEF InSync
<1> QED BY <1>1, <1>2

\* The table.
LEMMA TableFields ==
    ASSUME NEW t \in TableState
    PROVE  t.gen \in 0..MaxChanges /\ t.active \in 0..MaxChanges
BY DEF TableState

\* The routes of a listing are routes.
LEMMA RoutesType ==
    ASSUME NEW is \in SUBSET Ingresses,
           NEW es \in [Services -> (SUBSET Pods) \cup {Unknown}]
    PROVE  BuildRoutes(is, es) \in SUBSET Route
<1> DEFINE translated == {i \in is : Translated(i)}
           Merged(i) == UNION {TargetsOf(Rule[j].service, es) :
                                  j \in {k \in translated : KeyOf(k) = KeyOf(i)}}
<1>1. ASSUME NEW j \in Ingresses PROVE TargetsOf(Rule[j].service, es) \subseteq Pods \cup Services
  <2>1. Rule[j].service \in Services
    BY DEF Services
  <2> QED BY <2>1 DEF TargetsOf
<1>2. ASSUME NEW i \in translated
      PROVE  [key |-> KeyOf(i), targets |-> Merged(i)] \in Route
  <2>1. Merged(i) \in SUBSET (Pods \cup Services)
    BY <1>1
  <2>2. KeyOf(i) \in {KeyOf(j) : j \in Ingresses}
    OBVIOUS
  <2> HIDE DEF Merged
  <2> QED BY <2>1, <2>2 DEF Route
<1>3. BuildRoutes(is, es) = {[key |-> KeyOf(i), targets |-> Merged(i)] : i \in translated}
  BY DEF BuildRoutes
<1> HIDE DEF Merged, translated
<1> QED BY <1>2, <1>3

-----------------------------------------------------------------------------
(* The invariant is inductive.                                             *)

\* NewController.
LEMMA InitInv == Init => IngressInv
<1> SUFFICES ASSUME Init PROVE IngressInv
  OBVIOUS
<1>1. worker \in [Workers -> WorkerState] /\ \A w \in Workers : ~InSync(worker[w])
  BY IdleWorker DEF Init
<1>2. cluster \in ClusterState /\ cluster.gen = 0
  BY IngressAssumption DEF Init, ClusterState
<1>3. table \in TableState /\ table.gen = 0 /\ table.active = 0
  BY IngressAssumption DEF Init, TableState
<1>4. IngressTypeOK
  <2>1. faults \in 0..MaxFaults /\ notices \in Nat /\ queue \in 0..EventCap
    BY IngressAssumption DEF Init
  <2>2. /\ life \in {"new", "starting", "running", "stopping", "stopped"}
        /\ cancelled \in BOOLEAN /\ syncMu \in Workers \cup {"free"}
        /\ watch \in {"off", "dial", "read", "send", "ended"}
        /\ debounce \in {"none", "armed", "fired"}
    BY DEF Init
  <2> QED BY <1>1, <1>2, <1>3, <2>1, <2>2 DEF IngressTypeOK
<1>5. Serialised
  BY <1>1 DEF Serialised
<1>6. Ordered
  BY <1>1, <1>2, <1>3 DEF Ordered, InOrder
<1> QED BY <1>4, <1>5, <1>6 DEF IngressInv

\* A step outside the syncs: no worker enters one, and the cluster only gets
\* newer.
LEMMA OutsideKeeps ==
    ASSUME IngressInv, IngressTypeOK', UNCHANGED <<syncMu, table>>,
           cluster'.gen >= cluster.gen,
           \A w \in Workers : InSync(worker'[w]) => worker'[w] = worker[w]
    PROVE  IngressInv'
<1>1. Serialised'
  BY DEF IngressInv, Serialised
<1>2. /\ table.active \in Int /\ table.gen \in Int
      /\ cluster.gen \in Int /\ cluster'.gen \in Int
  BY TableFields, ClusterFields DEF IngressInv, IngressTypeOK
<1>3. ASSUME NEW w \in Workers, InSync(worker'[w]) PROVE InOrder(worker[w])'
  <2>1. worker'[w] = worker[w] /\ InOrder(worker[w])
    BY <1>3 DEF IngressInv, Ordered
  <2>2. worker[w].gen \in Int
    BY WorkerFields DEF IngressInv, IngressTypeOK
  <2> QED BY <1>2, <1>3, <2>1, <2>2 DEF InOrder
<1>4. Ordered'
  BY <1>2, <1>3 DEF IngressInv, Ordered, InOrder
<1> QED BY <1>1, <1>4 DEF IngressInv

\* A step of the worker w inside its sync, which holds syncMu before or after
\* the step while every other worker is outside.
LEMMA SyncKeeps ==
    ASSUME IngressInv, NEW w \in Workers, NEW y,
           worker' = [worker EXCEPT ![w] = y], IngressTypeOK',
           syncMu \in {w, "free"}, InSync(y) => syncMu' = w,
           InSync(y) => /\ table'.gen <= y.gen /\ y.gen <= cluster'.gen
                        /\ y.pc = "publish" => y.gen = table'.gen,
           table'.active <= table'.gen, table'.gen <= cluster'.gen
    PROVE  IngressInv'
<1>1. worker'[w] = y /\ \A v \in Workers \ {w} : worker'[v] = worker[v]
  BY DEF IngressInv, IngressTypeOK
<1>2. \A v \in Workers \ {w} : ~InSync(worker[v])
  BY DEF IngressInv, Serialised, Workers
<1>3. Serialised'
  BY <1>1, <1>2 DEF Serialised
<1>4. Ordered'
  BY <1>1, <1>2 DEF Ordered, InOrder
<1> QED BY <1>3, <1>4 DEF IngressInv

-----------------------------------------------------------------------------
(* The cluster changes.                                                    *)

\* Ingresses come and go, and the watch is told.
LEMMA IngressesChangeInv ==
    ASSUME IngressInv, IngressesChange
    PROVE  IngressInv'
<1>1. PICK i \in Ingresses :
        cluster' = [cluster EXCEPT !.gen = @ + 1,
                                   !.ingresses = IF i \in @ THEN @ \ {i} ELSE @ \cup {i}]
  BY DEF IngressesChange
<1>2. cluster \in ClusterState /\ cluster.gen \in 0..MaxChanges
  BY ClusterFields DEF IngressInv, IngressTypeOK
<1> DEFINE is == IF i \in cluster.ingresses THEN cluster.ingresses \ {i}
                 ELSE cluster.ingresses \cup {i}
<1>3. cluster' \in ClusterState /\ cluster'.gen = cluster.gen + 1
  <2>1. cluster.gen + 1 \in 0..MaxChanges
    BY <1>2, IngressAssumption DEF IngressesChange
  <2>2. is \in SUBSET Ingresses
    BY <1>2, ClusterFields
  <2>3. cluster' = [cluster EXCEPT !.gen = cluster.gen + 1, !.ingresses = is]
    BY <1>1, <1>2 DEF ClusterState
  <2> HIDE DEF is
  <2> QED BY <1>2, <2>1, <2>2, <2>3 DEF ClusterState
<1>4. notices' \in Nat
  BY DEF IngressesChange, IngressInv, IngressTypeOK
<1>5. IngressTypeOK'
  BY <1>3, <1>4 DEF IngressesChange, IngressInv, IngressTypeOK
<1>6. cluster'.gen >= cluster.gen
  BY <1>2, <1>3
<1> QED BY <1>5, <1>6, OutsideKeeps DEF IngressesChange

\* So do pods, and nobody is told.
LEMMA PodsChangeInv ==
    ASSUME IngressInv, PodsChange
    PROVE  IngressInv'
<1>1. PICK s \in Services, ps \in SUBSET Pods :
        cluster' = [cluster EXCEPT !.pods[s] = ps, !.gen = @ + 1]
  BY DEF PodsChange
<1>2. cluster \in ClusterState /\ cluster.gen \in 0..MaxChanges
  BY ClusterFields DEF IngressInv, IngressTypeOK
<1>3. cluster' \in ClusterState /\ cluster'.gen = cluster.gen + 1
  <2>1. cluster.gen + 1 \in 0..MaxChanges
    BY <1>2, IngressAssumption DEF PodsChange
  <2>2. cluster' = [cluster EXCEPT !.pods = [cluster.pods EXCEPT ![s] = ps],
                                   !.gen = cluster.gen + 1]
    BY <1>1, <1>2 DEF ClusterState
  <2>3. [cluster.pods EXCEPT ![s] = ps] \in [Services -> SUBSET Pods]
    BY <1>2, ClusterFields
  <2> QED BY <1>2, <2>1, <2>2, <2>3 DEF ClusterState
<1>4. IngressTypeOK'
  BY <1>3 DEF PodsChange, IngressInv, IngressTypeOK
<1>5. cluster'.gen >= cluster.gen
  BY <1>2, <1>3
<1> QED BY <1>4, <1>5, OutsideKeeps DEF PodsChange

-----------------------------------------------------------------------------
(* syncIngresses.                                                          *)

\* A call that fails keeps the number of failures bounded.
LEMMA FaultsBounded ==
    ASSUME IngressInv, CallFails
    PROVE  faults' \in 0..MaxFaults
BY IngressAssumption DEF IngressInv, IngressTypeOK, CallFails

\* What the order says of the state before a step.
LEMMA OrderNow ==
    ASSUME IngressInv
    PROVE  /\ table \in TableState /\ cluster \in ClusterState
           /\ table.active \in Int /\ table.gen \in Int /\ cluster.gen \in Int
           /\ table.active <= table.gen /\ table.gen <= cluster.gen
<1>1. table \in TableState /\ cluster \in ClusterState
  BY DEF IngressInv, IngressTypeOK
<1>2. table.gen \in 0..MaxChanges /\ table.active \in 0..MaxChanges
  BY <1>1, TableFields
<1>3. cluster.gen \in 0..MaxChanges
  BY <1>1, ClusterFields
<1> QED BY <1>1, <1>2, <1>3 DEF IngressInv, Ordered

\* A listing is taken under syncMu, of the cluster of this moment.
LEMMA ListInv ==
    ASSUME IngressInv, NEW w \in Workers, List(w)
    PROVE  IngressInv'
<1> DEFINE y == Listing(worker[w])
<1>1. worker[w] \in WorkerState /\ cluster \in ClusterState
  BY DEF IngressInv, IngressTypeOK
<1>2. cluster.ingresses \in SUBSET Ingresses /\ cluster.gen \in 0..MaxChanges
  BY <1>1, ClusterFields
<1>3. y \in WorkerState /\ y.gen = cluster.gen /\ y.pc = "endpoints"
  BY <1>1, <1>2 DEF Listing, WorkerState
<1>4. /\ worker' = [worker EXCEPT ![w] = y] /\ syncMu' = w /\ syncMu = "free"
      /\ UNCHANGED <<cluster, table>>
  BY DEF List
<1> HIDE DEF y
<1>5. worker' \in [Workers -> WorkerState]
  BY <1>3, <1>4 DEF IngressInv, IngressTypeOK
<1>6. IngressTypeOK'
  BY <1>4, <1>5 DEF List, IngressInv, IngressTypeOK
<1>7. /\ table'.gen <= y.gen /\ y.gen <= cluster'.gen
      /\ table'.active <= table'.gen /\ table'.gen <= cluster'.gen
  BY <1>3, <1>4, OrderNow
<1> QED BY <1>3, <1>4, <1>6, <1>7, SyncKeeps

\* The deferred unlock.
LEMMA EndSyncInv ==
    ASSUME IngressInv, NEW w \in Workers, EndSync(w), syncMu \in {w, "free"},
           faults' \in 0..MaxFaults, table' \in TableState, table'.gen = table.gen,
           table'.active <= table.gen,
           UNCHANGED <<cluster, life, cancelled, watch, notices, queue, debounce>>
    PROVE  IngressInv'
<1> DEFINE y == [Idle EXCEPT !.pc = Return(w)]
<1>1. y \in WorkerState /\ ~InSync(y)
  BY IdleWorker
<1>2. worker' = [worker EXCEPT ![w] = y] /\ syncMu' = "free"
  BY DEF EndSync
<1> HIDE DEF y
<1>3. worker' \in [Workers -> WorkerState]
  BY <1>1, <1>2 DEF IngressInv, IngressTypeOK
<1>4. IngressTypeOK'
  BY <1>2, <1>3 DEF IngressInv, IngressTypeOK
<1> QED BY <1>1, <1>2, <1>4, OrderNow, SyncKeeps

\* A failed listing.
LEMMA ListFailsInv ==
    ASSUME IngressInv, NEW w \in Workers, ListFails(w)
    PROVE  IngressInv'
<1>1. faults' \in 0..MaxFaults
  BY FaultsBounded DEF ListFails
<1> QED BY <1>1, EndSyncInv, OrderNow DEF ListFails

\* What is true of a worker inside its sync.
LEMMA HolderFacts ==
    ASSUME IngressInv, NEW w \in Workers, InSync(worker[w])
    PROVE  /\ syncMu = w /\ worker[w] \in WorkerState
           /\ worker[w].gen \in 0..MaxChanges
           /\ table.gen <= worker[w].gen /\ worker[w].gen <= cluster.gen
           /\ worker[w].pc = "publish" => worker[w].gen = table.gen
<1>1. worker[w] \in WorkerState
  BY DEF IngressInv, IngressTypeOK
<1>2. worker[w].gen \in 0..MaxChanges
  BY <1>1, WorkerFields
<1> QED BY <1>1, <1>2 DEF IngressInv, Serialised, Ordered, InOrder

\* The endpoints of a service, fetched or not.
LEMMA FetchInv ==
    ASSUME IngressInv, NEW w \in Workers, NEW s \in Services, NEW ps \in SUBSET Pods,
           worker[w].pc = "endpoints", faults' \in 0..MaxFaults,
           worker' = [worker EXCEPT ![w].endpoints[s] = ps],
           UNCHANGED <<cluster, life, cancelled, syncMu, watch, notices, queue, debounce,
                       table>>
    PROVE  IngressInv'
<1> DEFINE y == [worker[w] EXCEPT !.endpoints[s] = ps]
<1>1. InSync(worker[w])
  BY DEF InSync
<1>2. y \in WorkerState /\ y.gen = worker[w].gen /\ y.pc = "endpoints"
  BY <1>1, HolderFacts DEF WorkerState
<1>3. worker' = [worker EXCEPT ![w] = y]
  BY DEF IngressInv, IngressTypeOK
<1> HIDE DEF y
<1>4. worker' \in [Workers -> WorkerState]
  BY <1>2, <1>3 DEF IngressInv, IngressTypeOK
<1>5. IngressTypeOK'
  BY <1>4 DEF IngressInv, IngressTypeOK
<1>6. syncMu = w /\ table.gen <= y.gen /\ y.gen <= cluster.gen
  BY <1>1, <1>2, HolderFacts
<1> QED BY <1>2, <1>3, <1>5, <1>6, OrderNow, SyncKeeps

LEMMA GetEndpointsInv ==
    ASSUME IngressInv, NEW w \in Workers, NEW s \in Services,
           GetEndpoints(w, s) \/ GetEndpointsFails(w, s)
    PROVE  IngressInv'
<1>1. CASE GetEndpoints(w, s)
  <2>1. cluster.pods[s] \in SUBSET Pods
    BY ClusterFields DEF IngressInv, IngressTypeOK
  <2>2. faults' \in 0..MaxFaults
    BY <1>1 DEF GetEndpoints, IngressInv, IngressTypeOK
  <2> QED BY <1>1, <2>1, <2>2, FetchInv DEF GetEndpoints
<1>2. CASE GetEndpointsFails(w, s)
  <2>1. faults' \in 0..MaxFaults
    BY <1>2, FaultsBounded DEF GetEndpointsFails
  <2>2. {} \in SUBSET Pods
    OBVIOUS
  <2>3. /\ worker[w].pc = "endpoints"
        /\ worker' = [worker EXCEPT ![w].endpoints[s] = {}]
        /\ UNCHANGED <<cluster, life, cancelled, syncMu, watch, notices, queue, debounce,
                       table>>
    BY <1>2 DEF GetEndpointsFails
  <2> QED BY <2>1, <2>2, <2>3, FetchInv
<1> QED BY <1>1, <1>2

\* The routes of the listing replace those of an older one.
LEMMA InstallInv ==
    ASSUME IngressInv, NEW w \in Workers, Install(w)
    PROVE  /\ IngressInv'
           /\ table'.gen >= table.gen /\ table'.active = table.active
<1> DEFINE y == [worker[w] EXCEPT !.pc = "publish"]
<1>1. InSync(worker[w])
  BY DEF InSync, Install
<1>2. y \in WorkerState /\ y.gen = worker[w].gen /\ y.pc = "publish"
  BY <1>1, HolderFacts, WorkerMoves
<1>3. worker' = [worker EXCEPT ![w] = y]
  BY DEF Install, IngressInv, IngressTypeOK
<1> HIDE DEF y
<1>4. worker' \in [Workers -> WorkerState]
  BY <1>2, <1>3 DEF IngressInv, IngressTypeOK
<1>5. BuildRoutes(worker[w].listed, worker[w].endpoints) \in SUBSET Route
  BY <1>1, HolderFacts, WorkerFields, RoutesType
<1>6. /\ table' \in TableState /\ table'.gen = worker[w].gen
      /\ table'.active = table.active
  BY <1>1, <1>5, HolderFacts, OrderNow DEF Install, TableState
<1>7. IngressTypeOK'
  BY <1>4, <1>6 DEF Install, IngressInv, IngressTypeOK
<1>8. syncMu = w /\ syncMu' = w /\ cluster' = cluster
  BY <1>1, HolderFacts DEF Install
<1>9. /\ table'.gen >= table.gen /\ table'.active <= table'.gen
      /\ table'.gen <= cluster'.gen
  BY <1>1, <1>6, <1>8, HolderFacts, OrderNow
<1>10. table'.gen <= y.gen /\ y.gen <= cluster'.gen /\ y.gen = table'.gen
  BY <1>1, <1>2, <1>6, <1>8, HolderFacts
<1> QED BY <1>3, <1>6, <1>7, <1>8, <1>9, <1>10, SyncKeeps

\* A route that does not compile.
LEMMA InstallFailsInv ==
    ASSUME IngressInv, NEW w \in Workers, InstallFails(w)
    PROVE  IngressInv'
<1>1. faults' \in 0..MaxFaults
  BY IngressAssumption DEF InstallFails, IngressInv, IngressTypeOK
<1>2. syncMu = w
  BY HolderFacts DEF InSync, InstallFails
<1> QED BY <1>1, <1>2, EndSyncInv, OrderNow DEF InstallFails

\* activeRoutes becomes that of the table.
LEMMA PublishInv ==
    ASSUME IngressInv, NEW w \in Workers, Publish(w)
    PROVE  /\ IngressInv'
           /\ table'.gen = table.gen /\ table'.active >= table.active
<1>1. InSync(worker[w])
  BY DEF InSync, Publish
<1>2. syncMu = w /\ worker[w].gen = table.gen /\ worker[w].gen \in 0..MaxChanges
  BY <1>1, HolderFacts DEF Publish
<1>3. table' \in TableState /\ table'.gen = table.gen /\ table'.active = table.gen
  BY <1>2, OrderNow DEF Publish, TableState
<1>4. faults' \in 0..MaxFaults
  BY DEF Publish, IngressInv, IngressTypeOK
<1>5. table'.active >= table.active /\ table'.active <= table.gen
  BY <1>3, OrderNow
<1> QED BY <1>2, <1>3, <1>4, <1>5, EndSyncInv DEF Publish

-----------------------------------------------------------------------------
(* Start, Stop and the workers.                                            *)

\* A worker that goes on outside a sync.
LEMMA WorkerStepInv ==
    ASSUME IngressInv, NEW w \in Workers,
           NEW p \in {"wait", "lock", "ended"}, worker' = [worker EXCEPT ![w].pc = p],
           life' \in {"new", "starting", "running", "stopping", "stopped"},
           debounce' \in {"none", "armed", "fired"},
           UNCHANGED <<cluster, faults, cancelled, syncMu, watch, notices, queue, table>>
    PROVE  IngressInv'
<1> DEFINE y == [worker[w] EXCEPT !.pc = p]
<1>1. worker[w] \in WorkerState
  BY DEF IngressInv, IngressTypeOK
<1>2. y \in WorkerState /\ y.pc = p
  <2>1. p \in {"none", "wait", "lock", "endpoints", "publish", "ended"}
    OBVIOUS
  <2> QED BY <1>1, <2>1, WorkerMoves
<1>3. worker' = [worker EXCEPT ![w] = y]
  BY DEF IngressInv, IngressTypeOK
<1> HIDE DEF y
<1>4. worker' \in [Workers -> WorkerState]
  BY <1>2, <1>3 DEF IngressInv, IngressTypeOK
<1>5. IngressTypeOK'
  BY <1>4 DEF IngressInv, IngressTypeOK
<1>6. \A v \in Workers : InSync(worker'[v]) => worker'[v] = worker[v]
  BY <1>2, <1>3 DEF InSync, IngressInv, IngressTypeOK
<1>7. cluster'.gen >= cluster.gen
  BY OrderNow
<1> QED BY <1>5, <1>6, <1>7, OutsideKeeps

\* Start calls syncIngresses itself.
LEMMA StartInv ==
    ASSUME IngressInv, Start
    PROVE  IngressInv'
<1>1. "start" \in Workers
  BY DEF Workers
<1>2. debounce' \in {"none", "armed", "fired"}
  BY DEF Start, IngressInv, IngressTypeOK
<1> QED BY <1>1, <1>2, WorkerStepInv DEF Start

\* The goroutines are started.
LEMMA StartWorkersInv ==
    ASSUME IngressInv, StartWorkers
    PROVE  IngressInv'
<1>0. PICK resync \in {"none", "wait"} :
         worker' = [worker EXCEPT !["consume"].pc = "wait", !["resync"].pc = resync]
  BY DEF StartWorkers
<1> DEFINE to(w) == IF w = "resync" THEN resync ELSE "wait"
           y(w) == [worker[w] EXCEPT !.pc = to(w)]
<1>1. \A w \in Workers : worker[w] \in WorkerState
  BY DEF IngressInv, IngressTypeOK
<1>2. ASSUME NEW w \in Workers PROVE y(w) \in WorkerState /\ y(w).pc \in {"none", "wait"}
  <2>1. to(w) \in {"none", "wait"}
    OBVIOUS
  <2>2. PICK t \in {"none", "wait"} : t = to(w)
    BY <2>1
  <2>3. PICK x \in WorkerState : x = worker[w]
    BY <1>1
  <2>4. [x EXCEPT !.pc = t] \in WorkerState /\ [x EXCEPT !.pc = t].pc = t
    <3>1. t \in {"none", "wait", "lock", "endpoints", "publish", "ended"}
      BY Zenon
    <3> QED BY <3>1, WorkerMoves, Zenon
  <2>5. y(w) = [x EXCEPT !.pc = t]
    BY <2>2, <2>3
  <2> QED BY <2>4, <2>5
<1>3. worker' = [w \in Workers |-> IF w = "start" THEN worker[w] ELSE y(w)]
  BY <1>0 DEF IngressInv, IngressTypeOK, Workers
<1> HIDE DEF y
<1>4. worker' \in [Workers -> WorkerState]
  BY <1>1, <1>2, <1>3
<1>5. IngressTypeOK'
  BY <1>4 DEF StartWorkers, IngressInv, IngressTypeOK
<1>6. \A v \in Workers : InSync(worker'[v]) => worker'[v] = worker[v]
  BY <1>2, <1>3 DEF InSync
<1>7. cluster' = cluster /\ cluster'.gen >= cluster.gen
  BY OrderNow DEF StartWorkers
<1> QED BY <1>5, <1>6, <1>7, OutsideKeeps DEF StartWorkers

\* Whatever leaves the cluster, the workers and the table alone.
LEMMA SideStepInv ==
    ASSUME IngressInv, IngressTypeOK', UNCHANGED <<cluster, syncMu, worker, table>>
    PROVE  IngressInv'
<1>1. cluster'.gen >= cluster.gen
  BY OrderNow
<1> QED BY <1>1, OutsideKeeps

\* Stop, and its return.
LEMMA StopInv ==
    ASSUME IngressInv, Stop \/ StopReturns
    PROVE  IngressInv'
<1>1. IngressTypeOK'
  BY DEF Stop, StopReturns, IngressInv, IngressTypeOK
<1> QED BY <1>1, SideStepInv DEF Stop, StopReturns

\* The watch and its channel.
LEMMA WatchStepInv ==
    ASSUME IngressInv, WatchStep
    PROVE  IngressInv'
<1>1. CASE WatchConnects
  <2>1. notices' \in Nat
    BY <1>1 DEF WatchConnects
  <2>2. IngressTypeOK'
    BY <1>1, <2>1 DEF WatchConnects, IngressInv, IngressTypeOK
  <2> QED BY <1>1, <2>2, SideStepInv DEF WatchConnects
<1>2. CASE WatchReads
  <2>1. notices' \in Nat
    BY <1>2 DEF WatchReads, IngressInv, IngressTypeOK
  <2>2. IngressTypeOK'
    BY <1>2, <2>1 DEF WatchReads, IngressInv, IngressTypeOK
  <2> QED BY <1>2, <2>2, SideStepInv DEF WatchReads
<1>3. CASE WatchSends
  <2>1. queue' \in 0..EventCap
    BY <1>3, IngressAssumption DEF WatchSends, IngressInv, IngressTypeOK
  <2>2. IngressTypeOK'
    BY <1>3, <2>1 DEF WatchSends, IngressInv, IngressTypeOK
  <2> QED BY <1>3, <2>2, SideStepInv DEF WatchSends
<1>4. CASE WatchEnds
  <2>1. faults' \in 0..MaxFaults
    BY <1>4, FaultsBounded DEF WatchEnds, IngressInv, IngressTypeOK
  <2>2. IngressTypeOK'
    BY <1>4, <2>1 DEF WatchEnds, IngressInv, IngressTypeOK
  <2> QED BY <1>4, <2>2, SideStepInv DEF WatchEnds
<1> QED BY <1>1, <1>2, <1>3, <1>4 DEF WatchStep

\* A worker leaves its loop.
LEMMA WorkerEndsInv ==
    ASSUME IngressInv, NEW w \in Workers, WorkerEnds(w)
    PROVE  IngressInv'
<1>1. debounce' \in {"none", "armed", "fired"}
  BY DEF WorkerEnds, IngressInv, IngressTypeOK
<1>2. life' \in {"new", "starting", "running", "stopping", "stopped"}
  BY DEF WorkerEnds, IngressInv, IngressTypeOK
<1> QED BY <1>1, <1>2, WorkerStepInv DEF WorkerEnds

\* The consumer of events and its debounce timer, and the periodic resync.
LEMMA LoopStepInv ==
    ASSUME IngressInv, ConsumeStep \/ ResyncStep
    PROVE  IngressInv'
<1>1. "consume" \in Workers /\ "resync" \in Workers
  BY DEF Workers
<1>2. life \in {"new", "starting", "running", "stopping", "stopped"}
  BY DEF IngressInv, IngressTypeOK
<1>3. CASE ConsumeEvent
  <2>1. queue' \in 0..EventCap
    BY <1>3, IngressAssumption DEF ConsumeEvent, IngressInv, IngressTypeOK
  <2>2. IngressTypeOK'
    BY <1>3, <2>1 DEF ConsumeEvent, IngressInv, IngressTypeOK
  <2> QED BY <1>3, <2>2, SideStepInv DEF ConsumeEvent
<1>4. CASE DebounceFires
  <2>1. IngressTypeOK'
    BY <1>4 DEF DebounceFires, IngressInv, IngressTypeOK
  <2> QED BY <1>4, <2>1, SideStepInv DEF DebounceFires
<1>5. CASE ConsumeSyncs
  BY <1>1, <1>2, <1>5, WorkerStepInv DEF ConsumeSyncs
<1>6. CASE ResyncSyncs
  <2>1. debounce' \in {"none", "armed", "fired"}
    BY <1>6 DEF ResyncSyncs, IngressInv, IngressTypeOK
  <2> QED BY <1>1, <1>2, <1>6, <2>1, WorkerStepInv DEF ResyncSyncs
<1> QED BY <1>1, <1>3, <1>4, <1>5, <1>6, WorkerEndsInv DEF ConsumeStep, ResyncStep

-----------------------------------------------------------------------------
(* The theorems.                                                           *)

\* The three facts about a step that the order of the snapshots consists of.
Forward == /\ table'.gen >= table.gen
           /\ table'.active >= table.active /\ table'.active <= table'.gen

\* Every step keeps the invariant and moves the table forward.
LEMMA StepForward == IngressInv /\ [Next]_kvars => IngressInv' /\ Forward
<1> SUFFICES ASSUME IngressInv, [Next]_kvars PROVE IngressInv' /\ Forward
  OBVIOUS
<1>1. ASSUME IngressInv', table' = table PROVE Forward
  BY <1>1, OrderNow DEF Forward
<1>2. CASE IngressesChange \/ PodsChange
  <2>1. IngressInv'
    BY <1>2, IngressesChangeInv, PodsChangeInv
  <2> QED BY <1>1, <1>2, <2>1 DEF IngressesChange, PodsChange
<1>3. ASSUME NEW w \in Workers, SyncStep(w) PROVE IngressInv' /\ Forward
  <2>1. CASE List(w)
    BY <1>1, <2>1, ListInv DEF List
  <2>2. CASE ListFails(w)
    BY <1>1, <2>2, ListFailsInv DEF ListFails
  <2>3. ASSUME NEW s \in Services, GetEndpoints(w, s) \/ GetEndpointsFails(w, s)
        PROVE  IngressInv' /\ Forward
    <3>1. IngressInv'
      BY <2>3, GetEndpointsInv
    <3> QED BY <1>1, <2>3, <3>1 DEF GetEndpoints, GetEndpointsFails
  <2>4. CASE Install(w)
    <3>1. IngressInv' /\ table'.gen >= table.gen /\ table'.active = table.active
      BY <2>4, InstallInv
    <3>2. table'.active <= table'.gen
      BY <3>1 DEF IngressInv, Ordered
    <3> QED BY <3>1, <3>2, OrderNow DEF Forward
  <2>5. CASE InstallFails(w)
    BY <1>1, <2>5, InstallFailsInv DEF InstallFails
  <2>6. CASE Publish(w)
    <3>1. IngressInv' /\ table'.gen = table.gen /\ table'.active >= table.active
      BY <2>6, PublishInv
    <3>2. table'.active <= table'.gen
      BY <3>1 DEF IngressInv, Ordered
    <3> QED BY <3>1, <3>2, OrderNow DEF Forward
  <2> QED BY <1>3, <2>1, <2>2, <2>3, <2>4, <2>5, <2>6 DEF SyncStep
<1>4. CASE Start
  BY <1>1, <1>4, StartInv DEF Start
<1>5. CASE StartWorkers
  BY <1>1, <1>5, StartWorkersInv DEF StartWorkers
<1>6. CASE Stop \/ StopReturns
  <2>1. IngressInv'
    BY <1>6, StopInv
  <2> QED BY <1>1, <1>6, <2>1 DEF Stop, StopReturns
<1>7. CASE WatchStep
  <2>1. IngressInv'
    BY <1>7, WatchStepInv
  <2>2. table' = table
    BY <1>7 DEF WatchStep, WatchConnects, WatchReads, WatchSends, WatchEnds
  <2> QED BY <1>1, <2>1, <2>2
<1>8. CASE ConsumeStep \/ ResyncStep
  <2>1. IngressInv'
    BY <1>8, LoopStepInv
  <2>2. table' = table
    BY <1>8 DEF ConsumeStep, ResyncStep, ConsumeEvent, DebounceFires, ConsumeSyncs,
               ResyncSyncs, WorkerEnds
  <2> QED BY <1>1, <2>1, <2>2
<1>9. CASE UNCHANGED kvars
  <2>1. IngressTypeOK'
    BY <1>9 DEF kvars, IngressInv, IngressTypeOK
  <2>2. IngressInv'
    BY <1>9, <2>1, SideStepInv DEF kvars
  <2> QED BY <1>1, <1>9, <2>2 DEF kvars
<1> QED BY <1>2, <1>3, <1>4, <1>5, <1>6, <1>7, <1>8, <1>9 DEF Next

\* Mutual exclusion of the syncs and the order of listed and installed routes
\* hold in every state of the controller.
THEOREM ControllerInvariant == Spec => []IngressInv
<1>1. Init => IngressInv
  BY InitInv
<1>2. IngressInv /\ [Next]_kvars => IngressInv'
  BY StepForward
<1> QED BY <1>1, <1>2, PTL DEF Spec

\* Whoever calls syncIngresses, and however long the API server takes between a
\* listing and its installation: older routes never replace newer ones, and
\* activeRoutes follows the table.
THEOREM SnapshotsStayInOrder == Spec => SnapshotsInOrder
<1>1. IngressInv => IngressTypeOK
  BY DEF IngressInv
<1>2. IngressInv /\ [Next]_kvars =>
        [ /\ table'.gen >= table.gen
          /\ table'.active >= table.active /\ table'.active <= table'.gen ]_kvars
  BY StepForward DEF Forward
<1> QED BY <1>1, <1>2, ControllerInvariant, PTL DEF Spec, SnapshotsInOrder
=============================================================================
