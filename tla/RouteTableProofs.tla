-------------------------- MODULE RouteTableProofs --------------------------
(***************************************************************************)
(* Proofs about RouteTable, for every set of routes, updaters, requests    *)
(* and paths, every limit and every number of table swaps.                 *)
(* Then proofs about Discovery, a source of its routes, for any containers *)
(* and capacity of m.events: without polls the events alone lead to the    *)
(* routes of the running containers.                                       *)
(***************************************************************************)
EXTENDS RouteBulkhead, Discovery, FiniteSetTheorems, SequenceTheorems, WellFoundedInduction, TLAPS

-----------------------------------------------------------------------------
(* The table scan.                                                         *)

\* A set of naturals that is not empty has a least element.
LEMMA LeastNatural ==
    ASSUME NEW S \in SUBSET Nat, S # {}
    PROVE  \E m \in S : \A n \in S : m <= n
<1>1. \E m \in S : \A n \in S : ~ (<<n, m>> \in OpToRel(<, Nat))
  BY NatLessThanWellFounded, WFMin
<1>2. PICK m \in S : \A n \in S : ~ (<<n, m>> \in OpToRel(<, Nat))
  BY <1>1
<1>3. \A n \in S : ~ (n < m)
  BY <1>2 DEF OpToRel
<1> QED
  BY <1>3

\* The first match of the sorted table is a route that is in the table and
\* matches the path, or there is none: FirstMatch of the scan in
\* LookupPrefixRoute and ServeHTTP.
LEMMA FirstMatchType ==
    ASSUME TypeOK, NEW p \in Paths
    PROVE  FirstMatch(p) = NoRoute \/ FirstMatch(p) \in table \cap Matches[p]
<1> DEFINE hits == table \cap Matches[p]
<1>1. CASE hits = {}
  BY <1>1 DEF FirstMatch
<1>2. CASE hits # {}
  <2>1. hits \subseteq Routes
    BY RouteTableAssumption DEF TypeOK, RouteTableAssumption
  <2>2. {Rank[r] : r \in hits} \in SUBSET Nat
    BY <2>1, RouteTableAssumption DEF RouteTableAssumption
  <2>3. {Rank[r] : r \in hits} # {}
    BY <1>2
  <2>4. \E m \in {Rank[r] : r \in hits} : \A n \in {Rank[r] : r \in hits} : m <= n
    BY <2>2, <2>3, LeastNatural
  <2>5. \E r \in hits : \A s \in hits : Rank[r] <= Rank[s]
    BY <2>4
  <2> QED
    BY <1>2, <2>5 DEF FirstMatch
<1> QED
  BY <1>1, <1>2

-----------------------------------------------------------------------------
(* Type correctness.                                                       *)

\* What the place of a request says about its slot: a request inside the gate
\* holds no slot yet, a slot is held on a route, and no request refers to a
\* backing array that does not exist yet.
WellPlaced(x) ==
    /\ x.gen <= gen
    /\ x.pc \in {"gate", "loaded", "added"} => x.route \in Routes /\ ~x.slot
    /\ x.slot => x.route \in Routes /\ x.pc \in {"dispatch", "serving"}

RequestOK == \A q \in Requests : WellPlaced(req[q])

\* The inductive invariant of the bulkhead.
CounterInv == TypeOK /\ RequestOK /\ SlotAccounting /\ GateCap

\* An idle request is a request, and a well placed one.
LEMMA IdleRequestOK ==
    ASSUME gen \in Nat
    PROVE  /\ IdleRequest \in RequestState /\ WellPlaced(IdleRequest)
           /\ IdleRequest.pc = "idle" /\ IdleRequest.slot = FALSE
<1>1. (CHOOSE x \in Paths : TRUE) \in Paths
  BY RouteTableAssumption DEF RouteTableAssumption
<1>2. 0 \in Gens
  BY RouteTableAssumption DEF RouteTableAssumption, Gens
<1> QED
  BY <1>1, <1>2 DEF IdleRequest, Matched, RequestState, ReqPC, WellPlaced

\* A step that moves one request to a well placed state, and leaves the
\* current backing array alone, keeps the facts about requests.
LEMMA RequestMoves ==
    ASSUME TypeOK, RequestOK, NEW q \in Requests, NEW x \in RequestState,
           WellPlaced(x), req' = [req EXCEPT ![q] = x], gen' = gen
    PROVE  /\ req' \in [Requests -> RequestState]
           /\ RequestOK'
           /\ req'[q] = x
           /\ \A p \in Requests \ {q} : req'[p] = req[p]
<1>1. req' \in [Requests -> RequestState] /\ req'[q] = x
         /\ \A p \in Requests \ {q} : req'[p] = req[p]
  BY DEF TypeOK
<1>2. ASSUME NEW p \in Requests
      PROVE  WellPlaced(req[p])'
  <2>1. WellPlaced(req[p]) /\ (p # q => req'[p] = req[p])
    BY <1>1 DEF RequestOK
  <2> QED
    BY <1>1, <2>1 DEF WellPlaced
<1> QED
  BY <1>1, <1>2 DEF RequestOK

\* Counted and Admitted are finite sets, so their cardinalities are naturals.
LEMMA CountedFinite ==
    ASSUME NEW g, NEW r
    PROVE  /\ IsFiniteSet(Counted(g, r)) /\ Cardinality(Counted(g, r)) \in Nat
           /\ IsFiniteSet(Admitted(g, r)) /\ Cardinality(Admitted(g, r)) \in Nat
           /\ Cardinality(Admitted(g, r)) <= Cardinality(Counted(g, r))
<1>1. Counted(g, r) \in SUBSET Requests /\ Admitted(g, r) \in SUBSET Counted(g, r)
  BY DEF Counted, Admitted
<1>2. IsFiniteSet(Counted(g, r))
  BY <1>1, FS_Subset, RouteTableAssumption DEF RouteTableAssumption
<1>3. IsFiniteSet(Admitted(g, r)) /\ Cardinality(Admitted(g, r)) <= Cardinality(Counted(g, r))
  BY <1>1, <1>2, FS_Subset
<1> QED
  BY <1>2, <1>3, FS_CardinalityType

\* A counter that some request is counted on is at least one, so the release
\* and the rollback of the gate never make it negative.
LEMMA CounterPositive ==
    ASSUME TypeOK, SlotAccounting, NEW q \in Requests, req[q].route \in Routes,
           req[q].pc = "added" \/ req[q].slot
    PROVE  Counter(q) >= 1 /\ Counter(q) - 1 \in Nat
<1> DEFINE g == req[q].gen
           r == req[q].route
<1>1. g \in Gens /\ r \in Routes
  BY DEF TypeOK, RequestState
<1>2. q \in Counted(g, r)
  BY DEF Counted
<1>3. Cardinality(Counted(g, r)) # 0 /\ Cardinality(Counted(g, r)) \in Nat
  BY <1>2, CountedFinite, FS_EmptySet
<1>4. active[g][r] = inherited[g][r] + Cardinality(Counted(g, r))
  BY <1>1 DEF SlotAccounting
<1>5. inherited[g][r] \in Nat /\ active[g][r] \in Nat
  BY <1>1 DEF TypeOK
<1> QED
  BY <1>3, <1>4, <1>5 DEF Counter

\* Every step preserves the type invariant and the facts about requests.
LEMMA TypeStep ==
    ASSUME CounterInv, [Next]_vars
    PROVE  TypeOK' /\ RequestOK'
<1> USE DEF CounterInv
<1>a. CASE UNCHANGED vars
  BY <1>a DEF vars, TypeOK, RequestOK, WellPlaced
<1>b. ASSUME NEW r \in ConfigRoutes, RoutePrefix(r)
      PROVE  TypeOK' /\ RequestOK'
  BY <1>b, RouteTableAssumption DEF RouteTableAssumption, RoutePrefix, TypeOK, RequestOK, WellPlaced
<1>c. CASE StartServing
  BY <1>c DEF StartServing, TypeOK, RequestOK, WellPlaced
<1>d. ASSUME NEW u \in Updaters, NEW r \in Routes, Compile(u, r)
      PROVE  TypeOK' /\ RequestOK'
  <2>1. [upd[u] EXCEPT !.pc = "compiling", !.compiled = @ \cup {r}] \in UpdaterState
    BY DEF TypeOK, UpdaterState, UpdPC
  <2>2. upd' \in [Updaters -> UpdaterState]
    BY <1>d, <2>1 DEF Compile, TypeOK
  <2> QED
    BY <1>d, <2>2 DEF Compile, TypeOK, RequestOK, WellPlaced
<1>e. ASSUME NEW u \in Updaters, CompileError(u)
      PROVE  TypeOK' /\ RequestOK'
  <2>1. upd' \in [Updaters -> UpdaterState]
    BY <1>e DEF CompileError, TypeOK, UpdaterState, UpdPC, IdleUpdater
  <2> QED
    BY <1>e, <2>1 DEF CompileError, TypeOK, RequestOK, WellPlaced
<1>f. ASSUME NEW u \in Updaters, NEW retained, retained \subseteq table,
             NEW added \in SUBSET Routes, Publish(u, retained, added)
      PROVE  TypeOK' /\ RequestOK'
  <2>1. gen \in Nat /\ gen + 1 \in Gens
    BY <1>f, RouteTableAssumption DEF RouteTableAssumption, Publish, TypeOK, Gens
  <2>2. CopiedCounters(retained) \in [Routes -> Nat]
    BY <1>f DEF CopiedCounters, TypeOK
  <2>3. active' \in [Gens -> [Routes -> Nat]] /\ inherited' \in [Gens -> [Routes -> Nat]]
    BY <1>f, <2>1, <2>2 DEF Publish, TypeOK
  <2>4. upd' \in [Updaters -> UpdaterState]
    BY <1>f DEF Publish, TypeOK, UpdaterState, UpdPC
  <2>5. TypeOK'
    BY <1>f, <2>1, <2>3, <2>4 DEF Publish, TypeOK
  <2>6. RequestOK'
    BY <1>f, <2>1 DEF Publish, TypeOK, RequestOK, WellPlaced, RequestState, Gens
  <2> QED
    BY <2>5, <2>6
<1>g. ASSUME NEW u \in Updaters, CloseEvicted(u)
      PROVE  TypeOK' /\ RequestOK'
  <2>1. \A r \in Routes : [upd[u] EXCEPT !.evicted = @ \ {r}] \in UpdaterState
    BY DEF TypeOK, UpdaterState
  <2>2. IdleUpdater \in UpdaterState
    BY DEF IdleUpdater, UpdaterState, UpdPC
  <2>3. upd[u].evicted \subseteq Routes
    BY DEF TypeOK, UpdaterState
  <2>4. upd' \in [Updaters -> UpdaterState] /\ proxy' \in [Routes -> {"none", "open", "closed"}]
    BY <1>g, <2>1, <2>2, <2>3 DEF CloseEvicted, TypeOK
  <2> QED
    BY <1>g, <2>4 DEF CloseEvicted, TypeOK, RequestOK, WellPlaced
<1>0. gen \in Nat
  BY DEF TypeOK, Gens
<1>h. ASSUME NEW q \in Requests, NEW p \in Paths, LookupPrefixRoute(q, p)
      PROVE  TypeOK' /\ RequestOK'
  <2> DEFINE r == FirstMatch(p)
             x == Matched(IF Gated(r) THEN "gate" ELSE "dispatch", p, gen, r)
  <2>1. r \in Routes \cup {NoRoute}
    BY FirstMatchType DEF TypeOK
  <2>2. x \in RequestState /\ WellPlaced(x)
    BY <1>0, <2>1 DEF Gated, Matched, RequestState, ReqPC, WellPlaced, TypeOK
  <2>3. req' = [req EXCEPT ![q] = x] /\ gen' = gen
    BY <1>h DEF LookupPrefixRoute
  <2>4. req' \in [Requests -> RequestState] /\ RequestOK'
    BY <2>2, <2>3, RequestMoves
  <2> QED
    BY <1>h, <2>4 DEF LookupPrefixRoute, TypeOK
<1>i. ASSUME NEW q \in Requests, GateLoad(q)
      PROVE  TypeOK' /\ RequestOK'
  <2> DEFINE x == IF Counter(q) >= Limit[req[q].route] THEN IdleRequest
                  ELSE [req[q] EXCEPT !.pc = "loaded"]
  <2>1. req[q] \in RequestState /\ WellPlaced(req[q]) /\ req[q].pc = "gate"
    BY <1>i DEF GateLoad, TypeOK, RequestOK
  <2>2. [req[q] EXCEPT !.pc = "loaded"] \in RequestState
    BY <2>1 DEF RequestState, ReqPC
  <2>3. WellPlaced([req[q] EXCEPT !.pc = "loaded"])
    BY <2>1 DEF RequestState, WellPlaced
  <2>4. x \in RequestState /\ WellPlaced(x)
    BY <1>0, <2>2, <2>3, IdleRequestOK
  <2>5. req' = [req EXCEPT ![q] = x] /\ gen' = gen
    BY <1>i DEF GateLoad
  <2>6. req' \in [Requests -> RequestState] /\ RequestOK'
    BY <2>4, <2>5, RequestMoves
  <2> QED
    BY <1>i, <2>6 DEF GateLoad, TypeOK
<1>j. ASSUME NEW q \in Requests, GateAdd(q)
      PROVE  TypeOK' /\ RequestOK'
  <2> DEFINE x == [req[q] EXCEPT !.pc = "added", !.seen = Counter(q) + 1]
  <2>1. req[q] \in RequestState /\ WellPlaced(req[q]) /\ req[q].pc = "loaded"
    BY <1>j DEF GateAdd, TypeOK, RequestOK
  <2>2. req[q].gen \in Gens /\ req[q].route \in Routes
    BY <2>1 DEF RequestState, WellPlaced
  <2>3. Counter(q) + 1 \in Nat
    BY <2>2 DEF Counter, TypeOK
  <2>4. active' \in [Gens -> [Routes -> Nat]]
    BY <1>j, <2>2 DEF GateAdd, TypeOK
  <2>5. x \in RequestState
    BY <2>1, <2>3 DEF RequestState, ReqPC
  <2>6. WellPlaced(x)
    BY <2>1 DEF RequestState, WellPlaced
  <2>7. req' = [req EXCEPT ![q] = x] /\ gen' = gen
    BY <1>j DEF GateAdd
  <2>8. req' \in [Requests -> RequestState] /\ RequestOK'
    BY <2>5, <2>6, <2>7, RequestMoves
  <2> QED
    BY <1>j, <2>4, <2>8 DEF GateAdd, TypeOK
<1>k. ASSUME NEW q \in Requests, GateCheck(q)
      PROVE  TypeOK' /\ RequestOK'
  <2> DEFINE y == [req[q] EXCEPT !.slot = TRUE, !.pc = AfterGate(q)]
             x == IF Overshot(q) THEN IdleRequest ELSE y
  <2>1. req[q] \in RequestState /\ WellPlaced(req[q]) /\ req[q].pc = "added"
    BY <1>k DEF GateCheck, TypeOK, RequestOK
  <2>2. req[q].gen \in Gens /\ req[q].route \in Routes
    BY <2>1 DEF RequestState, WellPlaced
  <2>3. Counter(q) - 1 \in Nat
    BY <2>1, <2>2, CounterPositive
  <2>4. active' \in [Gens -> [Routes -> Nat]]
    BY <1>k, <2>2, <2>3 DEF GateCheck, TypeOK, Counter
  <2>5. AfterGate(q) \in {"dispatch", "serving"}
    BY DEF AfterGate
  <2>6. y \in RequestState
    BY <2>1, <2>5 DEF RequestState, ReqPC
  <2>7. WellPlaced(y)
    BY <2>1, <2>2, <2>5 DEF RequestState, WellPlaced
  <2>8. x \in RequestState /\ WellPlaced(x)
    BY <1>0, <2>6, <2>7, IdleRequestOK
  <2>9. req' = [req EXCEPT ![q] = x] /\ gen' = gen
    BY <1>k DEF GateCheck
  <2>10. req' \in [Requests -> RequestState] /\ RequestOK'
    BY <2>8, <2>9, RequestMoves
  <2> QED
    BY <1>k, <2>4, <2>10 DEF GateCheck, TypeOK
<1>l. ASSUME NEW q \in Requests, ServeHTTP(q)
      PROVE  TypeOK' /\ RequestOK'
  <2> DEFINE r == FirstMatch(req[q].path)
             y == [req[q] EXCEPT !.pc = "gate", !.gen = gen, !.route = r, !.served = r]
             z == [req[q] EXCEPT !.pc = "serving", !.served = r]
             x == IF Gated(r) /\ ~req[q].slot THEN y ELSE z
  <2>1. req[q] \in RequestState /\ WellPlaced(req[q]) /\ req[q].pc = "dispatch"
    BY <1>l DEF ServeHTTP, TypeOK, RequestOK
  <2>2. r \in Routes \cup {NoRoute}
    BY <2>1, FirstMatchType DEF TypeOK, RequestState
  <2>3. gen \in Gens
    BY DEF TypeOK
  <2>4. y \in RequestState
    BY <2>1, <2>2, <2>3 DEF RequestState, ReqPC
  <2>5. z \in RequestState
    BY <2>1, <2>2 DEF RequestState, ReqPC
  <2>6. Gated(r) /\ ~req[q].slot => WellPlaced(y)
    BY <1>0, <2>1, <2>2 DEF RequestState, WellPlaced, Gated
  <2>7. WellPlaced(z)
    BY <2>1 DEF RequestState, WellPlaced
  <2>8. x \in RequestState /\ WellPlaced(x)
    BY <2>4, <2>5, <2>6, <2>7
  <2>9. req' = [req EXCEPT ![q] = x] /\ gen' = gen
    BY <1>l DEF ServeHTTP
  <2>10. req' \in [Requests -> RequestState] /\ RequestOK'
    BY <2>8, <2>9, RequestMoves
  <2> QED
    BY <1>l, <2>10 DEF ServeHTTP, TypeOK
<1>m. ASSUME NEW q \in Requests, Finish(q)
      PROVE  TypeOK' /\ RequestOK'
  <2>1. req[q] \in RequestState /\ WellPlaced(req[q])
    BY DEF TypeOK, RequestOK
  <2>2. req[q].slot => req[q].gen \in Gens /\ req[q].route \in Routes /\ Counter(q) - 1 \in Nat
    BY <2>1, CounterPositive DEF RequestState, WellPlaced
  <2>3. active' \in [Gens -> [Routes -> Nat]]
    BY <1>m, <2>2 DEF Finish, TypeOK, Counter
  <2>4. req' = [req EXCEPT ![q] = IdleRequest] /\ gen' = gen
    BY <1>m DEF Finish
  <2>5. req' \in [Requests -> RequestState] /\ RequestOK'
    BY <1>0, <2>4, IdleRequestOK, RequestMoves
  <2> QED
    BY <1>m, <2>3, <2>5 DEF Finish, TypeOK
<1>n. ASSUME NEW u \in Updaters, ReplacePrefixRoutesBySource(u)
      PROVE  TypeOK' /\ RequestOK'
  <2>1. Retained(u) \subseteq table /\ upd[u].compiled \in SUBSET Routes
    BY DEF Retained, TypeOK, UpdaterState
  <2> QED
    BY <1>n, <1>f, <2>1 DEF ReplacePrefixRoutesBySource
<1>o. ASSUME NEW u \in Updaters, NEW r \in Routes, RemovePrefixRoute(u, r)
      PROVE  TypeOK' /\ RequestOK'
  BY <1>o, <1>f DEF RemovePrefixRoute
<1>p. ASSUME NEW u \in Updaters, Reset(u)
      PROVE  TypeOK' /\ RequestOK'
  BY <1>p, <1>f DEF Reset
<1> QED
  BY <1>a, <1>b, <1>c, <1>d, <1>e, <1>g, <1>h, <1>i, <1>j, <1>k, <1>l, <1>m, <1>n, <1>o, <1>p
  DEF Next, UpdaterStep, RequestStep

-----------------------------------------------------------------------------
(* The bulkhead.                                                           *)

\* A step that changes nothing the bulkhead looks at keeps its invariants.
LEMMA BulkheadFrame ==
    ASSUME SlotAccounting, GateCap, active' = active, inherited' = inherited,
           \A g \in Gens, r \in Routes :
              Counted(g, r)' = Counted(g, r) /\ Admitted(g, r)' = Admitted(g, r)
    PROVE  SlotAccounting' /\ GateCap'
<1>1. SlotAccounting'
  BY DEF SlotAccounting
<1>2. GateCap'
  BY DEF GateCap
<1> QED
  BY <1>1, <1>2

\* The table swap: the new backing array starts with the counters it inherits,
\* and no request is counted on it.
LEMMA BulkheadPublish ==
    ASSUME CounterInv, NEW u \in Updaters, NEW retained, NEW added,
           Publish(u, retained, added)
    PROVE  SlotAccounting' /\ GateCap'
<1> USE DEF CounterInv
<1>0. gen \in Nat /\ gen + 1 \in Gens
  BY RouteTableAssumption DEF RouteTableAssumption, Publish, TypeOK, Gens
<1>1. \A g, r : Counted(g, r)' = Counted(g, r)
  BY DEF Publish, Counted
<1>2. \A g, r : Admitted(g, r)' = Admitted(g, r)
  BY <1>1 DEF Publish, Admitted, Overshot
<1>3. \A r : Counted(gen + 1, r) = {}
  BY <1>0 DEF Counted, RequestOK, WellPlaced, TypeOK, RequestState, Gens
<1>4. \A r \in Routes : active'[gen + 1][r] = inherited'[gen + 1][r]
                        /\ inherited'[gen + 1][r] \in Nat
  BY <1>0 DEF Publish, CopiedCounters, TypeOK
<1>5. \A g \in Gens \ {gen + 1} : active'[g] = active[g] /\ inherited'[g] = inherited[g]
  BY DEF Publish, TypeOK
<1>6. ASSUME NEW g \in Gens, NEW r \in Routes
      PROVE  active'[g][r] = inherited'[g][r] + Cardinality(Counted(g, r)')
  <2>1. CASE g = gen + 1
    BY <1>1, <1>3, <1>4, <2>1, FS_EmptySet
  <2>2. CASE g # gen + 1
    BY <1>1, <1>5, <2>2 DEF SlotAccounting
  <2> QED
    BY <2>1, <2>2
<1>7. SlotAccounting'
  BY <1>6 DEF SlotAccounting
<1>8. GateCap'
  BY <1>2 DEF GateCap
<1> QED
  BY <1>7, <1>8

\* Moving one request changes the sets of counted and admitted requests at
\* most by that request ...
LEMMA OthersStay ==
    ASSUME TypeOK, NEW q \in Requests, NEW x \in RequestState,
           req' = [req EXCEPT ![q] = x], NEW g \in Gens, NEW r \in Routes
    PROVE  /\ Counted(g, r)' \ {q} = Counted(g, r) \ {q}
           /\ Admitted(g, r)' \ {q} = Admitted(g, r) \ {q}
<1>1. req' \in [Requests -> RequestState] /\ req'[q] = x
         /\ \A p \in Requests \ {q} : req'[p] = req[p]
  BY DEF TypeOK
<1>2. Counted(g, r)' \ {q} = Counted(g, r) \ {q}
  BY <1>1 DEF Counted
<1>3. Admitted(g, r)' \ {q} = Admitted(g, r) \ {q}
  BY <1>1 DEF Counted, Admitted, Overshot
<1> QED
  BY <1>2, <1>3

\* ... and the request is counted, and admitted, according to its new state.
CountedAt(x, g, r) == x.gen = g /\ x.route = r /\ (x.pc = "added" \/ x.slot)

AdmittedAt(x, g, r) == CountedAt(x, g, r) /\ (x.slot \/ ~(x.seen > Limit[x.route]))

LEMMA MoverCounted ==
    ASSUME TypeOK, NEW q \in Requests, NEW x \in RequestState,
           req' = [req EXCEPT ![q] = x], NEW g \in Gens, NEW r \in Routes
    PROVE  /\ q \in Counted(g, r)' <=> CountedAt(x, g, r)
           /\ q \in Admitted(g, r)' <=> AdmittedAt(x, g, r)
<1>1. req'[q] = x
  BY DEF TypeOK
<1>2. q \in Counted(g, r)' <=> CountedAt(x, g, r)
  BY <1>1 DEF Counted, CountedAt
<1>3. q \in Admitted(g, r)' <=> AdmittedAt(x, g, r)
  BY <1>1 DEF Counted, CountedAt, Admitted, AdmittedAt, Overshot
<1> QED
  BY <1>2, <1>3

\* The same of its present state.
LEMMA CountedNow ==
    ASSUME TypeOK, NEW q \in Requests, NEW g \in Gens, NEW r \in Routes
    PROVE  /\ q \in Counted(g, r) <=> CountedAt(req[q], g, r)
           /\ q \in Admitted(g, r) <=> AdmittedAt(req[q], g, r)
  BY DEF Counted, CountedAt, Admitted, AdmittedAt, Overshot

\* Two sets that agree on q and outside it are equal.
LEMMA AgreeOn ==
    ASSUME NEW A, NEW B, NEW q, A \ {q} = B \ {q}, q \in A <=> q \in B
    PROVE  A = B
<1>1. \A e : e \in A <=> e \in B
  <2>1. ASSUME NEW e PROVE e \in A <=> e \in B
    <3>1. CASE e = q
      BY <3>1
    <3>2. CASE e # q
      <4>1. e \in A \ {q} <=> e \in B \ {q}
        OBVIOUS
      <4> QED
        BY <3>2, <4>1
    <3> QED
      BY <3>1, <3>2
  <2> QED
    BY <2>1
<1> QED
  BY <1>1

\* A request that moves without being counted, before and after, and without
\* touching a counter.
LEMMA BulkheadUncounted ==
    ASSUME CounterInv, NEW q \in Requests, NEW x \in RequestState,
           req' = [req EXCEPT ![q] = x], active' = active, inherited' = inherited,
           req[q].pc # "added", ~req[q].slot, x.pc # "added", ~x.slot
    PROVE  SlotAccounting' /\ GateCap'
<1> USE DEF CounterInv
<1>1. ASSUME NEW g \in Gens, NEW r \in Routes
      PROVE  Counted(g, r)' = Counted(g, r) /\ Admitted(g, r)' = Admitted(g, r)
  <2>1. TypeOK
    OBVIOUS
  <2>2. /\ Counted(g, r)' \ {q} = Counted(g, r) \ {q}
        /\ Admitted(g, r)' \ {q} = Admitted(g, r) \ {q}
    BY <2>1, OthersStay
  <2>3. /\ q \in Counted(g, r)' <=> CountedAt(x, g, r)
        /\ q \in Admitted(g, r)' <=> AdmittedAt(x, g, r)
        /\ q \in Counted(g, r) <=> CountedAt(req[q], g, r)
        /\ q \in Admitted(g, r) <=> AdmittedAt(req[q], g, r)
    BY <2>1, MoverCounted, CountedNow
  <2>4. /\ CountedAt(x, g, r) <=> CountedAt(req[q], g, r)
        /\ AdmittedAt(x, g, r) <=> AdmittedAt(req[q], g, r)
    BY DEF CountedAt, AdmittedAt, Overshot
  <2>5. q \in Counted(g, r)' <=> q \in Counted(g, r)
    BY <2>3, <2>4
  <2>6. q \in Admitted(g, r)' <=> q \in Admitted(g, r)
    BY <2>3, <2>4
  <2>7. Counted(g, r)' = Counted(g, r)
    BY <2>2, <2>5, AgreeOn
  <2>8. Admitted(g, r)' = Admitted(g, r)
    BY <2>2, <2>6, AgreeOn
  <2> QED
    BY <2>7, <2>8
<1> QED
  BY <1>1, BulkheadFrame

\* A request that moves while it keeps its slot, or is granted one it was
\* counted for.
LEMMA BulkheadHolder ==
    ASSUME CounterInv, NEW q \in Requests, NEW x \in RequestState,
           req' = [req EXCEPT ![q] = x], active' = active, inherited' = inherited,
           req[q].slot \/ (req[q].pc = "added" /\ ~Overshot(q)),
           x.slot, x.gen = req[q].gen, x.route = req[q].route
    PROVE  SlotAccounting' /\ GateCap'
<1> USE DEF CounterInv
<1>1. ASSUME NEW g \in Gens, NEW r \in Routes
      PROVE  Counted(g, r)' = Counted(g, r) /\ Admitted(g, r)' = Admitted(g, r)
  <2>1. TypeOK
    OBVIOUS
  <2>2. /\ Counted(g, r)' \ {q} = Counted(g, r) \ {q}
        /\ Admitted(g, r)' \ {q} = Admitted(g, r) \ {q}
    BY <2>1, OthersStay
  <2>3. /\ q \in Counted(g, r)' <=> CountedAt(x, g, r)
        /\ q \in Admitted(g, r)' <=> AdmittedAt(x, g, r)
        /\ q \in Counted(g, r) <=> CountedAt(req[q], g, r)
        /\ q \in Admitted(g, r) <=> AdmittedAt(req[q], g, r)
    BY <2>1, MoverCounted, CountedNow
  <2>4. /\ CountedAt(x, g, r) <=> CountedAt(req[q], g, r)
        /\ AdmittedAt(x, g, r) <=> AdmittedAt(req[q], g, r)
    BY DEF CountedAt, AdmittedAt, Overshot
  <2>5. q \in Counted(g, r)' <=> q \in Counted(g, r)
    BY <2>3, <2>4
  <2>6. q \in Admitted(g, r)' <=> q \in Admitted(g, r)
    BY <2>3, <2>4
  <2>7. Counted(g, r)' = Counted(g, r)
    BY <2>2, <2>5, AgreeOn
  <2>8. Admitted(g, r)' = Admitted(g, r)
    BY <2>2, <2>6, AgreeOn
  <2> QED
    BY <2>7, <2>8
<1> QED
  BY <1>1, BulkheadFrame

\* The atomic add: the counter and the number of counted requests grow by one.
\* The value the add returns is at least the number of requests admitted so
\* far plus one, so a request that does not overshoot finds a free slot.
LEMMA BulkheadEnter ==
    ASSUME CounterInv, NEW q \in Requests, GateAdd(q)
    PROVE  SlotAccounting' /\ GateCap'
<1> USE DEF CounterInv
<1> DEFINE x == [req[q] EXCEPT !.pc = "added", !.seen = Counter(q) + 1]
           h == req[q].gen
           s == req[q].route
<1>1. req[q] \in RequestState /\ WellPlaced(req[q]) /\ req[q].pc = "loaded"
  BY DEF GateAdd, TypeOK, RequestOK
<1>2. h \in Gens /\ s \in Routes /\ ~req[q].slot
  BY <1>1 DEF RequestState, WellPlaced
<1>3. Counter(q) \in Nat /\ Counter(q) = active[h][s]
  BY <1>2 DEF Counter, TypeOK
<1>4. x \in RequestState
  <2>1. Counter(q) + 1 \in Nat
    BY <1>3
  <2> QED
    BY <1>1, <2>1 DEF RequestState, ReqPC
<1>5. x.gen = h /\ x.route = s /\ x.pc = "added" /\ x.slot = req[q].slot /\ x.seen = Counter(q) + 1
  BY <1>1 DEF RequestState
<1>6. req' = [req EXCEPT ![q] = x] /\ inherited' = inherited
  BY DEF GateAdd
<1>7. active' = [active EXCEPT ![h][s] = @ + 1]
  BY DEF GateAdd
<1>8. ASSUME NEW g \in Gens, NEW r \in Routes
      PROVE  /\ active'[g][r] = inherited'[g][r] + Cardinality(Counted(g, r)')
             /\ Cardinality(Admitted(g, r)') <= Limit[r]
  <2>0. /\ active[g][r] = inherited[g][r] + Cardinality(Counted(g, r))
        /\ Cardinality(Admitted(g, r)) <= Limit[r]
        /\ inherited[g][r] \in Nat /\ active[g][r] \in Nat /\ Limit[r] \in Nat
    BY RouteTableAssumption DEF RouteTableAssumption, SlotAccounting, GateCap, TypeOK
  <2>1. /\ Counted(g, r)' \ {q} = Counted(g, r) \ {q}
        /\ Admitted(g, r)' \ {q} = Admitted(g, r) \ {q}
    BY <1>4, <1>6, OthersStay
  <2>2. /\ q \in Counted(g, r)' <=> CountedAt(x, g, r)
        /\ q \in Admitted(g, r)' <=> AdmittedAt(x, g, r)
    BY <1>4, <1>6, MoverCounted
  <2>3. q \notin Counted(g, r) /\ q \notin Admitted(g, r)
    BY <1>1, <1>2, CountedNow DEF CountedAt, AdmittedAt
  <2>4. CASE g = h /\ r = s
    <3>1. CountedAt(x, g, r) /\ (AdmittedAt(x, g, r) <=> ~(Counter(q) + 1 > Limit[r]))
      BY <1>2, <1>5, <2>4 DEF CountedAt, AdmittedAt
    <3>2. Counted(g, r)' = Counted(g, r) \cup {q}
      BY <2>1, <2>2, <2>3, <3>1, Zenon
    <3>3. Cardinality(Counted(g, r)') = Cardinality(Counted(g, r)) + 1
      BY <2>3, <3>2, CountedFinite, FS_AddElement
    <3>4. active'[g][r] = active[g][r] + 1
      BY <1>2, <1>7, <2>4 DEF TypeOK
    <3>5. active'[g][r] = inherited'[g][r] + Cardinality(Counted(g, r)')
      BY <1>6, <2>0, <3>3, <3>4, CountedFinite
    <3>6. CASE ~AdmittedAt(x, g, r)
      <4>1. Admitted(g, r)' = Admitted(g, r)
        BY <2>1, <2>2, <2>3, <3>6, AgreeOn, Zenon
      <4> QED
        BY <2>0, <3>5, <4>1
    <3>7. CASE AdmittedAt(x, g, r)
      <4>1. Admitted(g, r)' = Admitted(g, r) \cup {q}
        BY <2>1, <2>2, <2>3, <3>7, Zenon
      <4>2. Cardinality(Admitted(g, r)') = Cardinality(Admitted(g, r)) + 1
        BY <2>3, <4>1, CountedFinite, FS_AddElement
      <4>3. Cardinality(Admitted(g, r)) <= active[g][r]
        BY <2>0, CountedFinite
      <4>4. Cardinality(Admitted(g, r)') <= Limit[r]
        BY <1>3, <2>0, <2>4, <3>1, <3>7, <4>2, <4>3, CountedFinite
      <4> QED
        BY <3>5, <4>4
    <3> QED
      BY <3>6, <3>7
  <2>5. CASE ~(g = h /\ r = s)
    <3>1. ~CountedAt(x, g, r) /\ ~AdmittedAt(x, g, r)
      BY <1>5, <2>5 DEF CountedAt, AdmittedAt
    <3>2. Counted(g, r)' = Counted(g, r) /\ Admitted(g, r)' = Admitted(g, r)
      BY <2>1, <2>2, <2>3, <3>1, AgreeOn, Zenon
    <3>3. active'[g][r] = active[g][r]
      BY <1>2, <1>7, <2>5 DEF TypeOK
    <3> QED
      BY <1>6, <2>0, <3>2, <3>3
  <2> QED
    BY <2>4, <2>5
<1> QED
  BY <1>8 DEF SlotAccounting, GateCap

\* A counted request gives its unit back and becomes idle: the rollback of the
\* gate, and the release at the end of a request.
LEMMA BulkheadExit ==
    ASSUME CounterInv, NEW q \in Requests, req[q].route \in Routes,
           req[q].pc = "added" \/ req[q].slot,
           req' = [req EXCEPT ![q] = IdleRequest], inherited' = inherited,
           active' = [active EXCEPT ![req[q].gen][req[q].route] = @ - 1]
    PROVE  SlotAccounting' /\ GateCap'
<1> USE DEF CounterInv
<1> DEFINE h == req[q].gen
           s == req[q].route
<1>1. h \in Gens /\ s \in Routes
  BY DEF TypeOK, RequestState
<1>0. gen \in Nat /\ TypeOK
  BY DEF TypeOK, Gens
<1>2. IdleRequest \in RequestState /\ IdleRequest.pc = "idle" /\ IdleRequest.slot = FALSE
  BY <1>0, IdleRequestOK
<1>3. ASSUME NEW g \in Gens, NEW r \in Routes
      PROVE  /\ active'[g][r] = inherited'[g][r] + Cardinality(Counted(g, r)')
             /\ Cardinality(Admitted(g, r)') <= Limit[r]
  <2>0. /\ active[g][r] = inherited[g][r] + Cardinality(Counted(g, r))
        /\ Cardinality(Admitted(g, r)) <= Limit[r]
        /\ inherited[g][r] \in Nat /\ active[g][r] \in Nat /\ Limit[r] \in Nat
    BY RouteTableAssumption DEF RouteTableAssumption, SlotAccounting, GateCap, TypeOK
  <2>1. /\ Counted(g, r)' \ {q} = Counted(g, r) \ {q}
        /\ Admitted(g, r)' \ {q} = Admitted(g, r) \ {q}
        /\ q \notin Counted(g, r)' /\ q \notin Admitted(g, r)'
    BY <1>0, <1>2, OthersStay, MoverCounted DEF CountedAt, AdmittedAt
  <2>2. Counted(g, r)' = Counted(g, r) \ {q} /\ Admitted(g, r)' = Admitted(g, r) \ {q}
    BY <2>1, Zenon
  <2>3. Cardinality(Admitted(g, r)') <= Limit[r]
    <3>1. Cardinality(Admitted(g, r) \ {q}) <= Cardinality(Admitted(g, r))
      BY CountedFinite, FS_Subset
    <3>2. Cardinality(Admitted(g, r) \ {q}) \in Nat
      BY CountedFinite, FS_RemoveElement, FS_CardinalityType
    <3> QED
      BY <2>0, <2>2, <3>1, <3>2, CountedFinite
  <2>4. CASE g = h /\ r = s
    <3>1. q \in Counted(g, r)
      BY <1>0, <2>4, CountedNow DEF CountedAt
    <3>2. Cardinality(Counted(g, r)') = Cardinality(Counted(g, r)) - 1
      <4>1. IsFiniteSet(Counted(g, r))
        BY CountedFinite
      <4>2. Cardinality(Counted(g, r) \ {q}) = Cardinality(Counted(g, r)) - 1
        BY <3>1, <4>1, FS_RemoveElement
      <4> QED
        BY <2>2, <4>2
    <3>3. active'[g][r] = active[g][r] - 1
      BY <1>1, <2>4 DEF TypeOK
    <3> QED
      BY <2>0, <2>3, <3>2, <3>3, CountedFinite
  <2>5. CASE ~(g = h /\ r = s)
    <3>1. q \notin Counted(g, r)
      BY <1>0, <2>5, CountedNow DEF CountedAt
    <3>2. Counted(g, r)' = Counted(g, r)
      BY <2>2, <3>1
    <3>3. active'[g][r] = active[g][r]
      BY <1>1, <2>5 DEF TypeOK
    <3> QED
      BY <2>0, <2>3, <3>2, <3>3
  <2> QED
    BY <2>4, <2>5
<1> QED
  BY <1>3 DEF SlotAccounting, GateCap

\* The initial states satisfy the bulkhead's invariant.
LEMMA CounterInit == Init => CounterInv
<1> SUFFICES ASSUME Init PROVE CounterInv
  OBVIOUS
<1>1. 0 \in Gens /\ gen = 0
  BY RouteTableAssumption DEF RouteTableAssumption, Gens, Init
<1>2. IdleRequest \in RequestState /\ WellPlaced(IdleRequest)
         /\ IdleRequest.pc = "idle" /\ IdleRequest.slot = FALSE
  BY <1>1, IdleRequestOK
<1>3. TypeOK
  BY <1>1, <1>2 DEF Init, TypeOK, UpdaterState, UpdPC, IdleUpdater
<1>4. RequestOK
  BY <1>2 DEF Init, RequestOK
<1>5. \A g, r : Counted(g, r) = {} /\ Admitted(g, r) = {}
  BY <1>2 DEF Init, Counted, Admitted
<1>6. SlotAccounting
  BY <1>5, FS_EmptySet DEF Init, SlotAccounting
<1>7. GateCap
  <2>1. \A r \in Routes : 0 <= Limit[r]
    BY RouteTableAssumption DEF RouteTableAssumption
  <2>2. \A g \in Gens, r \in Routes : Cardinality(Admitted(g, r)) = 0
    BY <1>5, FS_EmptySet
  <2> QED
    BY <2>1, <2>2 DEF GateCap
<1> QED
  BY <1>3, <1>4, <1>6, <1>7 DEF CounterInv

\* Every step keeps the counters exact and the gate's cap.
LEMMA CounterStep ==
    ASSUME CounterInv, [Next]_vars
    PROVE  SlotAccounting' /\ GateCap'
<1> USE DEF CounterInv
<1>0. gen \in Nat /\ TypeOK
  BY DEF TypeOK, Gens
<1>a. ASSUME UNCHANGED <<active, inherited, req>>
      PROVE  SlotAccounting' /\ GateCap'
  <2>1. \A g \in Gens, r \in Routes :
           Counted(g, r)' = Counted(g, r) /\ Admitted(g, r)' = Admitted(g, r)
    BY <1>a DEF Counted, Admitted, Overshot
  <2> QED
    BY <1>a, <2>1, BulkheadFrame
<1>b. CASE UNCHANGED vars
  BY <1>a, <1>b DEF vars
<1>c. ASSUME NEW r \in ConfigRoutes, RoutePrefix(r)
      PROVE  SlotAccounting' /\ GateCap'
  BY <1>a, <1>c DEF RoutePrefix
<1>d. CASE StartServing
  BY <1>a, <1>d DEF StartServing
<1>e. ASSUME NEW u \in Updaters, NEW r \in Routes, Compile(u, r)
      PROVE  SlotAccounting' /\ GateCap'
  BY <1>a, <1>e DEF Compile
<1>f. ASSUME NEW u \in Updaters, CompileError(u) \/ CloseEvicted(u)
      PROVE  SlotAccounting' /\ GateCap'
  BY <1>a, <1>f DEF CompileError, CloseEvicted
<1>g. ASSUME NEW u \in Updaters, ReplacePrefixRoutesBySource(u)
      PROVE  SlotAccounting' /\ GateCap'
  BY <1>g, BulkheadPublish DEF ReplacePrefixRoutesBySource
<1>h. ASSUME NEW u \in Updaters, NEW r \in Routes, RemovePrefixRoute(u, r)
      PROVE  SlotAccounting' /\ GateCap'
  BY <1>h, BulkheadPublish DEF RemovePrefixRoute
<1>i. ASSUME NEW u \in Updaters, Reset(u)
      PROVE  SlotAccounting' /\ GateCap'
  BY <1>i, BulkheadPublish DEF Reset
<1>j. ASSUME NEW q \in Requests
      PROVE  req[q] \in RequestState /\ WellPlaced(req[q])
  BY DEF TypeOK, RequestOK
<1>k. ASSUME NEW q \in Requests, NEW p \in Paths, LookupPrefixRoute(q, p)
      PROVE  SlotAccounting' /\ GateCap'
  <2> DEFINE r == FirstMatch(p)
             x == Matched(IF Gated(r) THEN "gate" ELSE "dispatch", p, gen, r)
  <2>1. r \in Routes \cup {NoRoute}
    BY <1>0, FirstMatchType DEF TypeOK
  <2>2. x \in RequestState /\ x.pc # "added" /\ ~x.slot
    BY <1>0, <2>1 DEF Matched, RequestState, ReqPC, TypeOK
  <2>3. req[q].pc # "added" /\ ~req[q].slot
    BY <1>j, <1>k DEF LookupPrefixRoute, WellPlaced
  <2>4. req' = [req EXCEPT ![q] = x] /\ active' = active /\ inherited' = inherited
    BY <1>k DEF LookupPrefixRoute
  <2> HIDE DEF x, r
  <2> QED
    BY <2>2, <2>3, <2>4, BulkheadUncounted
<1>l. ASSUME NEW q \in Requests, GateLoad(q)
      PROVE  SlotAccounting' /\ GateCap'
  <2> DEFINE y == [req[q] EXCEPT !.pc = "loaded"]
             x == IF Counter(q) >= Limit[req[q].route] THEN IdleRequest ELSE y
  <2>1. req[q].pc = "gate" /\ ~req[q].slot
    BY <1>j, <1>l DEF GateLoad, WellPlaced
  <2>2. y \in RequestState
    BY <1>j DEF RequestState, ReqPC
  <2>3. y.pc = "loaded" /\ y.slot = req[q].slot
    BY <1>j DEF RequestState
  <2>4. IdleRequest \in RequestState /\ IdleRequest.pc = "idle" /\ IdleRequest.slot = FALSE
    BY <1>0, IdleRequestOK
  <2> HIDE DEF y
  <2>5. x \in RequestState /\ x.pc # "added" /\ ~x.slot
    BY <2>1, <2>2, <2>3, <2>4
  <2>6. req' = [req EXCEPT ![q] = x] /\ active' = active /\ inherited' = inherited
    BY <1>l DEF GateLoad, y
  <2> HIDE DEF x
  <2> QED
    BY <2>1, <2>5, <2>6, BulkheadUncounted
<1>m. ASSUME NEW q \in Requests, GateAdd(q)
      PROVE  SlotAccounting' /\ GateCap'
  BY <1>m, BulkheadEnter
<1>n. ASSUME NEW q \in Requests, GateCheck(q)
      PROVE  SlotAccounting' /\ GateCap'
  <2> DEFINE x == [req[q] EXCEPT !.slot = TRUE, !.pc = AfterGate(q)]
  <2>1. req[q].pc = "added" /\ req[q].route \in Routes
    BY <1>j, <1>n DEF GateCheck, WellPlaced
  <2>2. CASE Overshot(q)
    <3>1. /\ req' = [req EXCEPT ![q] = IdleRequest] /\ inherited' = inherited
          /\ active' = [active EXCEPT ![req[q].gen][req[q].route] = @ - 1]
      BY <1>n, <2>2 DEF GateCheck
    <3> QED
      BY <2>1, <3>1, BulkheadExit
  <2>3. CASE ~Overshot(q)
    <3>1. AfterGate(q) \in {"dispatch", "serving"}
      BY DEF AfterGate
    <3>2. x \in RequestState
      BY <1>j, <3>1 DEF RequestState, ReqPC
    <3>3. x.slot /\ x.gen = req[q].gen /\ x.route = req[q].route
      BY <1>j DEF RequestState
    <3>4. req' = [req EXCEPT ![q] = x] /\ active' = active /\ inherited' = inherited
      BY <1>n, <2>3 DEF GateCheck
    <3> HIDE DEF x
    <3> QED
      BY <2>1, <2>3, <3>2, <3>3, <3>4, BulkheadHolder
  <2> QED
    BY <2>2, <2>3
<1>o. ASSUME NEW q \in Requests, ServeHTTP(q)
      PROVE  SlotAccounting' /\ GateCap'
  <2> DEFINE r == FirstMatch(req[q].path)
             y == [req[q] EXCEPT !.pc = "gate", !.gen = gen, !.route = r, !.served = r]
             z == [req[q] EXCEPT !.pc = "serving", !.served = r]
  <2>1. r \in Routes \cup {NoRoute}
    BY <1>0, <1>j, FirstMatchType DEF TypeOK, RequestState
  <2>2. req[q].pc = "dispatch" /\ active' = active /\ inherited' = inherited
    BY <1>o DEF ServeHTTP
  <2>3. CASE Gated(r) /\ ~req[q].slot
    <3>1. y \in RequestState
      BY <1>0, <1>j, <2>1 DEF RequestState, ReqPC, TypeOK
    <3>2. y.pc = "gate" /\ y.slot = req[q].slot
      BY <1>j DEF RequestState
    <3>3. req' = [req EXCEPT ![q] = y]
      BY <1>o, <2>3 DEF ServeHTTP
    <3> HIDE DEF y
    <3> QED
      BY <2>2, <2>3, <3>1, <3>2, <3>3, BulkheadUncounted
  <2>4. CASE ~(Gated(r) /\ ~req[q].slot)
    <3>1. z \in RequestState
      BY <1>j, <2>1 DEF RequestState, ReqPC
    <3>2. z.pc = "serving" /\ z.slot = req[q].slot /\ z.gen = req[q].gen
             /\ z.route = req[q].route
      BY <1>j DEF RequestState
    <3>3. req' = [req EXCEPT ![q] = z]
      BY <1>o, <2>4 DEF ServeHTTP
    <3> HIDE DEF z
    <3>4. CASE req[q].slot
      BY <2>2, <3>1, <3>2, <3>3, <3>4, BulkheadHolder
    <3>5. CASE ~req[q].slot
      BY <2>2, <3>1, <3>2, <3>3, <3>5, BulkheadUncounted
    <3> QED
      BY <3>4, <3>5
  <2> QED
    BY <2>3, <2>4
<1>p. ASSUME NEW q \in Requests, Finish(q)
      PROVE  SlotAccounting' /\ GateCap'
  <2>1. req' = [req EXCEPT ![q] = IdleRequest] /\ inherited' = inherited /\ req[q].pc = "serving"
    BY <1>p DEF Finish
  <2>2. CASE req[q].slot
    <3>1. req[q].route \in Routes
      BY <1>j, <2>2 DEF WellPlaced
    <3>2. active' = [active EXCEPT ![req[q].gen][req[q].route] = @ - 1]
      BY <1>p, <2>2 DEF Finish
    <3> QED
      BY <2>1, <2>2, <3>1, <3>2, BulkheadExit
  <2>3. CASE ~req[q].slot
    <3>1. active' = active
      BY <1>p, <2>3 DEF Finish
    <3>2. IdleRequest \in RequestState /\ IdleRequest.pc = "idle" /\ IdleRequest.slot = FALSE
      BY <1>0, IdleRequestOK
    <3> QED
      BY <2>1, <2>3, <3>1, <3>2, BulkheadUncounted
  <2> QED
    BY <2>2, <2>3
<1> QED
  BY <1>b, <1>c, <1>d, <1>e, <1>f, <1>g, <1>h, <1>i, <1>k, <1>l, <1>m, <1>n, <1>o, <1>p
  DEF Next, UpdaterStep, RequestStep

\* The bulkhead's invariant is inductive.
THEOREM CounterInvariant == Spec => []CounterInv
<1>1. Init => CounterInv
  BY CounterInit
<1>2. CounterInv /\ [Next]_vars => CounterInv'
  BY TypeStep, CounterStep DEF CounterInv
<1> QED
  BY <1>1, <1>2, PTL DEF Spec

\* Every reachable state of the route table is well typed.
THEOREM TypeCorrect == Spec => []TypeOK
<1>1. CounterInv => TypeOK
  BY DEF CounterInv
<1> QED
  BY <1>1, CounterInvariant, PTL

\* No interleaving of gate loads, adds, rollbacks, releases and table swaps
\* loses or invents a unit of an activeRequests counter.
THEOREM SlotsAccounted == Spec => []SlotAccounting
<1>1. CounterInv => SlotAccounting
  BY DEF CounterInv
<1> QED
  BY <1>1, CounterInvariant, PTL

\* TryAcquireRouteSlot, which is not atomic, admits at most max_concurrency
\* requests on one counter, for any number of requests and any limit.
THEOREM GateCapHolds == Spec => []GateCap
<1>1. CounterInv => GateCap
  BY DEF CounterInv
<1> QED
  BY <1>1, CounterInvariant, PTL

-----------------------------------------------------------------------------
(* Ownership of the proxies.                                               *)

\* What updater u has compiled and not published, or evicted and not closed.
Holds(u) == upd[u].compiled \cup upd[u].evicted

\* An idle updater holds nothing, a compiling one nothing to close, a closing
\* one nothing to publish; what an updater holds is open.
UpdaterOK ==
    \A u \in Updaters :
        /\ upd[u].pc # "compiling" => upd[u].compiled = {}
        /\ upd[u].pc # "closing" => upd[u].evicted = {}
        /\ \A r \in Holds(u) : proxy[r] = "open"

\* No two updaters hold the same route, and none holds one of the table.
Disjoint ==
    \A u \in Updaters :
        /\ Holds(u) \cap table = {}
        /\ \A v \in Updaters \ {u} : Holds(u) \cap Holds(v) = {}

\* The inductive invariant of the proxies.
OwnerInv == TypeOK /\ UpdaterOK /\ Disjoint /\ TableProxiesOpen /\ NoProxyLeak

\* The state of an updater, and the types that the steps below need.
LEMMA OwnerTypes ==
    ASSUME TypeOK, NEW u \in Updaters
    PROVE  /\ upd[u] \in UpdaterState
           /\ upd[u].compiled \subseteq Routes /\ upd[u].evicted \subseteq Routes
           /\ table \subseteq Routes
  BY DEF TypeOK, UpdaterState

\* A step that leaves the table, the proxies and the updaters alone.
LEMMA OwnerFrame ==
    ASSUME OwnerInv, UNCHANGED <<table, proxy, upd>>
    PROVE  (UpdaterOK /\ Disjoint /\ TableProxiesOpen /\ NoProxyLeak)'
  BY DEF OwnerInv, UpdaterOK, Disjoint, Holds, TableProxiesOpen, NoProxyLeak

\* The swap of the table moves routes between the table and the updater: what
\* it had compiled goes in, what is dropped it has to close.
LEMMA OwnerPublish ==
    ASSUME OwnerInv, NEW u \in Updaters, NEW retained, retained \subseteq table,
           upd[u].pc # "closing", Publish(u, retained, upd[u].compiled)
    PROVE  (UpdaterOK /\ Disjoint /\ TableProxiesOpen /\ NoProxyLeak)'
<1> USE DEF OwnerInv
<1>1. upd[u].evicted = {} /\ proxy' = proxy
  BY DEF UpdaterOK, Publish
<1>2. upd'[u].pc = "closing" /\ upd'[u].compiled = {} /\ upd'[u].evicted = table \ retained
  BY DEF Publish, TypeOK
<1>3. \A v \in Updaters \ {u} : upd'[v] = upd[v]
  BY DEF Publish, TypeOK
<1>4. table' = retained \cup upd[u].compiled
  BY DEF Publish
<1>5. Holds(u) = upd[u].compiled /\ Holds(u)' = table \ retained
  BY <1>1, <1>2 DEF Holds
<1>6. \A v \in Updaters \ {u} : Holds(v)' = Holds(v)
  BY <1>3 DEF Holds
<1>7. UpdaterOK'
  <2>1. ASSUME NEW v \in Updaters
        PROVE  /\ upd'[v].pc # "compiling" => upd'[v].compiled = {}
               /\ upd'[v].pc # "closing" => upd'[v].evicted = {}
               /\ \A r \in Holds(v)' : proxy'[r] = "open"
    <3>1. CASE v = u
      BY <1>1, <1>2, <1>5, <3>1 DEF TableProxiesOpen
    <3>2. CASE v # u
      BY <1>1, <1>3, <1>6, <3>2 DEF UpdaterOK
    <3> QED
      BY <3>1, <3>2
  <2> QED
    BY <2>1 DEF UpdaterOK
<1>8. Disjoint'
  BY <1>4, <1>5, <1>6 DEF Disjoint
<1>9. TableProxiesOpen'
  BY <1>1, <1>4, <1>5 DEF TableProxiesOpen, UpdaterOK
<1>10. NoProxyLeak'
  <2>1. ASSUME NEW r \in Routes, proxy[r] = "open"
        PROVE  r \in table' \/ \E v \in Updaters : r \in Holds(v)'
    <3>1. r \in table \/ \E v \in Updaters : r \in Holds(v)
      BY <2>1 DEF NoProxyLeak, Holds
    <3> QED
      BY <1>4, <1>5, <1>6, <3>1
  <2> QED
    BY <1>1, <2>1 DEF NoProxyLeak, Holds
<1> QED
  BY <1>7, <1>8, <1>9, <1>10

\* Every step keeps each open proxy with exactly one owner.
LEMMA OwnerStep ==
    ASSUME OwnerInv, [Next]_vars
    PROVE  (UpdaterOK /\ Disjoint /\ TableProxiesOpen /\ NoProxyLeak)'
<1> USE DEF OwnerInv
<1>a. CASE UNCHANGED vars
  BY <1>a, OwnerFrame DEF vars
<1>b. ASSUME NEW r \in ConfigRoutes, RoutePrefix(r)
      PROVE  (UpdaterOK /\ Disjoint /\ TableProxiesOpen /\ NoProxyLeak)'
  <2>1. r \in Routes /\ proxy[r] = "none" /\ table' = table \cup {r} /\ upd' = upd
    BY <1>b, RouteTableAssumption DEF RouteTableAssumption, RoutePrefix
  <2>2. proxy'[r] = "open" /\ \A t \in Routes \ {r} : proxy'[t] = proxy[t]
    BY <1>b, <2>1 DEF RoutePrefix, TypeOK
  <2>3. \A u \in Updaters : Holds(u)' = Holds(u) /\ r \notin Holds(u) /\ Holds(u) \subseteq Routes
    BY <2>1, OwnerTypes DEF UpdaterOK, Holds
  <2>4. UpdaterOK'
    BY <2>1, <2>2, <2>3 DEF UpdaterOK
  <2>5. Disjoint'
    BY <2>1, <2>3 DEF Disjoint
  <2>6. TableProxiesOpen'
    BY <2>1, <2>2 DEF TableProxiesOpen, TypeOK
  <2>7. NoProxyLeak'
    BY <2>1, <2>2 DEF NoProxyLeak
  <2> QED
    BY <2>4, <2>5, <2>6, <2>7
<1>c. ASSUME NEW u \in Updaters, NEW r \in Routes, Compile(u, r)
      PROVE  (UpdaterOK /\ Disjoint /\ TableProxiesOpen /\ NoProxyLeak)'
  <2> DEFINE x == [upd[u] EXCEPT !.pc = "compiling", !.compiled = @ \cup {r}]
  <2>1. upd[u] \in UpdaterState /\ upd[u].pc # "closing" /\ proxy[r] # "open" /\ table' = table
    BY <1>c, OwnerTypes DEF Compile, Fresh
  <2>2. x.pc = "compiling" /\ x.compiled = upd[u].compiled \cup {r} /\ x.evicted = upd[u].evicted
    BY <2>1 DEF UpdaterState
  <2>3. upd'[u] = x /\ \A v \in Updaters \ {u} : upd'[v] = upd[v]
    BY <1>c DEF Compile, TypeOK
  <2> HIDE DEF x
  <2>4. proxy'[r] = "open" /\ \A t \in Routes \ {r} : proxy'[t] = proxy[t]
    BY <1>c DEF Compile, TypeOK
  <2>5. Holds(u)' = Holds(u) \cup {r} /\ \A v \in Updaters \ {u} : Holds(v)' = Holds(v)
    BY <2>2, <2>3 DEF Holds
  <2>6. r \notin table /\ \A v \in Updaters : r \notin Holds(v) /\ Holds(v) \subseteq Routes
    BY <2>1, OwnerTypes DEF UpdaterOK, TableProxiesOpen, Holds
  <2>7. UpdaterOK'
    <3>1. ASSUME NEW v \in Updaters
          PROVE  /\ upd'[v].pc # "compiling" => upd'[v].compiled = {}
                 /\ upd'[v].pc # "closing" => upd'[v].evicted = {}
      BY <2>1, <2>2, <2>3 DEF UpdaterOK
    <3>2. ASSUME NEW v \in Updaters
          PROVE  \A t \in Holds(v)' : proxy'[t] = "open"
      BY <2>4, <2>5, <2>6 DEF UpdaterOK
    <3> QED
      BY <3>1, <3>2 DEF UpdaterOK
  <2>8. Disjoint'
    BY <2>1, <2>5, <2>6 DEF Disjoint
  <2>9. TableProxiesOpen'
    BY <2>1, <2>4, <2>6, OwnerTypes DEF TableProxiesOpen
  <2>10. NoProxyLeak'
    <3>1. ASSUME NEW t \in Routes, proxy'[t] = "open"
          PROVE  t \in table' \/ \E v \in Updaters : t \in Holds(v)'
      <4>1. CASE t = r
        BY <2>5, <4>1
      <4>2. CASE t # r
        BY <2>1, <2>4, <2>5, <3>1, <4>2 DEF NoProxyLeak, Holds
      <4> QED
        BY <4>1, <4>2
    <3> QED
      BY <3>1 DEF NoProxyLeak, Holds
  <2> QED
    BY <2>7, <2>8, <2>9, <2>10
<1>d. ASSUME NEW u \in Updaters, CompileError(u)
      PROVE  (UpdaterOK /\ Disjoint /\ TableProxiesOpen /\ NoProxyLeak)'
  <2>1. upd[u].pc = "compiling" /\ upd[u].evicted = {} /\ Holds(u) = upd[u].compiled
    BY <1>d DEF CompileError, UpdaterOK, Holds
  <2>2. upd'[u] = IdleUpdater /\ (\A v \in Updaters \ {u} : upd'[v] = upd[v]) /\ table' = table
    BY <1>d DEF CompileError, TypeOK
  <2>3. \A t \in Routes : proxy'[t] = IF t \in Holds(u) THEN "closed" ELSE proxy[t]
    BY <1>d, <2>1 DEF CompileError
  <2>4. Holds(u)' = {} /\ \A v \in Updaters \ {u} : Holds(v)' = Holds(v)
    BY <2>2 DEF Holds, IdleUpdater
  <2>5. \A v \in Updaters : Holds(v) \subseteq Routes
    BY OwnerTypes DEF Holds
  <2>6. UpdaterOK'
    <3>1. ASSUME NEW v \in Updaters
          PROVE  /\ upd'[v].pc # "compiling" => upd'[v].compiled = {}
                 /\ upd'[v].pc # "closing" => upd'[v].evicted = {}
      BY <2>2 DEF UpdaterOK, IdleUpdater
    <3>2. ASSUME NEW v \in Updaters
          PROVE  \A t \in Holds(v)' : proxy'[t] = "open"
      BY <2>3, <2>4, <2>5 DEF UpdaterOK, Disjoint
    <3> QED
      BY <3>1, <3>2 DEF UpdaterOK
  <2>7. Disjoint'
    BY <2>2, <2>4 DEF Disjoint
  <2>8. TableProxiesOpen'
    BY <2>2, <2>3, OwnerTypes DEF TableProxiesOpen, Disjoint
  <2>9. NoProxyLeak'
    BY <2>2, <2>3, <2>4 DEF NoProxyLeak, Holds
  <2> QED
    BY <2>6, <2>7, <2>8, <2>9
<1>e. ASSUME NEW u \in Updaters, CloseEvicted(u)
      PROVE  (UpdaterOK /\ Disjoint /\ TableProxiesOpen /\ NoProxyLeak)'
  <2>0. upd[u] \in UpdaterState /\ upd[u].pc = "closing" /\ upd[u].compiled = {} /\ table' = table
    BY <1>e, OwnerTypes DEF CloseEvicted, UpdaterOK
  <2>1. ASSUME NEW r \in upd[u].evicted, proxy' = [proxy EXCEPT ![r] = "closed"],
               upd' = [upd EXCEPT ![u] = [upd[u] EXCEPT !.evicted = @ \ {r}]]
        PROVE  (UpdaterOK /\ Disjoint /\ TableProxiesOpen /\ NoProxyLeak)'
    <3> DEFINE x == [upd[u] EXCEPT !.evicted = @ \ {r}]
    <3>1. x.pc = "closing" /\ x.compiled = {} /\ x.evicted = upd[u].evicted \ {r}
      BY <2>0 DEF UpdaterState
    <3>2. upd'[u] = x /\ \A v \in Updaters \ {u} : upd'[v] = upd[v]
      BY <2>1 DEF TypeOK
    <3> HIDE DEF x
    <3>3. Holds(u)' = Holds(u) \ {r} /\ \A v \in Updaters \ {u} : Holds(v)' = Holds(v)
      BY <2>0, <3>1, <3>2 DEF Holds
    <3>4. r \in Holds(u) /\ \A v \in Updaters : Holds(v) \subseteq Routes
      BY <2>1, OwnerTypes DEF Holds
    <3>5. proxy'[r] = "closed" /\ \A t \in Routes \ {r} : proxy'[t] = proxy[t]
      BY <2>1, <3>4 DEF TypeOK
    <3>6. UpdaterOK'
      <4>1. ASSUME NEW v \in Updaters
            PROVE  /\ upd'[v].pc # "compiling" => upd'[v].compiled = {}
                   /\ upd'[v].pc # "closing" => upd'[v].evicted = {}
        BY <3>1, <3>2 DEF UpdaterOK
      <4>2. ASSUME NEW v \in Updaters
            PROVE  \A t \in Holds(v)' : proxy'[t] = "open"
        BY <3>3, <3>4, <3>5 DEF UpdaterOK, Disjoint
      <4> QED
        BY <4>1, <4>2 DEF UpdaterOK
    <3>7. Disjoint'
      BY <2>0, <3>3 DEF Disjoint
    <3>8. TableProxiesOpen'
      BY <2>0, <3>4, <3>5, OwnerTypes DEF TableProxiesOpen, Disjoint
    <3>9. NoProxyLeak'
      <4>1. ASSUME NEW t \in Routes, proxy'[t] = "open"
            PROVE  t \in table' \/ \E v \in Updaters : t \in Holds(v)'
        BY <2>0, <3>3, <3>5, <4>1 DEF NoProxyLeak, Holds
      <4> QED
        BY <4>1 DEF NoProxyLeak, Holds
    <3> QED
      BY <3>6, <3>7, <3>8, <3>9
  <2>2. ASSUME upd[u].evicted = {}, proxy' = proxy, upd' = [upd EXCEPT ![u] = IdleUpdater]
        PROVE  (UpdaterOK /\ Disjoint /\ TableProxiesOpen /\ NoProxyLeak)'
    <3>1. upd'[u] = IdleUpdater /\ \A v \in Updaters \ {u} : upd'[v] = upd[v]
      BY <2>2 DEF TypeOK
    <3>2. \A v \in Updaters : Holds(v)' = Holds(v)
      BY <2>0, <2>2, <3>1 DEF Holds, IdleUpdater
    <3>3. UpdaterOK'
      <4>1. ASSUME NEW v \in Updaters
            PROVE  /\ upd'[v].pc # "compiling" => upd'[v].compiled = {}
                   /\ upd'[v].pc # "closing" => upd'[v].evicted = {}
        BY <3>1 DEF UpdaterOK, IdleUpdater
      <4> QED
        BY <2>2, <3>2, <4>1 DEF UpdaterOK
    <3>4. Disjoint' /\ TableProxiesOpen'
      BY <2>0, <2>2, <3>2 DEF Disjoint, TableProxiesOpen
    <3>5. NoProxyLeak'
      BY <2>0, <2>2, <3>2 DEF NoProxyLeak, Holds
    <3> QED
      BY <3>3, <3>4, <3>5
  <2> QED
    BY <1>e, <2>1, <2>2 DEF CloseEvicted
<1>f. ASSUME NEW u \in Updaters, ReplacePrefixRoutesBySource(u)
      PROVE  (UpdaterOK /\ Disjoint /\ TableProxiesOpen /\ NoProxyLeak)'
  <2>1. Retained(u) \subseteq table /\ upd[u].pc # "closing"
    BY <1>f DEF Retained, ReplacePrefixRoutesBySource
  <2> QED
    BY <1>f, <2>1, OwnerPublish DEF ReplacePrefixRoutesBySource
<1>g. ASSUME NEW u \in Updaters, NEW r \in Routes, RemovePrefixRoute(u, r)
      PROVE  (UpdaterOK /\ Disjoint /\ TableProxiesOpen /\ NoProxyLeak)'
  <2>1. upd[u].pc = "idle" /\ upd[u].compiled = {}
    BY <1>g DEF RemovePrefixRoute, UpdaterOK
  <2> QED
    BY <1>g, <2>1, OwnerPublish DEF RemovePrefixRoute
<1>h. ASSUME NEW u \in Updaters, Reset(u)
      PROVE  (UpdaterOK /\ Disjoint /\ TableProxiesOpen /\ NoProxyLeak)'
  <2>1. upd[u].pc = "idle" /\ upd[u].compiled = {}
    BY <1>h DEF Reset, UpdaterOK
  <2> QED
    BY <1>h, <2>1, OwnerPublish DEF Reset
<1>i. CASE StartServing
  BY <1>i, OwnerFrame DEF StartServing
<1>j. ASSUME NEW q \in Requests, NEW p \in Paths, LookupPrefixRoute(q, p)
      PROVE  (UpdaterOK /\ Disjoint /\ TableProxiesOpen /\ NoProxyLeak)'
  BY <1>j, OwnerFrame DEF LookupPrefixRoute
<1>k. ASSUME NEW q \in Requests, RequestStep(q)
      PROVE  (UpdaterOK /\ Disjoint /\ TableProxiesOpen /\ NoProxyLeak)'
  <2>1. UNCHANGED <<table, proxy, upd>>
    BY <1>k DEF RequestStep, GateLoad, GateAdd, GateCheck, ServeHTTP, Finish
  <2> QED
    BY <2>1, OwnerFrame
<1> QED
  BY <1>a, <1>b, <1>c, <1>d, <1>e, <1>f, <1>g, <1>h, <1>i, <1>j, <1>k DEF Next, UpdaterStep

\* The ownership invariant holds in every reachable state.
THEOREM OwnerInvariant == Spec => []OwnerInv
<1>1. Init => OwnerInv
  <2> SUFFICES ASSUME Init PROVE OwnerInv
    OBVIOUS
  <2>1. TypeOK
    BY CounterInit DEF CounterInv
  <2>2. UpdaterOK /\ Disjoint
    BY DEF Init, UpdaterOK, Disjoint, Holds, IdleUpdater
  <2>3. TableProxiesOpen /\ NoProxyLeak
    BY DEF Init, TableProxiesOpen, NoProxyLeak
  <2> QED
    BY <2>1, <2>2, <2>3 DEF OwnerInv
<1>2. OwnerInv /\ TypeOK' /\ [Next]_vars => OwnerInv'
  BY OwnerStep DEF OwnerInv
<1> QED
  BY <1>1, <1>2, TypeCorrect, PTL DEF Spec

\* A route that can be matched has an open proxy, whatever the updaters do.
THEOREM MatchedProxiesOpen == Spec => []TableProxiesOpen
<1>1. OwnerInv => TableProxiesOpen
  BY DEF OwnerInv
<1> QED
  BY <1>1, OwnerInvariant, PTL

\* No compiled or evicted proxy is forgotten, whatever fails to compile.
THEOREM ProxiesNotLeaked == Spec => []NoProxyLeak
<1>1. OwnerInv => NoProxyLeak
  BY DEF OwnerInv
<1> QED
  BY <1>1, OwnerInvariant, PTL

\* No proxy is closed twice, and no closed one is published.
THEOREM ProxiesOwnedOnce == Spec => []SoleOwner
<1>1. OwnerInv => SoleOwner
  BY DEF OwnerInv, Disjoint, UpdaterOK, Holds, SoleOwner
<1> QED
  BY <1>1, OwnerInvariant, PTL

-----------------------------------------------------------------------------
(* Before the first swap.                                                  *)

\* Until the table is replaced, the two matches of a request agree: it passes
\* the gate of the route it is going to be served by, and is not served by a
\* limited route without a slot of that route.
Steady(x) ==
    x.pc # "idle" =>
        LET r == FirstMatch(x.path) IN
        /\ serving
        /\ x.pc \in {"gate", "loaded", "added"} =>
              x.route = r /\ Gated(r) /\ x.served \in {NoRoute, r}
        /\ x.pc = "dispatch" => x.served = NoRoute /\ (IF x.slot THEN x.route = r ELSE ~Gated(r))
        /\ x.pc = "serving" => x.served = r /\ (Gated(r) => x.slot /\ x.route = r)

SteadyInv == gen = 0 => \A q \in Requests : Steady(req[q])

\* What a step keeps: with the table and the requests unchanged, or with no
\* request in flight.
LEMMA SteadyFrame ==
    ASSUME SteadyInv, req' = req, gen' = gen, serving => serving',
           \A p : serving => FirstMatch(p)' = FirstMatch(p)
    PROVE  SteadyInv'
BY DEF SteadyInv, Steady, Gated

\* A request moves while the table stands still.
LEMMA SteadyMove ==
    ASSUME SteadyInv, TypeOK, NEW q \in Requests, NEW x, req' = [req EXCEPT ![q] = x],
           gen = 0 => Steady(x), UNCHANGED <<serving, table, gen>>
    PROVE  SteadyInv'
<1> SUFFICES ASSUME gen = 0, NEW p \in Requests
             PROVE  Steady(req[p])'
  BY DEF SteadyInv
<1>1. \A y : FirstMatch(y)' = FirstMatch(y)
  BY DEF FirstMatch
<1>2. ASSUME NEW y, NEW z, z' = y, Steady(y)
      PROVE  Steady(z)'
  BY <1>1, <1>2 DEF Steady, Gated
<1>3. req'[p] = IF p = q THEN x ELSE req[p]
  BY DEF TypeOK
<1>4. Steady(req[p]) /\ Steady(x)
  BY DEF SteadyInv
<1> QED
  BY <1>1, <1>3, <1>4 DEF Steady, Gated

\* Every step keeps it.
LEMMA SteadyStep ==
    ASSUME CounterInv, TypeOK', SteadyInv, [Next]_vars
    PROVE  SteadyInv'
<1>1. /\ TypeOK /\ RequestOK /\ gen \in Nat /\ gen' \in Nat
      /\ \A q \in Requests : req[q] \in RequestState
  <2>1. TypeOK /\ RequestOK
    BY DEF CounterInv
  <2>2. gen \in Nat /\ gen' \in Nat
    BY <2>1, RouteTableAssumption DEF RouteTableAssumption, TypeOK, Gens
  <2>3. \A q \in Requests : req[q] \in RequestState
    BY <2>1 DEF TypeOK
  <2> QED
    BY <2>1, <2>2, <2>3
<1>2. CASE UNCHANGED vars
  BY <1>2, SteadyFrame DEF vars, FirstMatch
<1>3. ASSUME NEW u \in Updaters, NEW A, NEW B, Publish(u, A, B)
      PROVE  SteadyInv'
  BY <1>1, <1>3 DEF Publish, SteadyInv
<1>4. ASSUME NEW r \in ConfigRoutes, RoutePrefix(r)
      PROVE  SteadyInv'
  BY <1>4, SteadyFrame DEF RoutePrefix
<1>5. CASE StartServing
  BY <1>5, SteadyFrame DEF StartServing, FirstMatch
<1>6. ASSUME NEW u \in Updaters,
             (\E r \in Routes : Compile(u, r)) \/ CompileError(u) \/ CloseEvicted(u)
      PROVE  SteadyInv'
  <2>1. UNCHANGED <<serving, table, gen, req>>
    BY <1>6 DEF Compile, CompileError, CloseEvicted
  <2> QED
    BY <2>1, SteadyFrame DEF FirstMatch
<1>7. ASSUME NEW q \in Requests, NEW p \in Paths, LookupPrefixRoute(q, p)
      PROVE  SteadyInv'
  <2> DEFINE r == FirstMatch(p)
             x == Matched(IF Gated(r) THEN "gate" ELSE "dispatch", p, gen, r)
  <2>1. Steady(x)
    BY <1>7 DEF LookupPrefixRoute, Steady, Matched
  <2>2. req' = [req EXCEPT ![q] = x] /\ UNCHANGED <<serving, table, gen>>
    BY <1>7 DEF LookupPrefixRoute
  <2> HIDE DEF x
  <2> QED
    BY <1>1, <2>1, <2>2, SteadyMove
<1>8. ASSUME NEW q \in Requests, GateLoad(q)
      PROVE  SteadyInv'
  <2> DEFINE x == IF Counter(q) >= Limit[req[q].route] THEN IdleRequest
                  ELSE [req[q] EXCEPT !.pc = "loaded"]
  <2>1. gen = 0 => Steady(x)
    BY <1>1, <1>8, IdleRequestOK DEF GateLoad, SteadyInv, Steady, RequestState
  <2>2. req' = [req EXCEPT ![q] = x] /\ UNCHANGED <<serving, table, gen>>
    BY <1>8 DEF GateLoad
  <2> HIDE DEF x
  <2> QED
    BY <1>1, <2>1, <2>2, SteadyMove
<1>9. ASSUME NEW q \in Requests, GateAdd(q)
      PROVE  SteadyInv'
  <2> DEFINE x == [req[q] EXCEPT !.pc = "added", !.seen = Counter(q) + 1]
  <2>1. gen = 0 => Steady(x)
    BY <1>1, <1>9 DEF GateAdd, SteadyInv, Steady, RequestState
  <2>2. req' = [req EXCEPT ![q] = x] /\ UNCHANGED <<serving, table, gen>>
    BY <1>9 DEF GateAdd
  <2> HIDE DEF x
  <2> QED
    BY <1>1, <2>1, <2>2, SteadyMove
<1>10. ASSUME NEW q \in Requests, GateCheck(q)
       PROVE  SteadyInv'
  <2> DEFINE x == IF Overshot(q) THEN IdleRequest
                  ELSE [req[q] EXCEPT !.slot = TRUE, !.pc = AfterGate(q)]
  <2>1. gen = 0 => Steady(x)
    BY <1>1, <1>10, IdleRequestOK
       DEF GateCheck, SteadyInv, Steady, Gated, AfterGate, RequestState
  <2>2. req' = [req EXCEPT ![q] = x] /\ UNCHANGED <<serving, table, gen>>
    BY <1>10 DEF GateCheck
  <2> HIDE DEF x
  <2> QED
    BY <1>1, <2>1, <2>2, SteadyMove
<1>11. ASSUME NEW q \in Requests, ServeHTTP(q)
       PROVE  SteadyInv'
  <2> DEFINE r == FirstMatch(req[q].path)
             x == IF Gated(r) /\ ~req[q].slot
                  THEN [req[q] EXCEPT !.pc = "gate", !.gen = gen, !.route = r, !.served = r]
                  ELSE [req[q] EXCEPT !.pc = "serving", !.served = r]
  <2>1. gen = 0 => Steady(x)
    BY <1>1, <1>11 DEF ServeHTTP, SteadyInv, Steady, RequestState
  <2>2. req' = [req EXCEPT ![q] = x] /\ UNCHANGED <<serving, table, gen>>
    BY <1>11 DEF ServeHTTP
  <2> HIDE DEF x
  <2> QED
    BY <1>1, <2>1, <2>2, SteadyMove
<1>12. ASSUME NEW q \in Requests, Finish(q)
       PROVE  SteadyInv'
  <2>1. Steady(IdleRequest)
    BY <1>1, IdleRequestOK DEF Steady
  <2> QED
    BY <1>1, <1>12, <2>1, SteadyMove DEF Finish
<1> QED
  BY <1>2, <1>3, <1>4, <1>5, <1>6, <1>7, <1>8, <1>9, <1>10, <1>11, <1>12
     DEF Next, UpdaterStep, RequestStep, ReplacePrefixRoutesBySource, RemovePrefixRoute, Reset

\* The requests of a limited route then hold slots of its one counter.
LEMMA SteadyCap == CounterInv /\ SteadyInv => BulkheadCapUntilSwap
<1> SUFFICES ASSUME CounterInv, SteadyInv, gen = 0, NEW r \in Routes, Limit[r] > 0
             PROVE  Cardinality(InService(r)) <= Limit[r]
  BY DEF BulkheadCapUntilSwap, BulkheadCap
<1>1. 0 \in Gens /\ NoRoute \notin Routes /\ Limit[r] \in Nat
  BY RouteTableAssumption DEF RouteTableAssumption, Gens
<1>2. InService(r) \subseteq Admitted(0, r)
  <2> SUFFICES ASSUME NEW q \in InService(r)
               PROVE  q \in Admitted(0, r)
    OBVIOUS
  <2>1. q \in Requests /\ req[q].pc = "serving" /\ req[q].served = r
    BY DEF InService
  <2>2. req[q].slot /\ req[q].route = r
    BY <1>1, <2>1 DEF SteadyInv, Steady, Gated
  <2>3. req[q].gen = 0
    BY <1>1, <2>1 DEF CounterInv, RequestOK, WellPlaced, TypeOK, RequestState, Gens
  <2> QED
    BY <2>1, <2>2, <2>3 DEF Admitted, Counted
<1>3. /\ Cardinality(InService(r)) <= Cardinality(Admitted(0, r))
      /\ IsFiniteSet(InService(r)) /\ Cardinality(Admitted(0, r)) \in Nat
  BY <1>2, CountedFinite, FS_Subset
<1>4. Cardinality(Admitted(0, r)) <= Limit[r]
  BY <1>1 DEF CounterInv, GateCap
<1> QED
  BY <1>1, <1>3, <1>4, FS_CardinalityType

\* max_concurrency caps the requests a route serves, for both gates together
\* and although the route is matched twice, until the table is first replaced.
THEOREM CapUntilSwap == Spec => []BulkheadCapUntilSwap
<1>1. Init => SteadyInv
  <2>1. Init => 0 \in Nat /\ \A q \in Requests : req[q] = IdleRequest
    BY DEF Init
  <2> QED
    BY <2>1, IdleRequestOK DEF Init, SteadyInv, Steady
<1>2. CounterInv /\ CounterInv' /\ SteadyInv /\ [Next]_vars => SteadyInv'
  BY SteadyStep DEF CounterInv
<1> QED
  BY <1>1, <1>2, SteadyCap, CounterInvariant, PTL DEF Spec

-----------------------------------------------------------------------------
(* The bulkhead is a semaphore.                                            *)

\* The instance counts as this module does.
LEMMA SameCardinality == \A S : Gate!Cardinality(S) = Cardinality(S)
BY DEF Gate!Cardinality, Cardinality

\* A held slot is not the value of a request without one.
LEMMA HeldIsSomething ==
    ASSUME NEW q
    PROVE  HeldBy(q) # <<>> <=> req[q].slot
<1>1. \A g, r : <<g, r>> # <<>>
  OBVIOUS
<1> QED
  BY <1>1 DEF HeldBy

\* The requests that hold a slot of a counter are among those it has admitted.
LEMMA HoldersAdmitted ==
    ASSUME NEW g, NEW r
    PROVE  {q \in Requests : HeldBy(q) = <<g, r>>} \subseteq Admitted(g, r)
<1> SUFFICES ASSUME NEW q \in Requests, HeldBy(q) = <<g, r>>
             PROVE  q \in Admitted(g, r)
  OBVIOUS
<1>1. <<g, r>> # <<>>
  OBVIOUS
<1>2. req[q].slot /\ <<req[q].gen, req[q].route>> = <<g, r>>
  BY <1>1 DEF HeldBy
<1> QED
  BY <1>2 DEF Admitted, Counted

\* A step that changes no holder stutters.
LEMMA GateStutters ==
    ASSUME \A q \in Requests : HeldBy(q)' = HeldBy(q)
    PROVE  [q \in Requests |-> HeldBy(q)]' = [q \in Requests |-> HeldBy(q)]
OBVIOUS

\* The re-check that succeeds acquires: the slot it takes is within the cap,
\* because the admitted requests are, the new one included.
LEMMA CheckAcquires ==
    ASSUME CounterInv, CounterInv', NEW q \in Requests, GateCheck(q), ~Overshot(q)
    PROVE  Gate!Next
<1> DEFINE g == req[q].gen
           r == req[q].route
           c == <<g, r>>
           held == [p \in Requests |-> HeldBy(p)]
           S == {p \in Requests : held[p] = c}
<1>1. /\ TypeOK /\ req[q].pc = "added" /\ req[q] \in RequestState /\ g \in Gens
      /\ r \in Routes /\ ~req[q].slot
      /\ req' = [req EXCEPT ![q] = [req[q] EXCEPT !.slot = TRUE, !.pc = AfterGate(q)]]
  BY DEF CounterInv, TypeOK, RequestOK, WellPlaced, GateCheck, RequestState
<1>2. /\ req'[q].slot /\ req'[q].gen = g /\ req'[q].route = r
      /\ \A p \in Requests \ {q} : req'[p] = req[p]
  BY <1>1 DEF TypeOK, RequestState
<1>3. held[q] = <<>> /\ c # <<>>
  BY <1>1, HeldIsSomething
<1>4. held' = [held EXCEPT ![q] = c]
  BY <1>2 DEF HeldBy
<1>5. Cardinality(S) < Limit[r]
  <2> DEFINE T == {p \in Requests : held'[p] = c}
  <2>1. T \subseteq Admitted(g, r)'
    <3> SUFFICES ASSUME NEW p \in Requests, HeldBy(p)' = c
                 PROVE  p \in Admitted(g, r)'
      OBVIOUS
    <3>1. req'[p].slot /\ <<req'[p].gen, req'[p].route>> = c
      BY <1>3 DEF HeldBy
    <3>2. req'[p].gen = g /\ req'[p].route = r
      BY <3>1
    <3> QED
      BY <1>2, <3>1, <3>2 DEF Admitted, Counted
  <2>2. T = S \cup {q} /\ q \notin S
    <3>1. \A p \in Requests : held'[p] = IF p = q THEN c ELSE held[p]
      BY <1>4
    <3> HIDE DEF held, c
    <3> QED
      BY <1>3, <3>1
  <2>3. Cardinality(Admitted(g, r)') <= Limit[r] /\ Limit[r] \in Nat
    BY <1>1, RouteTableAssumption DEF RouteTableAssumption, CounterInv, GateCap
  <2>4. IsFiniteSet(S) /\ IsFiniteSet(Requests) /\ Admitted(g, r)' \subseteq Requests
    <3>1. IsFiniteSet(Requests) /\ S \subseteq Requests
      BY RouteTableAssumption DEF RouteTableAssumption
    <3>2. Admitted(g, r)' \subseteq Requests
      BY DEF Admitted, Counted
    <3> HIDE DEF S
    <3> QED
      BY <3>1, <3>2, FS_Subset
  <2> HIDE DEF S, T
  <2>5. Cardinality(T) = Cardinality(S) + 1 /\ Cardinality(S) \in Nat
    BY <2>2, <2>4, FS_AddElement, FS_CardinalityType
  <2>6. /\ Cardinality(T) <= Cardinality(Admitted(g, r)')
        /\ Cardinality(Admitted(g, r)') \in Nat
    <3>1. IsFiniteSet(Admitted(g, r)')
      BY <2>4, FS_Subset
    <3> QED
      BY <2>1, <3>1, FS_Subset, FS_CardinalityType
  <2> QED
    BY <2>3, <2>5, <2>6
<1>6. [x \in Counters |-> Limit[x[2]]][c] = Limit[r]
  <2>1. c \in Counters /\ c[2] = r
    BY <1>1 DEF Counters
  <2> HIDE DEF c
  <2> QED
    BY <2>1
<1>7. Gate!Acquire(q, c)
  <2>1. Gate!Cardinality(Gate!Holders(c)) = Cardinality(S)
    BY SameCardinality DEF Gate!Holders
  <2>2. Gate!Cardinality(Gate!Holders(c)) < [x \in Counters |-> Limit[x[2]]][c]
    BY <1>5, <1>6, <2>1
  <2> HIDE DEF c
  <2> QED
    BY <1>3, <1>4, <2>2 DEF Gate!Acquire
<1> QED
  BY <1>1, <1>7 DEF Gate!Next, Counters

\* The end of a request that holds a slot releases it.
LEMMA FinishReleases ==
    ASSUME CounterInv, NEW q \in Requests, Finish(q), req[q].slot
    PROVE  Gate!Next
<1> DEFINE held == [p \in Requests |-> HeldBy(p)]
<1>1. TypeOK /\ gen \in Nat /\ req' = [req EXCEPT ![q] = IdleRequest]
  BY RouteTableAssumption DEF RouteTableAssumption, CounterInv, TypeOK, Gens, Finish
<1>2. /\ req'[q] = IdleRequest /\ ~req'[q].slot
      /\ \A p \in Requests \ {q} : req'[p] = req[p]
  BY <1>1, IdleRequestOK DEF TypeOK
<1>3. held[q] # <<>>
  BY HeldIsSomething
<1>4. held' = [held EXCEPT ![q] = <<>>]
  <2>1. HeldBy(q)' = <<>> /\ \A p \in Requests \ {q} : HeldBy(p)' = HeldBy(p)
    BY <1>2 DEF HeldBy
  <2> QED
    BY <2>1
<1>5. Gate!Release(q)
  BY <1>3, <1>4 DEF Gate!Release
<1> QED
  BY <1>5 DEF Gate!Next

\* A request that moves without a slot, before and after, is not noticed.
LEMMA MovesWithoutSlot ==
    ASSUME TypeOK, NEW q \in Requests, NEW x, req' = [req EXCEPT ![q] = x],
           IF req[q].slot THEN x.slot /\ x.gen = req[q].gen /\ x.route = req[q].route
                          ELSE ~x.slot
    PROVE  \A p \in Requests : HeldBy(p)' = HeldBy(p)
<1>1. req'[q] = x /\ \A p \in Requests \ {q} : req'[p] = req[p]
  BY DEF TypeOK
<1> QED
  BY <1>1 DEF HeldBy

\* Every step of the table is a step of the semaphores, or none.
LEMMA GateStep ==
    ASSUME CounterInv, CounterInv', [Next]_vars
    PROVE  [Gate!Next]_([q \in Requests |-> HeldBy(q)])
<1> DEFINE Still == \A p \in Requests : HeldBy(p)' = HeldBy(p)
<1>1. /\ TypeOK /\ gen \in Nat
      /\ \A q \in Requests : req[q] \in RequestState /\ WellPlaced(req[q])
  <2>1. TypeOK /\ \A q \in Requests : WellPlaced(req[q])
    BY DEF CounterInv, RequestOK
  <2>2. gen \in Nat /\ \A q \in Requests : req[q] \in RequestState
    BY <2>1, RouteTableAssumption DEF RouteTableAssumption, TypeOK, Gens
  <2> QED
    BY <2>1, <2>2
<1>2. CASE req' = req
  BY <1>2, GateStutters DEF HeldBy
<1>3. ASSUME NEW q \in Requests, NEW p \in Paths, LookupPrefixRoute(q, p)
      PROVE  Still
  <2> DEFINE x == Matched(IF Gated(FirstMatch(p)) THEN "gate" ELSE "dispatch", p, gen,
                          FirstMatch(p))
  <2>1. ~req[q].slot /\ ~x.slot /\ req' = [req EXCEPT ![q] = x]
    BY <1>1, <1>3 DEF LookupPrefixRoute, Matched, WellPlaced
  <2> HIDE DEF x
  <2> QED
    BY <1>1, <2>1, MovesWithoutSlot
<1>4. ASSUME NEW q \in Requests, GateLoad(q)
      PROVE  Still
  <2> DEFINE x == IF Counter(q) >= Limit[req[q].route] THEN IdleRequest
                  ELSE [req[q] EXCEPT !.pc = "loaded"]
  <2>1. ~req[q].slot /\ ~x.slot /\ req' = [req EXCEPT ![q] = x]
    BY <1>1, <1>4, IdleRequestOK DEF GateLoad, RequestState, WellPlaced
  <2> HIDE DEF x
  <2> QED
    BY <1>1, <2>1, MovesWithoutSlot
<1>5. ASSUME NEW q \in Requests, GateAdd(q)
      PROVE  Still
  <2> DEFINE x == [req[q] EXCEPT !.pc = "added", !.seen = Counter(q) + 1]
  <2>1. ~req[q].slot /\ ~x.slot /\ req' = [req EXCEPT ![q] = x]
    BY <1>1, <1>5 DEF GateAdd, RequestState, WellPlaced
  <2> HIDE DEF x
  <2> QED
    BY <1>1, <2>1, MovesWithoutSlot
<1>6. ASSUME NEW q \in Requests, GateCheck(q), Overshot(q)
      PROVE  Still
  <2>1. ~req[q].slot /\ ~IdleRequest.slot /\ req' = [req EXCEPT ![q] = IdleRequest]
    BY <1>1, <1>6, IdleRequestOK DEF GateCheck, WellPlaced
  <2> QED
    BY <1>1, <2>1, MovesWithoutSlot
<1>7. ASSUME NEW q \in Requests, ServeHTTP(q)
      PROVE  Still
  <2> DEFINE r == FirstMatch(req[q].path)
             x == IF Gated(r) /\ ~req[q].slot
                  THEN [req[q] EXCEPT !.pc = "gate", !.gen = gen, !.route = r, !.served = r]
                  ELSE [req[q] EXCEPT !.pc = "serving", !.served = r]
  <2>1. IF req[q].slot THEN x.slot /\ x.gen = req[q].gen /\ x.route = req[q].route
                       ELSE ~x.slot
    BY <1>1 DEF RequestState
  <2>2. req' = [req EXCEPT ![q] = x]
    BY <1>7 DEF ServeHTTP
  <2> HIDE DEF x
  <2> QED
    BY <1>1, <2>1, <2>2, MovesWithoutSlot
<1>8. ASSUME NEW q \in Requests, Finish(q), ~req[q].slot
      PROVE  Still
  <2>1. ~IdleRequest.slot /\ req' = [req EXCEPT ![q] = IdleRequest]
    BY <1>1, <1>8, IdleRequestOK DEF Finish
  <2> QED
    BY <1>1, <1>8, <2>1, MovesWithoutSlot
<1>9. CASE \E q \in Requests :
              (GateCheck(q) /\ ~Overshot(q)) \/ (Finish(q) /\ req[q].slot)
  BY <1>9, CheckAcquires, FinishReleases
<1>10. \/ req' = req
       \/ \E q \in Requests : RequestStep(q) \/ \E p \in Paths : LookupPrefixRoute(q, p)
  BY DEF Next, vars, UpdaterStep, RoutePrefix, StartServing, Compile, CompileError, CloseEvicted,
         ReplacePrefixRoutesBySource, RemovePrefixRoute, Reset, Publish
<1>11. req' = req \/ Still
       \/ \E q \in Requests : (GateCheck(q) /\ ~Overshot(q)) \/ (Finish(q) /\ req[q].slot)
  BY <1>3, <1>4, <1>5, <1>6, <1>7, <1>8, <1>10 DEF RequestStep
<1> QED
  BY <1>2, <1>9, <1>11, GateStutters

\* The gates of handleConn and ServeHTTP, whose load, add, re-check and
\* rollback interleave with each other and with swaps of the table, implement
\* a family of counting semaphores with atomic acquisition below the cap.
THEOREM GateIsSemaphore == Spec => ImplementsBulkhead
<1>1. Init => Gate!Init
  <2> SUFFICES ASSUME Init
               PROVE  \A q \in Requests : HeldBy(q) = <<>>
    BY DEF Gate!Init
  <2>1. \A q \in Requests : ~req[q].slot
    BY IdleRequestOK DEF Init
  <2> QED
    BY <2>1 DEF HeldBy
<1>2. CounterInv /\ CounterInv' /\ [Next]_vars
         => [Gate!Next]_([q \in Requests |-> HeldBy(q)])
  BY GateStep
<1> QED
  BY <1>1, <1>2, CounterInvariant, PTL DEF Spec, ImplementsBulkhead, Gate!Spec

-----------------------------------------------------------------------------
(* Discovery.                                                              *)

-----------------------------------------------------------------------------
(* The events of a container in a sequence of events.                      *)

About(s, c) == \E k \in 1..Len(s) : s[k].id = c
Latest(s, c, k) == s[k].id = c /\ \A j \in 1..Len(s) : j > k => s[j].id # c

\* The fields of an event.
LEMMA EventFields ==
    ASSUME NEW e \in Event
    PROVE  /\ e.type \in {"start", "stop"} /\ e.id \in Containers
           /\ e.obj \in {"nil", "running", "exited"}
BY DEF Event

\* Events of one container follow.
LEMMA Followed ==
    ASSUME NEW s \in Seq(Event), NEW t \in Seq(Event), NEW c,
           \A k \in 1..Len(t) : t[k].id = c, Len(t) >= 1
    PROVE  /\ s \o t \in Seq(Event) /\ About(s \o t, c)
           /\ \A k \in 1..Len(s \o t) :
                 Latest(s \o t, c, k) => \E j \in 1..Len(t) : (s \o t)[k] = t[j]
           /\ \A d : d # c => (About(s \o t, d) <=> About(s, d))
           /\ \A d : d # c => \A k \in 1..Len(s \o t) : Latest(s \o t, d, k) =>
                 k \in 1..Len(s) /\ Latest(s, d, k) /\ (s \o t)[k] = s[k]
<1>0. Len(s) \in Nat /\ Len(t) \in Nat
  OBVIOUS
<1> DEFINE r == s \o t
<1>1. /\ r \in Seq(Event) /\ Len(r) = Len(s) + Len(t)
      /\ \A i \in 1..(Len(s) + Len(t)) : r[i] = IF i <= Len(s) THEN s[i] ELSE t[i - Len(s)]
  BY ConcatProperties
<1> HIDE DEF r
<1>2. \A i \in 1..Len(s) : i \in 1..Len(r) /\ r[i] = s[i]
  BY <1>0, <1>1
<1>3. \A i \in 1..Len(r) : i \notin 1..Len(s) => i - Len(s) \in 1..Len(t) /\ r[i] = t[i - Len(s)]
  BY <1>0, <1>1
<1>4. Len(r) \in 1..Len(r) /\ Len(r) \notin 1..Len(s) /\ r[Len(r)].id = c
  <2>1. Len(r) \in 1..Len(r) /\ Len(r) \notin 1..Len(s)
    BY <1>0, <1>1
  <2> QED BY <1>3, <2>1
<1>5. About(r, c)
  BY <1>4 DEF About
<1>6. ASSUME NEW k \in 1..Len(r), Latest(r, c, k) PROVE \E j \in 1..Len(t) : r[k] = t[j]
  <2>1. k \notin 1..Len(s)
    <3>1. ASSUME k \in 1..Len(s) PROVE FALSE
      <4>1. Len(r) > k
        BY <1>0, <1>1, <3>1
      <4> QED BY <1>4, <1>6, <4>1 DEF Latest
    <3> QED BY <3>1
  <2> QED BY <1>3, <2>1
<1>7. ASSUME NEW d, d # c, NEW k \in 1..Len(r), r[k].id = d PROVE k \in 1..Len(s) /\ s[k].id = d
  <2>1. k \in 1..Len(s)
    BY <1>3, <1>7
  <2> QED BY <1>2, <1>7, <2>1
<1>8. ASSUME NEW d, d # c PROVE About(r, d) <=> About(s, d)
  BY <1>2, <1>7, <1>8 DEF About
<1>9. ASSUME NEW d, d # c, NEW k \in 1..Len(r), Latest(r, d, k)
      PROVE  k \in 1..Len(s) /\ Latest(s, d, k) /\ r[k] = s[k]
  <2>1. k \in 1..Len(s) /\ s[k].id = d /\ r[k] = s[k]
    BY <1>2, <1>7, <1>9 DEF Latest
  <2>2. \A j \in 1..Len(s) : j > k => s[j].id # d
    BY <1>2, <1>9 DEF Latest
  <2> QED BY <2>1, <2>2 DEF Latest
<1> QED BY <1>1, <1>5, <1>6, <1>8, <1>9 DEF r

\* One event follows.
LEMMA Queued ==
    ASSUME NEW s \in Seq(Event), NEW e \in Event
    PROVE  /\ Append(s, e) \in Seq(Event) /\ About(Append(s, e), e.id)
           /\ \A k \in 1..Len(Append(s, e)) : Latest(Append(s, e), e.id, k) => Append(s, e)[k] = e
           /\ \A d : d # e.id => (About(Append(s, e), d) <=> About(s, d))
           /\ \A d : d # e.id => \A k \in 1..Len(Append(s, e)) : Latest(Append(s, e), d, k) =>
                 k \in 1..Len(s) /\ Latest(s, d, k) /\ Append(s, e)[k] = s[k]
<1>0. <<e>> \in Seq(Event)
  OBVIOUS
<1>1. PICK t \in Seq(Event) : t = <<e>>
  BY <1>0, Zenon
<1>2. PICK c : c = e.id
  OBVIOUS
<1>3. Len(t) = 1 /\ \A k \in 1..Len(t) : t[k] = e
  BY <1>1
<1>4. (\A k \in 1..Len(t) : t[k].id = c) /\ Len(t) >= 1
  BY <1>2, <1>3
<1>5. Append(s, e) = s \o t
  BY <1>1
<1>6. /\ s \o t \in Seq(Event) /\ About(s \o t, c)
      /\ \A k \in 1..Len(s \o t) :
            Latest(s \o t, c, k) => \E j \in 1..Len(t) : (s \o t)[k] = t[j]
      /\ \A d : d # c => (About(s \o t, d) <=> About(s, d))
      /\ \A d : d # c => \A k \in 1..Len(s \o t) : Latest(s \o t, d, k) =>
            k \in 1..Len(s) /\ Latest(s, d, k) /\ (s \o t)[k] = s[k]
  BY <1>4, Followed
<1>7. PICK r : r = s \o t
  OBVIOUS
<1>8. \A k \in 1..Len(r) : Latest(r, c, k) => r[k] = e
  BY <1>3, <1>6, <1>7
<1> QED BY <1>2, <1>5, <1>6, <1>7, <1>8

\* The first event is taken.
LEMMA Taken ==
    ASSUME NEW s \in Seq(Event), s # <<>>
    PROVE  /\ Head(s) \in Event /\ Tail(s) \in Seq(Event) /\ Len(Tail(s)) = Len(s) - 1
           /\ \A d : About(s, d) <=> (About(Tail(s), d) \/ Head(s).id = d)
           /\ \A d : \A k \in 1..Len(Tail(s)) : Latest(Tail(s), d, k) =>
                 k + 1 \in 1..Len(s) /\ Latest(s, d, k + 1) /\ Tail(s)[k] = s[k + 1]
           /\ ~About(Tail(s), Head(s).id) =>
                 1 \in 1..Len(s) /\ Latest(s, Head(s).id, 1) /\ s[1] = Head(s)
<1> DEFINE t == Tail(s)
<1>0. Len(s) \in Nat /\ Len(s) >= 1 /\ Head(s) = s[1]
  OBVIOUS
<1>1. Head(s) \in Event /\ t \in Seq(Event) /\ Len(t) = Len(s) - 1
      /\ \A i \in 1..Len(t) : t[i] = s[i + 1]
  BY HeadTailProperties
<1> HIDE DEF t
<1>2. \A i \in 1..Len(t) : i + 1 \in 1..Len(s) /\ t[i] = s[i + 1]
  BY <1>0, <1>1
<1>3. \A i \in 1..Len(s) : i # 1 => i - 1 \in 1..Len(t) /\ s[i] = t[i - 1]
  <2>1. ASSUME NEW i \in 1..Len(s), i # 1 PROVE i - 1 \in 1..Len(t) /\ (i - 1) + 1 = i
    BY <1>0, <1>1, <2>1
  <2> QED BY <1>1, <2>1
<1>4. 1 \in 1..Len(s)
  BY <1>0
<1>5. ASSUME NEW d PROVE About(s, d) <=> (About(t, d) \/ Head(s).id = d)
  BY <1>0, <1>2, <1>3, <1>4 DEF About
<1>6. ASSUME NEW d, NEW k \in 1..Len(t), Latest(t, d, k)
      PROVE  k + 1 \in 1..Len(s) /\ Latest(s, d, k + 1) /\ t[k] = s[k + 1]
  <2>1. ASSUME NEW j \in 1..Len(s), j > k + 1 PROVE s[j].id # d
    <3>1. j # 1 /\ j - 1 > k
      BY <1>0, <1>1, <2>1
    <3> QED BY <1>3, <1>6, <3>1 DEF Latest
  <2> QED BY <1>2, <1>6, <2>1 DEF Latest
<1>7. ASSUME ~About(t, Head(s).id) PROVE Latest(s, Head(s).id, 1)
  <2>1. ASSUME NEW j \in 1..Len(s), j > 1 PROVE s[j].id # Head(s).id
    <3>1. j # 1
      BY <1>0, <2>1
    <3> QED BY <1>3, <1>7, <3>1 DEF About
  <2> QED BY <1>0, <2>1 DEF Latest
<1> QED BY <1>0, <1>1, <1>4, <1>5, <1>6, <1>7 DEF t

-----------------------------------------------------------------------------
(* What the events on their way say of the containers.                     *)

\* An event tells of its container what W does; one that was looked up also
\* shows it running.
Tells(e, W) == e.type = IF e.id \in W THEN "start" ELSE "stop"
Shows(e, W) == Tells(e, W) /\ (e.id \in W => e.obj = "running")

\* The watcher w holds an event of c.
Hand(w, c) == w.pc \in {"lookup", "send"} /\ w.event.id = c

\* The last event of c on its way tells the truth, in the stream, in the hand of
\* the watcher or in the queue.
Truthful(s, w, q, W, c) ==
    /\ \A k \in 1..Len(s) : Latest(s, c, k) => Tells(s[k], W)
    /\ ~About(s, c) /\ Hand(w, c) => Tells(w.event, W) /\ (w.pc = "send" => Shows(w.event, W))
    /\ ~About(s, c) /\ ~Hand(w, c) => \A k \in 1..Len(q) : Latest(q, c, k) => Shows(q[k], W)

Pending(s, w, q, c) == About(s, c) \/ Hand(w, c) \/ About(q, c)

\* What worker v knows, or is about to find out, of c is what W says.
Agrees(v, a, W, c) ==
    \/ v.pc = "list"
    \/ v.pc = "listed" /\ (c \in v.set <=> c \in W)
    \/ v.pc \in {"idle", "publish"} /\ (c \in a <=> c \in W)

Accounted(s, w, q, W, v, a) ==
    \A c \in Containers :
        Truthful(s, w, q, W, c) /\ (Pending(s, w, q, c) \/ Agrees(v, a, W, c))

\* The engine reports a change of container c to a watcher that is connected.
LEMMA Reported ==
    ASSUME NEW s \in Seq(Event), NEW w, NEW q, NEW W, NEW v, NEW a, Accounted(s, w, q, W, v, a),
           NEW t \in Seq(Event), NEW c, \A k \in 1..Len(t) : t[k].id = c, Len(t) >= 1,
           NEW X, \A k \in 1..Len(t) : Tells(t[k], X), \A d : d # c => (d \in X <=> d \in W)
    PROVE  Accounted(s \o t, w, q, X, v, a)
<1> DEFINE r == s \o t
<1>1. /\ r \in Seq(Event) /\ About(r, c)
      /\ \A k \in 1..Len(r) : Latest(r, c, k) => \E j \in 1..Len(t) : r[k] = t[j]
      /\ \A d : d # c => (About(r, d) <=> About(s, d))
      /\ \A d : d # c => \A k \in 1..Len(r) : Latest(r, d, k) =>
            k \in 1..Len(s) /\ Latest(s, d, k) /\ r[k] = s[k]
  BY Followed
<1> HIDE DEF r
<1>2. Truthful(r, w, q, X, c) /\ Pending(r, w, q, c)
  BY <1>1 DEF Truthful, Pending
<1>3. ASSUME NEW d \in Containers, d # c
      PROVE  Truthful(r, w, q, X, d) /\ (Pending(r, w, q, d) \/ Agrees(v, a, X, d))
  <2>1. Truthful(s, w, q, W, d) /\ (Pending(s, w, q, d) \/ Agrees(v, a, W, d))
    BY DEF Accounted
  <2>2. About(r, d) <=> About(s, d)
    BY <1>1, <1>3
  <2>3. \A e : e.id = d /\ Tells(e, W) => Tells(e, X)
    BY <1>3 DEF Tells
  <2>4. \A e : e.id = d /\ Shows(e, W) => Shows(e, X)
    BY <1>3 DEF Tells, Shows
  <2>5. \A k \in 1..Len(r) : Latest(r, d, k) => Tells(r[k], X)
    BY <1>1, <1>3, <2>1, <2>3 DEF Truthful, Latest
  <2>6. ~About(r, d) /\ Hand(w, d) => Tells(w.event, X) /\ (w.pc = "send" => Shows(w.event, X))
    BY <2>1, <2>2, <2>3, <2>4 DEF Truthful, Hand
  <2>7. ~About(r, d) /\ ~Hand(w, d) => \A k \in 1..Len(q) : Latest(q, d, k) => Shows(q[k], X)
    BY <2>1, <2>2, <2>4 DEF Truthful, Latest
  <2>8. Truthful(r, w, q, X, d)
    BY <2>5, <2>6, <2>7 DEF Truthful
  <2>9. Agrees(v, a, W, d) => Agrees(v, a, X, d)
    BY <1>3 DEF Agrees
  <2>10. Pending(s, w, q, d) => Pending(r, w, q, d)
    BY <2>2 DEF Pending
  <2> QED BY <2>1, <2>8, <2>9, <2>10
<1>4. Accounted(r, w, q, X, v, a)
  BY <1>2, <1>3 DEF Accounted
<1> QED BY <1>4 DEF r

\* The watcher, whose hands are empty, reads the first event of the stream.
LEMMA ReadOn ==
    ASSUME NEW s \in Seq(Event), s # <<>>, NEW w, NEW q, NEW W, NEW v, NEW a,
           Accounted(s, w, q, W, v, a), w.pc \notin {"lookup", "send"},
           NEW x, x.event = Head(s), x.pc = IF Head(s).type = "start" THEN "lookup" ELSE "send"
    PROVE  Accounted(Tail(s), x, q, W, v, a)
<1>1. PICK t, e : t = Tail(s) /\ e = Head(s)
  OBVIOUS
<1>2. /\ e \in Event /\ t \in Seq(Event)
      /\ \A d : About(s, d) <=> (About(t, d) \/ e.id = d)
      /\ \A d : \A k \in 1..Len(t) : Latest(t, d, k) =>
            k + 1 \in 1..Len(s) /\ Latest(s, d, k + 1) /\ t[k] = s[k + 1]
      /\ ~About(t, e.id) => 1 \in 1..Len(s) /\ Latest(s, e.id, 1) /\ s[1] = e
  BY <1>1, Taken
<1>3. \A d : Hand(x, d) <=> d = e.id
  BY <1>1 DEF Hand
<1>4. \A d : ~Hand(w, d)
  BY DEF Hand
<1>5. ASSUME NEW d \in Containers
      PROVE  Truthful(t, x, q, W, d) /\ (Pending(t, x, q, d) \/ Agrees(v, a, W, d))
  <2>1. Truthful(s, w, q, W, d) /\ (Pending(s, w, q, d) \/ Agrees(v, a, W, d))
    BY DEF Accounted
  <2>2. \A k \in 1..Len(t) : Latest(t, d, k) => Tells(t[k], W)
    BY <1>2, <2>1 DEF Truthful
  <2>3. ASSUME ~About(t, d), Hand(x, d)
        PROVE  Tells(x.event, W) /\ (x.pc = "send" => Shows(x.event, W))
    <3>1. d = e.id /\ Tells(e, W)
      BY <1>2, <1>3, <2>1, <2>3 DEF Truthful
    <3>2. x.pc = "send" => e.type # "start"
      BY <1>1
    <3> QED BY <1>1, <3>1, <3>2 DEF Tells, Shows
  <2>4. ~About(t, d) /\ ~Hand(x, d) => \A k \in 1..Len(q) : Latest(q, d, k) => Shows(q[k], W)
    BY <1>2, <1>3, <1>4, <2>1 DEF Truthful
  <2>5. Truthful(t, x, q, W, d)
    BY <2>2, <2>3, <2>4 DEF Truthful
  <2>6. Pending(s, w, q, d) => Pending(t, x, q, d)
    BY <1>2, <1>3, <1>4 DEF Pending
  <2> QED BY <2>1, <2>5, <2>6
<1> QED BY <1>1, <1>5 DEF Accounted

\* The listing for a start event has told what there is.
LEMMA LookedUpNow ==
    ASSUME NEW s, NEW w, NEW q, NEW W, NEW v, NEW a,
           Accounted(s, w, q, W, v, a), w.pc = "lookup", w.event \in Event,
           NEW x, x.pc = "send", NEW o \in {"nil", "running", "exited"},
           x.event = [w.event EXCEPT !.obj = o], w.event.id \in W => o = "running"
    PROVE  Accounted(s, x, q, W, v, a)
<1>1. x.event.id = w.event.id /\ x.event.type = w.event.type /\ x.event.obj = o
  BY DEF Event
<1>2. \A d : Hand(x, d) <=> Hand(w, d)
  BY <1>1 DEF Hand
<1>3. ASSUME NEW d \in Containers
      PROVE  Truthful(s, x, q, W, d) /\ (Pending(s, x, q, d) \/ Agrees(v, a, W, d))
  <2>1. Truthful(s, w, q, W, d) /\ (Pending(s, w, q, d) \/ Agrees(v, a, W, d))
    BY DEF Accounted
  <2>2. Tells(w.event, W) => Tells(x.event, W) /\ Shows(x.event, W)
    BY <1>1 DEF Tells, Shows
  <2>3. Truthful(s, x, q, W, d)
    BY <1>2, <2>1, <2>2 DEF Truthful
  <2>4. Pending(s, w, q, d) => Pending(s, x, q, d)
    BY <1>2 DEF Pending
  <2> QED BY <2>1, <2>3, <2>4
<1> QED BY <1>3 DEF Accounted

\* The watcher puts its event into the queue.
LEMMA Sent ==
    ASSUME NEW s, NEW w, NEW q \in Seq(Event), NEW W, NEW v, NEW a,
           Accounted(s, w, q, W, v, a), w.pc = "send", w.event \in Event,
           NEW x, x.pc \notin {"lookup", "send"}
    PROVE  Accounted(s, x, Append(q, w.event), W, v, a)
<1>1. PICK r, e : r = Append(q, w.event) /\ e = w.event
  OBVIOUS
<1>2. /\ r \in Seq(Event) /\ About(r, e.id)
      /\ \A k \in 1..Len(r) : Latest(r, e.id, k) => r[k] = e
      /\ \A d : d # e.id => (About(r, d) <=> About(q, d))
      /\ \A d : d # e.id => \A k \in 1..Len(r) : Latest(r, d, k) =>
            k \in 1..Len(q) /\ Latest(q, d, k) /\ r[k] = q[k]
  BY <1>1, Queued
<1>3. \A d : ~Hand(x, d)
  BY DEF Hand
<1>4. \A d : Hand(w, d) <=> d = e.id
  BY <1>1 DEF Hand
<1>5. ASSUME NEW d \in Containers
      PROVE  Truthful(s, x, r, W, d) /\ (Pending(s, x, r, d) \/ Agrees(v, a, W, d))
  <2>1. Truthful(s, w, q, W, d) /\ (Pending(s, w, q, d) \/ Agrees(v, a, W, d))
    BY DEF Accounted
  <2>2. ASSUME ~About(s, d), NEW k \in 1..Len(r), Latest(r, d, k) PROVE Shows(r[k], W)
    <3>1. CASE d = e.id
      <4>1. Shows(e, W)
        BY <1>1, <1>4, <2>1, <2>2, <3>1 DEF Truthful
      <4> QED BY <1>2, <2>2, <3>1, <4>1
    <3>2. CASE d # e.id
      BY <1>2, <1>4, <2>1, <2>2, <3>2 DEF Truthful
    <3> QED BY <3>1, <3>2
  <2>3. Truthful(s, x, r, W, d)
    BY <1>3, <2>1, <2>2 DEF Truthful
  <2>4. Pending(s, w, q, d) => Pending(s, x, r, d)
    BY <1>2, <1>4 DEF Pending
  <2> QED BY <2>1, <2>3, <2>4
<1> QED BY <1>1, <1>5 DEF Accounted

\* The event worker, which was idle, takes the first event of the queue: it knows
\* of the container what the event shows, or rescans.
LEMMA Handled ==
    ASSUME NEW s, NEW w, NEW q \in Seq(Event), q # <<>>, NEW W, NEW v, NEW a,
           Accounted(s, w, q, W, v, a), v.pc = "idle",
           NEW u, NEW b,
           \/ u.pc = "list"
           \/ /\ u.pc \in {"idle", "publish"} /\ \A d : d # Head(q).id => (d \in b <=> d \in a)
              /\ Shows(Head(q), W) => (Head(q).id \in b <=> Head(q).id \in W)
    PROVE  Accounted(s, w, Tail(q), W, u, b)
<1>1. PICK t, e : t = Tail(q) /\ e = Head(q)
  OBVIOUS
<1>2. /\ e \in Event /\ t \in Seq(Event)
      /\ \A d : About(q, d) <=> (About(t, d) \/ e.id = d)
      /\ \A d : \A k \in 1..Len(t) : Latest(t, d, k) =>
            k + 1 \in 1..Len(q) /\ Latest(q, d, k + 1) /\ t[k] = q[k + 1]
      /\ ~About(t, e.id) => 1 \in 1..Len(q) /\ Latest(q, e.id, 1) /\ q[1] = e
  BY <1>1, Taken
<1>3. ASSUME NEW d \in Containers
      PROVE  Truthful(s, w, t, W, d) /\ (Pending(s, w, t, d) \/ Agrees(u, b, W, d))
  <2>1. Truthful(s, w, q, W, d) /\ (Pending(s, w, q, d) \/ Agrees(v, a, W, d))
    BY DEF Accounted
  <2>2. Truthful(s, w, t, W, d)
    BY <1>2, <2>1 DEF Truthful
  <2>3. ASSUME ~Pending(s, w, t, d), u.pc # "list" PROVE Agrees(u, b, W, d)
    <3>1. CASE d = e.id
      <4>1. Shows(e, W)
        BY <1>2, <2>1, <2>3, <3>1 DEF Truthful, Pending
      <4> QED BY <1>1, <2>3, <3>1, <4>1 DEF Agrees
    <3>2. CASE d # e.id
      <4>1. ~Pending(s, w, q, d)
        BY <1>2, <2>3, <3>2 DEF Pending
      <4>2. d \in a <=> d \in W
        BY <2>1, <4>1 DEF Agrees
      <4> QED BY <1>1, <2>3, <3>2, <4>2 DEF Agrees
    <3> QED BY <3>1, <3>2
  <2>4. u.pc = "list" => Agrees(u, b, W, d)
    BY DEF Agrees
  <2> QED BY <2>2, <2>3, <2>4
<1> QED BY <1>1, <1>3 DEF Accounted

\* What only the worker does, or the watcher between two events.
LEMMA Onward ==
    ASSUME NEW s, NEW w, NEW q, NEW W, NEW v, NEW a, Accounted(s, w, q, W, v, a),
           NEW x, \A d : Hand(x, d) <=> Hand(w, d),
           Hand(x, x.event.id) => x.event = w.event /\ x.pc = w.pc,
           NEW u, NEW b, \A c \in Containers : Agrees(v, a, W, c) => Agrees(u, b, W, c)
    PROVE  Accounted(s, x, q, W, u, b)
<1>1. ASSUME NEW d \in Containers
      PROVE  Truthful(s, x, q, W, d) /\ (Pending(s, x, q, d) \/ Agrees(u, b, W, d))
  <2>1. Truthful(s, w, q, W, d) /\ (Pending(s, w, q, d) \/ Agrees(v, a, W, d))
    BY DEF Accounted
  <2>2. Hand(x, d) => x.event = w.event /\ x.pc = w.pc
    BY DEF Hand
  <2>3. Truthful(s, x, q, W, d)
    BY <2>1, <2>2 DEF Truthful
  <2>4. Pending(s, w, q, d) => Pending(s, x, q, d)
    BY DEF Pending
  <2> QED BY <2>1, <2>3, <2>4
<1> QED BY <1>1 DEF Accounted

-----------------------------------------------------------------------------
(* Types.                                                                  *)

Labels == {"off", "idle", "list", "listed", "publish", "exited"}
Scan == [pc : Labels, set : SUBSET Containers]

\* What TypeOK says, and that the watcher's state is a record.
Typed ==
    /\ world \in SUBSET Containers /\ changes \in 0..MaxChanges
    /\ failures \in 0..MaxFailures /\ missed \in BOOLEAN
    /\ stream \in Seq(Event) /\ queue \in Seq(Event) /\ Len(queue) <= QueueSize
    /\ watch = [pc |-> watch.pc, event |-> watch.event]
    /\ watch.pc \in {"off", "dial", "check", "read", "lookup", "send", "ended"}
    /\ watch.pc \in {"lookup", "send"} => watch.event \in Event
    /\ activeRoutes \in SUBSET Containers /\ published \in SUBSET Containers
    /\ worker \in [Workers -> Scan]
    /\ polling \in BOOLEAN /\ cancelled \in BOOLEAN
    /\ life \in {"running", "stopping", "stopped"}

\* The types of the proof are at least those of the model.
LEMMA TypedIsTypeOK == Typed => DiscoveryTypeOK
BY DEF Typed, DiscoveryTypeOK, Scan, Labels

\* A goroutine that rescans, at point l of its scan with S.
LEMMA AtIsScan ==
    ASSUME NEW l \in Labels, NEW S \in SUBSET Containers
    PROVE  At(l, S) \in Scan /\ At(l, S).pc = l /\ At(l, S).set = S
BY DEF At, Scan

\* The state Start begins in is well typed.
LEMMA StartTyped ==
    ASSUME DiscoveryInit
    PROVE  Typed
<1>1. /\ world \in SUBSET Containers /\ changes = 0 /\ failures = 0 /\ missed = FALSE
      /\ stream = <<>> /\ watch = [pc |-> "off", event |-> NoEvent] /\ queue = <<>>
      /\ activeRoutes = {} /\ published = {} /\ polling \in BOOLEAN /\ cancelled = FALSE
      /\ life = "running"
      /\ worker = [w \in Workers |-> At(IF w = "start" THEN "list" ELSE "off", {})]
  BY DEF DiscoveryInit
<1>2. MaxChanges \in Nat /\ MaxFailures \in Nat /\ QueueSize \in Nat
  BY DiscoveryAssumption
<1>3. <<>> \in Seq(Event) /\ Len(<<>>) = 0
  OBVIOUS
<1>4. worker \in [Workers -> Scan]
  <2>1. \A w \in Workers : (IF w = "start" THEN "list" ELSE "off") \in Labels
    BY DEF Labels
  <2>2. \A w \in Workers : At(IF w = "start" THEN "list" ELSE "off", {}) \in Scan
    BY <2>1, AtIsScan
  <2> QED BY <1>1, <2>2, Zenon
<1>5. /\ changes \in 0..MaxChanges /\ failures \in 0..MaxFailures
      /\ stream \in Seq(Event) /\ queue \in Seq(Event) /\ Len(queue) <= QueueSize
  BY <1>1, <1>2, <1>3
<1>6. /\ watch = [pc |-> watch.pc, event |-> watch.event] /\ watch.pc = "off"
  BY <1>1
<1> QED BY <1>1, <1>4, <1>5, <1>6 DEF Typed

\* A goroutine that rescans goes on.
LEMMA ScansOn ==
    ASSUME worker \in [Workers -> Scan], NEW w \in Workers, NEW v \in Scan
    PROVE  /\ [worker EXCEPT ![w] = v] \in [Workers -> Scan] /\ [worker EXCEPT ![w] = v][w] = v
           /\ \A u \in Workers : u # w => [worker EXCEPT ![w] = v][u] = worker[u]
OBVIOUS

\* Start, the event worker and the poll worker may rescan.
LEMMA ThreeWorkers == "start" \in Workers /\ "event" \in Workers /\ "poll" \in Workers
BY DEF Workers

\* The changes of the engine.
LEMMA EmitTyped ==
    ASSUME Typed, NEW t \in Seq(Event), Emit(t), world' \in SUBSET Containers
    PROVE  Typed'
<1>1. /\ changes < MaxChanges /\ changes' = changes + 1
      /\ stream' = IF Connected THEN stream \o t ELSE stream
      /\ missed' = (missed \/ (~Connected /\ worker["start"].pc # "list"))
      /\ UNCHANGED <<failures, watch, queue, activeRoutes, worker, published, polling, cancelled, life>>
  BY DEF Emit
<1>2. changes' \in 0..MaxChanges
  BY <1>1, DiscoveryAssumption DEF Typed
<1>3. stream' \in Seq(Event)
  <2>1. stream \o t \in Seq(Event)
    BY ConcatProperties DEF Typed
  <2> QED BY <1>1, <2>1 DEF Typed
<1>4. missed' \in BOOLEAN
  BY <1>1, Zenon
<1> QED BY <1>1, <1>2, <1>3, <1>4 DEF Typed

\* The events of a change.
LEMMA ChangeEvents ==
    ASSUME NEW c \in Containers, NEW n \in 1..2
    PROVE  /\ Started(c) \in Event /\ Started(c).id = c /\ Started(c).type = "start"
           /\ Died(c) \in Event /\ Died(c).id = c /\ Died(c).type = "stop"
           /\ <<Started(c)>> \in Seq(Event) /\ Len(<<Started(c)>>) = 1
           /\ \A k \in 1..Len(<<Started(c)>>) : <<Started(c)>>[k] = Started(c)
           /\ [i \in 1..n |-> Died(c)] \in Seq(Event) /\ Len([i \in 1..n |-> Died(c)]) = n
           /\ \A k \in 1..n : [i \in 1..n |-> Died(c)][k] = Died(c)
<1>1. /\ Started(c) \in Event /\ Started(c).id = c /\ Started(c).type = "start"
      /\ Died(c) \in Event /\ Died(c).id = c /\ Died(c).type = "stop"
  BY DEF Started, Died, Event
<1>2. PICK e \in Event, f \in Event : e = Started(c) /\ f = Died(c)
  BY <1>1
<1>3. <<e>> \in Seq(Event) /\ Len(<<e>>) = 1 /\ \A k \in 1..Len(<<e>>) : <<e>>[k] = e
  OBVIOUS
<1>4. n \in Nat
  OBVIOUS
<1>5. [i \in 1..n |-> f] \in Seq(Event)
  <2>1. [i \in 1..n |-> f] \in [1..n -> Event]
    OBVIOUS
  <2> QED BY <1>4, <2>1
<1>6. Len([i \in 1..n |-> f]) = n
  BY <1>4
<1>7. \A k \in 1..n : [i \in 1..n |-> f][k] = f
  OBVIOUS
<1> QED BY <1>1, <1>2, <1>3, <1>5, <1>6, <1>7

-----------------------------------------------------------------------------
(* The event path.                                                         *)

\* Nothing that the event path has no answer to has happened.
Calm == ~polling /\ ~cancelled /\ ~missed /\ failures = 0

\* Start is scanning; nothing has changed since it listed the containers.
ScanFirst ==
    /\ watch.pc = "off" /\ worker["event"].pc = "off" /\ stream = <<>> /\ queue = <<>>
    /\ \/ worker["start"].pc = "list"
       \/ worker["start"].pc = "listed" /\ worker["start"].set = world
       \/ worker["start"].pc = "publish" /\ worker["start"].set = world /\ activeRoutes = world

\* The watch is being set up, or every container is accounted for by the events on
\* their way or by the routes in memory, which the event worker publishes.
Following ==
    /\ watch.pc # "off"
    /\ watch.pc = "dial" =>
          /\ stream = <<>> /\ queue = <<>> /\ activeRoutes = world /\ published = world
          /\ worker["event"].pc = "idle"
    /\ Connected =>
          /\ Accounted(stream, watch, queue, world, worker["event"], activeRoutes)
          /\ worker["event"].pc = "publish" => worker["event"].set = activeRoutes
          /\ worker["event"].pc = "idle" => published = activeRoutes

Begun ==
    /\ worker["poll"].pc = "off"
    /\ worker["start"].pc # "exited" => ScanFirst
    /\ worker["start"].pc = "exited" => Following

EventInv == Typed /\ (Calm => Begun)

\* Start begins with its scan.
LEMMA EventInit ==
    ASSUME DiscoveryInit
    PROVE  EventInv
<1>1. worker["poll"].pc = "off" /\ worker["event"].pc = "off" /\ worker["start"].pc = "list"
  BY DEF DiscoveryInit, Workers, At
<1>2. watch.pc = "off" /\ stream = <<>> /\ queue = <<>>
  BY DEF DiscoveryInit
<1> QED BY <1>1, <1>2, StartTyped DEF EventInv, Begun, ScanFirst

\* A container starts or stops.
LEMMA EmitKeeps ==
    ASSUME EventInv, NEW c \in Containers, NEW t \in Seq(Event), Emit(t),
           \A k \in 1..Len(t) : t[k].id = c, Len(t) >= 1,
           world' \in SUBSET Containers, \A k \in 1..Len(t) : Tells(t[k], world'),
           \A d : d # c => (d \in world' <=> d \in world)
    PROVE  EventInv'
<1>1. Typed'
  BY EmitTyped DEF EventInv
<1>2. /\ stream' = IF Connected THEN stream \o t ELSE stream
      /\ missed' = (missed \/ (~Connected /\ worker["start"].pc # "list"))
      /\ failures' = failures /\ watch' = watch /\ queue' = queue /\ activeRoutes' = activeRoutes
      /\ worker' = worker /\ published' = published /\ polling' = polling
      /\ cancelled' = cancelled
  BY DEF Emit
<1>3. ASSUME Calm' PROVE Begun'
  <2>1. Calm /\ (Connected \/ worker["start"].pc = "list")
    BY <1>2, <1>3, Zenon DEF Calm
  <2>2. Begun
    BY <2>1 DEF EventInv
  <2>3. CASE worker["start"].pc = "list"
    <3>1. ScanFirst /\ ~Connected
      BY <2>2, <2>3 DEF Begun, ScanFirst, Connected
    <3>2. stream' = stream
      BY <1>2, <3>1
    <3>3. ScanFirst'
      BY <1>2, <2>3, <3>1, <3>2 DEF ScanFirst
    <3> QED BY <1>2, <2>2, <2>3, <3>3 DEF Begun
  <2>4. CASE Connected
    <3>1. Following /\ worker["start"].pc = "exited"
      BY <2>2, <2>4 DEF Begun, ScanFirst, Connected
    <3>2. stream' = stream \o t
      BY <1>2, <2>4
    <3>3. PICK W : W = world'
      OBVIOUS
    <3>4. Accounted(stream \o t, watch, queue, W, worker["event"], activeRoutes)
      <4>1. stream \in Seq(Event)
        BY DEF EventInv, Typed
      <4>2. Accounted(stream, watch, queue, world, worker["event"], activeRoutes)
        BY <2>4, <3>1 DEF Following
      <4> QED BY <3>3, <4>1, <4>2, Reported
    <3>5. Connected' /\ watch'.pc # "dial" /\ watch'.pc # "off"
      BY <1>2, <2>4 DEF Connected
    <3>6. Following'
      BY <1>2, <2>4, <3>1, <3>2, <3>3, <3>4, <3>5 DEF Following
    <3> QED BY <1>2, <2>2, <3>1, <3>6 DEF Begun
  <2> QED BY <2>1, <2>3, <2>4
<1> QED BY <1>1, <1>3 DEF EventInv

\* Either change of a container, with the events the engine sends of it.
LEMMA ContainerKeeps ==
    ASSUME EventInv, NEW c \in Containers, ContainerStarts(c) \/ ContainerStops(c)
    PROVE  EventInv'
<1>0. world \in SUBSET Containers /\ 1 \in 1..2
  BY DEF EventInv, Typed
<1>1. CASE ContainerStarts(c)
  <2>1. PICK t : t = <<Started(c)>>
    OBVIOUS
  <2>2. t \in Seq(Event) /\ Len(t) = 1 /\ \A k \in 1..Len(t) : t[k] = Started(c)
    BY <1>0, <2>1, ChangeEvents
  <2>3. Started(c).id = c /\ Started(c).type = "start"
    BY <1>0, ChangeEvents
  <2>4. world' = world \cup {c} /\ Emit(t)
    BY <1>1, <2>1 DEF ContainerStarts
  <2>5. world' \in SUBSET Containers /\ \A d : d # c => (d \in world' <=> d \in world)
    BY <1>0, <2>4
  <2>6. \A k \in 1..Len(t) : t[k].id = c /\ Tells(t[k], world')
    BY <2>2, <2>3, <2>4 DEF Tells
  <2>7. Len(t) >= 1
    BY <2>2
  <2> QED BY <2>2, <2>4, <2>5, <2>6, <2>7, EmitKeeps
<1>2. CASE ContainerStops(c)
  <2>0. PICK n \in 1..2 : Emit([i \in 1..n |-> Died(c)])
    BY <1>2 DEF ContainerStops
  <2>1. PICK t : t = [i \in 1..n |-> Died(c)]
    OBVIOUS
  <2>2. t \in Seq(Event) /\ Len(t) = n /\ \A k \in 1..n : t[k] = Died(c)
    BY <2>1, ChangeEvents
  <2>3. Died(c).id = c /\ Died(c).type = "stop"
    BY <1>0, ChangeEvents
  <2>4. world' = world \ {c} /\ Emit(t)
    BY <1>2, <2>0, <2>1 DEF ContainerStops
  <2>5. world' \in SUBSET Containers /\ \A d : d # c => (d \in world' <=> d \in world)
    BY <1>0, <2>4
  <2>6. \A k \in 1..Len(t) : t[k].id = c /\ Tells(t[k], world')
    BY <2>2, <2>3, <2>4 DEF Tells
  <2>7. Len(t) >= 1
    BY <2>2
  <2> QED BY <2>2, <2>4, <2>5, <2>6, <2>7, EmitKeeps
<1> QED BY <1>1, <1>2

\* A worker goes on while nothing else changes but what it works on.
LEMMA WorkerTyped ==
    ASSUME Typed, NEW w \in Workers, NEW v \in Scan, worker' = [worker EXCEPT ![w] = v],
           UNCHANGED <<world, changes, missed, stream, watch, queue, polling, cancelled, life>>,
           failures' \in 0..MaxFailures, activeRoutes' \in SUBSET Containers,
           published' \in SUBSET Containers
    PROVE  Typed'
<1>1. worker' \in [Workers -> Scan]
  BY ScansOn DEF Typed
<1> QED BY <1>1 DEF Typed

\* A worker has listed the containers: what it has listed is the truth.
LEMMA ListKeeps ==
    ASSUME EventInv, NEW w \in Workers, ListContainers(w)
    PROVE  EventInv'
<1>1. /\ worker[w].pc = "list" /\ worker' = [worker EXCEPT ![w] = At("listed", world)]
      /\ UNCHANGED <<engine, failures, watch, queue, activeRoutes, published, polling, cancelled, life>>
  BY DEF ListContainers
<1>2. /\ world' = world /\ changes' = changes /\ missed' = missed /\ stream' = stream
      /\ failures' = failures /\ watch' = watch /\ queue' = queue /\ activeRoutes' = activeRoutes
      /\ published' = published /\ polling' = polling /\ cancelled' = cancelled /\ life' = life
  BY <1>1 DEF engine
<1>3. PICK v \in Scan : v = At("listed", world) /\ v.pc = "listed" /\ v.set = world
  BY AtIsScan DEF EventInv, Typed, Labels
<1>4. /\ worker'[w] = v /\ \A u \in Workers : u # w => worker'[u] = worker[u]
  BY <1>1, <1>3, ScansOn DEF EventInv, Typed
<1>5. Typed'
  BY <1>1, <1>2, <1>3, WorkerTyped DEF EventInv, Typed
<1>6. ASSUME Calm' PROVE Begun'
  <2>1. Calm /\ Begun
    BY <1>2, <1>6 DEF Calm, EventInv
  <2>2. CASE w = "start"
    <3>1. ScanFirst /\ worker'["event"] = worker["event"] /\ worker'["poll"] = worker["poll"]
      BY <1>1, <1>4, <2>1, <2>2, ThreeWorkers DEF Begun
    <3>2. ScanFirst' /\ worker'["start"].pc = "listed"
      BY <1>2, <1>3, <1>4, <2>2, <3>1 DEF ScanFirst
    <3> QED BY <2>1, <3>1, <3>2 DEF Begun
  <2>3. CASE w = "event"
    <3>1. /\ worker["start"].pc = "exited" /\ Following /\ watch.pc # "dial"
          /\ worker'["start"] = worker["start"] /\ worker'["poll"] = worker["poll"]
      BY <1>1, <1>4, <2>1, <2>3, ThreeWorkers DEF Begun, ScanFirst, Following
    <3>2. ASSUME Connected PROVE Accounted(stream, watch, queue, world, v, activeRoutes)
      <4>1. Accounted(stream, watch, queue, world, worker["event"], activeRoutes)
        BY <3>1, <3>2 DEF Following
      <4>2. \A c \in Containers : Agrees(v, activeRoutes, world, c)
        BY <1>3 DEF Agrees
      <4> QED BY <4>1, <4>2, Onward
    <3>3. Following'
      BY <1>2, <1>3, <1>4, <2>3, <3>1, <3>2 DEF Following, Connected
    <3> QED BY <2>1, <3>1, <3>3 DEF Begun
  <2>4. CASE w = "poll"
    BY <1>1, <2>1, <2>4 DEF Begun
  <2> QED BY <2>2, <2>3, <2>4 DEF Workers
<1> QED BY <1>5, <1>6 DEF EventInv

\* A listing that fails is not calm.
LEMMA ListFailsKeeps ==
    ASSUME EventInv, NEW w \in Workers, ListFails(w)
    PROVE  EventInv'
<1>1. /\ worker[w].pc = "list" /\ worker' = [worker EXCEPT ![w] = At("listed", {})]
      /\ cancelled \/ failures < MaxFailures
      /\ failures' = IF cancelled THEN failures ELSE failures + 1
      /\ UNCHANGED <<engine, watch, queue, activeRoutes, published, polling, cancelled, life>>
  BY DEF ListFails
<1>2. PICK v \in Scan : v = At("listed", {})
  BY AtIsScan DEF Labels
<1>3. failures' \in 0..MaxFailures
  <2>1. failures \in 0..MaxFailures /\ MaxFailures \in Nat
    BY DiscoveryAssumption DEF EventInv, Typed
  <2> QED BY <1>1, <2>1
<1>4. Typed'
  BY <1>1, <1>2, <1>3, WorkerTyped DEF EventInv, Typed, engine
<1>5. ~Calm'
  <2>1. failures \in Nat
    BY DEF EventInv, Typed
  <2> QED BY <1>1, <2>1 DEF Calm
<1> QED BY <1>4, <1>5 DEF EventInv

\* The listing replaces the routes in memory.
LEMMA OverwriteKeeps ==
    ASSUME EventInv, NEW w \in Workers, Overwrite(w)
    PROVE  EventInv'
<1>0. worker[w] \in Scan /\ worker[w].set \in SUBSET Containers
  BY DEF EventInv, Typed, Scan
<1>1. /\ worker[w].pc = "listed" /\ activeRoutes' = worker[w].set
      /\ worker' = [worker EXCEPT ![w] = At("publish", worker[w].set)]
      /\ UNCHANGED <<engine, failures, watch, queue, published, polling, cancelled, life>>
  BY DEF Overwrite
<1>2. /\ world' = world /\ changes' = changes /\ missed' = missed /\ stream' = stream
      /\ failures' = failures /\ watch' = watch /\ queue' = queue
      /\ published' = published /\ polling' = polling /\ cancelled' = cancelled /\ life' = life
  BY <1>1 DEF engine
<1>3. PICK v \in Scan : v = At("publish", worker[w].set) /\ v.pc = "publish" /\ v.set = worker[w].set
  BY <1>0, AtIsScan DEF Labels
<1>4. /\ worker'[w] = v /\ \A u \in Workers : u # w => worker'[u] = worker[u]
  BY <1>1, <1>3, ScansOn DEF EventInv, Typed
<1>5. Typed'
  BY <1>0, <1>1, <1>2, <1>3, WorkerTyped DEF EventInv, Typed
<1>6. ASSUME Calm' PROVE Begun'
  <2>1. Calm /\ Begun
    BY <1>2, <1>6 DEF Calm, EventInv
  <2>2. CASE w = "start"
    <3>1. ScanFirst /\ worker'["event"] = worker["event"] /\ worker'["poll"] = worker["poll"]
      BY <1>1, <1>4, <2>1, <2>2, ThreeWorkers DEF Begun
    <3>2. ScanFirst' /\ worker'["start"].pc = "publish"
      BY <1>1, <1>2, <1>3, <1>4, <2>2, <3>1 DEF ScanFirst
    <3> QED BY <2>1, <3>1, <3>2 DEF Begun
  <2>3. CASE w = "event"
    <3>1. /\ worker["start"].pc = "exited" /\ Following /\ watch.pc # "dial"
          /\ worker'["start"] = worker["start"] /\ worker'["poll"] = worker["poll"]
      BY <1>1, <1>4, <2>1, <2>3, ThreeWorkers DEF Begun, ScanFirst, Following
    <3>2. ASSUME Connected PROVE Accounted(stream, watch, queue, world, v, worker[w].set)
      <4>1. Accounted(stream, watch, queue, world, worker["event"], activeRoutes)
        BY <3>1, <3>2 DEF Following
      <4>2. \A c \in Containers :
               Agrees(worker["event"], activeRoutes, world, c) => Agrees(v, worker[w].set, world, c)
        BY <1>1, <1>3, <2>3 DEF Agrees
      <4> QED BY <4>1, <4>2, Onward
    <3>3. Following'
      BY <1>1, <1>2, <1>3, <1>4, <2>3, <3>1, <3>2 DEF Following, Connected
    <3> QED BY <2>1, <3>1, <3>3 DEF Begun
  <2>4. CASE w = "poll"
    BY <1>1, <2>1, <2>4 DEF Begun
  <2> QED BY <2>2, <2>3, <2>4 DEF Workers
<1> QED BY <1>5, <1>6 DEF EventInv

\* Start publishes its scan and sets the goroutines off.
LEMMA StartPublishes ==
    ASSUME EventInv, PublishSpecs("start")
    PROVE  EventInv'
<1>0. worker["start"] \in Scan /\ worker["start"].set \in SUBSET Containers
  BY ThreeWorkers DEF EventInv, Typed, Scan
<1> DEFINE L(v) == CASE v = "start" -> "exited" [] v = "event" -> "idle"
                     [] OTHER -> IF polling THEN "idle" ELSE "off"
<1>1. /\ worker["start"].pc = "publish" /\ published' = worker["start"].set
      /\ worker' = [v \in Workers |-> At(L(v), {})] /\ watch' = [watch EXCEPT !.pc = "dial"]
      /\ UNCHANGED <<engine, failures, queue, activeRoutes, polling, cancelled, life>>
  BY DEF PublishSpecs
<1>2. /\ world' = world /\ changes' = changes /\ missed' = missed /\ stream' = stream
      /\ failures' = failures /\ queue' = queue /\ activeRoutes' = activeRoutes
      /\ polling' = polling /\ cancelled' = cancelled /\ life' = life
  BY <1>1 DEF engine
<1>3. \A v \in Workers : L(v) \in Labels
  BY DEF Labels
<1>4. L("start") = "exited" /\ L("event") = "idle" /\ (~polling => L("poll") = "off")
  BY Zenon
<1> HIDE DEF L
<1>5. /\ worker' \in [Workers -> Scan]
      /\ \A v \in Workers : worker'[v].pc = L(v)
  <2>1. \A v \in Workers : At(L(v), {}) \in Scan /\ At(L(v), {}).pc = L(v)
    BY <1>3, AtIsScan
  <2> QED BY <1>1, <2>1
<1>6. watch' = [pc |-> "dial", event |-> watch.event] /\ watch'.pc = "dial"
  <2>1. watch = [pc |-> watch.pc, event |-> watch.event]
    BY DEF EventInv, Typed
  <2>2. PICK l, e : watch = [pc |-> l, event |-> e]
    BY <2>1
  <2>3. watch' = [pc |-> "dial", event |-> e] /\ watch.event = e
    BY <1>1, <2>2
  <2> QED BY <2>3
<1>7. Typed'
  <2>1. watch' = [pc |-> watch'.pc, event |-> watch'.event]
    BY <1>6
  <2> QED BY <1>0, <1>1, <1>2, <1>5, <1>6, <2>1 DEF EventInv, Typed
<1>8. ASSUME Calm' PROVE Begun'
  <2>1. Calm /\ Begun
    BY <1>2, <1>8 DEF Calm, EventInv
  <2>2. ScanFirst
    BY <1>1, <2>1 DEF Begun
  <2>3. worker'["start"].pc = "exited" /\ worker'["event"].pc = "idle" /\ worker'["poll"].pc = "off"
    BY <1>4, <1>5, <2>1, ThreeWorkers DEF Calm
  <2>4. stream = <<>> /\ queue = <<>> /\ activeRoutes = world /\ worker["start"].set = world
    BY <1>1, <2>2 DEF ScanFirst
  <2>5. Following'
    BY <1>1, <1>2, <1>6, <2>3, <2>4 DEF Following, Connected
  <2> QED BY <2>3, <2>5 DEF Begun
<1> QED BY <1>7, <1>8 DEF EventInv

\* A worker publishes.
LEMMA PublishKeeps ==
    ASSUME EventInv, NEW w \in Workers, PublishSpecs(w), w # "start"
    PROVE  EventInv'
<1>0. worker[w] \in Scan /\ worker[w].set \in SUBSET Containers
  BY DEF EventInv, Typed, Scan
<1>1. /\ worker[w].pc = "publish" /\ published' = worker[w].set
      /\ worker' = [worker EXCEPT ![w] = At("idle", {})] /\ watch' = watch
      /\ UNCHANGED <<engine, failures, queue, activeRoutes, polling, cancelled, life>>
  BY DEF PublishSpecs
<1>2. /\ world' = world /\ changes' = changes /\ missed' = missed /\ stream' = stream
      /\ failures' = failures /\ watch' = watch /\ queue' = queue /\ activeRoutes' = activeRoutes
      /\ polling' = polling /\ cancelled' = cancelled /\ life' = life
  BY <1>1 DEF engine
<1>3. PICK v \in Scan : v = At("idle", {}) /\ v.pc = "idle"
  BY <1>0, AtIsScan DEF Labels
<1>4. /\ worker'[w] = v /\ \A u \in Workers : u # w => worker'[u] = worker[u]
  BY <1>1, <1>3, ScansOn DEF EventInv, Typed
<1>5. Typed'
  BY <1>0, <1>1, <1>2, <1>3, WorkerTyped DEF EventInv, Typed
<1>6. ASSUME Calm' PROVE Begun'
  <2>1. Calm /\ Begun
    BY <1>2, <1>6 DEF Calm, EventInv
  <2>3. CASE w = "event"
    <3>1. /\ worker["start"].pc = "exited" /\ Following /\ watch.pc # "dial"
          /\ worker'["start"] = worker["start"] /\ worker'["poll"] = worker["poll"]
      BY <1>1, <1>4, <2>1, <2>3, ThreeWorkers DEF Begun, ScanFirst, Following
    <3>2. ASSUME Connected PROVE Accounted(stream, watch, queue, world, v, activeRoutes)
      <4>1. Accounted(stream, watch, queue, world, worker["event"], activeRoutes)
        BY <3>1, <3>2 DEF Following
      <4>2. \A c \in Containers :
               Agrees(worker["event"], activeRoutes, world, c) => Agrees(v, activeRoutes, world, c)
        BY <1>1, <1>3, <2>3 DEF Agrees
      <4> QED BY <4>1, <4>2, Onward
    <3>3. Following'
      BY <1>1, <1>2, <1>3, <1>4, <2>3, <3>1, <3>2 DEF Following, Connected
    <3> QED BY <2>1, <3>1, <3>3 DEF Begun
  <2>4. CASE w = "poll"
    BY <1>1, <2>1, <2>4 DEF Begun
  <2> QED BY <2>3, <2>4 DEF Workers
<1> QED BY <1>5, <1>6 DEF EventInv

\* Without polling there is no poll worker, and before Stop nobody exits.
LEMMA QuietWorkersKeep ==
    ASSUME EventInv, PollTick \/ \E w \in Workers : WorkerExits(w)
    PROVE  EventInv'
<1>1. PICK w \in Workers, v \in Scan :
        /\ worker' = [worker EXCEPT ![w] = v]
        /\ cancelled \/ (w = "poll" /\ worker[w].pc = "idle")
        /\ UNCHANGED <<engine, failures, watch, queue, activeRoutes, published, polling, cancelled, life>>
  <2>1. At("list", {}) \in Scan /\ At("exited", {}) \in Scan
    BY AtIsScan DEF Labels
  <2>2. CASE PollTick
    BY <2>1, <2>2, ThreeWorkers DEF PollTick
  <2>3. ASSUME NEW w \in Workers, WorkerExits(w)
        PROVE  /\ worker' = [worker EXCEPT ![w] = At("exited", {})] /\ cancelled
               /\ UNCHANGED <<engine, failures, watch, queue, activeRoutes, published, polling,
                              cancelled, life>>
    BY <2>3 DEF WorkerExits
  <2> QED BY <2>1, <2>2, <2>3
<1>2. Typed'
  BY <1>1, WorkerTyped DEF EventInv, Typed, engine
<1>3. ~Calm'
  <2>1. Calm => worker["poll"].pc = "off"
    BY DEF EventInv, Begun
  <2>2. Calm' => Calm /\ ~cancelled
    BY <1>1 DEF Calm, engine
  <2> QED BY <1>1, <2>1, <2>2
<1> QED BY <1>2, <1>3 DEF EventInv

\* The event worker has taken an event: it is the only one that has changed.
LEMMA DequeueKeeps ==
    ASSUME EventInv, Dequeue, NEW v \in Scan, worker' = [worker EXCEPT !["event"] = v],
           activeRoutes' \in SUBSET Containers,
           v.pc = "publish" => v.set = activeRoutes', v.pc = "idle" => activeRoutes' = activeRoutes,
           \/ v.pc = "list"
           \/ /\ v.pc \in {"idle", "publish"}
              /\ \A d : d # Head(queue).id => (d \in activeRoutes' <=> d \in activeRoutes)
              /\ Shows(Head(queue), world) => (Head(queue).id \in activeRoutes' <=> Head(queue).id \in world)
    PROVE  EventInv'
<1>1. /\ worker["event"].pc = "idle" /\ queue # <<>> /\ queue' = Tail(queue)
      /\ UNCHANGED <<engine, failures, watch, published, polling, cancelled, life>>
  BY DEF Dequeue
<1>2. /\ world' = world /\ changes' = changes /\ missed' = missed /\ stream' = stream
      /\ failures' = failures /\ watch' = watch /\ published' = published
      /\ polling' = polling /\ cancelled' = cancelled /\ life' = life
  BY <1>1 DEF engine
<1>3. queue \in Seq(Event) /\ Len(queue) \in Nat /\ Len(queue) <= QueueSize
  BY DEF EventInv, Typed
<1>4. queue' \in Seq(Event) /\ Len(queue') = Len(queue) - 1
  BY <1>1, <1>3, Taken
<1>5. /\ worker' \in [Workers -> Scan] /\ worker'["event"] = v
      /\ worker'["start"] = worker["start"] /\ worker'["poll"] = worker["poll"]
  BY ScansOn, ThreeWorkers DEF EventInv, Typed
<1>6. Typed'
  <2>1. Len(queue') <= QueueSize
    BY <1>3, <1>4, DiscoveryAssumption
  <2> QED BY <1>2, <1>4, <1>5, <2>1 DEF EventInv, Typed
<1>7. ASSUME Calm' PROVE Begun'
  <2>1. Calm /\ Begun
    BY <1>2, <1>7 DEF Calm, EventInv
  <2>2. worker["start"].pc = "exited" /\ Following /\ watch.pc # "dial"
    BY <1>1, <2>1 DEF Begun, ScanFirst, Following
  <2>3. PICK b : b = activeRoutes'
    OBVIOUS
  <2>4. ASSUME Connected PROVE Accounted(stream, watch, Tail(queue), world, v, b)
    <3>1. Accounted(stream, watch, queue, world, worker["event"], activeRoutes)
      BY <2>2, <2>4 DEF Following
    <3> QED BY <1>1, <1>3, <2>3, <3>1, Handled
  <2>5. Connected => (v.pc = "idle" => published = activeRoutes')
    BY <1>1, <2>2 DEF Following
  <2>6. Following'
    BY <1>1, <1>2, <1>5, <2>2, <2>3, <2>4, <2>5 DEF Following, Connected
  <2> QED BY <1>5, <2>1, <2>2, <2>6 DEF Begun
<1> QED BY <1>6, <1>7 DEF EventInv

\* handleContainerStart, handleContainerStop, and the rescan for a start event
\* without its container.
LEMMA HandleKeeps ==
    ASSUME EventInv, HandleEvent
    PROVE  EventInv'
<1>0. /\ activeRoutes \in SUBSET Containers /\ worker \in [Workers -> Scan] /\ worker["event"] \in Scan
      /\ queue \in Seq(Event)
  BY ThreeWorkers DEF EventInv, Typed
<1>1. Dequeue
  BY DEF HandleEvent, HandleContainerStart, HandlePartialStart, HandleContainerStop
<1>2. PICK e \in Event : e = Head(queue)
  BY <1>0, <1>1, Taken DEF Dequeue
<1>3. e.id \in Containers
  BY EventFields
<1>4. worker["event"].pc = "idle"
  BY <1>1 DEF Dequeue
<1>5. PICK v \in Scan : v = worker["event"] /\ v.pc = "idle"
  BY <1>0, <1>4
<1>6. ASSUME activeRoutes' = activeRoutes, worker' = worker, ~Shows(e, world) \/ (e.id \in activeRoutes <=> e.id \in world)
      PROVE  EventInv'
  <2>1. worker' = [worker EXCEPT !["event"] = v]
    BY <1>0, <1>5, <1>6
  <2> QED BY <1>0, <1>1, <1>2, <1>5, <1>6, <2>1, DequeueKeeps
<1>7. ASSUME NEW b \in SUBSET Containers, activeRoutes' = b, EventWorkerPublishes,
             \A d : d # e.id => (d \in b <=> d \in activeRoutes),
             Shows(e, world) => (e.id \in b <=> e.id \in world)
      PROVE  EventInv'
  <2>1. PICK u \in Scan : u = At("publish", b) /\ u.pc = "publish" /\ u.set = b
    BY AtIsScan DEF Labels
  <2>2. worker' = [worker EXCEPT !["event"] = u]
    BY <1>7, <2>1 DEF EventWorkerPublishes
  <2> QED BY <1>1, <1>2, <1>7, <2>1, <2>2, DequeueKeeps
<1>8. CASE HandleContainerStart
  <2>1. /\ e.type = "start" /\ e.obj # "nil"
        /\ IF e.obj = "running" THEN activeRoutes' = activeRoutes \cup {e.id} /\ EventWorkerPublishes
           ELSE activeRoutes' = activeRoutes /\ worker' = worker
    BY <1>2, <1>8 DEF HandleContainerStart
  <2>2. CASE e.obj = "running"
    <3>1. Shows(e, world) => e.id \in world
      BY <2>1 DEF Shows, Tells
    <3>2. PICK b \in SUBSET Containers : b = activeRoutes \cup {e.id}
      BY <1>0, <1>3
    <3> QED BY <1>7, <2>1, <2>2, <3>1, <3>2
  <2>3. CASE e.obj # "running"
    <3>1. ~Shows(e, world)
      BY <2>1, <2>3 DEF Shows, Tells
    <3> QED BY <1>6, <2>1, <2>3, <3>1
  <2> QED BY <2>2, <2>3
<1>9. CASE HandlePartialStart
  <2>1. PICK u \in Scan : u = At("list", {}) /\ u.pc = "list"
    BY AtIsScan DEF Labels
  <2>2. worker' = [worker EXCEPT !["event"] = u] /\ activeRoutes' = activeRoutes
    BY <1>9, <2>1 DEF HandlePartialStart
  <2> QED BY <1>0, <1>1, <2>1, <2>2, DequeueKeeps
<1>10. CASE HandleContainerStop
  <2>1. /\ e.type = "stop"
        /\ IF e.id \in activeRoutes THEN activeRoutes' = activeRoutes \ {e.id} /\ EventWorkerPublishes
           ELSE activeRoutes' = activeRoutes /\ worker' = worker
    BY <1>2, <1>10 DEF HandleContainerStop
  <2>2. Shows(e, world) => e.id \notin world
    BY <2>1 DEF Shows, Tells
  <2>3. CASE e.id \in activeRoutes
    <3>1. PICK b \in SUBSET Containers : b = activeRoutes \ {e.id}
      BY <1>0
    <3> QED BY <1>7, <2>1, <2>2, <2>3, <3>1
  <2>4. CASE e.id \notin activeRoutes
    BY <1>6, <2>1, <2>2, <2>4
  <2> QED BY <2>3, <2>4
<1> QED BY <1>8, <1>9, <1>10 DEF HandleEvent

\* The watcher goes on.
LEMMA WatcherTyped ==
    ASSUME Typed, NEW l \in {"off", "dial", "check", "read", "lookup", "send", "ended"}, NEW e,
           WatchAt(l, e), l \in {"lookup", "send"} => e \in Event,
           stream' \in Seq(Event), queue' \in Seq(Event), Len(queue') <= QueueSize,
           failures' \in 0..MaxFailures,
           UNCHANGED <<world, changes, missed, activeRoutes, worker, published, polling, cancelled, life>>
    PROVE  Typed' /\ watch'.pc = l /\ watch'.event = e
<1>1. watch' = [pc |-> l, event |-> e]
  BY DEF WatchAt
<1>2. watch' = [pc |-> watch'.pc, event |-> watch'.event] /\ watch'.pc = l /\ watch'.event = e
  BY <1>1
<1> QED BY <1>2 DEF Typed

\* The watcher, connected before and after, has moved an event on or none.
LEMMA WatcherKeeps ==
    ASSUME EventInv, Typed',
           UNCHANGED <<world, missed, failures, activeRoutes, worker, published, polling, cancelled>>,
           Connected, watch'.pc # "dial", watch'.pc # "off",
           Connected' /\ Calm /\ Accounted(stream, watch, queue, world, worker["event"], activeRoutes)
              => Accounted(stream', watch', queue', world, worker["event"], activeRoutes)
    PROVE  EventInv'
<1>1. ASSUME Calm' PROVE Begun'
  <2>1. Calm /\ Begun
    BY <1>1 DEF Calm, EventInv
  <2>2. Following /\ worker["start"].pc = "exited"
    BY <2>1 DEF Begun, ScanFirst, Connected
  <2>3. Following'
    BY <2>1, <2>2 DEF Following
  <2> QED BY <2>1, <2>2, <2>3 DEF Begun
<1> QED BY <1>1 DEF EventInv

\* The watch is set up: nothing has changed since the first scan, or missed says so.
LEMMA WatchConnectsKeeps ==
    ASSUME EventInv, WatchConnects
    PROVE  EventInv'
<1>1. /\ watch.pc = "dial" /\ WatchAt("check", NoEvent)
      /\ UNCHANGED <<engine, failures, queue, activeRoutes, worker, published, polling, cancelled, life>>
  BY DEF WatchConnects
<1>2. /\ world' = world /\ changes' = changes /\ missed' = missed /\ stream' = stream
      /\ failures' = failures /\ queue' = queue /\ activeRoutes' = activeRoutes /\ worker' = worker
      /\ published' = published /\ polling' = polling /\ cancelled' = cancelled /\ life' = life
  BY <1>1 DEF engine
<1>3. Typed' /\ watch'.pc = "check"
  BY <1>1, <1>2, WatcherTyped DEF EventInv, Typed
<1>4. ASSUME Calm' PROVE Begun'
  <2>1. Calm /\ Begun
    BY <1>2, <1>4 DEF Calm, EventInv
  <2>2. worker["start"].pc = "exited" /\ Following
    BY <1>1, <2>1 DEF Begun, ScanFirst
  <2>3. /\ stream = <<>> /\ queue = <<>> /\ activeRoutes = world /\ published = world
        /\ worker["event"].pc = "idle"
    BY <1>1, <2>2 DEF Following
  <2>4. \A d : ~About(stream, d) /\ ~About(queue, d)
    BY <2>3 DEF About
  <2>5. PICK x : x = watch'
    OBVIOUS
  <2>6. \A d : ~Hand(x, d)
    BY <1>3, <2>5 DEF Hand
  <2>7. Accounted(stream, x, queue, world, worker["event"], activeRoutes)
    <3>1. ASSUME NEW c \in Containers
          PROVE  Truthful(stream, x, queue, world, c) /\ Agrees(worker["event"], activeRoutes, world, c)
      <4>1. \A k \in 1..Len(stream) : ~Latest(stream, c, k)
        BY <2>4 DEF About, Latest
      <4>2. \A k \in 1..Len(queue) : ~Latest(queue, c, k)
        BY <2>4 DEF About, Latest
      <4> QED BY <2>3, <2>6, <4>1, <4>2 DEF Truthful, Agrees
    <3> QED BY <3>1 DEF Accounted
  <2>8. Following'
    BY <1>2, <1>3, <2>3, <2>5, <2>7 DEF Following
  <2> QED BY <1>2, <2>1, <2>2, <2>8 DEF Begun
<1> QED BY <1>3, <1>4 DEF EventInv

\* Once the watch has ended nothing is promised.
LEMMA WatchEndsKeeps ==
    ASSUME EventInv, WatchEnds
    PROVE  EventInv'
<1>1. /\ watch.pc \in {"dial", "read"} /\ WatchAt("ended", NoEvent) /\ stream' = <<>>
      /\ UNCHANGED <<world, changes, failures, missed, queue, activeRoutes, worker, published,
                     polling, cancelled, life>>
  BY DEF WatchEnds
<1>2. <<>> \in Seq(Event)
  OBVIOUS
<1>3. Typed' /\ watch'.pc = "ended"
  BY <1>1, <1>2, WatcherTyped DEF EventInv, Typed
<1>4. ASSUME Calm' PROVE Begun'
  <2>1. Calm /\ Begun
    BY <1>1, <1>4 DEF Calm, EventInv
  <2>2. worker["start"].pc = "exited"
    BY <1>1, <2>1 DEF Begun, ScanFirst
  <2>3. Following'
    BY <1>3 DEF Following, Connected
  <2> QED BY <1>1, <2>1, <2>2, <2>3 DEF Begun
<1> QED BY <1>3, <1>4 DEF EventInv

\* Between two events the watcher looks at the context.
LEMMA WatchCheckKeeps ==
    ASSUME EventInv, WatchCheck
    PROVE  EventInv'
<1>1. /\ watch.pc = "check" /\ WatchAt(IF cancelled THEN "ended" ELSE "read", NoEvent)
      /\ UNCHANGED <<engine, failures, queue, activeRoutes, worker, published, polling, cancelled, life>>
  BY DEF WatchCheck
<1>2. /\ world' = world /\ changes' = changes /\ missed' = missed /\ stream' = stream
      /\ failures' = failures /\ queue' = queue /\ activeRoutes' = activeRoutes /\ worker' = worker
      /\ published' = published /\ polling' = polling /\ cancelled' = cancelled /\ life' = life
  BY <1>1 DEF engine
<1>3. PICK l \in {"read", "ended"} : l = IF cancelled THEN "ended" ELSE "read"
  OBVIOUS
<1>4. Typed' /\ watch'.pc = l
  BY <1>1, <1>2, <1>3, WatcherTyped DEF EventInv, Typed
<1>5. Connected
  BY <1>1 DEF Connected
<1>6. ASSUME Accounted(stream, watch, queue, world, worker["event"], activeRoutes)
      PROVE  Accounted(stream', watch', queue', world, worker["event"], activeRoutes)
  <2>1. PICK x : x = watch'
    OBVIOUS
  <2>2. \A d : ~Hand(x, d) /\ ~Hand(watch, d)
    BY <1>1, <1>3, <1>4, <2>1 DEF Hand
  <2>3. Accounted(stream, x, queue, world, worker["event"], activeRoutes)
    BY <1>6, <2>2, Onward
  <2> QED BY <1>2, <2>1, <2>3
<1> QED BY <1>2, <1>3, <1>4, <1>5, <1>6, WatcherKeeps

\* The watcher reads an event.
LEMMA WatchReadKeeps ==
    ASSUME EventInv, WatchRead
    PROVE  EventInv'
<1>1. /\ watch.pc = "read" /\ stream # <<>> /\ stream' = Tail(stream)
      /\ WatchAt(IF Head(stream).type = "start" THEN "lookup" ELSE "send", Head(stream))
      /\ UNCHANGED <<world, changes, failures, missed, queue, activeRoutes, worker, published,
                     polling, cancelled, life>>
  BY DEF WatchRead
<1>2. PICK l \in {"lookup", "send"} : l = IF Head(stream).type = "start" THEN "lookup" ELSE "send"
  OBVIOUS
<1>3. stream \in Seq(Event)
  BY DEF EventInv, Typed
<1>4. Head(stream) \in Event /\ Tail(stream) \in Seq(Event)
  BY <1>1, <1>3, Taken
<1>5. Typed' /\ watch'.pc = l /\ watch'.event = Head(stream)
  BY <1>1, <1>2, <1>4, WatcherTyped DEF EventInv, Typed
<1>6. Connected
  BY <1>1 DEF Connected
<1>7. ASSUME Accounted(stream, watch, queue, world, worker["event"], activeRoutes)
      PROVE  Accounted(stream', watch', queue', world, worker["event"], activeRoutes)
  <2>1. PICK x : x = watch'
    OBVIOUS
  <2>2. /\ x.event = Head(stream) /\ watch.pc \notin {"lookup", "send"}
        /\ x.pc = IF Head(stream).type = "start" THEN "lookup" ELSE "send"
    BY <1>1, <1>2, <1>5, <2>1
  <2>3. Accounted(Tail(stream), x, queue, world, worker["event"], activeRoutes)
    BY <1>1, <1>3, <1>7, <2>2, ReadOn
  <2> QED BY <1>1, <2>1, <2>3
<1> QED BY <1>1, <1>2, <1>5, <1>6, <1>7, WatcherKeeps

\* The listing of the watcher for a start event shows a running container.
LEMMA WatchLookupKeeps ==
    ASSUME EventInv, WatchLookup
    PROVE  EventInv'
<1>1. PICK o \in LookedUp(watch.event.id) :
        /\ watch.pc = "lookup" /\ WatchAt("send", [watch.event EXCEPT !.obj = o])
        /\ UNCHANGED <<engine, failures, queue, activeRoutes, worker, published, polling, cancelled, life>>
  BY DEF WatchLookup
<1>2. /\ world' = world /\ changes' = changes /\ missed' = missed /\ stream' = stream
      /\ failures' = failures /\ queue' = queue /\ activeRoutes' = activeRoutes /\ worker' = worker
      /\ published' = published /\ polling' = polling /\ cancelled' = cancelled /\ life' = life
  BY <1>1 DEF engine
<1>3. o \in {"nil", "running", "exited"} /\ (~cancelled /\ watch.event.id \in world => o = "running")
  BY <1>1 DEF LookedUp
<1>4. watch.event \in Event
  BY <1>1 DEF EventInv, Typed
<1>5. PICK e : e = [watch.event EXCEPT !.obj = o]
  OBVIOUS
<1>6. e \in Event
  BY <1>3, <1>4, <1>5 DEF Event
<1>7. Typed' /\ watch'.pc = "send" /\ watch'.event = e
  BY <1>1, <1>2, <1>5, <1>6, WatcherTyped DEF EventInv, Typed
<1>8. Connected
  BY <1>1 DEF Connected
<1>9. ASSUME Calm, Accounted(stream, watch, queue, world, worker["event"], activeRoutes)
      PROVE  Accounted(stream', watch', queue', world, worker["event"], activeRoutes)
  <2>1. PICK x : x = watch'
    OBVIOUS
  <2>2. x.pc = "send" /\ x.event = [watch.event EXCEPT !.obj = o]
    BY <1>5, <1>7, <2>1
  <2>3. watch.event.id \in world => o = "running"
    BY <1>3, <1>9 DEF Calm
  <2>4. Accounted(stream, x, queue, world, worker["event"], activeRoutes)
    BY <1>1, <1>3, <1>4, <1>9, <2>2, <2>3, LookedUpNow
  <2> QED BY <1>2, <2>1, <2>4
<1> QED BY <1>2, <1>7, <1>8, <1>9, WatcherKeeps

\* A listing of the watcher that fails is not calm.
LEMMA WatchLookupFailsKeeps ==
    ASSUME EventInv, WatchLookupFails
    PROVE  EventInv'
<1>1. /\ watch.pc = "lookup" /\ failures < MaxFailures /\ failures' = failures + 1
      /\ WatchAt("send", watch.event)
      /\ UNCHANGED <<engine, queue, activeRoutes, worker, published, polling, cancelled, life>>
  BY DEF WatchLookupFails
<1>2. failures' \in 0..MaxFailures /\ failures' # 0
  <2>1. failures \in 0..MaxFailures /\ MaxFailures \in Nat
    BY DiscoveryAssumption DEF EventInv, Typed
  <2> QED BY <1>1, <2>1
<1>3. watch.event \in Event
  BY <1>1 DEF EventInv, Typed
<1>4. Typed'
  BY <1>1, <1>2, <1>3, WatcherTyped DEF EventInv, Typed, engine
<1> QED BY <1>2, <1>4 DEF EventInv, Calm

\* The watcher hands its event to the event worker.
LEMMA WatchSendKeeps ==
    ASSUME EventInv, WatchSend
    PROVE  EventInv'
<1>1. /\ watch.pc = "send" /\ Len(queue) < QueueSize /\ queue' = Append(queue, watch.event)
      /\ WatchAt("check", NoEvent)
      /\ UNCHANGED <<engine, failures, activeRoutes, worker, published, polling, cancelled, life>>
  BY DEF WatchSend
<1>2. /\ world' = world /\ changes' = changes /\ missed' = missed /\ stream' = stream
      /\ failures' = failures /\ activeRoutes' = activeRoutes /\ worker' = worker
      /\ published' = published /\ polling' = polling /\ cancelled' = cancelled /\ life' = life
  BY <1>1 DEF engine
<1>3. watch.event \in Event /\ queue \in Seq(Event)
  BY <1>1 DEF EventInv, Typed
<1>4. queue' \in Seq(Event) /\ Len(queue') <= QueueSize
  <2>1. QueueSize \in Nat /\ Len(queue) \in Nat /\ Len(queue') = Len(queue) + 1
    BY <1>1, <1>3, AppendProperties, DiscoveryAssumption
  <2>2. queue' \in Seq(Event)
    BY <1>1, <1>3, AppendProperties
  <2> QED BY <1>1, <2>1, <2>2
<1>5. Typed' /\ watch'.pc = "check"
  BY <1>1, <1>2, <1>4, WatcherTyped DEF EventInv, Typed
<1>6. Connected
  BY <1>1 DEF Connected
<1>7. ASSUME Accounted(stream, watch, queue, world, worker["event"], activeRoutes)
      PROVE  Accounted(stream', watch', queue', world, worker["event"], activeRoutes)
  <2>1. PICK x : x = watch'
    OBVIOUS
  <2>2. x.pc \notin {"lookup", "send"}
    BY <1>5, <2>1
  <2>3. Accounted(stream, x, Append(queue, watch.event), world, worker["event"], activeRoutes)
    BY <1>1, <1>3, <1>7, <2>2, Sent
  <2> QED BY <1>1, <1>2, <2>1, <2>3
<1> QED BY <1>2, <1>5, <1>6, <1>7, WatcherKeeps

\* Stop, and its return.
LEMMA StopKeeps ==
    ASSUME EventInv, Stop \/ StopReturns
    PROVE  EventInv'
<1>1. CASE Stop
  <2>1. /\ cancelled' = TRUE /\ life' = "stopping"
        /\ UNCHANGED <<engine, failures, watch, queue, activeRoutes, worker, published, polling>>
    BY <1>1 DEF Stop
  <2>2. Typed'
    BY <2>1 DEF EventInv, Typed, engine
  <2> QED BY <2>1, <2>2 DEF EventInv, Calm
<1>2. CASE StopReturns
  <2>1. /\ life' = "stopped"
        /\ UNCHANGED <<engine, failures, watch, queue, activeRoutes, worker, published, polling, cancelled>>
    BY <1>2 DEF StopReturns
  <2>2. Typed'
    BY <2>1 DEF EventInv, Typed, engine
  <2>3. Calm' => Begun'
    BY <2>1 DEF EventInv, Calm, Begun, ScanFirst, Following, Connected, engine
  <2> QED BY <2>2, <2>3 DEF EventInv
<1> QED BY <1>1, <1>2

\* No step of the manager or the engine loses a change.
LEMMA EventStep ==
    ASSUME EventInv, [DiscoveryNext]_discoveryVars
    PROVE  EventInv'
<1>1. ASSUME NEW w \in Workers, SyncStep(w) PROVE EventInv'
  BY <1>1, OverwriteKeeps, StartPublishes, PublishKeeps DEF SyncStep
<1>2. CASE WatchStep
  BY <1>2, WatchConnectsKeeps, WatchCheckKeeps, WatchReadKeeps, WatchLookupKeeps, WatchSendKeeps
     DEF WatchStep
<1>3. CASE UNCHANGED discoveryVars
  BY <1>3 DEF discoveryVars, EventInv, Typed, Calm, Begun, ScanFirst, Following, Connected
<1> QED BY <1>1, <1>2, <1>3, ContainerKeeps, ListKeeps, ListFailsKeeps, QuietWorkersKeep, HandleKeeps,
           WatchEndsKeeps, WatchLookupFailsKeeps, StopKeeps DEF DiscoveryNext

\* When every event has been applied the routes are the running containers.
LEMMA EventsApplied ==
    ASSUME EventInv
    PROVE  EventsSuffice
<1>1. DiscoveryTypeOK
  BY TypedIsTypeOK DEF EventInv
<1>2. ASSUME Calm, Quiescent PROVE published = world
  <2>1. /\ Connected /\ stream = <<>> /\ queue = <<>> /\ watch.pc \in {"check", "read"}
        /\ worker["event"].pc = "idle"
    BY <1>2 DEF Quiescent
  <2>2. Following
    BY <1>2, <2>1 DEF EventInv, Begun, ScanFirst, Connected
  <2>3. Accounted(stream, watch, queue, world, worker["event"], activeRoutes) /\ published = activeRoutes
    BY <2>1, <2>2 DEF Following
  <2>4. ASSUME NEW c \in Containers PROVE c \in activeRoutes <=> c \in world
    <3>1. ~Pending(stream, watch, queue, c)
      BY <2>1 DEF Pending, About, Hand
    <3> QED BY <2>1, <2>3, <3>1 DEF Accounted, Agrees
  <2>5. activeRoutes \in SUBSET Containers /\ world \in SUBSET Containers
    BY DEF EventInv, Typed
  <2> QED BY <2>3, <2>4, <2>5
<1> QED BY <1>1, <1>2 DEF EventsSuffice, Calm

\* In any number of changes, while no listing fails, nothing changes between the
\* first scan and the watch, and nothing else rescans, every container is accounted
\* for at every point of the manager's code: the last event of it that is on its
\* way tells the truth, or m.activeRoutes has it right already.
THEOREM EventInvariant == DiscoverySpec => []EventInv
<1>1. DiscoveryInit => EventInv
  BY EventInit
<1>2. EventInv /\ [DiscoveryNext]_discoveryVars => EventInv'
  BY EventStep
<1> QED BY <1>1, <1>2, PTL DEF DiscoverySpec

\* EventsSuffice: once the event worker has caught up, the routes published to the
\* router are those of the containers that run, without any poll.
THEOREM EventsStaySufficient == DiscoverySpec => []EventsSuffice
<1>1. EventInv => EventsSuffice
  BY EventsApplied
<1>2. DiscoverySpec => []EventInv
  BY EventInvariant
<1> QED BY <1>1, <1>2, PTL
=============================================================================
