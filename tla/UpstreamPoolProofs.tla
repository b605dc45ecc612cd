------------------------- MODULE UpstreamPoolProofs -------------------------
(***************************************************************************)
(* Proofs about UpstreamPool, for every number of targets and requests,    *)
(* every weight and every route configuration.                             *)
(***************************************************************************)
EXTENDS UpstreamPool, FiniteSetTheorems, WellFoundedInduction, TLAPS

-----------------------------------------------------------------------------
(* Rotation.                                                               *)

\* A position reduced modulo the number of targets is a target.
LEMMA Reduced ==
    ASSUME NEW a \in Nat, NEW n \in Nat \ {0}
    PROVE  a % n \in 0 .. n - 1
OBVIOUS

\* Reduction leaves an index alone, and takes one round off it.
LEMMA SmallIndex ==
    ASSUME NEW n \in Nat \ {0}, NEW t \in 0 .. n - 1
    PROVE  t % n = t
OBVIOUS

LEMMA OneRound ==
    ASSUME NEW n \in Nat \ {0}, NEW t \in 0 .. n - 1
    PROVE  (t + n) % n = t
OBVIOUS

\* One round from any start meets every target.
LEMMA RoundMeetsAll ==
    ASSUME NEW n \in Nat \ {0}, NEW s \in 0 .. n - 1, NEW t \in 0 .. n - 1
    PROVE  \E j \in 0 .. n - 1 : t = (s + j) % n
<1>1. CASE t >= s
  <2>1. s + (t - s) = t /\ t - s \in 0 .. n - 1
    BY <1>1
  <2> QED
    BY <2>1, SmallIndex
<1>2. CASE t < s
  <2>1. s + (t - s + n) = t + n /\ t - s + n \in 0 .. n - 1
    BY <1>2
  <2> QED
    BY <2>1, OneRound
<1> QED
  BY <1>1, <1>2

-----------------------------------------------------------------------------
(* The invariant.                                                          *)

\* A breaker whose state agrees with its count.
Consistent(b) == b \in Breaker /\ (b.state = "Closed" <=> b.fails < MaxFailures)

BreakersOK == brk \in [Objects -> Breaker] /\ \A o \in Objects : Consistent(brk[o])

\* A request that has been given a target has one.
Placed(x) == x.pc \in {"picked", "upstream", "body", "leaving"} => x.best \in Targets

ServedBy(x, t) == x.pc \in {"upstream", "body", "leaving"} /\ x.best = t

Serving(t) == {q \in Requests : ServedBy(req[q], t)}

\* While a scan has found nothing, the targets that have been healthy since it
\* began are among those it still has to look at.
Ahead(x, U) ==
    x.pc = "scan" /\ x.best = None =>
        \A t \in U : \E j \in x.i .. N - 1 : t = (x.start + j) % N

ScanCovers == \A q \in Requests : Ahead(req[q], up[q])

PoolInv ==
    /\ TypeOK /\ BreakersOK /\ (\A q \in Requests : Placed(req[q]))
    /\ ActiveConnsExact /\ ScanCovers

\* What the constants are.
LEMMA PoolConstants ==
    ASSUME route \in Routes
    PROVE  /\ N \in Nat \ {0} /\ 0 \in Targets /\ None \notin Targets /\ Targets = 0 .. N - 1
           /\ IsFiniteSet(Requests) /\ Weight \in [Targets -> Nat \ {0}]
           /\ MaxFailures \in Nat \ {0} /\ Cooldown \in Nat \ {0}
<1>1. N \in Nat \ {0} /\ IsFiniteSet(Requests) /\ Weight \in [Targets -> Nat \ {0}]
  BY UpstreamPoolAssumption DEF UpstreamPoolAssumption
<1>2. 0 \in Targets /\ None \notin Targets /\ Targets = 0 .. N - 1
  BY <1>1 DEF Targets, None
<1>3. MaxFailures \in Nat \ {0} /\ Cooldown \in Nat \ {0}
  BY UpstreamPoolAssumption DEF UpstreamPoolAssumption, MaxFailures, Cooldown
<1> QED
  BY <1>1, <1>2, <1>3

\* The parts of TypeOK, and the objects a balancer uses.
LEMMA PoolShape ==
    ASSUME TypeOK
    PROVE  /\ route \in Routes /\ conns \in [Objects -> Nat] /\ cursor \in Targets
           /\ credit \in [Targets -> Int] /\ lock \in SUBSET Requests
           /\ req \in [Requests -> RequestState] /\ up \in [Requests -> SUBSET Targets]
           /\ \A t \in Targets : Balanced(t) \in Objects /\ Probe(t) \in Objects
           /\ \A s, t \in Targets : Balanced(s) = Balanced(t) => s = t
BY DEF TypeOK, Balanced, Probe, Objects

-----------------------------------------------------------------------------
(* The circuit breaker.                                                    *)

\* The operations of a breaker keep its state and its count in agreement.
LEMMA BreakerOps ==
    ASSUME route \in Routes, NEW b, Consistent(b)
    PROVE  Consistent(AfterFailure(b)) /\ Consistent(AfterSuccess(b)) /\ Consistent(Polled(b))
<1>1. MaxFailures \in Nat \ {0} /\ Cooldown \in Nat \ {0}
  BY PoolConstants
<1>2. Consistent(AfterSuccess(b))
  BY <1>1 DEF Consistent, AfterSuccess, Breaker
<1>3. Consistent(AfterFailure(b))
  <2> DEFINE f == IF b.fails < MaxFailures THEN b.fails + 1 ELSE b.fails
  <2>1. f \in 0 .. MaxFailures /\ b.fails \in 0 .. MaxFailures
    BY <1>1 DEF Consistent, Breaker
  <2>2. CASE f >= MaxFailures
    BY <1>1, <2>1, <2>2 DEF AfterFailure, Consistent, Breaker
  <2>3. CASE ~(f >= MaxFailures)
    BY <1>1, <2>1, <2>3 DEF AfterFailure, Consistent, Breaker
  <2> QED
    BY <2>2, <2>3
<1>4. Consistent(Polled(b))
  <2> DEFINE h == [b EXCEPT !.state = "HalfOpen", !.age = 0]
  <2>1. h \in Breaker /\ h.state = "HalfOpen" /\ h.fails = b.fails
    <3>1. 0 \in 0 .. Cooldown /\ b \in Breaker
      BY <1>1 DEF Consistent
    <3> QED
      BY <3>1 DEF Breaker
  <2>2. b.state = "Open" => Consistent(h)
    BY <2>1 DEF Consistent
  <2> QED
    BY <2>2 DEF Polled
<1> QED
  BY <1>2, <1>3, <1>4

\* A breaker is replaced by a consistent one: no target becomes up again, and
\* a target whose breaker is now Open is not up.
LEMMA BreakerSet ==
    ASSUME TypeOK, BreakersOK, route' = route, NEW o \in Objects, NEW b, Consistent(b),
           SetBreaker(o, b)
    PROVE  /\ BreakersOK' /\ up' \in [Requests -> SUBSET Targets]
           /\ \A q \in Requests : up'[q] \subseteq up[q]
           /\ \A q \in Requests, t \in Targets :
                 Balanced(t) = o /\ ~Healthy(b) => t \notin up'[q]
<1>1. Breaker' = Breaker /\ MaxFailures' = MaxFailures /\ \A t : Balanced(t)' = Balanced(t)
  BY DEF Breaker, MaxFailures, Cooldown, Balanced, Clones, Algorithm
<1>2. brk' = [brk EXCEPT ![o] = b] /\ b \in Breaker /\ brk \in [Objects -> Breaker]
  BY DEF SetBreaker, Consistent, BreakersOK
<1>3. brk' \in [Objects -> Breaker] /\ \A p \in Objects : brk'[p] = IF p = o THEN b ELSE brk[p]
  BY <1>2
<1>4. \A p \in Objects : Consistent(brk'[p])
  BY <1>3 DEF BreakersOK
<1>5. BreakersOK'
  BY <1>1, <1>3, <1>4 DEF BreakersOK, Consistent
<1>6. up' = [q \in Requests |-> {t \in up[q] : Healthy(brk'[Balanced(t)])}]
  BY DEF SetBreaker
<1>7. up' \in [Requests -> SUBSET Targets] /\ \A q \in Requests : up'[q] \subseteq up[q]
  BY <1>6, PoolShape
<1>8. \A q \in Requests, t \in Targets : Balanced(t) = o /\ ~Healthy(b) => t \notin up'[q]
  BY <1>3, <1>6
<1> QED
  BY <1>5, <1>7, <1>8

-----------------------------------------------------------------------------
(* Steps of a request.                                                     *)

\* One request moves.
LEMMA RequestSet ==
    ASSUME TypeOK, NEW q \in Requests, NEW x \in RequestState, req' = [req EXCEPT ![q] = x]
    PROVE  /\ req' \in [Requests -> RequestState] /\ req'[q] = x
           /\ \A p \in Requests \ {q} : req'[p] = req[p]
BY DEF TypeOK

\* A request that is not being served before and after its step, or by the same
\* target, leaves every count exact.
LEMMA ConnsSame ==
    ASSUME TypeOK, ActiveConnsExact, NEW q \in Requests, NEW x \in RequestState,
           req' = [req EXCEPT ![q] = x], conns' = conns, route' = route,
           \A t \in Targets : ServedBy(x, t) <=> ServedBy(req[q], t)
    PROVE  ActiveConnsExact'
<1>1. \A p \in Requests, t \in Targets : ServedBy(req'[p], t) <=> ServedBy(req[p], t)
  BY RequestSet
<1>2. \A t \in Targets : Serving(t)' = Serving(t)
  BY <1>1 DEF Serving, ServedBy
<1>3. \A t : Balanced(t)' = Balanced(t)
  BY DEF Balanced, Clones, Algorithm
<1> QED
  BY <1>2, <1>3 DEF ActiveConnsExact, Serving, ServedBy

\* What a step of one request must see to.
LEMMA PoolMove ==
    ASSUME PoolInv, NEW q \in Requests, NEW x \in RequestState, req' = [req EXCEPT ![q] = x],
           UNCHANGED <<route, probe, cancelled, closed>>, Placed(x),
           BreakersOK', conns' \in [Objects -> Nat], cursor' \in Targets,
           credit' \in [Targets -> Int], lock' \in SUBSET Requests,
           up' \in [Requests -> SUBSET Targets],
           \A p \in Requests \ {q} : up'[p] \subseteq up[p], Ahead(x, up'[q]),
           ActiveConnsExact'
    PROVE  PoolInv'
<1>1. TypeOK /\ \A p \in Requests : Placed(req[p]) /\ Ahead(req[p], up[p])
  BY DEF PoolInv, ScanCovers
<1>2. /\ req' \in [Requests -> RequestState] /\ req'[q] = x
      /\ \A p \in Requests \ {q} : req'[p] = req[p]
  BY <1>1, RequestSet
<1>3. TypeOK'
  BY <1>1, <1>2 DEF TypeOK, BreakersOK
<1>4. \A p \in Requests : Placed(req'[p])
  BY <1>1, <1>2
<1>5. \A p \in Requests : Ahead(req'[p], up'[p])
  BY <1>1, <1>2 DEF Ahead
<1>6. (\A p \in Requests : Placed(req[p]))' /\ ScanCovers'
  BY <1>4, <1>5 DEF Placed, ScanCovers, Ahead
<1> QED
  BY <1>3, <1>6 DEF PoolInv

\* The values a request takes when it starts over.
LEMMA IdleValues ==
    ASSUME route \in Routes
    PROVE  /\ Idle \in RequestState /\ Idle.pc = "idle" /\ Idle.best = None /\ Idle.i = 0
           /\ \A p \in {"scan", "cookie"}, s \in Targets :
                 LET x == [Idle EXCEPT !.pc = p, !.start = s] IN
                 x \in RequestState /\ x.pc = p /\ x.start = s /\ x.i = 0 /\ x.best = None
           /\ \A p \in {"picked", "relaying"}, t \in Targets :
                 LET x == [Idle EXCEPT !.pc = p, !.best = t] IN
                 x \in RequestState /\ x.pc = p /\ x.best = t
<1>1. 0 \in Targets /\ 0 \in 0 .. N
  BY PoolConstants
<1> QED
  BY <1>1 DEF Idle, RequestState, PCs

\* Next begins: every healthy target is ahead.
LEMMA StartKeeps ==
    ASSUME PoolInv, NEW q \in Requests, StartScan(q), req[q].pc \in {"idle", "cookie"}
    PROVE  PoolInv'
<1> DEFINE s == IF Rotating THEN cursor ELSE 0
           x == [Idle EXCEPT !.pc = "scan", !.start = s]
<1>1. TypeOK /\ BreakersOK /\ ActiveConnsExact /\ route \in Routes
  BY PoolShape DEF PoolInv
<1>2. /\ UNCHANGED <<route, brk, conns, credit, probe, cancelled, closed>>
      /\ lock' = (IF Locked THEN {q} ELSE lock) /\ up' = [up EXCEPT ![q] = UpNow]
      /\ cursor' = (IF Rotating THEN (cursor + 1) % N ELSE cursor)
      /\ req' = [req EXCEPT ![q] = x]
  BY DEF StartScan
<1>3. s \in Targets
  BY <1>1, PoolShape, PoolConstants
<1>4. x \in RequestState /\ x.pc = "scan" /\ x.start = s /\ x.i = 0 /\ x.best = None
  BY <1>1, <1>3, IdleValues
<1> HIDE DEF x
<1>5. cursor' \in Targets
  <2>1. cursor \in Targets /\ N \in Nat \ {0} /\ Targets = 0 .. N - 1
    BY <1>1, PoolShape, PoolConstants
  <2>2. cursor + 1 \in Nat
    BY <2>1
  <2>3. (cursor + 1) % N \in 0 .. N - 1
    BY <2>1, <2>2, Reduced
  <2> QED
    BY <1>2, <2>1, <2>3
<1>6. /\ up' \in [Requests -> SUBSET Targets] /\ up'[q] \subseteq Targets
      /\ \A p \in Requests \ {q} : up'[p] = up[p]
  BY <1>1, <1>2, PoolShape DEF UpNow
<1>7. Ahead(x, up'[q])
  <2> SUFFICES ASSUME NEW t \in Targets
               PROVE  \E j \in 0 .. N - 1 : t = (s + j) % N
    BY <1>4, <1>6 DEF Ahead
  <2>1. N \in Nat \ {0} /\ s \in 0 .. N - 1 /\ t \in 0 .. N - 1
    BY <1>1, <1>3, PoolConstants
  <2> HIDE DEF s
  <2> QED
    BY <2>1, RoundMeetsAll
<1>8. Placed(x) /\ \A t \in Targets : ServedBy(x, t) <=> ServedBy(req[q], t)
  BY <1>4 DEF Placed, ServedBy
<1>9. ActiveConnsExact'
  BY <1>1, <1>2, <1>4, <1>8, ConnsSame
<1>10. BreakersOK' /\ lock' \in SUBSET Requests
  BY <1>1, <1>2, PoolShape
     DEF BreakersOK, Consistent, Breaker, MaxFailures, Cooldown
<1> QED
  BY <1>1, <1>2, <1>4, <1>5, <1>6, <1>7, <1>8, <1>9, <1>10, PoolMove, PoolShape

\* A request with the sticky cookie of a target.
LEMMA CookieKeeps ==
    ASSUME PoolInv, NEW q \in Requests, NEW t \in Targets, NextWithCookie(q, t)
    PROVE  PoolInv'
<1> DEFINE x == [Idle EXCEPT !.pc = "cookie", !.start = t]
<1>1. TypeOK /\ BreakersOK /\ ActiveConnsExact /\ route \in Routes
  BY PoolShape DEF PoolInv
<1>2. /\ UNCHANGED <<route, brk, conns, cursor, credit, lock, up, probe, cancelled, closed>>
      /\ req' = [req EXCEPT ![q] = x] /\ req[q].pc = "idle"
  BY DEF NextWithCookie
<1>3. x \in RequestState /\ x.pc = "cookie"
  BY <1>1, IdleValues
<1> HIDE DEF x
<1>4. /\ Placed(x) /\ Ahead(x, up'[q])
      /\ \A s \in Targets : ServedBy(x, s) <=> ServedBy(req[q], s)
  BY <1>2, <1>3 DEF Placed, Ahead, ServedBy
<1>5. ActiveConnsExact'
  BY <1>1, <1>2, <1>3, <1>4, ConnsSame
<1>6. BreakersOK'
  BY <1>1, <1>2 DEF BreakersOK, Consistent, Breaker, MaxFailures, Cooldown
<1> QED
  BY <1>1, <1>2, <1>3, <1>4, <1>5, <1>6, PoolMove, PoolShape

\* The target of the cookie is used.
LEMMA CookieHitKeeps ==
    ASSUME PoolInv, NEW q \in Requests, CookieHit(q)
    PROVE  PoolInv'
<1> DEFINE t == req[q].start
           b == Polled(brk[Balanced(t)])
           x == [req[q] EXCEPT !.pc = "picked", !.best = t]
<1>1. TypeOK /\ BreakersOK /\ ActiveConnsExact /\ route \in Routes /\ req[q] \in RequestState
  BY PoolShape DEF PoolInv
<1>2. /\ UNCHANGED <<route, conns, cursor, credit, lock, probe, cancelled, closed>>
      /\ req' = [req EXCEPT ![q] = x] /\ req[q].pc = "cookie" /\ SetBreaker(Balanced(t), b)
  BY DEF CookieHit
<1>3. t \in Targets /\ x \in RequestState /\ x.pc = "picked" /\ x.best = t
  BY <1>1 DEF RequestState, PCs
<1>4. Balanced(t) \in Objects /\ Consistent(brk[Balanced(t)])
  BY <1>1, <1>3, PoolShape DEF BreakersOK
<1>5. Consistent(b)
  BY <1>1, <1>4, BreakerOps
<1> HIDE DEF x, b
<1>6. /\ BreakersOK' /\ up' \in [Requests -> SUBSET Targets]
      /\ \A p \in Requests : up'[p] \subseteq up[p]
  BY <1>1, <1>2, <1>4, <1>5, BreakerSet
<1>7. /\ Placed(x) /\ Ahead(x, up'[q])
      /\ \A s \in Targets : ServedBy(x, s) <=> ServedBy(req[q], s)
  BY <1>2, <1>3 DEF Placed, Ahead, ServedBy
<1>8. ActiveConnsExact'
  BY <1>1, <1>2, <1>3, <1>7, ConnsSame
<1> QED
  BY <1>1, <1>2, <1>3, <1>6, <1>7, <1>8, PoolMove, PoolShape

\* One iteration of the scan: a target that is healthy is taken when there is
\* none yet, and one that is not has just left `up`.
LEMMA ExamineKeeps ==
    ASSUME PoolInv, NEW q \in Requests, Examine(q)
    PROVE  PoolInv'
<1> DEFINE t == Cursor(q)
           b == Polled(brk[Balanced(t)])
           w == IF Algorithm = "weighted_round_robin" /\ Healthy(b) THEN Weight[t] ELSE 0
           x(v) == [req[q] EXCEPT !.i = @ + 1, !.total = @ + w,
                                  !.best = IF v THEN t ELSE @,
                                  !.load = IF v THEN conns[Balanced(t)] ELSE @]
<1>1. /\ TypeOK /\ BreakersOK /\ ActiveConnsExact /\ route \in Routes
      /\ req[q] \in RequestState /\ Ahead(req[q], up[q])
  BY PoolShape DEF PoolInv, ScanCovers
<1>2. /\ UNCHANGED <<route, conns, cursor, lock, probe, cancelled, closed>>
      /\ req[q].pc = "scan" /\ req[q].i # N /\ SetBreaker(Balanced(t), b)
      /\ credit' = [credit EXCEPT ![t] = @ + w]
  BY DEF Examine, ScanDone
<1>3. PICK v \in (IF Healthy(b) THEN Replaces(q, t) ELSE {FALSE}) : req' = [req EXCEPT ![q] = x(v)]
  BY DEF Examine
<1>4. N \in Nat \ {0} /\ Targets = 0 .. N - 1 /\ Weight \in [Targets -> Nat \ {0}]
      /\ None \notin Targets
  BY <1>1, PoolConstants
<1>5. req[q].start \in 0 .. N - 1 /\ req[q].i \in 0 .. N - 1 /\ req[q].i + 1 \in 0 .. N
  BY <1>1, <1>2, <1>4 DEF RequestState
<1>6. t \in Targets
  <2>1. req[q].start + req[q].i \in Nat
    BY <1>5
  <2>2. (req[q].start + req[q].i) % N \in 0 .. N - 1
    BY <1>4, <2>1, Reduced
  <2> QED
    BY <1>4, <2>2 DEF Cursor
<1>7. w \in Nat /\ Balanced(t) \in Objects /\ conns[Balanced(t)] \in Nat
      /\ Consistent(brk[Balanced(t)])
  BY <1>1, <1>4, <1>6, PoolShape DEF BreakersOK
<1>8. Consistent(b)
  BY <1>1, <1>7, BreakerOps
<1>9. t = (req[q].start + req[q].i) % N
  BY DEF Cursor
<1>10. req[q].best = None /\ Healthy(b) => v = TRUE
  BY <1>3 DEF Replaces
<1> HIDE DEF t, b, w
<1>11. /\ x(v) \in RequestState /\ x(v).pc = "scan" /\ x(v).i = req[q].i + 1
       /\ x(v).start = req[q].start /\ x(v).best = IF v THEN t ELSE req[q].best
  <2>1. req[q].total + w \in Nat
    BY <1>1, <1>7 DEF RequestState
  <2> QED
    BY <1>1, <1>2, <1>5, <1>6, <1>7, <2>1 DEF RequestState
<1> DEFINE y == x(v)
<1> HIDE DEF x
<1>12. /\ BreakersOK' /\ up' \in [Requests -> SUBSET Targets]
       /\ \A p \in Requests : up'[p] \subseteq up[p]
       /\ ~Healthy(b) => t \notin up'[q]
  BY <1>1, <1>2, <1>6, <1>7, <1>8, BreakerSet
<1>13. Ahead(y, up'[q])
  <2> SUFFICES ASSUME y.best = None, NEW u \in up'[q]
               PROVE  \E j \in (req[q].i + 1) .. N - 1 : u = (req[q].start + j) % N
    BY <1>11 DEF Ahead
  <2>1. v # TRUE /\ req[q].best = None
    BY <1>4, <1>6, <1>11
  <2>2. u # t /\ u \in up[q]
    BY <1>10, <1>12, <2>1
  <2>3. PICK j \in req[q].i .. N - 1 : u = (req[q].start + j) % N
    BY <1>1, <1>2, <2>1, <2>2 DEF Ahead
  <2>4. j # req[q].i
    BY <1>9, <2>2, <2>3
  <2>5. j \in (req[q].i + 1) .. N - 1
    BY <1>4, <1>5, <2>4
  <2> QED
    BY <2>3, <2>5
<1>14. Placed(y) /\ \A s \in Targets : ServedBy(y, s) <=> ServedBy(req[q], s)
  BY <1>2, <1>11 DEF Placed, ServedBy
<1>15. req' = [req EXCEPT ![q] = y] /\ y \in RequestState
  BY <1>3, <1>11
<1> HIDE DEF y
<1>16. ActiveConnsExact'
  BY <1>1, <1>2, <1>14, <1>15, ConnsSame
<1>17. credit' \in [Targets -> Int]
  BY <1>1, <1>2, <1>6, <1>7, PoolShape
<1> QED
  BY <1>1, <1>2, <1>12, <1>13, <1>14, <1>15, <1>16, <1>17, PoolMove, PoolShape

\* Next returns, with a target or without one.
LEMMA ReturnsKeeps ==
    ASSUME PoolInv, NEW q \in Requests, NextReturns(q) \/ NextFails(q)
    PROVE  PoolInv'
<1>1. TypeOK /\ BreakersOK /\ ActiveConnsExact /\ route \in Routes /\ req[q] \in RequestState
  BY PoolShape DEF PoolInv
<1>2. /\ UNCHANGED <<route, brk, conns, cursor, probe, cancelled, closed>>
      /\ lock' = lock \ {q} /\ up' = [up EXCEPT ![q] = {}] /\ req[q].pc = "scan"
  BY DEF NextReturns, NextFails
<1>3. PICK x \in RequestState : req' = [req EXCEPT ![q] = x] /\ x.pc \in {"idle", "picked"}
                                /\ (x.pc = "picked" => x.best \in Targets)
  <2>1. CASE NextReturns(q)
    <3>1. req[q].best \in Targets
      BY <1>1, <2>1 DEF NextReturns, RequestState
    <3> DEFINE x == [Idle EXCEPT !.pc = "picked", !.best = req[q].best]
    <3>2. x \in RequestState /\ x.pc = "picked" /\ x.best = req[q].best
      BY <1>1, <3>1, IdleValues
    <3>3. req' = [req EXCEPT ![q] = x]
      BY <2>1 DEF NextReturns
    <3> HIDE DEF x
    <3> QED
      BY <3>1, <3>2, <3>3
  <2>2. CASE NextFails(q)
    BY <1>1, <2>2, IdleValues DEF NextFails
  <2> QED
    BY <2>1, <2>2
<1>4. credit' \in [Targets -> Int]
  <2>1. CASE credit' = credit
    BY <1>1, <2>1, PoolShape
  <2>2. CASE credit' = [credit EXCEPT ![req[q].best] = @ - req[q].total]
    <3>1. req[q].total \in Int /\ credit \in [Targets -> Int]
      BY <1>1, PoolShape DEF RequestState
    <3>2. \A t \in Targets : credit[t] - req[q].total \in Int
      BY <3>1
    <3> QED
      BY <2>2, <3>1, <3>2
  <2> QED
    BY <2>1, <2>2 DEF NextReturns, NextFails, Charged
<1>5. /\ Placed(x) /\ Ahead(x, up'[q])
      /\ \A s \in Targets : ServedBy(x, s) <=> ServedBy(req[q], s)
  BY <1>2, <1>3 DEF Placed, Ahead, ServedBy
<1>6. /\ up' \in [Requests -> SUBSET Targets] /\ lock' \in SUBSET Requests
      /\ \A p \in Requests \ {q} : up'[p] = up[p]
  BY <1>1, <1>2, PoolShape
<1>7. ActiveConnsExact'
  BY <1>1, <1>2, <1>3, <1>5, ConnsSame
<1>8. BreakersOK'
  BY <1>1, <1>2 DEF BreakersOK, Consistent, Breaker, MaxFailures, Cooldown
<1> QED
  BY <1>1, <1>2, <1>3, <1>4, <1>5, <1>6, <1>7, <1>8, PoolMove, PoolShape

\* The steps between the increment and the decrement: the target stays the
\* same, whatever is recorded in its breaker.
LEMMA ServeKeeps ==
    ASSUME PoolInv, NEW q \in Requests,
           RejectBody(q) \/ DoError(q) \/ Respond(q) \/ OversizeBody(q)
    PROVE  PoolInv'
<1>1. TypeOK /\ BreakersOK /\ ActiveConnsExact /\ route \in Routes /\ req[q] \in RequestState
      /\ Placed(req[q])
  BY PoolShape DEF PoolInv
<1>2. /\ UNCHANGED <<route, conns, cursor, credit, lock, probe, cancelled, closed>>
      /\ req[q].pc \in {"upstream", "body"}
  BY DEF RejectBody, DoError, Respond, OversizeBody
<1>3. PICK p \in {"body", "leaving"} : req' = [req EXCEPT ![q].pc = p]
  BY DEF RejectBody, DoError, Respond, OversizeBody
<1> DEFINE x == [req[q] EXCEPT !.pc = p]
<1>4. /\ x \in RequestState /\ x.pc = p /\ x.best = req[q].best
      /\ req' = [req EXCEPT ![q] = x]
  BY <1>1, <1>3, PoolShape DEF RequestState, PCs
<1> HIDE DEF x
<1>5. /\ BreakersOK' /\ up' \in [Requests -> SUBSET Targets]
      /\ \A r \in Requests : up'[r] \subseteq up[r]
  <2>1. Chosen(q) \in Objects /\ Consistent(brk[Chosen(q)])
    BY <1>1, <1>2, PoolShape DEF Placed, Chosen, BreakersOK
  <2>2. CASE RejectBody(q)
    BY <1>1, <2>2, PoolShape
       DEF RejectBody, BreakersOK, Consistent, Breaker, MaxFailures, Cooldown
  <2>3. CASE \E b \in {AfterSuccess(brk[Chosen(q)]), AfterFailure(brk[Chosen(q)])} :
                SetBreaker(Chosen(q), b)
    <3>1. PICK b : Consistent(b) /\ SetBreaker(Chosen(q), b)
      BY <1>1, <2>1, <2>3, BreakerOps
    <3> QED
      BY <1>1, <1>2, <2>1, <3>1, BreakerSet
  <2> QED
    BY <2>2, <2>3 DEF DoError, Respond, OversizeBody
<1>6. /\ Placed(x) /\ Ahead(x, up'[q])
      /\ \A s \in Targets : ServedBy(x, s) <=> ServedBy(req[q], s)
  BY <1>1, <1>2, <1>3, <1>4 DEF Placed, Ahead, ServedBy
<1>7. ActiveConnsExact'
  BY <1>1, <1>2, <1>4, <1>6, ConnsSame
<1> QED
  BY <1>1, <1>2, <1>4, <1>5, <1>6, <1>7, PoolMove, PoolShape

\* The increment and the deferred decrement.
LEMMA CountKeeps ==
    ASSUME PoolInv, NEW q \in Requests, IncActiveConns(q) \/ Leave(q)
    PROVE  PoolInv'
<1> DEFINE c == req[q].best
           o == Chosen(q)
           S == {p \in Requests : ServedBy(req[p], c)}
           T == {p \in Requests : ServedBy(req'[p], c)}
<1>1. /\ TypeOK /\ BreakersOK /\ ActiveConnsExact /\ route \in Routes /\ req[q] \in RequestState
      /\ Placed(req[q])
  BY PoolShape DEF PoolInv
<1>2. UNCHANGED <<route, brk, cursor, credit, lock, up, probe, cancelled, closed>>
  BY DEF IncActiveConns, Leave
<1>3. c \in Targets /\ o = Balanced(c) /\ o \in Objects /\ conns \in [Objects -> Nat]
  BY <1>1, PoolShape DEF IncActiveConns, Leave, Placed, Chosen
<1>4. \A t \in Targets : conns[Balanced(t)] = Cardinality(Serving(t))
  BY <1>1 DEF ActiveConnsExact, Serving, ServedBy
<1>5. IsFiniteSet(S) /\ IsFiniteSet(T) /\ Cardinality(S) \in Nat /\ Cardinality(T) \in Nat
  <2>1. IsFiniteSet(Requests) /\ S \subseteq Requests /\ T \subseteq Requests
    BY <1>1, PoolConstants
  <2> HIDE DEF S, T
  <2> QED
    BY <2>1, FS_Subset, FS_CardinalityType
<1>6. ASSUME NEW x \in RequestState, req' = [req EXCEPT ![q] = x], Placed(x), x.pc # "scan",
             \A t \in Targets \ {c} : ~ServedBy(x, t),
             conns' = [conns EXCEPT ![o] = Cardinality(T)]
      PROVE  PoolInv'
  <2>1. req'[q] = x /\ \A p \in Requests \ {q} : req'[p] = req[p]
    BY <1>1, <1>6, RequestSet
  <2>2. \A t \in Targets \ {c} : ~ServedBy(req[q], t)
    BY DEF ServedBy
  <2>3. ASSUME NEW t \in Targets \ {c}
        PROVE  {p \in Requests : ServedBy(req'[p], t)} = Serving(t)
    BY <1>6, <2>1, <2>2 DEF Serving
  <2>4. ASSUME NEW t \in Targets
        PROVE  conns'[Balanced(t)] = Cardinality({p \in Requests : ServedBy(req'[p], t)})
    <3>1. CASE t = c
      BY <1>3, <1>6, <3>1
    <3>2. CASE t # c
      <4>1. Balanced(t) # o /\ Balanced(t) \in Objects
        BY <1>1, <1>3, <3>2, PoolShape
      <4>2. conns'[Balanced(t)] = conns[Balanced(t)]
        BY <1>3, <1>6, <4>1
      <4> QED
        BY <1>4, <2>3, <3>2, <4>2
    <3> QED
      BY <3>1, <3>2
  <2>5. \A t : Balanced(t)' = Balanced(t)
    BY <1>2 DEF Balanced, Clones, Algorithm
  <2>6. ActiveConnsExact'
    BY <2>4, <2>5 DEF ActiveConnsExact, ServedBy
  <2>7. conns' \in [Objects -> Nat]
    BY <1>3, <1>5, <1>6
  <2>8. BreakersOK' /\ Ahead(x, up'[q])
    BY <1>1, <1>2, <1>6 DEF BreakersOK, Consistent, Breaker, MaxFailures, Cooldown, Ahead
  <2> QED
    BY <1>1, <1>2, <1>6, <2>6, <2>7, <2>8, PoolMove, PoolShape
<1>7. CASE IncActiveConns(q)
  <2> DEFINE x == [req[q] EXCEPT !.pc = "upstream"]
  <2>1. /\ x \in RequestState /\ x.pc = "upstream" /\ x.best = c /\ req' = [req EXCEPT ![q] = x]
        /\ req[q].pc = "picked" /\ conns' = [conns EXCEPT ![o] = @ + 1]
    BY <1>1, <1>7, PoolShape DEF IncActiveConns, RequestState, PCs
  <2> HIDE DEF x
  <2>2. req'[q] = x /\ \A p \in Requests \ {q} : req'[p] = req[p]
    BY <1>1, <2>1, RequestSet
  <2>3. T = S \cup {q} /\ q \notin S
    BY <2>1, <2>2 DEF ServedBy
  <2>4. conns' = [conns EXCEPT ![o] = Cardinality(T)]
    <3>1. Cardinality(T) = Cardinality(S) + 1
      <4> HIDE DEF S, T
      <4> QED
        BY <1>5, <2>3, FS_AddElement
    <3>2. conns[o] = Cardinality(S)
      BY <1>3, <1>4 DEF Serving
    <3> QED
      BY <2>1, <3>1, <3>2
  <2>5. Placed(x) /\ \A t \in Targets \ {c} : ~ServedBy(x, t)
    BY <1>3, <2>1 DEF Placed, ServedBy
  <2> QED
    BY <1>6, <2>1, <2>4, <2>5
<1>8. CASE Leave(q)
  <2>1. PICK x \in RequestState :
           /\ req' = [req EXCEPT ![q] = x] /\ x.pc \in {"idle", "relaying"}
           /\ req[q].pc \in {"body", "leaving"} /\ conns' = [conns EXCEPT ![o] = @ - 1]
    <3>1. Idle \in RequestState /\ Idle.pc = "idle"
      BY <1>1, IdleValues
    <3>2. PICK y : y = [Idle EXCEPT !.pc = "relaying", !.best = req[q].best]
      OBVIOUS
    <3>3. y \in RequestState /\ y.pc = "relaying"
      BY <1>1, <1>3, <3>2, IdleValues
    <3> QED BY <1>8, <3>1, <3>2, <3>3 DEF Leave
  <2>2. req'[q] = x /\ \A p \in Requests \ {q} : req'[p] = req[p]
    BY <1>1, <2>1, RequestSet
  <2>3. T = S \ {q} /\ q \in S
    BY <2>1, <2>2 DEF ServedBy
  <2>4. conns' = [conns EXCEPT ![o] = Cardinality(T)]
    <3>1. Cardinality(T) = Cardinality(S) - 1
      <4> HIDE DEF S, T
      <4> QED
        BY <1>5, <2>3, FS_RemoveElement
    <3>2. conns[o] = Cardinality(S)
      BY <1>3, <1>4 DEF Serving
    <3> QED
      BY <2>1, <3>1, <3>2
  <2>5. Placed(x) /\ \A t \in Targets \ {c} : ~ServedBy(x, t)
    BY <2>1 DEF Placed, ServedBy
  <2> QED
    BY <1>6, <2>1, <2>4, <2>5
<1> QED
  BY <1>7, <1>8

\* A relay that nobody counts ends.
LEMMA RelayKeeps ==
    ASSUME PoolInv, NEW q \in Requests, RelayEnds(q)
    PROVE  PoolInv'
<1>1. TypeOK /\ BreakersOK /\ ActiveConnsExact /\ route \in Routes
  BY PoolShape DEF PoolInv
<1>2. /\ UNCHANGED <<route, brk, conns, cursor, credit, lock, up, probe, cancelled, closed>>
      /\ req' = [req EXCEPT ![q] = Idle] /\ req[q].pc = "relaying"
  BY DEF RelayEnds
<1>3. Idle \in RequestState /\ Idle.pc = "idle"
  BY <1>1, IdleValues
<1>4. \A t \in Targets : ServedBy(Idle, t) <=> ServedBy(req[q], t)
  BY <1>2, <1>3 DEF ServedBy
<1>5. ActiveConnsExact'
  BY <1>1, <1>2, <1>3, <1>4, ConnsSame
<1>6. BreakersOK' /\ Ahead(Idle, up'[q]) /\ Placed(Idle)
  BY <1>1, <1>2, <1>3
  DEF BreakersOK, Consistent, Breaker, MaxFailures, Cooldown, Ahead, Placed
<1> QED
  BY <1>1, <1>2, <1>3, <1>5, <1>6, PoolMove, PoolShape

-----------------------------------------------------------------------------
(* Probes, the clock and Close.                                            *)

\* Steps of the background leave every request where it is.
LEMMA BackgroundKeeps ==
    ASSUME PoolInv, UNCHANGED <<route, conns, cursor, credit, lock, req>>, BreakersOK',
           up' \in [Requests -> SUBSET Targets], \A q \in Requests : up'[q] \subseteq up[q],
           probe' \in [Targets -> {"off", "waiting", "probing", "exited"}],
           cancelled' \in [Targets -> BOOLEAN], closed' \in BOOLEAN
    PROVE  PoolInv'
<1>1. TypeOK'
  BY DEF PoolInv, TypeOK, BreakersOK
<1>2. ActiveConnsExact' /\ (\A q \in Requests : Placed(req[q]))'
  BY DEF PoolInv, ActiveConnsExact, Placed, Balanced, Clones, Algorithm
<1>3. ScanCovers'
  BY DEF PoolInv, ScanCovers, Ahead
<1> QED
  BY <1>1, <1>2, <1>3 DEF PoolInv

\* The clock only ages breakers that are Open.
LEMMA TickKeeps ==
    ASSUME PoolInv, Tick
    PROVE  PoolInv'
<1>1. /\ TypeOK /\ BreakersOK /\ route \in Routes
      /\ UNCHANGED <<route, conns, cursor, credit, lock, req, up, probe, cancelled, closed>>
  BY PoolShape DEF PoolInv, Tick
<1> DEFINE a(o) == [brk[o] EXCEPT !.age = @ + 1]
           b(o) == IF brk[o].state = "Open" /\ brk[o].age < Cooldown THEN a(o) ELSE brk[o]
<1>2. brk' = [o \in Objects |-> b(o)]
  BY DEF Tick
<1>3. ASSUME NEW o \in Objects
      PROVE  Consistent(b(o))
  <2>1. brk[o] \in Breaker /\ Consistent(brk[o]) /\ Cooldown \in Nat
    BY <1>1, PoolConstants DEF BreakersOK
  <2>2. CASE brk[o].state = "Open" /\ brk[o].age < Cooldown
    <3>1. brk[o].age + 1 \in 0 .. Cooldown
      BY <2>1, <2>2 DEF Breaker
    <3>2. a(o) \in Breaker /\ a(o).state = brk[o].state /\ a(o).fails = brk[o].fails
      BY <2>1, <3>1 DEF Breaker
    <3> QED
      BY <2>1, <2>2, <3>2 DEF Consistent
  <2> QED
    BY <2>1, <2>2
<1> HIDE DEF b
<1>4. \A o \in Objects : brk'[o] = b(o) /\ b(o) \in Breaker
  BY <1>2, <1>3 DEF Consistent
<1>5. Breaker' = Breaker /\ MaxFailures' = MaxFailures
  BY <1>1 DEF Breaker, MaxFailures, Cooldown
<1>6. BreakersOK'
  BY <1>2, <1>3, <1>4, <1>5 DEF BreakersOK, Consistent
<1>7. /\ probe \in [Targets -> {"off", "waiting", "probing", "exited"}]
      /\ cancelled \in [Targets -> BOOLEAN] /\ closed \in BOOLEAN
      /\ up \in [Requests -> SUBSET Targets]
  BY <1>1 DEF TypeOK
<1> QED
  BY <1>1, <1>6, <1>7, BackgroundKeeps

\* Probes and Close.
LEMMA ProbeKeeps ==
    ASSUME PoolInv,
           \/ Close
           \/ \E t \in Targets :
                 ProbeTick(t) \/ ProbeSucceeds(t) \/ ProbeFails(t) \/ ProbeExit(t)
    PROVE  PoolInv'
<1>1. /\ TypeOK /\ BreakersOK /\ route \in Routes
      /\ UNCHANGED <<route, conns, cursor, credit, lock, req>>
  BY PoolShape DEF PoolInv, Close, ProbeTick, ProbeSucceeds, ProbeFails, ProbeExit
<1>2. /\ probe \in [Targets -> {"off", "waiting", "probing", "exited"}]
      /\ cancelled \in [Targets -> BOOLEAN] /\ closed \in BOOLEAN
      /\ up \in [Requests -> SUBSET Targets]
  BY <1>1 DEF TypeOK
<1>3. CASE Close
  <2>1. cancelled' \in [Targets -> BOOLEAN] /\ closed' \in BOOLEAN /\ UNCHANGED <<brk, up, probe>>
    BY <1>3 DEF Close, Stopped
  <2>2. BreakersOK'
    BY <1>1, <2>1 DEF BreakersOK, Consistent, Breaker, MaxFailures, Cooldown
  <2> QED
    BY <1>1, <1>2, <2>1, <2>2, BackgroundKeeps
<1>4. ASSUME NEW t \in Targets, ProbeTick(t) \/ ProbeExit(t)
      PROVE  PoolInv'
  <2>1. /\ probe' \in [Targets -> {"off", "waiting", "probing", "exited"}]
        /\ UNCHANGED <<brk, up, cancelled, closed>>
    BY <1>2, <1>4 DEF ProbeTick, ProbeExit
  <2>2. BreakersOK'
    BY <1>1, <2>1 DEF BreakersOK, Consistent, Breaker, MaxFailures, Cooldown
  <2> QED
    BY <1>1, <1>2, <2>1, <2>2, BackgroundKeeps
<1>5. ASSUME NEW t \in Targets, ProbeSucceeds(t) \/ ProbeFails(t)
      PROVE  PoolInv'
  <2>1. /\ probe' \in [Targets -> {"off", "waiting", "probing", "exited"}]
        /\ UNCHANGED <<cancelled, closed>>
    BY <1>2, <1>5 DEF ProbeSucceeds, ProbeFails
  <2>2. Probe(t) \in Objects /\ Consistent(brk[Probe(t)])
    BY <1>1, PoolShape DEF BreakersOK
  <2>3. PICK b : Consistent(b) /\ SetBreaker(Probe(t), b)
    BY <1>1, <1>5, <2>2, BreakerOps DEF ProbeSucceeds, ProbeFails
  <2>4. /\ BreakersOK' /\ up' \in [Requests -> SUBSET Targets]
        /\ \A q \in Requests : up'[q] \subseteq up[q]
    BY <1>1, <2>2, <2>3, BreakerSet
  <2> QED
    BY <1>1, <1>2, <2>1, <2>4, BackgroundKeeps
<1> QED
  BY <1>3, <1>4, <1>5

-----------------------------------------------------------------------------
(* Sums over finite sets, as the community modules define them.            *)

\* A set of numbers has a least element.
LEMMA Least ==
    ASSUME NEW T \in SUBSET Nat, T # {}
    PROVE  \E n \in T : \A m \in T : n <= m
<1>1. \E n \in T : \A m \in T : ~(<<m, n>> \in OpToRel(<, Nat))
  BY WFMin, NatLessThanWellFounded
<1>2. PICK n \in T : \A m \in T : ~(<<m, n>> \in OpToRel(<, Nat))
  BY <1>1
<1>3. ASSUME NEW m \in T, m < n PROVE FALSE
  <2>1. <<m, n>> \in OpToRel(<, Nat)
    BY <1>3 DEF OpToRel
  <2> QED BY <1>2, <2>1
<1> QED BY <1>3

\* Induction over the subsets of a finite set: a collection of them that is not
\* empty has a member that is not in it any more without one of its elements.
LEMMA SmallestSet ==
    ASSUME NEW D, IsFiniteSet(D), NEW T \in SUBSET SUBSET D, T # {}
    PROVE  \E S \in T : \A x \in S : S \ {x} \notin T
<1> DEFINE C == {Cardinality(S) : S \in T}
<1>1. \A S \in T : IsFiniteSet(S) /\ Cardinality(S) \in Nat
  BY FS_Subset, FS_CardinalityType
<1>2. PICK n \in C : \A m \in C : n <= m
  <2>1. C \in SUBSET Nat /\ C # {}
    BY <1>1
  <2> HIDE DEF C
  <2> QED BY <2>1, Least
<1>3. PICK S \in T : Cardinality(S) = n
  BY <1>2
<1>4. ASSUME NEW x \in S, S \ {x} \in T PROVE FALSE
  <2>1. Cardinality(S \ {x}) = n - 1
    BY <1>1, <1>3, FS_RemoveElement
  <2>2. n \in Nat /\ n <= n - 1
    BY <1>1, <1>2, <1>3, <1>4, <2>1
  <2> QED BY <2>2
<1> QED BY <1>4

Pick(s) == CHOOSE x \in s : TRUE

\* What g must be in order to be the recursive function of the fold.
SumsUp(g, f, S) ==
    g = [s \in SUBSET S |-> IF s = {} THEN 0 ELSE f[Pick(s)] + g[s \ {Pick(s)}]]

LEMMA SumDef ==
    ASSUME NEW f, NEW S, NEW g, SumsUp(g, f, S)
    PROVE  \E h : SumsUp(h, f, S) /\ SumFunctionOnSet(f, S) = h[S]
BY Zenon DEF SumFunctionOnSet, FoldFunctionOnSet, MapThenFoldSet, SumsUp, Pick

\* An element is picked from a set that is not empty; one is left out.
LEMMA Picked ==
    ASSUME NEW s, s # {}, IsFiniteSet(s)
    PROVE  /\ Pick(s) \in s /\ s \ {Pick(s)} \subseteq s
           /\ IsFiniteSet(s \ {Pick(s)}) /\ Cardinality(s) \in Nat \ {0}
           /\ Cardinality(s \ {Pick(s)}) = Cardinality(s) - 1
<1>1. Pick(s) \in s
  BY Zenon DEF Pick
<1>2. Cardinality(s) \in Nat /\ Cardinality(s) # 0
  BY FS_CardinalityType, FS_EmptySet
<1> QED BY <1>1, <1>2, FS_RemoveElement

LEMMA SumExists ==
    ASSUME NEW S, IsFiniteSet(S), NEW f, \A x \in S : f[x] \in Int
    PROVE  \E g \in [SUBSET S -> Int] : SumsUp(g, f, S)
<1> DEFINE Part(n) == {s \in SUBSET S : Cardinality(s) <= n}
           Up(g, n) == \A s \in Part(n) :
                          g[s] = IF s = {} THEN 0 ELSE f[Pick(s)] + g[s \ {Pick(s)}]
           P(n) == \E g \in [Part(n) -> Int] : Up(g, n)
           T == {n \in Nat : ~P(n)}
<1>0. \A s \in SUBSET S : IsFiniteSet(s) /\ Cardinality(s) \in Nat
  BY FS_Subset, FS_CardinalityType
<1>1. T = {}
  <2> SUFFICES ASSUME T # {} PROVE FALSE
    OBVIOUS
  <2>1. PICK n \in T : \A m \in T : n <= m
    <3>1. T \in SUBSET Nat
      OBVIOUS
    <3> HIDE DEF T
    <3> QED BY <3>1, Least
  <2>2. n \in Nat /\ ~P(n)
    BY <2>1
  <2>3. CASE n = 0
    <3>1. Part(0) = {{}}
      BY <1>0, FS_EmptySet
    <3> DEFINE g == [s \in Part(0) |-> 0]
    <3>2. g \in [Part(0) -> Int] /\ Up(g, 0)
      BY <3>1
    <3> QED BY <2>2, <2>3, <3>2
  <2>4. CASE n # 0
    <3>1. n - 1 \in Nat /\ n - 1 \notin T
      <4>1. n - 1 \in Nat /\ ~(n <= n - 1)
        BY <2>2, <2>4
      <4> HIDE DEF T
      <4> QED BY <2>1, <4>1
    <3>2. PICK g \in [Part(n - 1) -> Int] : Up(g, n - 1)
      BY <3>1
    <3> DEFINE e == [s \in Part(n) |->
                        IF s \in Part(n - 1) THEN g[s] ELSE f[Pick(s)] + g[s \ {Pick(s)}]]
    <3>3. ASSUME NEW s \in Part(n), s # {}
          PROVE  s \ {Pick(s)} \in Part(n - 1) /\ f[Pick(s)] \in Int
      <4>1. IsFiniteSet(s) /\ Cardinality(s) <= n
        BY <1>0
      <4>2. /\ Pick(s) \in s /\ s \ {Pick(s)} \subseteq s
            /\ Cardinality(s \ {Pick(s)}) = Cardinality(s) - 1
            /\ Cardinality(s) \in Nat
        BY <3>3, <4>1, Picked
      <4>3. Cardinality(s) - 1 <= n - 1
        BY <2>2, <4>1, <4>2
      <4> QED BY <4>2, <4>3
    <3>4. {} \in Part(n - 1)
      BY <3>1, FS_EmptySet
    <3>5. \A s \in Part(n - 1) : s \in Part(n)
      BY <1>0, <2>2
    <3> HIDE DEF Part
    <3>6. \A s \in Part(n) : s \notin Part(n - 1) => s # {}
      BY <3>4
    <3>7. e \in [Part(n) -> Int]
      BY <3>2, <3>3, <3>6
    <3>8. ASSUME NEW s \in Part(n)
          PROVE  e[s] = IF s = {} THEN 0 ELSE f[Pick(s)] + e[s \ {Pick(s)}]
      <4>1. CASE s = {}
        BY <3>2, <3>4, <4>1
      <4>2. CASE s # {}
        <5>1. s \ {Pick(s)} \in Part(n - 1)
          BY <3>3, <4>2
        <5>2. e[s \ {Pick(s)}] = g[s \ {Pick(s)}]
          BY <3>5, <5>1
        <5>3. e[s] = f[Pick(s)] + g[s \ {Pick(s)}]
          BY <3>2, <4>2
        <5> QED BY <4>2, <5>2, <5>3
      <4> QED BY <4>1, <4>2
    <3>9. P(n)
      BY <3>7, <3>8
    <3> QED BY <2>2, <3>9
  <2> QED BY <2>3, <2>4
<1>2. Cardinality(S) \in Nat /\ Part(Cardinality(S)) = SUBSET S
  BY <1>0, FS_CardinalityType, FS_Subset
<1>3. PICK g \in [SUBSET S -> Int] : Up(g, Cardinality(S))
  BY <1>1, <1>2
<1>4. SumsUp(g, f, S)
  BY <1>2, <1>3 DEF SumsUp
<1> QED BY <1>4

\* Over a subset the sum is the same, whichever set it is a subset of.
LEMMA SumUnique ==
    ASSUME NEW D, IsFiniteSet(D), NEW S \in SUBSET D, NEW f, NEW g, NEW h,
           SumsUp(g, f, S), SumsUp(h, f, D)
    PROVE  \A s \in SUBSET S : g[s] = h[s]
<1> DEFINE T == {s \in SUBSET S : g[s] # h[s]}
<1>1. T = {}
  <2> SUFFICES ASSUME T # {} PROVE FALSE
    OBVIOUS
  <2>1. PICK s \in T : \A x \in s : s \ {x} \notin T
    <3>1. T \in SUBSET SUBSET D
      OBVIOUS
    <3> HIDE DEF T
    <3> QED BY <3>1, SmallestSet
  <2>2. CASE s = {}
    BY <2>1, <2>2 DEF SumsUp
  <2>3. CASE s # {}
    <3>1. IsFiniteSet(s) /\ s \in SUBSET D
      BY FS_Subset
    <3>2. g[s \ {Pick(s)}] = h[s \ {Pick(s)}]
      BY <2>1, <2>3, <3>1, Picked
    <3>3. g[s] = f[Pick(s)] + g[s \ {Pick(s)}]
      BY <2>3 DEF SumsUp
    <3>4. h[s] = f[Pick(s)] + h[s \ {Pick(s)}]
      BY <2>3, <3>1 DEF SumsUp
    <3> QED BY <3>2, <3>3, <3>4
  <2> QED BY <2>2, <2>3
<1> QED BY <1>1

\* h is the sum of f over every subset of D.
Tallies(h, f, D) ==
    /\ h \in [SUBSET D -> Int] /\ SumsUp(h, f, D)
    /\ \A S \in SUBSET D : SumFunctionOnSet(f, S) = h[S]

LEMMA SumTallies ==
    ASSUME NEW D, IsFiniteSet(D), NEW f, \A x \in D : f[x] \in Int
    PROVE  \E h : Tallies(h, f, D)
<1>1. PICK h \in [SUBSET D -> Int] : SumsUp(h, f, D)
  BY SumExists
<1>2. ASSUME NEW S \in SUBSET D PROVE SumFunctionOnSet(f, S) = h[S]
  <2>1. IsFiniteSet(S) /\ \A x \in S : f[x] \in Int
    BY FS_Subset
  <2>2. PICK g : SumsUp(g, f, S) /\ SumFunctionOnSet(f, S) = g[S]
    BY <2>1, SumExists, SumDef
  <2>3. g[S] = h[S]
    BY <1>1, <2>2, SumUnique
  <2> QED BY <2>2, <2>3
<1> QED BY <1>1, <1>2 DEF Tallies

\* The sum of a function over a finite set: it is a number, and any element may
\* be taken out first.
LEMMA SumFacts ==
    ASSUME NEW D, IsFiniteSet(D), NEW f, \A x \in D : f[x] \in Int
    PROVE  /\ SumFunctionOnSet(f, {}) = 0
           /\ \A S \in SUBSET D : SumFunctionOnSet(f, S) \in Int
           /\ \A S \in SUBSET D : \A x \in S :
                 SumFunctionOnSet(f, S) = SumFunctionOnSet(f, S \ {x}) + f[x]
<1>0. PICK h : Tallies(h, f, D)
  BY SumTallies
<1>1. /\ h \in [SUBSET D -> Int] /\ SumsUp(h, f, D)
      /\ \A S \in SUBSET D : SumFunctionOnSet(f, S) = h[S]
  BY <1>0 DEF Tallies
<1>2. \A S \in SUBSET D : IsFiniteSet(S) /\ Cardinality(S) \in Nat
  BY FS_Subset, FS_CardinalityType
<1>3. ASSUME NEW S \in SUBSET D, S # {} PROVE h[S] = f[Pick(S)] + h[S \ {Pick(S)}]
  BY <1>1, <1>3 DEF SumsUp
<1>4. h[{}] = 0
  BY <1>1 DEF SumsUp
<1> DEFINE T == {S \in SUBSET D : \E x \in S : h[S] # h[S \ {x}] + f[x]}
<1>5. T = {}
  <2> SUFFICES ASSUME T # {} PROVE FALSE
    OBVIOUS
  <2>1. PICK S \in T : \A x \in S : S \ {x} \notin T
    <3>1. T \in SUBSET SUBSET D
      OBVIOUS
    <3> HIDE DEF T
    <3> QED BY <3>1, SmallestSet
  <2>2. PICK x \in S : h[S] # h[S \ {x}] + f[x]
    BY <2>1
  <2>3. PICK y \in S : h[S] = f[y] + h[S \ {y}]
    BY <1>2, <1>3, <2>2, Picked
  <2>4. /\ S \ {x} \in SUBSET D /\ S \ {y} \in SUBSET D /\ (S \ {x}) \ {y} \in SUBSET D
        /\ (S \ {y}) \ {x} = (S \ {x}) \ {y}
    OBVIOUS
  <2>5. PICK a \in Int, b \in Int, q \in Int, r \in Int :
           a = f[x] /\ b = f[y] /\ q = h[S \ {y}] /\ r = h[(S \ {x}) \ {y}]
    BY <1>1, <2>4
  <2>6. CASE x = y
    <3>1. h[S] = b + q /\ h[S] # q + b
      BY <2>2, <2>3, <2>5, <2>6
    <3> QED BY <3>1
  <2>7. CASE x # y
    <3>1. h[S \ {x}] = r + b /\ h[S \ {y}] = r + a
      BY <2>1, <2>4, <2>5, <2>7
    <3>2. h[S] = b + (r + a) /\ h[S] # (r + b) + a
      BY <2>2, <2>3, <2>5, <3>1
    <3> QED BY <3>2
  <2> QED BY <2>6, <2>7
<1>6. \A S \in SUBSET D : \A x \in S : h[S] = h[S \ {x}] + f[x]
  BY <1>5
<1>7. \A S \in SUBSET D : \A x \in S : S \ {x} \in SUBSET D
  OBVIOUS
<1> QED BY <1>1, <1>4, <1>6, <1>7

\* Nothing adds up to nothing.
LEMMA SumZero ==
    ASSUME NEW D, IsFiniteSet(D), NEW f, \A x \in D : f[x] = 0
    PROVE  \A S \in SUBSET D : SumFunctionOnSet(f, S) = 0
<1> DEFINE T == {S \in SUBSET D : SumFunctionOnSet(f, S) # 0}
<1>0. /\ SumFunctionOnSet(f, {}) = 0
      /\ \A S \in SUBSET D : \A x \in S :
            SumFunctionOnSet(f, S) = SumFunctionOnSet(f, S \ {x}) + f[x]
  <2>1. \A x \in D : f[x] \in Int
    OBVIOUS
  <2> QED BY <2>1, SumFacts
<1>1. T = {}
  <2> SUFFICES ASSUME T # {} PROVE FALSE
    OBVIOUS
  <2>1. PICK S \in T : \A x \in S : S \ {x} \notin T
    <3>1. T \in SUBSET SUBSET D
      OBVIOUS
    <3> HIDE DEF T
    <3> QED BY <3>1, SmallestSet
  <2>2. PICK x : x \in S
    BY <1>0, <2>1
  <2>3. SumFunctionOnSet(f, S) = SumFunctionOnSet(f, S \ {x}) + f[x]
    BY <1>0, <2>1, <2>2
  <2>4. SumFunctionOnSet(f, S \ {x}) = 0 /\ f[x] = 0
    BY <2>1, <2>2
  <2> QED BY <2>1, <2>3, <2>4
<1> QED BY <1>1

\* More summands that are not negative do not make a sum smaller.
LEMMA SumGrows ==
    ASSUME NEW D, IsFiniteSet(D), NEW f, \A x \in D : f[x] \in Nat, NEW S \in SUBSET D
    PROVE  SumFunctionOnSet(f, S) <= SumFunctionOnSet(f, D)
<1> DEFINE T == {R \in SUBSET D : S \subseteq R
                                  /\ ~(SumFunctionOnSet(f, S) <= SumFunctionOnSet(f, R))}
<1>0. \A x \in D : f[x] \in Int
  OBVIOUS
<1>1. T = {}
  <2> SUFFICES ASSUME T # {} PROVE FALSE
    OBVIOUS
  <2>1. PICK R \in T : \A x \in R : R \ {x} \notin T
    <3>1. T \in SUBSET SUBSET D
      OBVIOUS
    <3> HIDE DEF T
    <3> QED BY <3>1, SmallestSet
  <2>2. \A Q \in SUBSET D : SumFunctionOnSet(f, Q) \in Int
    BY <1>0, SumFacts
  <2>3. R # S
    BY <2>1, <2>2
  <2>4. PICK x \in R : x \notin S
    BY <2>1, <2>3
  <2>5. SumFunctionOnSet(f, R) = SumFunctionOnSet(f, R \ {x}) + f[x]
    BY <1>0, <2>1, SumFacts
  <2>6. SumFunctionOnSet(f, S) <= SumFunctionOnSet(f, R \ {x})
    BY <2>1, <2>4
  <2>7. PICK a \in Int, b \in Int, v \in Nat :
           a = SumFunctionOnSet(f, S) /\ b = SumFunctionOnSet(f, R \ {x}) /\ v = f[x]
    BY <2>1, <2>2
  <2>8. a <= b /\ ~(a <= b + v)
    BY <2>1, <2>5, <2>6, <2>7
  <2> QED BY <2>8
<1> QED BY <1>1
-----------------------------------------------------------------------------
(* The credits of the smooth weighted balancer.                            *)

LEMMA Weights == N \in Nat \ {0} /\ Weight \in [Targets -> Nat \ {0}]
BY UpstreamPoolAssumption DEF UpstreamPoolAssumption

SumOf(c, S) == SumFunctionOnSet(c, S)

\* The weight of all targets.
AllWeight == SumFunction(Weight)

\* Between two selections the credits add up to nothing, and no set of targets
\* has more of them than its size allows.
Fair(c) ==
    /\ SumOf(c, Targets) = 0
    /\ \A S \in SUBSET Targets :
          2 * SumOf(c, S) <= AllWeight * (Cardinality(S) * (N - Cardinality(S)))

\* The credits after a selection: the targets of H were healthy, b is chosen.
Round(c, H, b) ==
    [t \in Targets |-> c[t] + (IF t \in H THEN Weight[t] ELSE 0)
                            - (IF t = b THEN SumOf(Weight, H) ELSE 0)]

LEMMA TargetsFinite ==
    /\ IsFiniteSet(Targets) /\ Cardinality(Targets) = N
    /\ \A S \in SUBSET Targets :
          IsFiniteSet(S) /\ Cardinality(S) \in Nat /\ Cardinality(S) <= N
    /\ \A S \in SUBSET Targets : SumOf(Weight, S) \in Nat
    /\ AllWeight = SumOf(Weight, Targets)
<1>1. IsFiniteSet(Targets) /\ Cardinality(Targets) = N
  BY Weights, FS_Interval DEF Targets
<1>2. \A S \in SUBSET Targets :
          IsFiniteSet(S) /\ Cardinality(S) \in Nat /\ Cardinality(S) <= N
  BY <1>1, FS_Subset, FS_CardinalityType
<1>3. \A x \in Targets : Weight[x] \in Nat /\ Weight[x] \in Int
  BY Weights
<1>4. ASSUME NEW S \in SUBSET Targets PROVE SumOf(Weight, S) \in Nat
  <2>1. IsFiniteSet(S) /\ \A x \in S : Weight[x] \in Nat /\ Weight[x] \in Int
    BY <1>2, <1>3
  <2>2. SumFunctionOnSet(Weight, {}) = 0 /\ SumFunctionOnSet(Weight, S) \in Int
    BY <2>1, SumFacts
  <2>3. SumFunctionOnSet(Weight, {}) <= SumFunctionOnSet(Weight, S)
    BY <2>1, SumGrows
  <2> QED BY <2>2, <2>3 DEF SumOf
<1>5. AllWeight = SumOf(Weight, Targets)
  BY Weights DEF AllWeight, SumOf, SumFunction
<1> QED BY <1>1, <1>2, <1>4, <1>5

LEMMA RoundType ==
    ASSUME NEW c \in [Targets -> Int], NEW H \in SUBSET Targets, NEW b \in H
    PROVE  Round(c, H, b) \in [Targets -> Int]
<1>1. SumOf(Weight, H) \in Int /\ \A t \in Targets : Weight[t] \in Int
  BY TargetsFinite, Weights
<1> QED BY <1>1 DEF Round

\* What a selection leaves of the credits of a set.
Left(c, H, b, S) ==
    SumOf(c, S) + SumOf(Weight, S \cap H) - (IF b \in S THEN SumOf(Weight, H) ELSE 0)

LEMMA RoundSum ==
    ASSUME NEW c \in [Targets -> Int], NEW H \in SUBSET Targets, NEW b \in H,
           NEW Q \in SUBSET Targets
    PROVE  SumOf(Round(c, H, b), Q) = Left(c, H, b, Q)
<1> DEFINE d == Round(c, H, b)
           T == {S \in SUBSET Targets : SumOf(d, S) # Left(c, H, b, S)}
<1>0. d \in [Targets -> Int]
  BY RoundType
<1>1. /\ SumOf(c, {}) = 0 /\ SumOf(Weight, {}) = 0 /\ SumOf(d, {}) = 0
      /\ \A S \in SUBSET Targets :
            SumOf(c, S) \in Int /\ SumOf(d, S) \in Int /\ SumOf(Weight, S) \in Int
      /\ \A S \in SUBSET Targets : \A x \in S :
            /\ SumOf(c, S) = SumOf(c, S \ {x}) + c[x]
            /\ SumOf(d, S) = SumOf(d, S \ {x}) + d[x]
            /\ SumOf(Weight, S) = SumOf(Weight, S \ {x}) + Weight[x]
  <2>1. \A x \in Targets : c[x] \in Int
    OBVIOUS
  <2>2. \A x \in Targets : d[x] \in Int
    BY <1>0
  <2>3. \A x \in Targets : Weight[x] \in Int
    BY Weights
  <2> HIDE DEF d
  <2>4. /\ SumOf(c, {}) = 0 /\ \A S \in SUBSET Targets : SumOf(c, S) \in Int
        /\ \A S \in SUBSET Targets : \A x \in S : SumOf(c, S) = SumOf(c, S \ {x}) + c[x]
    BY <2>1, TargetsFinite, SumFacts DEF SumOf
  <2>5. /\ SumOf(d, {}) = 0 /\ \A S \in SUBSET Targets : SumOf(d, S) \in Int
        /\ \A S \in SUBSET Targets : \A x \in S : SumOf(d, S) = SumOf(d, S \ {x}) + d[x]
    BY <2>2, TargetsFinite, SumFacts DEF SumOf
  <2>6. /\ SumOf(Weight, {}) = 0 /\ \A S \in SUBSET Targets : SumOf(Weight, S) \in Int
        /\ \A S \in SUBSET Targets : \A x \in S :
              SumOf(Weight, S) = SumOf(Weight, S \ {x}) + Weight[x]
    BY <2>3, TargetsFinite, SumFacts DEF SumOf
  <2> QED BY <2>4, <2>5, <2>6
<1>2. T = {}
  <2> SUFFICES ASSUME T # {} PROVE FALSE
    OBVIOUS
  <2>1. PICK S \in T : \A x \in S : S \ {x} \notin T
    <3>1. T \in SUBSET SUBSET Targets
      OBVIOUS
    <3> HIDE DEF T
    <3> QED BY <3>1, SmallestSet, TargetsFinite
  <2>2. S \in SUBSET Targets /\ SumOf(d, S) # Left(c, H, b, S)
    BY <2>1
  <2>3. CASE S = {}
    <3>1. S \cap H = {} /\ b \notin S
      BY <2>3
    <3> QED BY <1>1, <2>2, <2>3, <3>1 DEF Left
  <2>4. ASSUME NEW x \in S PROVE FALSE
    <3> DEFINE R == S \ {x}
    <3>1. R \in SUBSET Targets /\ x \in Targets
      BY <2>2
    <3>2. SumOf(d, R) = Left(c, H, b, R)
      BY <2>1, <3>1
    <3>3. PICK p \in Int, q \in Int, r \in Int, e \in Int, w \in Int, v \in Int :
             /\ p = SumOf(c, R) /\ q = SumOf(Weight, R \cap H) /\ r = SumOf(Weight, H)
             /\ e = c[x] /\ w = Weight[x] /\ v = d[x]
      <4>1. R \cap H \in SUBSET Targets
        BY <3>1
      <4>2. SumOf(c, R) \in Int /\ SumOf(Weight, R \cap H) \in Int /\ SumOf(Weight, H) \in Int
        BY <1>1, <3>1, <4>1
      <4>3. c[x] \in Int /\ Weight[x] \in Int /\ d[x] \in Int
        BY <1>0, <3>1, Weights
      <4> HIDE DEF d, R
      <4> QED BY <4>2, <4>3
    <3>4. SumOf(c, S) = p + e /\ SumOf(d, S) = SumOf(d, R) + v
      BY <1>1, <2>2, <3>3
    <3>5. SumOf(Weight, S \cap H) = q + (IF x \in H THEN w ELSE 0)
      <4>1. CASE x \in H
        <5>1. (S \cap H) \ {x} = R \cap H /\ S \cap H \in SUBSET Targets /\ x \in S \cap H
          BY <2>2, <4>1
        <5> QED BY <1>1, <3>3, <4>1, <5>1
      <4>2. CASE x \notin H
        <5>1. S \cap H = R \cap H
          BY <4>2
        <5>2. SumOf(Weight, S \cap H) = q
          BY <3>3, <5>1
        <5>3. q = q + 0
          BY <3>3
        <5> QED BY <4>2, <5>2, <5>3
      <4> QED BY <4>1, <4>2
    <3>6. v = e + (IF x \in H THEN w ELSE 0) - (IF x = b THEN r ELSE 0)
      BY <3>1, <3>3 DEF Round
    <3>7. SumOf(d, R) = p + q - (IF b \in R THEN r ELSE 0)
      BY <3>2, <3>3 DEF Left
    <3>8. b \in S <=> b \in R \/ x = b
      OBVIOUS
    <3>9. b \in R => x # b
      OBVIOUS
    <3>10. (p + q - (IF b \in R THEN r ELSE 0)) + v #
              (p + e) + (q + (IF x \in H THEN w ELSE 0)) - (IF b \in S THEN r ELSE 0)
      BY <2>2, <3>3, <3>4, <3>5, <3>7 DEF Left
    <3> QED BY <3>6, <3>8, <3>9, <3>10
  <2> QED BY <2>3, <2>4
<1> QED BY <1>2

\* The bound is kept where two neighbouring sizes and a difference of credits
\* that is no more than the weight of all targets determine the sum.
LEMMA Exchange ==
    ASSUME NEW w \in Nat, NEW n \in Nat, NEW k \in Nat, NEW a \in Int, NEW b \in Int,
           NEW p \in Int, NEW q \in Int, NEW x \in Int,
           x = a - p, x = b + q, p >= q - w,
           2 * a <= w * ((k + 1) * (n - (k + 1))), 2 * b <= w * ((k - 1) * (n - (k - 1)))
    PROVE  2 * x <= w * (k * (n - k))
<1>1. PICK z \in Int : z = k * (n - k)
  OBVIOUS
<1>2. /\ (k + 1) * (n - (k + 1)) = z + (n - 2 * k - 1)
      /\ (k - 1) * (n - (k - 1)) = z - (n - 2 * k + 1)
  BY <1>1
<1>3. PICK y \in Int, u \in Int : y = w * z /\ u = w * (n - 2 * k)
  OBVIOUS
<1>4. w * (z + (n - 2 * k - 1)) = y + u - w /\ w * (z - (n - 2 * k + 1)) = y - u - w
  BY <1>3
<1>5. 2 * a <= y + u - w /\ 2 * b <= y - u - w
  BY <1>2, <1>4
<1>6. 2 * x <= y
  BY <1>5
<1> QED BY <1>1, <1>3, <1>6

\* A selection keeps the credits fair: the chosen target has the highest credit
\* of the healthy ones and pays for what all of them get.
LEMMA RoundFair ==
    ASSUME NEW c \in [Targets -> Int], Fair(c), NEW H \in SUBSET Targets, NEW b \in H,
           \A t \in H : c[t] + Weight[t] <= c[b] + Weight[b]
    PROVE  Fair(Round(c, H, b))
<1> DEFINE d == Round(c, H, b)
           Bound(S) == AllWeight * (Cardinality(S) * (N - Cardinality(S)))
           T == {S \in SUBSET Targets : ~(2 * SumOf(d, S) <= Bound(S))}
<1>0. d \in [Targets -> Int]
  BY RoundType
<1>1. /\ \A S \in SUBSET Targets :
            SumOf(c, S) \in Int /\ SumOf(d, S) \in Int /\ SumOf(Weight, S) \in Nat
      /\ \A S \in SUBSET Targets : \A x \in S : SumOf(d, S) = SumOf(d, S \ {x}) + d[x]
  <2>1. \A x \in Targets : c[x] \in Int
    OBVIOUS
  <2>2. \A x \in Targets : d[x] \in Int
    BY <1>0
  <2> HIDE DEF d
  <2>3. \A S \in SUBSET Targets : SumOf(c, S) \in Int
    BY <2>1, TargetsFinite, SumFacts DEF SumOf
  <2>4. /\ \A S \in SUBSET Targets : SumOf(d, S) \in Int
        /\ \A S \in SUBSET Targets : \A x \in S : SumOf(d, S) = SumOf(d, S \ {x}) + d[x]
    BY <2>2, TargetsFinite, SumFacts DEF SumOf
  <2> QED BY <2>3, <2>4, TargetsFinite
<1>2. ASSUME NEW S \in SUBSET Targets
      PROVE  SumOf(d, S) = Left(c, H, b, S)
  BY RoundSum
<1>3. ASSUME NEW S \in SUBSET H
      PROVE  SumOf(Weight, S) <= SumOf(Weight, H)
  <2>1. IsFiniteSet(H) /\ \A x \in H : Weight[x] \in Nat
    BY TargetsFinite, Weights
  <2> QED BY <2>1, SumGrows DEF SumOf
<1>4. SumOf(d, Targets) = 0
  <2>1. Targets \cap H = H /\ b \in Targets /\ SumOf(c, Targets) = 0
    BY DEF Fair
  <2>2. SumOf(Weight, H) \in Nat
    BY <1>1
  <2>3. SumOf(d, Targets) = SumOf(c, Targets) + SumOf(Weight, Targets \cap H)
                               - SumOf(Weight, H)
    BY <1>2, <2>1 DEF Left
  <2> HIDE DEF d
  <2> QED BY <2>1, <2>2, <2>3
\* With the chosen target in it, a set has not gained.
<1>5. ASSUME NEW S \in SUBSET Targets, b \in S
      PROVE  2 * SumOf(d, S) <= Bound(S)
  <2>1. SumOf(d, S) = SumOf(c, S) + SumOf(Weight, S \cap H) - SumOf(Weight, H)
    BY <1>2, <1>5 DEF Left
  <2>2. SumOf(Weight, S \cap H) <= SumOf(Weight, H)
    BY <1>3
  <2>3. /\ SumOf(c, S) \in Int /\ SumOf(Weight, S \cap H) \in Nat /\ SumOf(Weight, H) \in Nat
        /\ SumOf(d, S) \in Int
    BY <1>1
  <2>4. Bound(S) \in Int /\ 2 * SumOf(c, S) <= Bound(S)
    <3>1. AllWeight \in Nat /\ Cardinality(S) \in Nat /\ N \in Nat
      BY TargetsFinite, Weights
    <3> QED BY <3>1 DEF Fair
  <2> HIDE DEF d, Bound
  <2> QED BY <2>1, <2>2, <2>3, <2>4
<1>6. T = {}
  <2> SUFFICES ASSUME T # {} PROVE FALSE
    OBVIOUS
  <2>1. PICK S \in T : \A x \in S : S \ {x} \notin T
    <3>1. T \in SUBSET SUBSET Targets
      OBVIOUS
    <3> HIDE DEF T
    <3> QED BY <3>1, SmallestSet, TargetsFinite
  <2>2. S \in SUBSET Targets /\ ~(2 * SumOf(d, S) <= Bound(S))
    BY <2>1
  <2>3. b \notin S
    BY <1>5, <2>2
  <2>4. PICK s \in S : s \in H
    <3> SUFFICES ASSUME S \cap H = {} PROVE FALSE
      OBVIOUS
    <3>1. SumOf(Weight, {}) = 0
      <4>1. \A x \in Targets : Weight[x] \in Int
        BY Weights
      <4> QED BY <4>1, TargetsFinite, SumFacts DEF SumOf
    <3>2. SumOf(d, S) = SumOf(c, S) + 0 - 0
      BY <1>2, <2>2, <2>3, <3>1 DEF Left
    <3>3. SumOf(d, S) = SumOf(c, S)
      BY <1>1, <2>2, <3>2
    <3> QED BY <2>2, <3>3 DEF Fair
  <2> DEFINE B == S \cup {b}
             R == S \ {s}
  <2>5. /\ B \in SUBSET Targets /\ R \in SUBSET Targets /\ B \ {b} = S
        /\ b \in B /\ s \in Targets /\ b \in Targets /\ s # b
    BY <2>2, <2>3
  <2>6. SumOf(d, B) = SumOf(d, S) + d[b] /\ SumOf(d, S) = SumOf(d, R) + d[s]
    BY <1>1, <2>2, <2>4, <2>5
  <2>7. 2 * SumOf(d, B) <= Bound(B)
    BY <1>5, <2>5
  <2>8. 2 * SumOf(d, R) <= Bound(R)
    BY <2>1, <2>5
  <2>9. PICK k \in Nat : /\ k = Cardinality(S) /\ Cardinality(B) = k + 1
                         /\ Cardinality(R) = k - 1
    <3>1. IsFiniteSet(S) /\ Cardinality(S) \in Nat
      BY <2>2, TargetsFinite
    <3>2. Cardinality(B) = Cardinality(S) + 1
      BY <2>3, <3>1, FS_AddElement
    <3>3. Cardinality(R) = Cardinality(S) - 1
      BY <2>4, <3>1, FS_RemoveElement
    <3> QED BY <3>1, <3>2, <3>3
  <2>10. PICK w \in Nat, n \in Nat : w = AllWeight /\ n = N
    BY TargetsFinite, Weights
  <2>11. PICK a \in Int, r \in Int, p \in Int, q \in Int, x \in Int :
            /\ a = SumOf(d, B) /\ r = SumOf(d, R) /\ p = d[b] /\ q = d[s] /\ x = SumOf(d, S)
    BY <1>0, <1>1, <2>2, <2>5
  <2>12. p >= q - w
    <3>1. PICK h \in Nat, e \in Int, f \in Int, u \in Int, v \in Int :
             /\ h = SumOf(Weight, H) /\ e = c[b] /\ u = Weight[b] /\ f = c[s] /\ v = Weight[s]
      BY <1>1, <2>5, Weights
    <3>2. p = e + u - h /\ q = f + v - 0
      BY <2>4, <2>5, <2>11, <3>1 DEF Round
    <3>3. f + v <= e + u
      BY <2>4, <3>1
    <3>4. h <= w
      <4>1. \A y \in Targets : Weight[y] \in Nat
        BY Weights
      <4>2. SumFunctionOnSet(Weight, H) <= SumFunctionOnSet(Weight, Targets)
        BY <4>1, TargetsFinite, SumGrows
      <4> QED BY <2>10, <3>1, <4>2, TargetsFinite DEF SumOf
    <3> QED BY <3>2, <3>3, <3>4
  <2>13. a = x + p /\ x = r + q
    BY <2>6, <2>11
  <2>14. x = a - p
    BY <2>13
  <2>15. 2 * a <= w * ((k + 1) * (n - (k + 1))) /\ 2 * r <= w * ((k - 1) * (n - (k - 1)))
    BY <2>7, <2>8, <2>9, <2>10, <2>11
  <2>16. 2 * x <= w * (k * (n - k))
    BY <2>12, <2>13, <2>14, <2>15, Exchange
  <2> QED BY <2>2, <2>9, <2>10, <2>11, <2>16
<1> QED BY <1>4, <1>6 DEF Fair

\* The credits c with the weights of the targets in H added.
Raised(c, H) == [t \in Targets |-> c[t] + (IF t \in H THEN Weight[t] ELSE 0)]

\* A scan that began with the credits c has raised those of the targets in H and
\* has found the highest among them.
Scanned(x, c, H) ==
    /\ Fair(c) /\ x.start = 0 /\ credit = Raised(c, H)
    /\ \A t \in H : t < x.i
    /\ x.total = SumOf(Weight, H)
    /\ x.best = None => H = {}
    /\ x.best # None => x.best \in H /\ \A t \in H : credit[t] <= credit[x.best]

CreditInv ==
    /\ Algorithm # "weighted_round_robin" => Fair(credit)
    /\ Algorithm = "weighted_round_robin" =>
          /\ \A q \in Requests : q \in lock <=> req[q].pc = "scan"
          /\ \A p, q \in lock : p = q
          /\ lock = {} => Fair(credit)
          /\ \A q \in lock : \E c \in [Targets -> Int], H \in SUBSET Targets :
                Scanned(req[q], c, H)

\* A step outside of Next leaves the credits alone.
LEMMA CreditSame ==
    ASSUME PoolInv, CreditInv, UNCHANGED <<route, credit, lock>>,
           \A q \in Requests : \/ req'[q] = req[q]
                               \/ req[q].pc # "scan" /\ req'[q].pc # "scan"
    PROVE  CreditInv'
<1>1. Algorithm' = Algorithm /\ lock' = lock /\ credit' = credit /\ lock \in SUBSET Requests
  BY PoolShape DEF Algorithm, PoolInv
<1>2. CASE Algorithm # "weighted_round_robin"
  BY <1>1, <1>2 DEF CreditInv, Fair, SumOf
<1>3. CASE Algorithm = "weighted_round_robin"
  <2>1. \A q \in Requests : q \in lock => req[q].pc = "scan"
    BY <1>3 DEF CreditInv
  <2>2. \A q \in Requests : q \in lock => req'[q] = req[q]
    BY <2>1
  <2>3. ASSUME NEW q \in lock
        PROVE  \E c \in [Targets -> Int], H \in SUBSET Targets : Scanned(req[q], c, H)'
    <3>1. PICK c \in [Targets -> Int], H \in SUBSET Targets : Scanned(req[q], c, H)
      BY <1>3 DEF CreditInv
    <3>2. req'[q] = req[q]
      BY <1>1, <2>2
    <3>3. Scanned(req[q], c, H)'
      BY <1>1, <3>1, <3>2 DEF Scanned, Fair, SumOf, Raised
    <3> QED BY <3>3
  <2>4. \A q \in Requests : q \in lock' <=> req'[q].pc = "scan"
    BY <1>1, <1>3, <2>2 DEF CreditInv
  <2> QED BY <1>1, <1>3, <2>3, <2>4 DEF CreditInv, Fair, SumOf
<1> QED BY <1>2, <1>3

LEMMA NothingRaised ==
    ASSUME NEW c \in [Targets -> Int]
    PROVE  Raised(c, {}) = c /\ SumOf(Weight, {}) = 0
<1>1. Raised(c, {}) = c
  BY DEF Raised
<1>2. \A x \in Targets : Weight[x] \in Int
  BY Weights
<1> QED BY <1>1, <1>2, TargetsFinite, SumFacts DEF SumOf

\* One more target is raised.
LEMMA OneRaised ==
    ASSUME NEW c \in [Targets -> Int], NEW H \in SUBSET Targets, NEW t \in Targets, t \notin H
    PROVE  /\ [Raised(c, H) EXCEPT ![t] = @ + Weight[t]] = Raised(c, H \cup {t})
           /\ SumOf(Weight, H \cup {t}) = SumOf(Weight, H) + Weight[t]
<1>1. \A x \in Targets : Weight[x] \in Int /\ c[x] \in Int
  BY Weights
<1>2. [Raised(c, H) EXCEPT ![t] = @ + Weight[t]] = Raised(c, H \cup {t})
  <2> DEFINE e == [Raised(c, H) EXCEPT ![t] = @ + Weight[t]]
             r == Raised(c, H \cup {t})
  <2>1. \A x \in Targets : e[x] = r[x]
    BY <1>1 DEF Raised
  <2>2. e = [x \in Targets |-> e[x]] /\ r = [x \in Targets |-> r[x]]
    BY DEF Raised
  <2> HIDE DEF e, r
  <2>3. e = r
    BY <2>1, <2>2
  <2> QED BY <2>3 DEF e, r
<1>3. (H \cup {t}) \ {t} = H /\ H \cup {t} \in SUBSET Targets /\ t \in H \cup {t}
  OBVIOUS
<1>4. SumOf(Weight, H \cup {t}) = SumOf(Weight, H) + Weight[t]
  BY <1>1, <1>3, TargetsFinite, SumFacts DEF SumOf
<1> QED BY <1>2, <1>4

\* The chosen target pays.
LEMMA BestCharged ==
    ASSUME NEW c \in [Targets -> Int], NEW H \in SUBSET Targets, NEW b \in H
    PROVE  [Raised(c, H) EXCEPT ![b] = @ - SumOf(Weight, H)] = Round(c, H, b)
<1>1. SumOf(Weight, H) \in Int /\ \A x \in Targets : Weight[x] \in Int /\ c[x] \in Int
  BY TargetsFinite, Weights
<1> DEFINE e == [Raised(c, H) EXCEPT ![b] = @ - SumOf(Weight, H)]
           r == Round(c, H, b)
<1>2. \A x \in Targets : e[x] = r[x]
  BY <1>1 DEF Raised, Round
<1>3. e = [x \in Targets |-> e[x]] /\ r = [x \in Targets |-> r[x]]
  BY DEF Raised, Round
<1> HIDE DEF e, r
<1>4. e = r
  BY <1>2, <1>3
<1> QED BY <1>4 DEF e, r

LEMMA CreditStart ==
    ASSUME PoolInv, CreditInv, NEW q \in Requests, StartScan(q)
    PROVE  CreditInv'
<1>1. /\ TypeOK /\ route \in Routes /\ credit \in [Targets -> Int]
      /\ Algorithm' = Algorithm /\ credit' = credit
  BY PoolShape DEF PoolInv, StartScan, Algorithm
<1>2. CASE Algorithm # "weighted_round_robin"
  BY <1>1, <1>2 DEF CreditInv, Fair, SumOf
<1>3. CASE Algorithm = "weighted_round_robin"
  <2> DEFINE x == [Idle EXCEPT !.pc = "scan", !.start = 0]
  <2>1. lock = {} /\ lock' = {q} /\ req' = [req EXCEPT ![q] = x]
    BY <1>3 DEF StartScan, Locked, Rotating
  <2>2. x \in RequestState /\ x.pc = "scan" /\ x.start = 0 /\ x.best = None /\ x.total = 0
    BY <1>1, PoolConstants, IdleValues DEF Idle
  <2> HIDE DEF x
  <2>3. req'[q] = x /\ \A p \in Requests \ {q} : req'[p] = req[p]
    BY <1>1, <2>1, <2>2, RequestSet
  <2>4. Fair(credit) /\ \A p \in Requests : req[p].pc # "scan"
    BY <1>3, <2>1 DEF CreditInv
  <2>5. \A p \in Requests : p \in lock' <=> req'[p].pc = "scan"
    BY <2>1, <2>2, <2>3, <2>4
  <2>6. Scanned(x, credit, {})'
    BY <1>1, <2>2, <2>4, NothingRaised DEF Scanned, Fair, SumOf, x
  <2>7. \E c \in [Targets -> Int], H \in SUBSET Targets : Scanned(req[q], c, H)'
    BY <1>1, <2>3, <2>6 DEF Scanned, x
  <2> QED BY <1>1, <1>3, <2>1, <2>5, <2>7 DEF CreditInv
<1> QED BY <1>2, <1>3

\* One iteration of the loop of Next raises the target it finds healthy.
LEMMA CreditExamine ==
    ASSUME PoolInv, CreditInv, NEW q \in Requests, Examine(q)
    PROVE  CreditInv'
<1> DEFINE t == Cursor(q)
           b == Polled(brk[Balanced(t)])
           w == IF Algorithm = "weighted_round_robin" /\ Healthy(b) THEN Weight[t] ELSE 0
           x(v) == [req[q] EXCEPT !.i = @ + 1, !.total = @ + w,
                                  !.best = IF v THEN t ELSE @,
                                  !.load = IF v THEN conns[Balanced(t)] ELSE @]
<1>1. /\ TypeOK /\ route \in Routes /\ credit \in [Targets -> Int] /\ req[q] \in RequestState
      /\ Algorithm' = Algorithm /\ lock' = lock /\ lock \in SUBSET Requests
  BY PoolShape DEF PoolInv, Examine, Algorithm
<1>2. /\ req[q].pc = "scan" /\ req[q].i # N /\ credit' = [credit EXCEPT ![t] = @ + w]
  BY DEF Examine, ScanDone
<1>3. PICK v \in (IF Healthy(b) THEN Replaces(q, t) ELSE {FALSE}) : req' = [req EXCEPT ![q] = x(v)]
  BY DEF Examine
<1>4. N \in Nat \ {0} /\ Targets = 0 .. N - 1 /\ Weight \in [Targets -> Nat \ {0}]
      /\ None \notin Targets
  BY <1>1, PoolConstants
<1>5. req[q].start \in 0 .. N - 1 /\ req[q].i \in 0 .. N - 1
  BY <1>1, <1>2, <1>4 DEF RequestState
<1>6. t \in Targets /\ t = (req[q].start + req[q].i) % N
  <2>1. req[q].start + req[q].i \in Nat
    BY <1>5
  <2>2. (req[q].start + req[q].i) % N \in 0 .. N - 1
    BY <1>4, <2>1, Reduced
  <2> QED BY <1>4, <2>2 DEF Cursor
<1>7. w \in Nat
  BY <1>4, <1>6
<1>8. CASE Algorithm # "weighted_round_robin"
  <2>1. w = 0 /\ \A s \in Targets : credit[s] \in Int
    BY <1>1, <1>8
  <2> HIDE DEF t, w
  <2>2. credit' = credit
    BY <1>1, <1>2, <1>6, <2>1
  <2> QED BY <1>1, <1>8, <2>2 DEF CreditInv, Fair, SumOf
<1>9. CASE Algorithm = "weighted_round_robin"
  <2>1. q \in lock /\ \A p \in lock : p = q
    BY <1>2, <1>9 DEF CreditInv
  <2>2. PICK c \in [Targets -> Int], H \in SUBSET Targets : Scanned(req[q], c, H)
    BY <1>9, <2>1 DEF CreditInv
  <2>3. t = req[q].i /\ t \notin H
    <3>1. req[q].start = 0 /\ \A s \in H : s < req[q].i
      BY <2>2 DEF Scanned
    <3>2. PICK i \in 0 .. N - 1 : i = req[q].i
      BY <1>5
    <3>3. i % N = i
      BY <1>4, <3>2, SmallIndex
    <3>4. 0 + i = i
      OBVIOUS
    <3>5. t = i
      BY <1>6, <3>1, <3>2, <3>3, <3>4
    <3>6. i \in Int /\ \A s \in H : s < i
      BY <3>1, <3>2
    <3> QED BY <3>2, <3>5, <3>6
  <2>4. w = IF Healthy(b) THEN Weight[t] ELSE 0
    BY <1>9
  <2>5. /\ req[q].best = None /\ Healthy(b) => v = TRUE
        /\ req[q].best # None /\ Healthy(b) => v = (credit[t] + Weight[t] > credit[req[q].best])
        /\ ~Healthy(b) => v = FALSE
    BY <1>3, <1>9 DEF Replaces
  <2> HIDE DEF t, b, w
  <2>6. /\ x(v).pc = "scan" /\ x(v).i = req[q].i + 1 /\ x(v).start = req[q].start
        /\ x(v).total = req[q].total + w /\ x(v).best = IF v THEN t ELSE req[q].best
    BY <1>1, <1>2 DEF RequestState
  <2>7. req'[q] = x(v) /\ \A p \in Requests \ {q} : req'[p] = req[p]
    BY <1>1, <1>3 DEF TypeOK
  <2> DEFINE y == x(v)
             G == IF Healthy(b) THEN H \cup {t} ELSE H
  <2> HIDE DEF x
  <2>8. /\ Fair(c) /\ req[q].start = 0 /\ credit = Raised(c, H) /\ (\A s \in H : s < req[q].i)
        /\ req[q].total = SumOf(Weight, H)
        /\ req[q].best = None => H = {}
        /\ req[q].best # None => req[q].best \in H /\ \A s \in H : credit[s] <= credit[req[q].best]
    BY <2>2 DEF Scanned
  <2>9. SumOf(Weight, H) \in Nat /\ G \in SUBSET Targets
    BY <1>6, TargetsFinite
  <2>10. credit' = Raised(c, G) /\ y.total = SumOf(Weight, G)
    <3>1. CASE Healthy(b)
      <4>1. w = Weight[t]
        BY <2>4, <3>1
      <4>2. /\ [Raised(c, H) EXCEPT ![t] = @ + Weight[t]] = Raised(c, H \cup {t})
            /\ SumOf(Weight, H \cup {t}) = SumOf(Weight, H) + Weight[t]
        BY <1>6, <2>3, OneRaised
      <4> QED BY <1>2, <2>6, <2>8, <3>1, <4>1, <4>2
    <3>2. CASE ~Healthy(b)
      <4>1. w = 0 /\ \A s \in Targets : credit[s] \in Int
        BY <1>1, <2>4, <3>2
      <4>2. credit' = credit
        BY <1>1, <1>2, <1>6, <4>1
      <4> QED BY <2>6, <2>8, <2>9, <3>2, <4>1, <4>2
    <3> QED BY <3>1, <3>2
  <2>11. \A s \in G : s < y.i
    <3>1. PICK i \in Nat : i = req[q].i
      BY <1>5
    <3>2. y.i = i + 1 /\ t = i /\ \A s \in H : s \in Int /\ s < i
      BY <1>4, <2>3, <2>6, <2>8, <3>1
    <3> QED BY <3>1, <3>2
  <2>12. \A s \in Targets : credit'[s] = IF s = t THEN credit[t] + w ELSE credit[s]
    BY <1>1, <1>2, <1>6
  <2>13. \A s \in Targets : credit[s] \in Int /\ credit'[s] \in Int
    BY <1>1, <1>6, <1>7, <2>12
  <2>14. y.best = None => G = {}
    BY <1>4, <1>6, <2>5, <2>6, <2>8
  <2>15. ASSUME y.best # None
         PROVE  y.best \in G /\ \A s \in G : credit'[s] <= credit'[y.best]
    <3>1. CASE ~Healthy(b)
      <4>1. G = H /\ y.best = req[q].best /\ w = 0
        BY <2>4, <2>5, <2>6, <3>1
      <4>2. \A s \in H : credit'[s] = credit[s]
        BY <2>3, <2>12
      <4> QED BY <2>8, <2>15, <4>1, <4>2
    <3>2. CASE Healthy(b) /\ req[q].best = None
      <4>1. G = {t} /\ y.best = t
        BY <2>5, <2>6, <2>8, <3>2
      <4> QED BY <1>6, <2>13, <4>1
    <3>3. CASE Healthy(b) /\ req[q].best # None
      <4>1. PICK o \in H : o = req[q].best /\ \A s \in H : credit[s] <= credit[o]
        BY <2>8, <3>3
      <4>2. /\ G = H \cup {t} /\ w = Weight[t] /\ v = (credit[t] + w > credit[o])
            /\ \A s \in H : s \in Targets /\ credit'[s] = credit[s]
            /\ credit'[t] = credit[t] + w
        BY <1>6, <2>3, <2>4, <2>5, <2>12, <3>3, <4>1
      <4>3. credit'[t] \in Int /\ \A s \in H : credit[s] \in Int
        BY <1>6, <2>13, <4>2
      <4>4. CASE credit[t] + w > credit[o]
        <5>1. y.best = t
          BY <2>6, <4>2, <4>4
        <5>2. \A s \in H : credit'[s] <= credit'[t]
          BY <4>1, <4>2, <4>3, <4>4
        <5> QED BY <4>2, <4>3, <5>1, <5>2
      <4>5. CASE ~(credit[t] + w > credit[o])
        <5>1. y.best = o
          BY <2>6, <4>1, <4>2, <4>5
        <5>2. credit'[t] <= credit'[o]
          BY <4>1, <4>2, <4>3, <4>5
        <5> QED BY <4>1, <4>2, <5>1, <5>2
      <4> QED BY <4>4, <4>5
    <3> QED BY <3>1, <3>2, <3>3
  <2>16. y.start = 0
    BY <2>6, <2>8
  <2> HIDE DEF y, G
  <2>17. req'[q] = y
    BY <2>7 DEF y
  <2>18. PICK K \in SUBSET Targets : Scanned(req[q], c, K)'
    <3>0. PICK z : z = y
      OBVIOUS
    <3>1. PICK K \in SUBSET Targets : K = G
      BY <2>9
    <3>2. Fair(c)'
      BY <2>8 DEF Fair, SumOf
    <3>3. /\ req'[q] = z /\ z.start = 0 /\ credit' = Raised(c, K)
          /\ (\A s \in K : s < z.i) /\ z.total = SumOf(Weight, K)
          /\ z.best = None => K = {}
          /\ z.best # None => z.best \in K /\ \A s \in K : credit'[s] <= credit'[z.best]
      BY <2>10, <2>11, <2>14, <2>15, <2>16, <2>17, <3>0, <3>1
    <3>4. Scanned(req[q], c, K)'
      BY <3>2, <3>3 DEF Scanned
    <3> QED BY <3>4
  <2>19. \A p \in Requests : p \in lock' <=> req'[p].pc = "scan"
    <3>1. y.pc = "scan"
      BY <2>6 DEF y
    <3> QED BY <1>1, <1>9, <2>1, <2>7, <2>17, <3>1 DEF CreditInv
  <2> QED BY <1>1, <1>9, <2>1, <2>9, <2>18, <2>19 DEF CreditInv
<1> QED BY <1>8, <1>9

\* Next returns: the chosen target has paid for the round, or nothing was raised.
LEMMA CreditReturns ==
    ASSUME PoolInv, CreditInv, NEW q \in Requests, NextReturns(q) \/ NextFails(q)
    PROVE  CreditInv'
<1>1. /\ TypeOK /\ route \in Routes /\ credit \in [Targets -> Int] /\ req[q] \in RequestState
      /\ Algorithm' = Algorithm /\ lock' = lock \ {q} /\ lock \in SUBSET Requests
      /\ req[q].pc = "scan"
  BY PoolShape DEF PoolInv, NextReturns, NextFails, Algorithm
<1>2. CASE Algorithm # "weighted_round_robin"
  <2>1. credit' = credit
    BY <1>2 DEF NextReturns, NextFails, Charged
  <2> QED BY <1>1, <1>2, <2>1 DEF CreditInv, Fair, SumOf
<1>3. CASE Algorithm = "weighted_round_robin"
  <2>1. q \in lock /\ \A p \in lock : p = q
    BY <1>1, <1>3 DEF CreditInv
  <2>2. lock' = {}
    BY <1>1, <2>1
  <2>3. PICK c \in [Targets -> Int], H \in SUBSET Targets : Scanned(req[q], c, H)
    BY <1>3, <2>1 DEF CreditInv
  <2>4. /\ Fair(c) /\ credit = Raised(c, H) /\ req[q].total = SumOf(Weight, H)
        /\ req[q].best = None => H = {}
        /\ req[q].best # None => req[q].best \in H /\ \A s \in H : credit[s] <= credit[req[q].best]
    BY <2>3 DEF Scanned
  <2>5. Fair(credit')
    <3>1. CASE NextFails(q)
      <4>1. H = {} /\ credit' = credit
        BY <2>4, <3>1 DEF NextFails
      <4> QED BY <2>4, <4>1, NothingRaised
    <3>2. CASE NextReturns(q)
      <4>1. PICK b \in H : b = req[q].best /\ \A s \in H : credit[s] <= credit[b]
        BY <2>4, <3>2 DEF NextReturns
      <4>2. credit' = [credit EXCEPT ![b] = @ - req[q].total]
        BY <1>3, <3>2, <4>1 DEF NextReturns, Charged
      <4>3. credit' = Round(c, H, b)
        BY <2>4, <4>2, BestCharged
      <4>4. \A s \in H : c[s] + Weight[s] <= c[b] + Weight[b]
        <5>1. \A s \in H : credit[s] = c[s] + Weight[s]
          BY <2>4 DEF Raised
        <5> QED BY <4>1, <5>1
      <4> QED BY <2>4, <4>3, <4>4, RoundFair
    <3> QED BY <3>1, <3>2
  <2>6. \A p \in Requests : req'[p].pc # "scan"
    <3>1. PICK z : req' = [req EXCEPT ![q] = z] /\ z.pc # "scan"
      <4> DEFINE y == [Idle EXCEPT !.pc = "picked", !.best = req[q].best]
      <4>0. y.pc # "scan" /\ Idle.pc # "scan"
        BY DEF Idle
      <4>1. CASE NextReturns(q)
        <5>1. req' = [req EXCEPT ![q] = y]
          BY <4>1 DEF NextReturns
        <5> HIDE DEF y
        <5> QED BY <4>0, <5>1
      <4>2. CASE NextFails(q)
        BY <4>0, <4>2 DEF NextFails
      <4> QED BY <4>1, <4>2
    <3>2. \A p \in Requests : p # q => req[p].pc # "scan"
      BY <1>3, <2>1 DEF CreditInv
    <3> QED BY <1>1, <3>1, <3>2 DEF TypeOK
  <2>7. Fair(credit)'
    BY <2>5 DEF Fair, SumOf
  <2> QED BY <1>1, <1>3, <2>2, <2>6, <2>7 DEF CreditInv
<1> QED BY <1>2, <1>3
-----------------------------------------------------------------------------
(* The theorems.                                                           *)

\* A proxy starts with Closed breakers and without requests.
LEMMA PoolInit == Init => PoolInv
<1> SUFFICES ASSUME Init
             PROVE  PoolInv
  OBVIOUS
<1> DEFINE c == [state |-> "Closed", fails |-> 0, age |-> 0]
<1>1. route \in Routes /\ brk = [o \in Objects |-> c] /\ req = [q \in Requests |-> Idle]
  BY DEF Init
<1>2. c \in Breaker /\ Consistent(c)
  BY <1>1, PoolConstants DEF Breaker, Consistent
<1> HIDE DEF c
<1>3. BreakersOK
  BY <1>1, <1>2 DEF BreakersOK
<1>4. \A q \in Requests : req[q] = Idle
  BY <1>1
<1>5. (\A q \in Requests : Placed(req[q])) /\ ScanCovers
  BY <1>1, <1>4, IdleValues DEF Placed, ScanCovers, Ahead
<1>6. ActiveConnsExact
  <2>1. \A t \in Targets : Serving(t) = {}
    BY <1>1, <1>4, IdleValues DEF Serving, ServedBy
  <2>2. \A t \in Targets : conns[Balanced(t)] = 0
    BY DEF Init, Balanced, Objects
  <2> QED
    BY <2>1, <2>2, FS_EmptySet DEF ActiveConnsExact, Serving, ServedBy
<1>7. TypeOK
  <2>1. req \in [Requests -> RequestState] /\ 0 \in Targets
    BY <1>1, IdleValues, PoolConstants
  <2>2. probe \in [Targets -> {"off", "waiting", "probing", "exited"}]
    BY DEF Init
  <2>3. credit \in [Targets -> Int] /\ conns \in [Objects -> Nat]
    BY DEF Init
  <2>4. cancelled \in [Targets -> BOOLEAN] /\ closed \in BOOLEAN
    BY DEF Init
  <2> QED
    BY <1>1, <1>3, <2>1, <2>2, <2>3, <2>4 DEF Init, TypeOK, BreakersOK
<1> QED
  BY <1>3, <1>5, <1>6, <1>7 DEF PoolInv

\* The invariant is inductive.
THEOREM PoolInvariant == Spec => []PoolInv
<1>1. PoolInv /\ [Next]_vars => PoolInv'
  <2> SUFFICES ASSUME PoolInv, [Next]_vars
               PROVE  PoolInv'
    OBVIOUS
  <2>1. CASE UNCHANGED vars
    BY <2>1 DEF vars, PoolInv, TypeOK, BreakersOK, Consistent, Breaker, MaxFailures, Cooldown,
                Placed, ActiveConnsExact, Balanced, Clones, Algorithm, ScanCovers, Ahead
  <2>2. ASSUME NEW q \in Requests, NextCall(q) \/ CookieMiss(q)
        PROVE  PoolInv'
    BY <2>2, StartKeeps DEF NextCall, CookieMiss
  <2> QED
    BY <2>1, <2>2, CookieHitKeeps, ExamineKeeps, ReturnsKeeps, CountKeeps, RelayKeeps, ServeKeeps,
       CookieKeeps, ProbeKeeps, TickKeeps DEF Next
<1> QED
  BY <1>1, PoolInit, PTL DEF Spec

\* A proxy starts without credits.
LEMMA CreditInit == Init => CreditInv
<1> SUFFICES ASSUME Init
             PROVE  CreditInv
  OBVIOUS
<1>1. credit = [t \in Targets |-> 0] /\ lock = {} /\ \A q \in Requests : req[q] = Idle
  BY DEF Init
<1>2. \A S \in SUBSET Targets : SumOf(credit, S) = 0
  <2>1. \A t \in Targets : credit[t] = 0
    BY <1>1
  <2> QED BY <2>1, TargetsFinite, SumZero DEF SumOf
<1>3. Fair(credit)
  <2>1. ASSUME NEW S \in SUBSET Targets
        PROVE  2 * SumOf(credit, S) <= AllWeight * (Cardinality(S) * (N - Cardinality(S)))
    <3>1. PICK w \in Nat, k \in Nat, m \in Nat :
             w = AllWeight /\ k = Cardinality(S) /\ m = N - Cardinality(S)
      BY TargetsFinite, Weights
    <3>2. k * m \in Nat
      OBVIOUS
    <3>3. w * (k * m) \in Nat
      BY <3>2
    <3>4. 2 * SumOf(credit, S) = 0
      BY <1>2
    <3> QED BY <3>1, <3>3, <3>4
  <2> QED BY <1>2, <2>1 DEF Fair
<1>4. Idle.pc # "scan"
  BY DEF Idle
<1> QED BY <1>1, <1>3, <1>4 DEF CreditInv

\* A step of a request that is not in Next, and does not enter it.
LEMMA CreditOutside ==
    ASSUME PoolInv, CreditInv, UNCHANGED <<route, credit, lock>>, NEW q \in Requests, NEW x,
           req' = [req EXCEPT ![q] = x], req[q].pc # "scan", x.pc # "scan"
    PROVE  CreditInv'
<1>1. req \in [Requests -> RequestState]
  BY PoolShape DEF PoolInv
<1>2. \A p \in Requests : \/ req'[p] = req[p]
                          \/ req[p].pc # "scan" /\ req'[p].pc # "scan"
  <2>1. req'[q] = x /\ \A p \in Requests \ {q} : req'[p] = req[p]
    BY <1>1
  <2>2. ASSUME NEW p \in Requests
        PROVE  req'[p] = req[p] \/ (req[p].pc # "scan" /\ req'[p].pc # "scan")
    <3>1. CASE p = q
      BY <2>1, <3>1
    <3>2. CASE p # q
      BY <2>1, <3>2
    <3> QED BY <3>1, <3>2
  <2> QED BY <2>2
<1> QED BY <1>2, CreditSame

\* The bounds on the credits are inductive, for every number of targets, all
\* weights and every way their health flaps.
THEOREM CreditInvariant == Spec => []CreditInv
<1>1. PoolInv /\ CreditInv /\ [Next]_vars => CreditInv'
  <2> SUFFICES ASSUME PoolInv, CreditInv, [Next]_vars
               PROVE  CreditInv'
    OBVIOUS
  <2>1. CASE UNCHANGED <<route, credit, lock, req>>
    BY <2>1, CreditSame
  <2>2. ASSUME NEW q \in Requests, NextCall(q) \/ CookieMiss(q)
        PROVE  CreditInv'
    BY <2>2, CreditStart DEF NextCall, CookieMiss
  <2>3. ASSUME NEW q \in Requests, NEW t \in Targets, NextWithCookie(q, t)
        PROVE  CreditInv'
    <3> DEFINE x == [Idle EXCEPT !.pc = "cookie", !.start = t]
    <3>1. x.pc # "scan"
      BY DEF Idle
    <3>2. req' = [req EXCEPT ![q] = x] /\ req[q].pc # "scan" /\ UNCHANGED <<route, credit, lock>>
      BY <2>3 DEF NextWithCookie
    <3> HIDE DEF x
    <3> QED BY <3>1, <3>2, CreditOutside
  <2>4. ASSUME NEW q \in Requests, CookieHit(q)
        PROVE  CreditInv'
    <3> DEFINE x == [req[q] EXCEPT !.pc = "picked", !.best = req[q].start]
    <3>1. x.pc # "scan"
      BY PoolShape DEF PoolInv, RequestState
    <3>2. req' = [req EXCEPT ![q] = x] /\ req[q].pc # "scan" /\ UNCHANGED <<route, credit, lock>>
      BY <2>4 DEF CookieHit
    <3> HIDE DEF x
    <3> QED BY <3>1, <3>2, CreditOutside
  <2>5. ASSUME NEW q \in Requests, Leave(q) \/ RelayEnds(q)
        PROVE  CreditInv'
    <3>1. PICK y : y = [Idle EXCEPT !.pc = "relaying", !.best = req[q].best]
      OBVIOUS
    <3>2. Idle.pc # "scan" /\ y.pc # "scan"
      BY <3>1 DEF Idle
    <3>3. /\ req' = [req EXCEPT ![q] = Idle] \/ req' = [req EXCEPT ![q] = y]
          /\ req[q].pc # "scan" /\ UNCHANGED <<route, credit, lock>>
      BY <2>5, <3>1 DEF Leave, RelayEnds
    <3> QED BY <3>2, <3>3, CreditOutside
  <2>6. ASSUME NEW q \in Requests,
               \/ IncActiveConns(q) \/ RejectBody(q) \/ DoError(q) \/ Respond(q) \/ OversizeBody(q)
        PROVE  CreditInv'
    <3>1. PICK p \in {"upstream", "leaving", "body"} :
             /\ req' = [req EXCEPT ![q].pc = p]
             /\ req[q].pc # "scan" /\ UNCHANGED <<route, credit, lock>>
      BY <2>6 DEF IncActiveConns, RejectBody, DoError, Respond, OversizeBody
    <3> DEFINE x == [req[q] EXCEPT !.pc = p]
    <3>2. x.pc # "scan"
      BY PoolShape DEF PoolInv, RequestState
    <3>3. req' = [req EXCEPT ![q] = x]
      BY <3>1
    <3> HIDE DEF x
    <3> QED BY <3>1, <3>2, <3>3, CreditOutside
  <2>7. ASSUME NEW t \in Targets,
               ProbeTick(t) \/ ProbeSucceeds(t) \/ ProbeFails(t) \/ ProbeExit(t)
        PROVE  CreditInv'
    BY <2>1, <2>7 DEF ProbeTick, ProbeSucceeds, ProbeFails, ProbeExit
  <2>8. CASE Close \/ Tick \/ UNCHANGED vars
    BY <2>1, <2>8 DEF Close, Tick, vars
  <2> QED
    BY <2>2, <2>3, <2>4, <2>5, <2>6, <2>7, <2>8, CreditExamine, CreditReturns DEF Next
<1> QED
  BY <1>1, CreditInit, PoolInvariant, PTL DEF Spec

\* WeightedRoundRobin.Next: between selections the credits add up to nothing,
\* and no target's is further from zero than half of what N - 1 rounds over all
\* targets hand out, whatever weights are configured and whenever targets trip
\* and recover.
THEOREM CreditStaysConserved == Spec => []CreditConserved
<1>1. PoolInv /\ CreditInv => CreditConserved
  <2> SUFFICES ASSUME PoolInv, CreditInv, lock = {}
               PROVE  /\ SumFunction(credit) = 0
                      /\ \A t \in Targets :
                            /\ 2 * credit[t] <= (N - 1) * SumFunction(Weight)
                            /\ 2 * credit[t] >= -((N - 1) * SumFunction(Weight))
    BY DEF CreditConserved
  <2>1. credit \in [Targets -> Int]
    BY PoolShape DEF PoolInv
  <2>2. Fair(credit)
    BY DEF CreditInv
  <2>3. SumFunction(credit) = 0
    BY <2>1, <2>2 DEF Fair, SumOf, SumFunction
  <2>4. ASSUME NEW t \in Targets
        PROVE  /\ 2 * credit[t] <= (N - 1) * SumFunction(Weight)
               /\ 2 * credit[t] >= -((N - 1) * SumFunction(Weight))
    <3> DEFINE R == Targets \ {t}
    <3>1. /\ SumOf(credit, {t}) = 0 + credit[t]
          /\ SumOf(credit, Targets) = SumOf(credit, R) + credit[t]
          /\ SumOf(credit, R) \in Int
      <4>1. IsFiniteSet(Targets) /\ IsFiniteSet({t}) /\ IsFiniteSet(R)
        BY TargetsFinite
      <4>2. {t} \ {t} = {} /\ t \in {t} /\ \A x \in Targets : credit[x] \in Int
        BY <2>1
      <4>3. \A x \in {t} : credit[x] \in Int
        BY <2>1
      <4>4. \A x \in R : credit[x] \in Int
        BY <2>1
      <4>5. SumOf(credit, {t}) = SumOf(credit, {}) + credit[t] /\ SumOf(credit, {}) = 0
        BY <4>1, <4>2, <4>3, SumFacts DEF SumOf
      <4>6. SumOf(credit, Targets) = SumOf(credit, R) + credit[t]
        BY <4>1, <4>2, SumFacts DEF SumOf
      <4>7. SumOf(credit, R) \in Int
        BY <4>1, <4>4, SumFacts DEF SumOf
      <4> QED BY <4>5, <4>6, <4>7
    <3>2. Cardinality({t}) = 1 /\ Cardinality(R) = N - 1
      BY TargetsFinite, FS_Singleton, FS_RemoveElement
    <3>3. PICK w \in Nat, n \in Nat, e \in Int, r \in Int :
             /\ w = AllWeight /\ n = N - 1 /\ e = credit[t] /\ r = SumOf(credit, R)
      BY <2>1, <3>1, TargetsFinite, Weights
    <3>4. /\ 2 * SumOf(credit, {t}) <= AllWeight * (1 * (N - 1))
          /\ 2 * SumOf(credit, R) <= AllWeight * ((N - 1) * (N - (N - 1)))
      BY <2>2, <3>2 DEF Fair
    <3>5. 1 * (N - 1) = n /\ (N - 1) * (N - (N - 1)) = n
      <4>1. PICK m \in Nat : m = N
        BY Weights
      <4>2. N - (N - 1) = 1
        BY <4>1
      <4> QED BY <3>3, <4>2
    <3>6. 2 * e <= w * n /\ 2 * r <= w * n
      <4>1. 0 + credit[t] = e
        BY <3>3
      <4> QED BY <3>1, <3>3, <3>4, <3>5, <4>1
    <3>7. r + e = 0
      BY <2>2, <3>1, <3>3 DEF Fair
    <3>8. PICK y \in Int : y = w * n /\ y = n * w
      OBVIOUS
    <3>9. 2 * e <= y /\ 2 * e >= -y
      BY <3>6, <3>7, <3>8
    <3>10. (N - 1) * SumFunction(Weight) = y
      BY <3>3, <3>8 DEF AllWeight
    <3> QED BY <3>3, <3>9, <3>10
  <2> QED BY <2>3, <2>4
<1> QED
  BY <1>1, PoolInvariant, CreditInvariant, PTL

\* circuit_breaker.go: whatever requests, probes, cooldowns and late answers do
\* to it, a breaker is Closed exactly while its failures are below the
\* threshold, and the whole state of the proxy is well typed.
THEOREM BreakersStayConsistent == Spec => []BreakerConsistent
<1>1. PoolInv => BreakerConsistent
  BY DEF PoolInv, BreakersOK, Consistent, BreakerConsistent
<1> QED
  BY <1>1, PoolInvariant, PTL

\* ServeHTTPWithPrefix: ActiveConns of a target is the number of requests for which
\* the handler runs, on every path through it, and never goes below zero, although
\* streams and tunnels that the handler has left behind go on uncounted.
THEOREM ConnsStayExact == Spec => []ActiveConnsExact
<1>1. PoolInv => ActiveConnsExact
  BY DEF PoolInv
<1> QED
  BY <1>1, PoolInvariant, PTL

\* Next, of every balancer: a client is answered 503 only if no target stayed
\* healthy from the beginning of the scan to its end.
THEOREM ScanMissesNoTarget == Spec => []No503WhileUp
<1>1. PoolInv => No503WhileUp
  <2> SUFFICES ASSUME PoolInv, NEW q \in Requests, req[q].pc = "scan", ScanDone(q),
                      req[q].best = None
               PROVE  up[q] = {}
    BY DEF No503WhileUp
  <2>1. req[q].i = N /\ N \in Nat
    BY PoolShape, PoolConstants DEF ScanDone, PoolInv
  <2>2. \A t \in up[q] : \E j \in N .. N - 1 : t = (req[q].start + j) % N
    BY <2>1 DEF PoolInv, ScanCovers, Ahead
  <2>3. N .. N - 1 = {}
    BY <2>1
  <2> QED
    BY <2>2, <2>3
<1> QED
  BY <1>1, PoolInvariant, PTL
=============================================================================
