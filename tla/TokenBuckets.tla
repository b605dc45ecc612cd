---------------------------- MODULE TokenBuckets ----------------------------
(***************************************************************************)
(* pkg/router/rate_limiter.go: the token buckets of one rate-limited       *)
(* route, kept in a list ordered by last use (front first), bounded by     *)
(* capacity and by idle time.  The map from keys to list elements is an    *)
(* index of that list.  A request takes its bucket under the limiter's     *)
(* lock and a token under the bucket's own, so a bucket may be evicted     *)
(* while a request holds it.                                               *)
(***************************************************************************)
EXTENDS Integers, Sequences, FiniteSets, FiniteSetsExt, SequencesExt

CONSTANTS
    Procs,       \* goroutines serving requests
    Clients,     \* client keys (extractClientKeyInternal)
    Burst,       \* capacity of a bucket
    Rate,        \* tokens per tick
    MaxBuckets,  \* maxBuckets
    IdleTTL,     \* idleTTL, in ticks
    MaxTime      \* bound on the clock

ASSUME LimiterAssumption ==
    /\ IsFiniteSet(Procs) /\ Clients # {}
    /\ Burst \in Nat \ {0} /\ Rate \in Nat \ {0} /\ MaxBuckets \in Nat \ {0}
    /\ IdleTTL \in Nat /\ MaxTime \in Nat

Ids == 1..(MaxBuckets + Cardinality(Procs))
NoBucket == 0

VARIABLES
    clock,
    lru,        \* lruList: [key, id, accessed], front first
    bucket,     \* the TokenBucket objects: [tokens, refilled]
    held,       \* the bucket a request got and has not asked yet
    heldFor,    \* the client of that request
    admitted,   \* history: tokens given to a client in each tick
    displaced,  \* history: evictions of a client's bucket for capacity
    lapsed      \* history: those for idle time, before the bucket had refilled

limiterVars == <<lru, bucket, held, heldFor, admitted, displaced, lapsed>>

LimiterTypeOK ==
    /\ clock \in 0..MaxTime
    /\ lru \in BoundedSeq([key : Clients, id : Ids, accessed : 0..MaxTime], MaxBuckets)
    /\ bucket \in [Ids -> [tokens : 0..Burst, refilled : 0..MaxTime]]
    /\ held \in [Procs -> Ids \cup {NoBucket}] /\ heldFor \in [Procs -> Clients]
    /\ \A c \in Clients : /\ displaced[c] \in Nat /\ lapsed[c] \in Nat
                         /\ \A t \in 0..MaxTime : admitted[c][t] \in Nat
    /\ \A i, j \in DOMAIN lru :
           i # j => lru[i].key # lru[j].key /\ lru[i].id # lru[j].id

NewBucket == [tokens |-> Burst, refilled |-> clock]
Unused == [tokens |-> 0, refilled |-> 0]

LimiterInit ==
    /\ clock = 0 /\ lru = <<>> /\ bucket = [i \in Ids |-> Unused]
    /\ held = [p \in Procs |-> NoBucket]
    /\ heldFor = [p \in Procs |-> CHOOSE c \in Clients : TRUE]
    /\ admitted = [c \in Clients |-> [t \in 0..MaxTime |-> 0]]
    /\ displaced = [c \in Clients |-> 0] /\ lapsed = [c \in Clients |-> 0]

\* Mutant: the time since the last refill is rounded up.
Refilled_Early(b) == Min({Burst, b.tokens + Rate * (clock - b.refilled + 1)})

\* The tokens of a bucket after the refill that Allow begins with.
Refilled(b) == Min({Burst, b.tokens + Rate * (clock - b.refilled)})

\* The list without the idle tail: eviction stops at the first element, from
\* the back, that was used recently enough.
Fresh(list) ==
    LET recent == {i \in DOMAIN list : clock - list[i].accessed <= IdleTTL}
    IN  SubSeq(list, 1, IF recent = {} THEN 0 ELSE Max(recent))

\* The clients whose bucket goes with the idle tail and is not full again: a limit
\* of N per hour refills N / 6 tokens in the ten minutes of the default idleTTL.
Lapsing ==
    {lru[i].key : i \in {k \in DOMAIN lru :
        k > Len(Fresh(lru)) /\ Refilled(bucket[lru[k].id]) < Burst}}

\* lapsed, once the idle tail is evicted.
Lapses == [c \in Clients |-> IF c \in Lapsing THEN lapsed[c] + 1 ELSE lapsed[c]]

\* An object nothing refers to any more is garbage.
Collected(list, h, b) ==
    [i \in Ids |-> IF i \in {list[k].id : k \in DOMAIN list} \cup {h[p] : p \in Procs}
                   THEN b[i] ELSE Unused]

\* CleanupStale, by the ticker of cleanupLoop.
CleanupStale ==
    /\ Fresh(lru) # lru
    /\ lru' = Fresh(lru) /\ bucket' = Collected(lru', held, bucket)
    /\ lapsed' = Lapses
    /\ UNCHANGED <<clock, held, heldFor, admitted, displaced>>

\* GetBucket for a client that has a bucket: it moves to the front.
GetResident(p, c) ==
    LET list == Fresh(lru)
    IN  \E i \in DOMAIN list :
          /\ list[i].key = c
          /\ lru' = <<[list[i] EXCEPT !.accessed = clock]>> \o RemoveAt(list, i)
          /\ held' = [held EXCEPT ![p] = list[i].id]
          /\ heldFor' = [heldFor EXCEPT ![p] = c]
          /\ bucket' = Collected(lru', held', bucket)
          /\ lapsed' = Lapses
          /\ UNCHANGED <<clock, admitted, displaced>>

\* GetBucket for a client that has none: at capacity the oldest is evicted.
GetNew(p, c) ==
    LET list == Fresh(lru)
        full == Len(list) >= MaxBuckets
        kept == IF full THEN Front(list) ELSE list
        id == Min(Ids \ ({list[k].id : k \in DOMAIN list} \cup {held[q] : q \in Procs}))
    IN  /\ \A i \in DOMAIN list : list[i].key # c
        /\ lru' = <<[key |-> c, id |-> id, accessed |-> clock]>> \o kept
        /\ held' = [held EXCEPT ![p] = id]
        /\ heldFor' = [heldFor EXCEPT ![p] = c]
        /\ bucket' = Collected(lru', held', [bucket EXCEPT ![id] = NewBucket])
        /\ displaced' = IF full THEN [displaced EXCEPT ![Last(list).key] = @ + 1]
                        ELSE displaced
        /\ lapsed' = Lapses
        /\ UNCHANGED <<clock, admitted>>

GetBucket(p, c) == held[p] = NoBucket /\ (GetResident(p, c) \/ GetNew(p, c))

\* Allow, and the bucket is dropped: the request is admitted.
Allow(p) ==
    /\ held[p] # NoBucket
    /\ Refilled(bucket[held[p]]) >= 1
    /\ held' = [held EXCEPT ![p] = NoBucket]
    /\ bucket' = Collected(lru, held', [bucket EXCEPT ![held[p]] =
                    [tokens |-> Refilled(@) - 1, refilled |-> clock]])
    /\ admitted' = [admitted EXCEPT ![heldFor[p]][clock] = @ + 1]
    /\ UNCHANGED <<clock, lru, heldFor, displaced, lapsed>>

\* Allow refuses: 429.
Throttle(p) ==
    /\ held[p] # NoBucket
    /\ Refilled(bucket[held[p]]) < 1
    /\ held' = [held EXCEPT ![p] = NoBucket]
    /\ bucket' = Collected(lru, held', [bucket EXCEPT ![held[p]] =
                    [tokens |-> Refilled(@), refilled |-> clock]])
    /\ UNCHANGED <<clock, lru, heldFor, admitted, displaced, lapsed>>

\* The clock.  A request asks its bucket in the tick in which it got it.
Tick ==
    /\ clock < MaxTime
    /\ \A p \in Procs : held[p] = NoBucket
    /\ clock' = clock + 1
    /\ UNCHANGED limiterVars

\* A limit of Rate per tick with bursts of Burst is kept in every window of
\* time, however requests interleave and although a bucket may be evicted while
\* a request holds it; only the eviction of a client's bucket for lack of room
\* (GetBucket at maxBuckets), or for being idle before it had refilled, gives
\* the client another burst.  (The list and the buckets are also well formed.)
AdmissionBounded ==
    /\ LimiterTypeOK
    /\ \A c \in Clients : \A s \in 0..clock : \A t \in s..clock :
          MapThenSumSet(LAMBDA i : admitted[c][i], s..t)
              <= Burst * (1 + displaced[c] + lapsed[c]) + Rate * (t - s)

\* "Idle token buckets that have remained full" are purged (REQ-064), so that no
\* client gains by waiting: a bucket evicted for being idle is full.
FullWhenPurged == \A c \in Clients : lapsed[c] = 0
=============================================================================
