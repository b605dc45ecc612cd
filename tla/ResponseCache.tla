--------------------------- MODULE ResponseCache ---------------------------
(***************************************************************************)
(* pkg/router/cache.go: the store of ResponseCache and the rules by which  *)
(* the cache middleware keeps and serves a response.  Get looks an entry   *)
(* up under the read lock and removes an expired one under a lock of its   *)
(* own; Set stores under the write lock.                                   *)
(***************************************************************************)
EXTENDS Integers, Sequences, FiniteSets, Functions

CONSTANTS
    Keys,        \* cache keys: method, host, URI and Accept-Encoding
    MaxEntries,  \* cfg.MaxEntries
    DefaultTTL   \* cfg.DefaultTTL, in ticks

ASSUME CacheAssumption == MaxEntries \in Nat \ {0} /\ DefaultTTL \in Nat \ {0}

VARIABLE entries  \* a function from the keys stored to CachedResponses

CacheInit == entries = <<>>

IsExpired(e, t) == t > e.expires

\* The directives of Cache-Control and Pragma a client bypasses the cache with.
ClientBypass(r) == r.cc \cap {"no-cache", "no-store", "max-age=0"} # {}

Cacheable(r) == r.method \in {"GET", "HEAD"}

\* The second half of Get, for an entry that was found expired: whatever is
\* stored under the key by now is removed.
Purge(k) == entries' = Restrict(entries, DOMAIN entries \ {k})

\* The keys that Set leaves in place at time t: when the store is full the
\* expired entries go and, if that is not enough, an arbitrary one.
Kept(t) ==
    LET live == {k \in DOMAIN entries : ~IsExpired(entries[k], t)}
    IN  IF Cardinality(DOMAIN entries) < MaxEntries THEN {DOMAIN entries}
        ELSE IF Cardinality(live) < MaxEntries THEN {live}
        ELSE {live \ {k} : k \in live}

Set(k, e, t) ==
    \E kept \in Kept(t) :
        entries' = [j \in kept \cup {k} |-> IF j = k THEN e ELSE entries[j]]

\* The lifetime a response is given: its max-age or the default.
TTL(s) == IF s.maxAge >= 0 THEN s.maxAge ELSE DefaultTTL

\* Mutant: Vary is not looked at.
Storable_AnyVary(r, s) ==
    /\ ~s.stream /\ s.status \in {200, 301, 404} /\ s.body
    /\ s.cc \cap {"no-store", "no-cache", "private"} = {}
    /\ r.token # "none" => "public" \in s.cc
    /\ TTL(s) > 0

\* The tests between next() and cache.Set.  Of several Vary lines the first
\* is looked at (Header.Get).
Storable(r, s) ==
    /\ ~s.stream /\ s.status \in {200, 301, 404} /\ s.body
    /\ s.cc \cap {"no-store", "no-cache", "private"} = {}
    /\ r.token # "none" => "public" \in s.cc
    /\ s.vary # <<>> => Head(s.vary) \subseteq {"accept-encoding"}
    /\ TTL(s) > 0

\* The snapshot that is stored: Set-Cookie is stripped, and the times are
\* counted from t, which was read before the response was fetched.
Snapshot(s, t) ==
    [response |-> [s EXCEPT !.cookie = FALSE], cachedAt |-> t, expires |-> t + TTL(s),
     public |-> "public" \in s.cc]

\* A hit may be used for a request with Authorization only if it is public.
Usable(r, e) == r.token = "none" \/ e.public
=============================================================================
