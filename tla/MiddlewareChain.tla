-------------------------- MODULE MiddlewareChain --------------------------
(***************************************************************************)
(* The chain of middlewares that cmd/toron/main.go attaches and a route    *)
(* with a rate limit: response cache, compression, authentication, CORS,   *)
(* rate limiter, upstream.  Several goroutines run it at once; they share  *)
(* the cache store, the buckets and the clock.                             *)
(***************************************************************************)
EXTENDS TokenBuckets, ResponseCache

CONSTANTS
    Requests,      \* the requests clients send
    Replies,       \* the responses upstreams give
    AllowOrigins,  \* cfg.AllowOrigins of CORS, "*" included or not
    AllowCredentials, \* cfg.AllowCredentials of CORS
    AuthType,      \* cfg.Type of auth: "jwt", "basic" or "apikey"
    Guarded,       \* the paths that cfg.Excluded of auth does not name
    MaxRequests    \* bound on the requests

\* Header fields, origins, paths.  (The literals are strings, which the prover
\* does not know.)
Names == STRING \cup {"none", "*", "origin", "accept-encoding"}

\* accept: the q-values of the encodings; cc: the directives of Cache-Control;
\* token: what Authorization holds; key: what the header of API keys holds (a key
\* in the query is part of the path).
Request == [method : STRING, path : Names, accept : [{"gzip", "br"} -> Nat],
            origin : Names, token : {"none", "valid", "expires", "invalid"},
            exp : Nat, key : {"none", "valid", "invalid"}, cc : SUBSET STRING, acrm : BOOLEAN,
            peer : STRING, forwarded : STRING]

\* lines: the Vary lines of an upstream; maxAge is -1 when there is none.
Reply == [status : Nat, cc : SUBSET STRING, maxAge : Int, lines : Seq(SUBSET Names),
          cookie : BOOLEAN, body : BOOLEAN, stream : BOOLEAN, compressible : BOOLEAN]

\* The method, host and URI, and the Accept-Encoding line when there is one.
CacheKey(r) == <<r.method, r.path, r.accept>>

\* extractClientKeyInternal: the forwarded address counts behind a trusted proxy.
ClientKey(r) == IF r.peer = "trusted" /\ r.forwarded # "none" THEN r.forwarded ELSE r.peer

ASSUME ChainAssumption ==
    /\ Requests \subseteq Request /\ Replies \subseteq Reply
    /\ {CacheKey(r) : r \in Requests} \subseteq Keys
    /\ {ClientKey(r) : r \in Requests} \subseteq Clients
    /\ AllowOrigins \subseteq Names /\ AllowCredentials \in BOOLEAN
    /\ MaxRequests \in Nat

VARIABLES
    pc,       \* where a goroutine is
    req,      \* its request
    arrived,  \* `now', read before the lookup
    res,      \* its response
    sent      \* requests begun, for the bound

Response == [status : Nat, cc : SUBSET STRING, maxAge : Int, vary : Seq(SUBSET Names),
             cookie : BOOLEAN, body : BOOLEAN, stream : BOOLEAN, compressible : BOOLEAN,
             enc : {"identity", "gzip", "br"}, acao : Names, asOf : Nat,
             path : Names, credential : BOOLEAN]

chainVars == <<pc, req, arrived, res, sent>>
vars == <<clock, limiterVars, entries, chainVars>>

Nothing == [method |-> "none"]
Blank == [status |-> 200, cc |-> {}, maxAge |-> -1, vary |-> <<>>, cookie |-> FALSE,
          body |-> FALSE, stream |-> FALSE, compressible |-> FALSE, enc |-> "identity",
          acao |-> "none", asOf |-> 0, path |-> "none", credential |-> FALSE]

Init ==
    /\ LimiterInit /\ CacheInit
    /\ pc = [p \in Procs |-> "idle"] /\ req = [p \in Procs |-> Nothing]
    /\ arrived = [p \in Procs |-> 0] /\ res = [p \in Procs |-> Blank] /\ sent = 0

Goto(p, l) == pc' = [pc EXCEPT ![p] = l]

\* The response leaves the chain.
Leave(p) ==
    /\ Goto(p, "idle")
    /\ req' = [req EXCEPT ![p] = Nothing] /\ res' = [res EXCEPT ![p] = Blank]
    /\ arrived' = [arrived EXCEPT ![p] = 0]

\* selectCompressionEncoding: of the encodings the client accepts, the one it
\* prefers and, among those, the one the server ranks highest.
Rank == [gzip |-> 2, br |-> 3]
Selected(a) ==
    CHOOSE e \in DOMAIN Rank :
        \A d \in DOMAIN Rank : a[d] < a[e] \/ (a[d] = a[e] /\ Rank[d] <= Rank[e])
Accepts(a) == \E e \in DOMAIN Rank : a[e] > 0

\* The compression middleware, after next().
Compress(r, s) ==
    IF s.stream \/ ~s.compressible \/ s.enc # "identity" \/ ~Accepts(r.accept) THEN s
    ELSE [s EXCEPT !.enc = Selected(r.accept),
                   !.vary = IF s.vary = <<>> THEN <<{"accept-encoding"}>>
                            ELSE IF "accept-encoding" \in Head(s.vary) THEN s.vary
                            ELSE <<Head(s.vary) \cup {"accept-encoding"}>>]

\* The chain returns with the response s: compression, then the cache's
\* decision to keep it.  One that is not kept leaves the chain.
Returned(p, s) ==
    LET t == Compress(req[p], s)
    IN  IF Cacheable(req[p]) /\ Storable(req[p], t)
        THEN /\ res' = [res EXCEPT ![p] = t] /\ Goto(p, "store")
             /\ UNCHANGED <<req, arrived>>
        ELSE Leave(p)

\* A request enters the chain.
Arrive(p) ==
    /\ pc[p] = "idle" /\ sent < MaxRequests
    /\ \E r \in Requests :
         /\ req' = [req EXCEPT ![p] = r]
         /\ Goto(p, IF Cacheable(r) /\ ~ClientBypass(r) THEN "lookup" ELSE "auth")
    /\ arrived' = [arrived EXCEPT ![p] = clock]
    /\ sent' = sent + 1
    /\ UNCHANGED <<clock, limiterVars, entries, res>>

\* Get under the read lock: a miss, an expired entry, one that may not be used
\* for this request, or a hit.
Lookup(p) ==
    LET k == CacheKey(req[p])
    IN  /\ pc[p] = "lookup"
        /\ \/ k \notin DOMAIN entries /\ Goto(p, "auth") /\ UNCHANGED res
           \/ /\ k \in DOMAIN entries /\ IsExpired(entries[k], arrived[p])
              /\ Goto(p, "purge") /\ UNCHANGED res
           \/ /\ k \in DOMAIN entries /\ ~IsExpired(entries[k], arrived[p])
              /\ IF Usable(req[p], entries[k])
                 THEN Goto(p, "hit") /\ res' = [res EXCEPT ![p] = entries[k].response]
                 ELSE Goto(p, "auth") /\ UNCHANGED res
        /\ UNCHANGED <<clock, limiterVars, entries, req, arrived, sent>>

PurgeExpired(p) ==
    /\ pc[p] = "purge"
    /\ Purge(CacheKey(req[p])) /\ Goto(p, "auth")
    /\ UNCHANGED <<clock, limiterVars, req, arrived, res, sent>>

\* VerifyJWT: the token is well formed and signed, and the time is within it.
TokenValid(r) == r.token = "valid" \/ (r.token = "expires" /\ clock < r.exp)

\* verifyAPIKey: the header of its own and, without it, Authorization.
KeyValid(r) == r.key = "valid" \/ (r.key = "none" /\ r.token = "valid")

\* The auth middleware answers 401 where it guards.  Basic credentials are valid
\* or not; a JWT may have run out.
Authorised(r) ==
    \/ r.path \notin Guarded
    \/ AuthType = "apikey" /\ KeyValid(r)
    \/ AuthType # "apikey" /\ TokenValid(r)

Unauthorised(p) ==
    /\ pc[p] = "auth" /\ ~Authorised(req[p])
    /\ Returned(p, [Blank EXCEPT !.status = 401, !.body = TRUE])
    /\ UNCHANGED <<clock, limiterVars, entries, sent>>

\* isOriginAllowed: "*" does not count when credentials are allowed.
OriginAllowed(o) == ("*" \in AllowOrigins /\ ~AllowCredentials) \/ o \in AllowOrigins

\* The headers the CORS middleware sets before it calls next().
CORS(r, s) ==
    IF r.origin = "none" THEN s
    ELSE [s EXCEPT !.vary = <<{"origin"}>>,
                   !.acao = IF ~OriginAllowed(r.origin) THEN "none"
                            ELSE IF AllowOrigins = {"*"} /\ ~AllowCredentials THEN "*"
                            ELSE r.origin]

\* With Origin and Access-Control-Request-Method (acrm).
IsPreflight(r) == r.method = "OPTIONS" /\ r.origin # "none" /\ r.acrm

\* CORS answers a preflight itself: 204, or 403 for an origin it does not know.
Preflight(p) ==
    /\ pc[p] = "auth" /\ Authorised(req[p]) /\ IsPreflight(req[p])
    /\ Returned(p, [CORS(req[p], Blank) EXCEPT
                       !.status = IF OriginAllowed(req[p].origin) THEN 204 ELSE 403,
                       !.body = ~OriginAllowed(req[p].origin)])
    /\ UNCHANGED <<clock, limiterVars, entries, sent>>

\* Auth lets the request pass, CORS prepares the response, and the route's
\* limiter looks the client's bucket up.
EnterRoute(p) ==
    /\ pc[p] = "auth" /\ Authorised(req[p]) /\ ~IsPreflight(req[p])
    /\ res' = [res EXCEPT ![p] = CORS(req[p], Blank)]
    /\ GetBucket(p, ClientKey(req[p]))
    /\ Goto(p, "allow")
    /\ UNCHANGED <<entries, req, arrived, sent>>

Admitted(p) ==
    /\ pc[p] = "allow" /\ Allow(p) /\ Goto(p, "fetch")
    /\ UNCHANGED <<entries, req, arrived, res, sent>>

Throttled(p) ==
    /\ pc[p] = "allow" /\ Throttle(p)
    /\ Returned(p, [res[p] EXCEPT !.status = 429, !.body = TRUE])
    /\ UNCHANGED <<entries, sent>>

\* The answer u to the request r, at time t: its headers are added to those of s.
Answered(s, u, r, t) ==
    [status |-> u.status, cc |-> u.cc, maxAge |-> u.maxAge, vary |-> s.vary \o u.lines,
     cookie |-> u.cookie, body |-> u.body, stream |-> u.stream,
     compressible |-> u.compressible, enc |-> s.enc, acao |-> s.acao, asOf |-> t,
     path |-> r.path, credential |-> r.token # "none"]

\* The upstream answers.
Fetch(p) ==
    /\ pc[p] = "fetch"
    /\ \E u \in Replies : Returned(p, Answered(res[p], u, req[p], clock))
    /\ UNCHANGED <<clock, limiterVars, entries, sent>>

\* Mutant: the lifetime starts when the response is stored.
Store_StampedLate(p) ==
    /\ pc[p] = "store"
    /\ Set(CacheKey(req[p]), Snapshot(res[p], clock), clock)
    /\ Leave(p)
    /\ UNCHANGED <<clock, limiterVars, sent>>

Store(p) ==
    /\ pc[p] = "store"
    /\ Set(CacheKey(req[p]), Snapshot(res[p], arrived[p]), clock)
    /\ Leave(p)
    /\ UNCHANGED <<clock, limiterVars, sent>>

\* The middleware answers from the cache.
Serve(p) ==
    /\ pc[p] = "hit" /\ Leave(p)
    /\ UNCHANGED <<clock, limiterVars, entries, sent>>

Next ==
    \/ \E p \in Procs :
         \/ Arrive(p) \/ Lookup(p) \/ PurgeExpired(p)
         \/ Unauthorised(p) \/ Preflight(p) \/ EnterRoute(p)
         \/ Admitted(p) \/ Throttled(p) \/ Fetch(p) \/ Store(p) \/ Serve(p)
    \/ CleanupStale /\ UNCHANGED <<entries, chainVars>>
    \/ Tick /\ UNCHANGED <<entries, chainVars>>

Spec == Init /\ [][Next]_vars

ChainTypeOK ==
    /\ DOMAIN entries \subseteq Keys /\ Cardinality(DOMAIN entries) <= MaxEntries
    /\ pc \in [Procs -> {"idle", "lookup", "purge", "auth", "allow", "fetch", "store",
                         "hit"}]
    /\ req \in [Procs -> Requests \cup {Nothing}] /\ arrived \in [Procs -> 0..MaxTime]
    /\ res \in [Procs -> Response]
    /\ \A p \in Procs : pc[p] = "idle" \/ req[p] \in Requests

\* The response s, of which another request is the cause, answers the request r.
Fits(s, r) ==
    /\ s.path = r.path
    /\ s.enc = "identity" \/ r.accept[s.enc] > 0
    /\ s.acao \in {"none", "*", r.origin}
    /\ ~s.cookie /\ "private" \notin s.cc /\ s.status # 401
    /\ (s.credential \/ r.token # "none") => "public" \in s.cc

\* What another request left in the cache fits the request it is served to
\* (NewCacheMiddlewareWithStore): it was fetched for the same path, in an encoding
\* this client accepts, names no other origin in its CORS headers, carries no
\* cookie, was not private, and if it was fetched with Authorization or is
\* served to a request with Authorization its origin called it public.
HitsFit == \A p \in Procs : pc[p] = "hit" => Fits(res[p], req[p])

\* A response from the cache was produced by its upstream no longer before the
\* request arrived than its lifetime allows, however long the fetch, the store
\* and the lookup took and whatever replaced it in between.
HitsFresh ==
    \A p \in Procs : pc[p] = "hit" => arrived[p] <= res[p].asOf + TTL(res[p])

\* The cache, which comes before authentication, gives a response of a guarded
\* path that its origin did not call public to nobody who is not authorised:
\* "authenticated responses never leak to unauthenticated clients" (TC-134.5).
GuardedHits ==
    \A p \in Procs : (pc[p] = "hit" /\ req[p].path \in Guarded) =>
        "public" \in res[p].cc \/ Authorised(req[p])

\* The chain and the store are well formed, every hit fits its request and,
\* where credentials come in Authorization, the one header the cache looks at
\* (JWT and Basic), a hit gives no guarded response away.  With API keys, which
\* come in a header of their own, it does.
CacheSafe == ChainTypeOK /\ HitsFit /\ (AuthType # "apikey" => GuardedHits)
=============================================================================
