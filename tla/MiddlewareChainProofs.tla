----------------------- MODULE MiddlewareChainProofs -----------------------
(***************************************************************************)
(* Proofs about MiddlewareChain, for any number of goroutines, requests,   *)
(* upstream responses, cache entries, clients and buckets: what is served  *)
(* from the cache is right, and the rate limit is kept.                    *)
(***************************************************************************)
EXTENDS MiddlewareChain, FiniteSetTheorems, SequenceTheorems, TLAPS

-----------------------------------------------------------------------------
(* The responses that travel through the chain.                            *)

\* The fields of a response that are not flags.
LEMMA ResponseFields ==
    ASSUME NEW s \in Response
    PROVE  /\ s.status \in Nat /\ s.maxAge \in Int /\ s.asOf \in Nat
           /\ s.vary \in Seq(SUBSET Names)
           /\ s.enc \in {"identity", "gzip", "br"}
BY DEF Response

\* The response a request starts with.
LEMMA BlankResponse ==
    /\ Blank \in Response /\ Blank.vary = <<>> /\ Blank.acao = "none"
    /\ Blank.enc = "identity"
<1> DEFINE n == -1
           Like(m) == [status |-> 200, cc |-> {}, maxAge |-> m, vary |-> <<>>,
                       cookie |-> FALSE, body |-> FALSE, stream |-> FALSE,
                       compressible |-> FALSE, enc |-> "identity", acao |-> "none",
                       asOf |-> 0, path |-> "none", credential |-> FALSE]
<1>1. n \in Int /\ 200 \in Nat /\ 0 \in Nat /\ <<>> \in Seq(SUBSET Names)
  OBVIOUS
<1>2. Blank = Like(n)
  BY Zenon DEF Blank
<1>3. /\ "none" \in Names /\ {} \in SUBSET STRING /\ FALSE \in BOOLEAN
      /\ "identity" \in {"identity", "gzip", "br"}
  BY DEF Names
<1> HIDE DEF n
<1>4. Like(n) \in Response
  BY <1>1, <1>3, Zenon DEF Response
<1>5. Like(n).vary = <<>> /\ Like(n).acao = "none" /\ Like(n).enc = "identity"
  BY Zenon
<1> QED BY <1>2, <1>4, <1>5, Zenon

\* The headers of CORS: with an Origin, Vary names it first; without one, the
\* response is left alone.
LEMMA CORSResponse ==
    ASSUME NEW r \in Request
    PROVE  /\ CORS(r, Blank) \in Response /\ CORS(r, Blank).enc = "identity"
           /\ r.origin = "none" => CORS(r, Blank).acao = "none"
           /\ r.origin # "none" => CORS(r, Blank).vary = <<{"origin"}>>
<1>1. CASE r.origin = "none"
  <2>1. CORS(r, Blank) = Blank
    BY <1>1, Zenon DEF CORS
  <2> QED BY <1>1, <2>1, BlankResponse, Zenon
<1>2. CASE r.origin # "none"
  <2> DEFINE v == <<{"origin"}>>
             o == IF ~OriginAllowed(r.origin) THEN "none"
                  ELSE IF AllowOrigins = {"*"} /\ ~AllowCredentials THEN "*"
                  ELSE r.origin
  <2>1. {"origin"} \in SUBSET Names /\ "none" \in Names /\ "*" \in Names
    BY DEF Names
  <2>2. v \in Seq(SUBSET Names)
    BY <2>1
  <2>3. r.origin \in Names
    BY Zenon DEF Request
  <2>4. o \in Names
    BY <2>1, <2>3, Zenon
  <2>5. CORS(r, Blank) = [Blank EXCEPT !.vary = v, !.acao = o]
    BY <1>2, Zenon DEF CORS
  <2> HIDE DEF v, o
  <2> DEFINE x == [Blank EXCEPT !.vary = v, !.acao = o]
  <2>6. x \in Response /\ x.vary = v /\ x.enc = Blank.enc
    BY <2>2, <2>4, BlankResponse, Zenon DEF Response
  <2> HIDE DEF x
  <2> QED BY <1>2, <2>5, <2>6, BlankResponse, Zenon DEF v, x
<1> QED BY <1>1, <1>2

\* The answer of an upstream, on top of those headers.
LEMMA AnsweredResponse ==
    ASSUME NEW s \in Response, NEW u \in Reply, NEW r \in Request, NEW t \in Nat
    PROVE  LET x == Answered(s, u, r, t)
           IN  /\ x \in Response /\ x.enc = s.enc /\ x.vary = s.vary \o u.lines
               /\ x.acao = s.acao /\ x.asOf = t /\ x.path = r.path
               /\ x.credential = (r.token # "none")
<1> DEFINE v == s.vary \o u.lines
           c == (r.token # "none")
<1>1. v \in Seq(SUBSET Names)
  BY DEF Response, Reply
<1>2. c \in BOOLEAN
  OBVIOUS
<1>3. /\ s.enc \in {"identity", "gzip", "br"} /\ s.acao \in Names /\ r.path \in Names
      /\ u.status \in Nat /\ u.cc \in SUBSET STRING /\ u.maxAge \in Int
      /\ u.cookie \in BOOLEAN /\ u.body \in BOOLEAN /\ u.stream \in BOOLEAN
      /\ u.compressible \in BOOLEAN
  BY Zenon DEF Response, Reply, Request
<1> DEFINE x == [status |-> u.status, cc |-> u.cc, maxAge |-> u.maxAge, vary |-> v,
                 cookie |-> u.cookie, body |-> u.body, stream |-> u.stream,
                 compressible |-> u.compressible, enc |-> s.enc, acao |-> s.acao,
                 asOf |-> t, path |-> r.path, credential |-> c]
<1>4. Answered(s, u, r, t) = x
  BY Zenon DEF Answered
<1> HIDE DEF v, c
<1>5. x \in Response
  BY <1>1, <1>2, <1>3, Zenon DEF Response
<1>6. /\ x.enc = s.enc /\ x.vary = v /\ x.acao = s.acao /\ x.asOf = t
      /\ x.path = r.path /\ x.credential = c
  BY Zenon
<1> HIDE DEF x
<1> QED BY <1>4, <1>5, <1>6, Zenon DEF v, c

\* Of the encodings a client accepts one is selected.
LEMMA SelectedAccepted ==
    ASSUME NEW a \in [{"gzip", "br"} -> Nat], Accepts(a)
    PROVE  Selected(a) \in {"gzip", "br"} /\ a[Selected(a)] > 0
<1> DEFINE Best(e) == \A d \in DOMAIN Rank : a[d] < a[e] \/ (a[d] = a[e] /\ Rank[d] <= Rank[e])
<1>1. DOMAIN Rank = {"gzip", "br"}
  BY DEF Rank
<1>2. Rank["gzip"] = 2 /\ Rank["br"] = 3
  BY DEF Rank
<1>3. a["gzip"] \in Nat /\ a["br"] \in Nat
  OBVIOUS
<1>4. \E e \in DOMAIN Rank : Best(e)
  <2>1. CASE a["br"] >= a["gzip"]
    <3>1. Best("br")
      BY <1>1, <1>2, <1>3, <2>1
    <3> QED BY <1>1, <3>1
  <2>2. CASE ~(a["br"] >= a["gzip"])
    <3>1. Best("gzip")
      BY <1>1, <1>2, <1>3, <2>2
    <3> QED BY <1>1, <3>1
  <2> QED BY <2>1, <2>2
<1>5. Selected(a) \in DOMAIN Rank /\ Best(Selected(a))
  BY <1>4, Zenon DEF Selected
<1> DEFINE e == Selected(a)
<1> HIDE DEF e
<1>6. PICK d \in DOMAIN Rank : a[d] > 0
  BY DEF Accepts
<1>7. e \in {"gzip", "br"} /\ (a[d] < a[e] \/ a[d] = a[e])
  BY <1>1, <1>5 DEF e
<1>8. a[e] > 0
  BY <1>1, <1>6, <1>7
<1> QED BY <1>7, <1>8 DEF e

\* The fields compression leaves alone.
SameOrigin(x, s) ==
    /\ x.status = s.status /\ x.cc = s.cc /\ x.maxAge = s.maxAge /\ x.cookie = s.cookie
    /\ x.acao = s.acao /\ x.asOf = s.asOf /\ x.path = s.path
    /\ x.credential = s.credential

\* Compression picks an encoding the client accepts, and what Vary named first
\* it still names first.
LEMMA CompressResponse ==
    ASSUME NEW r \in Request, NEW s \in Response
    PROVE  LET x == Compress(r, s)
           IN  /\ x \in Response /\ SameOrigin(x, s)
               /\ x.enc = s.enc \/ r.accept[x.enc] > 0
               /\ s.vary # <<>> => x.vary # <<>> /\ Head(s.vary) \subseteq Head(x.vary)
<1> DEFINE skip == s.stream \/ ~s.compressible \/ s.enc # "identity" \/ ~Accepts(r.accept)
           e == Selected(r.accept)
           v == IF s.vary = <<>> THEN <<{"accept-encoding"}>>
                ELSE IF "accept-encoding" \in Head(s.vary) THEN s.vary
                ELSE <<Head(s.vary) \cup {"accept-encoding"}>>
           x == [s EXCEPT !.enc = e, !.vary = v]
<1>1. CASE skip
  <2>1. Compress(r, s) = s
    BY <1>1, Zenon DEF Compress
  <2> QED BY <2>1, Zenon DEF SameOrigin
<1>2. CASE ~skip
  <2>1. r.accept \in [{"gzip", "br"} -> Nat]
    BY Zenon DEF Request
  <2>2. e \in {"identity", "gzip", "br"} /\ r.accept[e] > 0
    BY <1>2, <2>1, SelectedAccepted, Zenon
  <2>3. s.vary \in Seq(SUBSET Names) /\ "accept-encoding" \in Names
    BY ResponseFields DEF Names
  <2>4. v \in Seq(SUBSET Names) /\ (s.vary # <<>> => v # <<>> /\ Head(s.vary) \subseteq Head(v))
    <3>1. CASE s.vary = <<>>
      BY <2>3, <3>1
    <3>2. CASE s.vary # <<>> /\ "accept-encoding" \in Head(s.vary)
      BY <2>3, <3>2
    <3>3. CASE s.vary # <<>> /\ "accept-encoding" \notin Head(s.vary)
      <4> DEFINE h == Head(s.vary) \cup {"accept-encoding"}
      <4>1. h \in SUBSET Names /\ Head(s.vary) \subseteq h
        BY <2>3, <3>3
      <4>2. v = <<h>>
        BY <3>3, Zenon
      <4> HIDE DEF h, v
      <4> QED BY <4>1, <4>2
    <3> QED BY <3>1, <3>2, <3>3
  <2>5. Compress(r, s) = x
    BY <1>2, Zenon DEF Compress
  <2> HIDE DEF e, v
  <2>6. x \in Response /\ x.enc = e /\ x.vary = v
    BY <2>2, <2>4, Zenon DEF Response
  <2>7. SameOrigin(x, s)
    BY Zenon DEF Response, SameOrigin
  <2> HIDE DEF x
  <2> QED BY <2>2, <2>4, <2>5, <2>6, <2>7, Zenon
<1> QED BY <1>1, <1>2

-----------------------------------------------------------------------------
(* What may be stored, what is stored, and what is served.                 *)

\* Where credentials come in Authorization, a request has it when auth lets it
\* pass to a guarded path, ...
Credited(r) == AuthType # "apikey" /\ r.path \in Guarded => r.token # "none"

\* ... and what the cache holds of such a path its origin called public.
Disclosable(s) == AuthType # "apikey" /\ s.path \in Guarded => "public" \in s.cc

\* The response s to the request r, which arrived at t, is about to be stored.
StoreOK(s, r, t) ==
    /\ s \in Response /\ Storable(r, s) /\ Credited(r)
    /\ s.path = r.path
    /\ s.enc = "identity" \/ r.accept[s.enc] > 0
    /\ s.acao = "none"
    /\ s.credential => r.token # "none"
    /\ t <= s.asOf

\* What HitsFit, HitsFresh and GuardedHits ask of the response s to the request r.
HitOK(s, r, t) == Fits(s, r) /\ t <= s.asOf + TTL(s) /\ Disclosable(s)

\* An entry of the store under the key k.
EntryOK(k, e) ==
    /\ e.response \in Response /\ Disclosable(e.response)
    /\ e.response.path = k[2]
    /\ e.response.enc = "identity" \/ k[3][e.response.enc] > 0
    /\ e.response.acao = "none"
    /\ ~e.response.cookie /\ "private" \notin e.response.cc /\ e.response.status # 401
    /\ e.response.credential => "public" \in e.response.cc
    /\ e.public => "public" \in e.response.cc
    /\ e.cachedAt \in Nat /\ e.cachedAt <= e.response.asOf
    /\ e.expires = e.cachedAt + TTL(e.response)

\* The lifetime of a response is a number.
LEMMA TTLType ==
    ASSUME NEW s \in Response
    PROVE  TTL(s) \in Nat
BY ResponseFields, CacheAssumption DEF TTL

\* What is stored is fit to be served: the snapshot of a response that may be
\* stored is an entry.
LEMMA SnapshotIsEntry ==
    ASSUME NEW s, NEW r \in Request, NEW t \in Nat, StoreOK(s, r, t)
    PROVE  EntryOK(CacheKey(r), Snapshot(s, t))
<1> DEFINE x == [s EXCEPT !.cookie = FALSE]
           p == "public" \in s.cc
           e == [response |-> x, cachedAt |-> t, expires |-> t + TTL(s), public |-> p]
<1>1. s \in Response /\ Storable(r, s)
  BY Zenon DEF StoreOK
<1>2. FALSE \in BOOLEAN
  OBVIOUS
<1>3. /\ x \in Response /\ x.cookie = FALSE /\ x.path = s.path /\ x.enc = s.enc
      /\ x.acao = s.acao /\ x.cc = s.cc /\ x.status = s.status /\ x.asOf = s.asOf
      /\ x.credential = s.credential /\ x.maxAge = s.maxAge
  BY <1>1, <1>2, Zenon DEF Response
<1>4. Snapshot(s, t) = e
  BY Zenon DEF Snapshot
<1> HIDE DEF x
<1>5. TTL(x) = TTL(s)
  BY <1>3, Zenon DEF TTL
<1> DEFINE l == t + TTL(s)
<1> HIDE DEF l
<1>6. e.response = x /\ e.cachedAt = t /\ e.expires = l /\ e.public = p
  BY Zenon DEF l
<1> HIDE DEF p, e
<1>7. CacheKey(r)[2] = r.path /\ CacheKey(r)[3] = r.accept
  BY DEF CacheKey
<1>8. /\ s.status \in {200, 301, 404}
      /\ s.cc \cap {"no-store", "no-cache", "private"} = {}
      /\ r.token # "none" => "public" \in s.cc
  BY <1>1, Zenon DEF Storable
<1>9. s.status # 401
  BY <1>8
<1>10. "private" \notin s.cc
  BY <1>8
<1>11. e.cachedAt <= e.response.asOf
  BY <1>3, <1>6, Zenon DEF StoreOK
<1>12. e.expires = e.cachedAt + TTL(e.response)
  BY <1>5, <1>6, Zenon DEF l
<1>13. e.public => "public" \in e.response.cc
  BY <1>3, <1>6, Zenon DEF p
<1>14. e.response.credential => "public" \in e.response.cc
  BY <1>3, <1>6, <1>8, Zenon DEF StoreOK
<1>15. ~e.response.cookie
  BY <1>3, <1>6, Zenon
<1>16. e.response.enc = "identity" \/ CacheKey(r)[3][e.response.enc] > 0
  BY <1>3, <1>6, <1>7, Zenon DEF StoreOK
<1>17. e.response \in Response /\ e.cachedAt \in Nat
  BY <1>3, <1>6, Zenon
<1>18. e.response.path = CacheKey(r)[2]
  BY <1>3, <1>6, <1>7, Zenon DEF StoreOK
<1>19. e.response.acao = "none"
  BY <1>3, <1>6, Zenon DEF StoreOK
<1>20. "private" \notin e.response.cc /\ e.response.status # 401
  <2>1. e.response.cc = s.cc /\ e.response.status = s.status
    BY <1>3, <1>6, Zenon
  <2> QED BY <1>9, <1>10, <2>1, Zenon
<1>21. Disclosable(e.response)
  BY <1>3, <1>6, <1>8, Zenon DEF StoreOK, Credited, Disclosable
<1>22. EntryOK(CacheKey(r), e)
  BY <1>11, <1>12, <1>13, <1>14, <1>15, <1>16, <1>17, <1>18, <1>19, <1>20, <1>21, Zenon
  DEF EntryOK
<1> QED BY <1>4, <1>22, Zenon DEF e

\* An entry that has not expired and may be used is a hit.
LEMMA EntryIsHit ==
    ASSUME NEW e, NEW r \in Request, NEW t \in Nat, EntryOK(CacheKey(r), e),
           ~IsExpired(e, t), Usable(r, e)
    PROVE  HitOK(e.response, r, t)
<1> DEFINE s == e.response
<1>1. CacheKey(r)[2] = r.path /\ CacheKey(r)[3] = r.accept
  BY DEF CacheKey
<1>2. TTL(s) \in Nat /\ s.asOf \in Nat
  BY TTLType, ResponseFields DEF EntryOK
<1>3. e.cachedAt \in Nat /\ e.cachedAt <= s.asOf /\ e.expires = e.cachedAt + TTL(s)
  BY Zenon DEF EntryOK
<1>4. t <= e.expires
  BY <1>2, <1>3 DEF IsExpired
<1>5. t <= s.asOf + TTL(s)
  BY <1>2, <1>3, <1>4
<1>6. (s.credential \/ r.token # "none") => "public" \in s.cc
  BY Zenon DEF EntryOK, Usable
<1>7. s.enc = "identity" \/ r.accept[s.enc] > 0
  BY <1>1, Zenon DEF EntryOK
<1>8. s.path = r.path /\ s.acao \in {"none", "*", r.origin}
  BY <1>1, Zenon DEF EntryOK
<1>9. ~s.cookie /\ "private" \notin s.cc /\ s.status # 401
  BY Zenon DEF EntryOK
<1>10. Disclosable(s)
  BY Zenon DEF EntryOK
<1> HIDE DEF s
<1>11. HitOK(s, r, t)
  BY <1>5, <1>6, <1>7, <1>8, <1>9, <1>10, Zenon DEF Fits, HitOK
<1> QED BY <1>11 DEF s

-----------------------------------------------------------------------------
(* The invariant.                                                          *)

Labels == {"idle", "lookup", "purge", "auth", "allow", "fetch", "store", "hit"}

\* What a goroutine at l has in hand.  Until the upstream has answered the
\* response holds the headers of CORS and nothing else, and auth has let the
\* request pass.
InHand(l, r, t, s) ==
    /\ l \in {"allow", "fetch"} => s = CORS(r, Blank) /\ Credited(r)
    /\ l = "store" => StoreOK(s, r, t)
    /\ l = "hit" => HitOK(s, r, t)

StoreBounded ==
    /\ IsFiniteSet(DOMAIN entries) /\ DOMAIN entries \subseteq Keys
    /\ Cardinality(DOMAIN entries) <= MaxEntries

StoreSound == \A k \in DOMAIN entries : EntryOK(k, entries[k])

ProcsTyped ==
    /\ pc \in [Procs -> Labels]
    /\ req \in [Procs -> Requests \cup {Nothing}]
    /\ arrived \in [Procs -> 0..MaxTime]
    /\ res \in [Procs -> Response]
    /\ \A p \in Procs : pc[p] = "idle" \/ req[p] \in Requests

ProcsSound ==
    \A p \in Procs : arrived[p] <= clock /\ InHand(pc[p], req[p], arrived[p], res[p])

ChainInv ==
    /\ clock \in 0..MaxTime
    /\ StoreBounded /\ StoreSound
    /\ ProcsTyped /\ ProcsSound

\* The chain and the store before the first request.
LEMMA InitInv == Init => ChainInv
<1> SUFFICES ASSUME Init PROVE ChainInv
  OBVIOUS
<1>1. clock = 0 /\ clock \in 0..MaxTime
  BY LimiterAssumption DEF Init, LimiterInit
<1>2. DOMAIN entries = {}
  BY DEF Init, CacheInit
<1>3. StoreBounded /\ StoreSound
  BY <1>2, FS_EmptySet, CacheAssumption DEF StoreBounded, StoreSound
<1>4. /\ pc = [p \in Procs |-> "idle"] /\ req = [p \in Procs |-> Nothing]
      /\ arrived = [p \in Procs |-> 0] /\ res = [p \in Procs |-> Blank]
  BY DEF Init
<1>5. ProcsTyped
  BY <1>1, <1>4, BlankResponse DEF ProcsTyped, Labels
<1>6. ProcsSound
  BY <1>1, <1>4 DEF ProcsSound, InHand
<1> QED BY <1>1, <1>3, <1>5, <1>6 DEF ChainInv

\* A step of one goroutine: what it has in hand afterwards is in order.
LEMMA ProcStep ==
    ASSUME ChainInv, clock' = clock, StoreBounded', StoreSound',
           NEW p \in Procs, NEW l \in Labels, NEW r \in Requests \cup {Nothing},
           NEW t \in 0..MaxTime, NEW s \in Response,
           pc' = [pc EXCEPT ![p] = l], req' = [req EXCEPT ![p] = r],
           arrived' = [arrived EXCEPT ![p] = t], res' = [res EXCEPT ![p] = s],
           l = "idle" \/ r \in Requests, t <= clock, InHand(l, r, t, s)
    PROVE  ChainInv'
<1>1. /\ pc \in [Procs -> Labels]
      /\ req \in [Procs -> Requests \cup {Nothing}]
      /\ arrived \in [Procs -> 0..MaxTime]
      /\ res \in [Procs -> Response]
  BY DEF ChainInv, ProcsTyped
<1>2. pc'[p] = l /\ req'[p] = r /\ arrived'[p] = t /\ res'[p] = s
  BY <1>1
<1>3. ASSUME NEW q \in Procs, q # p
      PROVE  pc'[q] = pc[q] /\ req'[q] = req[q] /\ arrived'[q] = arrived[q] /\ res'[q] = res[q]
  BY <1>1, <1>3
<1>4. ProcsTyped'
  <2>1. pc' \in [Procs -> Labels] /\ req' \in [Procs -> Requests \cup {Nothing}]
    BY <1>1
  <2>2. arrived' \in [Procs -> 0..MaxTime] /\ res' \in [Procs -> Response]
    BY <1>1
  <2>3. ASSUME NEW q \in Procs PROVE pc'[q] = "idle" \/ req'[q] \in Requests
    BY <1>2, <1>3, Zenon DEF ChainInv, ProcsTyped
  <2> QED BY <2>1, <2>2, <2>3, Zenon DEF ProcsTyped
<1>5. ProcsSound'
  <2> SUFFICES ASSUME NEW q \in Procs
               PROVE  arrived'[q] <= clock /\ InHand(pc'[q], req'[q], arrived'[q], res'[q])
    BY Zenon DEF ProcsSound
  <2>1. CASE q = p
    BY <1>2, <2>1, Zenon
  <2>2. CASE q # p
    BY <1>3, <2>2, Zenon DEF ChainInv, ProcsSound
  <2> QED BY <2>1, <2>2
<1>6. clock' \in 0..MaxTime
  BY DEF ChainInv
<1> QED BY <1>4, <1>5, <1>6, Zenon DEF ChainInv

\* The clock runs, and what the chain has in hand stays what it is.
LEMMA QuietStep ==
    ASSUME ChainInv, clock' \in 0..MaxTime, clock' >= clock,
           UNCHANGED <<entries, chainVars>>
    PROVE  ChainInv'
<1>1. UNCHANGED <<pc, req, arrived, res>> /\ UNCHANGED entries
  BY DEF chainVars
<1>2. StoreBounded' /\ StoreSound'
  BY <1>1, Zenon DEF ChainInv, StoreBounded, StoreSound
<1>3. ProcsTyped'
  BY <1>1, Zenon DEF ChainInv, ProcsTyped
<1>4. ProcsSound'
  <2> SUFFICES ASSUME NEW q \in Procs
               PROVE  arrived[q] <= clock' /\ InHand(pc[q], req[q], arrived[q], res[q])
    BY <1>1, Zenon DEF ProcsSound
  <2>1. arrived[q] \in 0..MaxTime /\ clock \in 0..MaxTime
    BY DEF ChainInv, ProcsTyped
  <2>2. arrived[q] <= clock /\ InHand(pc[q], req[q], arrived[q], res[q])
    BY Zenon DEF ChainInv, ProcsSound
  <2>3. arrived[q] <= clock'
    BY <2>1, <2>2
  <2> QED BY <2>2, <2>3
<1> QED BY <1>2, <1>3, <1>4, Zenon DEF ChainInv

-----------------------------------------------------------------------------
(* The steps of a goroutine.                                               *)

\* A step that does not touch the store.
LEMMA StoreSame ==
    ASSUME ChainInv, entries' = entries
    PROVE  StoreBounded' /\ StoreSound'
BY Zenon DEF ChainInv, StoreBounded, StoreSound

\* What is known of a goroutine that serves a request.
LEMMA ProcFacts ==
    ASSUME ChainInv, NEW p \in Procs, pc[p] # "idle"
    PROVE  /\ req[p] \in Requests /\ req[p] \in Request
           /\ arrived[p] \in 0..MaxTime /\ arrived[p] \in Nat
           /\ arrived[p] <= clock /\ clock \in Nat
           /\ res[p] \in Response
           /\ InHand(pc[p], req[p], arrived[p], res[p])
<1>1. req[p] \in Requests /\ arrived[p] \in 0..MaxTime /\ res[p] \in Response
  BY Zenon DEF ChainInv, ProcsTyped
<1>2. arrived[p] <= clock /\ InHand(pc[p], req[p], arrived[p], res[p])
  BY Zenon DEF ChainInv, ProcsSound
<1>3. arrived[p] \in Nat /\ clock \in Nat
  BY <1>1 DEF ChainInv
<1>4. req[p] \in Request
  BY <1>1, ChainAssumption
<1> QED BY <1>1, <1>2, <1>3, <1>4

\* A goroutine goes on to l with what it has.
LEMMA GoesOn ==
    ASSUME ChainInv, NEW p \in Procs, pc[p] # "idle", NEW l \in Labels, Goto(p, l),
           UNCHANGED <<clock, req, arrived, res>>, StoreBounded', StoreSound',
           InHand(l, req[p], arrived[p], res[p])
    PROVE  ChainInv'
<1>1. /\ req' = [req EXCEPT ![p] = req[p]] /\ arrived' = [arrived EXCEPT ![p] = arrived[p]]
      /\ res' = [res EXCEPT ![p] = res[p]]
  BY DEF ChainInv, ProcsTyped
<1>2. pc' = [pc EXCEPT ![p] = l]
  BY DEF Goto
<1> QED BY <1>1, <1>2, ProcFacts, ProcStep

\* A goroutine is done with its request.
LEMMA LeaveInv ==
    ASSUME ChainInv, NEW p \in Procs, Leave(p), clock' = clock, StoreBounded', StoreSound'
    PROVE  ChainInv'
<1>1. "idle" \in Labels /\ 0 \in 0..MaxTime
  BY LimiterAssumption DEF Labels
<1>2. 0 <= clock
  BY DEF ChainInv
<1>3. InHand("idle", Nothing, 0, Blank)
  BY DEF InHand
<1>4. /\ pc' = [pc EXCEPT ![p] = "idle"] /\ req' = [req EXCEPT ![p] = Nothing]
      /\ arrived' = [arrived EXCEPT ![p] = 0] /\ res' = [res EXCEPT ![p] = Blank]
  BY DEF Leave, Goto
<1>5. Nothing \in Requests \cup {Nothing}
  OBVIOUS
<1> QED BY <1>1, <1>2, <1>3, <1>4, <1>5, BlankResponse, ProcStep

\* A request enters the chain.
LEMMA ArriveInv ==
    ASSUME ChainInv, NEW p \in Procs, Arrive(p)
    PROVE  ChainInv'
<1>1. PICK r \in Requests :
        /\ req' = [req EXCEPT ![p] = r]
        /\ Goto(p, IF Cacheable(r) /\ ~ClientBypass(r) THEN "lookup" ELSE "auth")
  BY DEF Arrive
<1> DEFINE l == IF Cacheable(r) /\ ~ClientBypass(r) THEN "lookup" ELSE "auth"
<1>2. l \in {"lookup", "auth"}
  BY Zenon
<1>3. pc' = [pc EXCEPT ![p] = l]
  BY <1>1, Zenon DEF Goto
<1> HIDE DEF l
<1>4. l \in Labels /\ InHand(l, r, clock, res[p])
  BY <1>2 DEF Labels, InHand
<1>5. clock \in 0..MaxTime /\ clock <= clock /\ res[p] \in Response
  BY DEF ChainInv, ProcsTyped
<1>6. res' = [res EXCEPT ![p] = res[p]] /\ arrived' = [arrived EXCEPT ![p] = clock]
  BY DEF Arrive, ChainInv, ProcsTyped
<1>7. StoreBounded' /\ StoreSound' /\ clock' = clock
  BY StoreSame DEF Arrive
<1> QED BY <1>1, <1>3, <1>4, <1>5, <1>6, <1>7, ProcStep

\* The lookup under the read lock.
LEMMA LookupInv ==
    ASSUME ChainInv, NEW p \in Procs, Lookup(p)
    PROVE  ChainInv'
<1> DEFINE k == CacheKey(req[p])
<1>1. /\ pc[p] # "idle" /\ UNCHANGED <<clock, req, arrived>>
      /\ StoreBounded' /\ StoreSound'
  BY StoreSame DEF Lookup
<1>2. ASSUME NEW l \in {"auth", "purge"}, Goto(p, l), UNCHANGED res PROVE ChainInv'
  <2>1. l \in Labels /\ InHand(l, req[p], arrived[p], res[p])
    BY DEF Labels, InHand
  <2> QED BY <1>1, <1>2, <2>1, GoesOn
<1>3. CASE /\ k \in DOMAIN entries /\ ~IsExpired(entries[k], arrived[p])
           /\ Usable(req[p], entries[k])
           /\ Goto(p, "hit") /\ res' = [res EXCEPT ![p] = entries[k].response]
  <2> DEFINE s == entries[k].response
  <2>1. EntryOK(k, entries[k])
    BY <1>3, Zenon DEF ChainInv, StoreSound
  <2>2. s \in Response
    BY <2>1, Zenon DEF EntryOK
  <2>3. HitOK(s, req[p], arrived[p])
    BY <1>1, <1>3, <2>1, ProcFacts, EntryIsHit
  <2> HIDE DEF s
  <2>4. "hit" \in Labels /\ InHand("hit", req[p], arrived[p], s)
    BY <2>3 DEF Labels, InHand
  <2>5. /\ req' = [req EXCEPT ![p] = req[p]] /\ arrived' = [arrived EXCEPT ![p] = arrived[p]]
        /\ res' = [res EXCEPT ![p] = s] /\ pc' = [pc EXCEPT ![p] = "hit"]
    BY <1>1, <1>3 DEF ChainInv, ProcsTyped, Goto, s
  <2> QED BY <1>1, <2>2, <2>4, <2>5, ProcFacts, ProcStep
<1> QED BY <1>2, <1>3, Zenon DEF Lookup

\* An entry is removed.
LEMMA PurgeInv ==
    ASSUME ChainInv, NEW p \in Procs, PurgeExpired(p)
    PROVE  ChainInv'
<1> DEFINE rest == DOMAIN entries \ {CacheKey(req[p])}
<1>1. entries' = [k \in rest |-> entries[k]]
  BY DEF PurgeExpired, Purge, Restrict
<1>2. DOMAIN entries' = rest /\ \A k \in rest : entries'[k] = entries[k]
  BY <1>1
<1>3. StoreSound'
  BY <1>2, Zenon DEF ChainInv, StoreSound
<1>4. IsFiniteSet(rest) /\ Cardinality(rest) <= Cardinality(DOMAIN entries)
  BY FS_Subset DEF ChainInv, StoreBounded
<1>5. Cardinality(rest) \in Nat /\ Cardinality(DOMAIN entries) \in Nat
  BY <1>4, FS_CardinalityType DEF ChainInv, StoreBounded
<1>6. Cardinality(rest) <= MaxEntries
  BY <1>4, <1>5, CacheAssumption DEF ChainInv, StoreBounded
<1>7. StoreBounded'
  BY <1>2, <1>4, <1>6 DEF ChainInv, StoreBounded
<1>8. "auth" \in Labels /\ InHand("auth", req[p], arrived[p], res[p])
  BY DEF Labels, InHand
<1> QED BY <1>3, <1>7, <1>8, GoesOn DEF PurgeExpired

\* A response on its way out: kept if it may be, or the request is over.
LEMMA ReturnedInv ==
    ASSUME ChainInv, NEW p \in Procs, pc[p] # "idle", NEW s, Returned(p, s),
           UNCHANGED <<clock, entries>>,
           LET x == Compress(req[p], s)
           IN  Storable(req[p], x) => StoreOK(x, req[p], arrived[p])
    PROVE  ChainInv'
<1> DEFINE x == Compress(req[p], s)
<1>1. StoreBounded' /\ StoreSound'
  BY StoreSame
<1>2. CASE Cacheable(req[p]) /\ Storable(req[p], x)
  <2>1. StoreOK(x, req[p], arrived[p])
    BY <1>2
  <2>2. x \in Response
    BY <2>1, Zenon DEF StoreOK
  <2>3. /\ res' = [res EXCEPT ![p] = x] /\ pc' = [pc EXCEPT ![p] = "store"]
        /\ UNCHANGED <<req, arrived>>
    BY <1>2, Zenon DEF Returned, Goto
  <2> HIDE DEF x
  <2>4. "store" \in Labels /\ InHand("store", req[p], arrived[p], x)
    BY <2>1 DEF Labels, InHand
  <2>5. req' = [req EXCEPT ![p] = req[p]] /\ arrived' = [arrived EXCEPT ![p] = arrived[p]]
    BY <2>3 DEF ChainInv, ProcsTyped
  <2> QED BY <1>1, <2>2, <2>3, <2>4, <2>5, ProcFacts, ProcStep
<1>3. CASE ~(Cacheable(req[p]) /\ Storable(req[p], x))
  <2>1. Leave(p)
    BY <1>3, Zenon DEF Returned
  <2> QED BY <1>1, <2>1, LeaveInv
<1> QED BY <1>2, <1>3

\* Answers the middlewares give themselves are never stored.
LEMMA OwnAnswerInv ==
    ASSUME ChainInv, NEW p \in Procs, pc[p] # "idle", NEW y \in Response,
           y.status \in {204, 401, 403, 429}, Returned(p, y), UNCHANGED <<clock, entries>>
    PROVE  ChainInv'
<1> DEFINE x == Compress(req[p], y)
<1>1. req[p] \in Request
  BY ProcFacts
<1>2. x.status = y.status
  BY <1>1, CompressResponse, Zenon DEF SameOrigin
<1>3. x.status \notin {200, 301, 404}
  BY <1>2
<1> HIDE DEF x
<1>4. ~Storable(req[p], x)
  BY <1>3, Zenon DEF Storable
<1> QED BY <1>4, ReturnedInv DEF x

\* Auth refuses.
LEMMA UnauthorisedInv ==
    ASSUME ChainInv, NEW p \in Procs, Unauthorised(p)
    PROVE  ChainInv'
<1> DEFINE n == 401
           b == TRUE
           y == [Blank EXCEPT !.status = n, !.body = b]
<1>1. b \in BOOLEAN /\ n \in Nat /\ n \in {204, 401, 403, 429}
  OBVIOUS
<1>2. pc[p] # "idle" /\ Returned(p, y) /\ UNCHANGED <<clock, entries>>
  BY Zenon DEF Unauthorised
<1> HIDE DEF n, b
<1>3. y \in Response /\ y.status = n
  BY <1>1, BlankResponse, Zenon DEF Response
<1> HIDE DEF y
<1> QED BY <1>1, <1>2, <1>3, OwnAnswerInv

\* CORS answers a preflight.
LEMMA PreflightInv ==
    ASSUME ChainInv, NEW p \in Procs, Preflight(p)
    PROVE  ChainInv'
<1> DEFINE ok == OriginAllowed(req[p].origin)
           n == IF ok THEN 204 ELSE 403
           b == ~ok
           s == CORS(req[p], Blank)
           y == [s EXCEPT !.status = n, !.body = b]
<1>1. n \in {204, 401, 403, 429} /\ n \in Nat
  OBVIOUS
<1>2. b \in BOOLEAN
  OBVIOUS
<1>3. pc[p] # "idle" /\ Returned(p, y) /\ UNCHANGED <<clock, entries>>
  BY Zenon DEF Preflight
<1>4. s \in Response
  BY <1>3, ProcFacts, CORSResponse
<1> HIDE DEF n, b, s
<1>5. y \in Response /\ y.status = n
  BY <1>1, <1>2, <1>4, Zenon DEF Response
<1> HIDE DEF y
<1> QED BY <1>1, <1>3, <1>5, OwnAnswerInv

\* CORS prepares the response; the limiter keeps its own books.
LEMMA EnterRouteInv ==
    ASSUME ChainInv, NEW p \in Procs, EnterRoute(p)
    PROVE  ChainInv'
<1> DEFINE s == CORS(req[p], Blank)
<1>1. pc[p] # "idle" /\ entries' = entries
  BY DEF EnterRoute
<1>2. clock' = clock
  BY DEF EnterRoute, GetBucket, GetResident, GetNew
<1>3. s \in Response
  BY <1>1, ProcFacts, CORSResponse
<1>4. Credited(req[p])
  BY DEF EnterRoute, Authorised, TokenValid, Credited
<1>5. "allow" \in Labels /\ InHand("allow", req[p], arrived[p], s)
  BY <1>4 DEF Labels, InHand
<1>6. /\ req' = [req EXCEPT ![p] = req[p]] /\ arrived' = [arrived EXCEPT ![p] = arrived[p]]
      /\ res' = [res EXCEPT ![p] = s] /\ pc' = [pc EXCEPT ![p] = "allow"]
  BY DEF EnterRoute, ChainInv, ProcsTyped, Goto
<1> HIDE DEF s
<1> QED BY <1>1, <1>2, <1>3, <1>5, <1>6, StoreSame, ProcFacts, ProcStep

\* The limiter admits.
LEMMA AdmittedInv ==
    ASSUME ChainInv, NEW p \in Procs, Admitted(p)
    PROVE  ChainInv'
<1>1. pc[p] = "allow" /\ UNCHANGED <<entries, req, arrived, res>> /\ Goto(p, "fetch")
  BY DEF Admitted
<1>2. clock' = clock
  BY DEF Admitted, Allow
<1>3. "fetch" \in Labels /\ InHand("fetch", req[p], arrived[p], res[p])
  BY <1>1, ProcFacts DEF Labels, InHand
<1> QED BY <1>1, <1>2, <1>3, StoreSame, GoesOn

\* The limiter refuses.
LEMMA ThrottledInv ==
    ASSUME ChainInv, NEW p \in Procs, Throttled(p)
    PROVE  ChainInv'
<1> DEFINE n == 429
           b == TRUE
           y == [res[p] EXCEPT !.status = n, !.body = b]
<1>1. b \in BOOLEAN /\ n \in Nat /\ n \in {204, 401, 403, 429}
  OBVIOUS
<1>2. pc[p] # "idle" /\ Returned(p, y) /\ entries' = entries
  BY Zenon DEF Throttled
<1>3. clock' = clock
  BY DEF Throttled, Throttle
<1>4. res[p] \in Response
  BY <1>2, ProcFacts
<1> HIDE DEF n, b
<1>5. y \in Response /\ y.status = n
  BY <1>1, <1>4, Zenon DEF Response
<1> HIDE DEF y
<1> QED BY <1>1, <1>2, <1>3, <1>5, OwnAnswerInv

\* What the upstream answers may be stored only if it fits every request with
\* the same key.
LEMMA FetchInv ==
    ASSUME ChainInv, NEW p \in Procs, Fetch(p)
    PROVE  ChainInv'
<1>1. PICK u \in Replies : Returned(p, Answered(res[p], u, req[p], clock))
  BY DEF Fetch
<1> DEFINE r == req[p]
           y == Answered(res[p], u, r, clock)
           x == Compress(r, y)
<1>2. pc[p] = "fetch" /\ UNCHANGED <<clock, entries>>
  BY DEF Fetch
<1>3. /\ r \in Request /\ res[p] \in Response /\ clock \in Nat /\ arrived[p] <= clock
      /\ res[p] = CORS(r, Blank) /\ Credited(r)
  BY <1>2, ProcFacts DEF InHand
<1>4. u \in Reply
  BY ChainAssumption
<1>5. /\ y \in Response /\ y.enc = res[p].enc /\ y.vary = res[p].vary \o u.lines
      /\ y.acao = res[p].acao /\ y.asOf = clock /\ y.path = r.path
      /\ y.credential = (r.token # "none")
  BY <1>3, <1>4, AnsweredResponse, Zenon
<1> HIDE DEF y
<1>6. /\ x \in Response /\ SameOrigin(x, y)
      /\ x.enc = y.enc \/ r.accept[x.enc] > 0
      /\ y.vary # <<>> => x.vary # <<>> /\ Head(y.vary) \subseteq Head(x.vary)
  BY <1>3, <1>5, CompressResponse, Zenon
<1> HIDE DEF x
<1>7. ASSUME Storable(r, x) PROVE StoreOK(x, r, arrived[p])
  <2>1. r.origin = "none"
    <3> SUFFICES ASSUME r.origin # "none" PROVE FALSE
      OBVIOUS
    <3>1. res[p].vary = <<{"origin"}>>
      BY <1>3, CORSResponse, Zenon
    <3>2. u.lines \in Seq(SUBSET Names)
      BY <1>4, Zenon DEF Reply
    <3>3. y.vary # <<>> /\ Head(y.vary) = {"origin"}
      BY <1>5, <3>1, <3>2
    <3>4. x.vary # <<>> => Head(x.vary) \subseteq {"accept-encoding"}
      BY <1>7, Zenon DEF Storable
    <3> QED BY <1>6, <3>3, <3>4
  <2>2. res[p].acao = "none" /\ res[p].enc = "identity"
    BY <1>3, <2>1, CORSResponse, Zenon
  <2>3. x.acao = "none" /\ x.path = r.path /\ x.asOf = clock
    BY <1>5, <1>6, <2>2, Zenon DEF SameOrigin
  <2>4. x.enc = "identity" \/ r.accept[x.enc] > 0
    BY <1>5, <1>6, <2>2, Zenon
  <2>5. x.credential => r.token # "none"
    BY <1>5, <1>6, Zenon DEF SameOrigin
  <2>6. arrived[p] <= x.asOf
    BY <1>3, <2>3, Zenon
  <2> QED BY <1>3, <1>6, <1>7, <2>3, <2>4, <2>5, <2>6, Zenon DEF StoreOK
<1>8. Returned(p, y)
  BY <1>1 DEF y
<1> QED BY <1>2, <1>7, <1>8, ReturnedInv DEF x

-----------------------------------------------------------------------------
(* The store.                                                              *)

\* Whatever Set drops, it leaves room for the entry it adds.
LEMMA KeptLeavesRoom ==
    ASSUME ChainInv, NEW t, NEW kept \in Kept(t)
    PROVE  /\ kept \subseteq DOMAIN entries /\ IsFiniteSet(kept)
           /\ Cardinality(kept) \in Nat /\ Cardinality(kept) < MaxEntries
<1> DEFINE all == DOMAIN entries
           live == {k \in all : ~IsExpired(entries[k], t)}
<1>1. /\ IsFiniteSet(all) /\ Cardinality(all) \in Nat
      /\ Cardinality(all) <= MaxEntries /\ MaxEntries \in Nat
  BY FS_CardinalityType, CacheAssumption DEF ChainInv, StoreBounded
<1>2. live \subseteq all
  OBVIOUS
<1>3. IsFiniteSet(live) /\ Cardinality(live) \in Nat /\ Cardinality(live) <= Cardinality(all)
  BY <1>1, <1>2, FS_Subset, FS_CardinalityType
<1>4. kept \in IF Cardinality(all) < MaxEntries THEN {all}
               ELSE IF Cardinality(live) < MaxEntries THEN {live}
               ELSE {live \ {k} : k \in live}
  BY Zenon DEF Kept
<1> HIDE DEF live, all
<1>5. CASE Cardinality(all) < MaxEntries
  <2>1. kept = all
    BY <1>4, <1>5
  <2> QED BY <1>1, <1>5, <2>1 DEF all
<1>6. CASE ~(Cardinality(all) < MaxEntries) /\ Cardinality(live) < MaxEntries
  <2>1. kept = live
    BY <1>4, <1>6
  <2> QED BY <1>2, <1>3, <1>6, <2>1 DEF all
<1>7. CASE ~(Cardinality(all) < MaxEntries) /\ ~(Cardinality(live) < MaxEntries)
  <2>1. PICK k \in live : kept = live \ {k}
    BY <1>4, <1>7
  <2>2. IsFiniteSet(kept) /\ Cardinality(kept) = Cardinality(live) - 1
    BY <1>3, <2>1, FS_RemoveElement
  <2> QED BY <1>1, <1>2, <1>3, <1>7, <2>1, <2>2, FS_CardinalityType DEF all
<1> QED BY <1>5, <1>6, <1>7

\* The response is stored under the key of its request.
LEMMA StoreInv ==
    ASSUME ChainInv, NEW p \in Procs, Store(p)
    PROVE  ChainInv'
<1> DEFINE k == CacheKey(req[p])
           e == Snapshot(res[p], arrived[p])
<1>1. pc[p] = "store" /\ Leave(p) /\ clock' = clock /\ Set(k, e, clock)
  BY DEF Store
<1>2. /\ StoreOK(res[p], req[p], arrived[p]) /\ req[p] \in Request
      /\ req[p] \in Requests /\ arrived[p] \in Nat
  BY <1>1, ProcFacts DEF InHand
<1>3. EntryOK(k, e)
  BY <1>2, SnapshotIsEntry
<1>4. k \in Keys
  BY <1>2, ChainAssumption
<1> HIDE DEF k, e
<1>5. PICK kept \in Kept(clock) :
        entries' = [j \in kept \cup {k} |-> IF j = k THEN e ELSE entries[j]]
  BY <1>1 DEF Set
<1>6. /\ kept \subseteq DOMAIN entries /\ IsFiniteSet(kept)
      /\ Cardinality(kept) \in Nat /\ Cardinality(kept) < MaxEntries
  BY KeptLeavesRoom
<1>7. /\ DOMAIN entries' = kept \cup {k}
      /\ \A j \in kept \cup {k} : entries'[j] = IF j = k THEN e ELSE entries[j]
  BY <1>5
<1>8. StoreSound'
  <2> SUFFICES ASSUME NEW j \in kept \cup {k} PROVE EntryOK(j, entries'[j])
    BY <1>7, Zenon DEF StoreSound
  <2>1. CASE j = k
    BY <1>3, <1>7, <2>1, Zenon
  <2>2. CASE j # k
    <3>1. EntryOK(j, entries[j])
      BY <1>6, <2>2, Zenon DEF ChainInv, StoreSound
    <3> QED BY <1>7, <2>2, <3>1, Zenon
  <2> QED BY <2>1, <2>2
<1>9. IsFiniteSet(kept \cup {k}) /\ Cardinality(kept \cup {k}) <= Cardinality(kept) + 1
  <2>1. CASE k \in kept
    <3>1. Cardinality(kept \cup {k}) = Cardinality(kept)
      BY <1>6, <2>1, FS_AddElement
    <3> QED BY <1>6, <3>1, FS_AddElement
  <2>2. CASE k \notin kept
    <3>1. Cardinality(kept \cup {k}) = Cardinality(kept) + 1
      BY <1>6, <2>2, FS_AddElement
    <3> QED BY <1>6, <3>1, FS_AddElement
  <2> QED BY <2>1, <2>2
<1>10. Cardinality(kept \cup {k}) <= MaxEntries
  BY <1>6, <1>9, FS_CardinalityType, CacheAssumption
<1>11. kept \cup {k} \subseteq Keys
  BY <1>4, <1>6 DEF ChainInv, StoreBounded
<1>12. StoreBounded'
  BY <1>7, <1>9, <1>10, <1>11 DEF StoreBounded
<1> QED BY <1>1, <1>8, <1>12, LeaveInv

\* A hit is served.
LEMMA ServeInv ==
    ASSUME ChainInv, NEW p \in Procs, Serve(p)
    PROVE  ChainInv'
BY StoreSame, LeaveInv DEF Serve

-----------------------------------------------------------------------------
(* The theorems.                                                           *)

\* What is in the store, and what every goroutine has in hand, is in order in
\* every state of the chain.
THEOREM ChainInvariant == Spec => []ChainInv
<1>1. Init => ChainInv
  BY InitInv
<1>2. ChainInv /\ [Next]_vars => ChainInv'
  <2> SUFFICES ASSUME ChainInv, [Next]_vars PROVE ChainInv'
    OBVIOUS
  <2>1. ASSUME NEW p \in Procs,
               \/ Arrive(p) \/ Lookup(p) \/ PurgeExpired(p)
               \/ Unauthorised(p) \/ Preflight(p) \/ EnterRoute(p)
               \/ Admitted(p) \/ Throttled(p) \/ Fetch(p) \/ Store(p) \/ Serve(p)
        PROVE  ChainInv'
    BY <2>1, ArriveInv, LookupInv, PurgeInv, UnauthorisedInv, PreflightInv, EnterRouteInv,
       AdmittedInv, ThrottledInv, FetchInv, StoreInv, ServeInv, Zenon
  <2>2. clock \in 0..MaxTime
    BY DEF ChainInv
  <2>3. CASE CleanupStale /\ UNCHANGED <<entries, chainVars>>
    <3>1. clock' = clock
      BY <2>3 DEF CleanupStale
    <3> QED BY <2>2, <2>3, <3>1, QuietStep
  <2>4. CASE Tick /\ UNCHANGED <<entries, chainVars>>
    <3>1. clock' = clock + 1 /\ clock < MaxTime
      BY <2>4 DEF Tick
    <3>2. clock' \in 0..MaxTime /\ clock' >= clock
      BY <2>2, <3>1, LimiterAssumption
    <3> QED BY <2>4, <3>2, QuietStep
  <2>5. CASE UNCHANGED vars
    <3>1. clock' = clock /\ UNCHANGED <<entries, chainVars>>
      BY <2>5 DEF vars
    <3> QED BY <2>2, <3>1, QuietStep
  <2> QED BY <2>1, <2>3, <2>4, <2>5, Zenon DEF Next
<1> QED BY <1>1, <1>2, PTL DEF Spec

\* A response from the cache is never older, when the request it answers
\* arrives, than its lifetime allows, whatever the fetch, the store and the
\* lookup were interleaved with.
THEOREM HitsStayFresh == Spec => []HitsFresh
<1>1. ChainInv => HitsFresh
  BY Zenon DEF ChainInv, ProcsSound, InHand, HitOK, HitsFresh
<1> QED BY <1>1, ChainInvariant, PTL

\* A hit fits the request it is served to (path, encoding, origin, cookies,
\* privacy and credentials), the store never exceeds its limit and, where
\* credentials come in Authorization, no hit gives a guarded response away: what
\* auth let pass had credentials, so that it was stored only if public.  With API
\* keys in a header of their own this last clause fails (MiddlewareApiKey.cfg).
THEOREM CacheStaysSafe == Spec => []CacheSafe
<1>1. ChainInv => HitsFit
  BY Zenon DEF ChainInv, ProcsSound, InHand, HitOK, HitsFit
<1>2. ChainInv => ChainTypeOK
  BY Zenon DEF ChainInv, StoreBounded, ProcsTyped, Labels, ChainTypeOK
<1>3. ChainInv => (AuthType # "apikey" => GuardedHits)
  BY Zenon DEF ChainInv, ProcsSound, InHand, HitOK, Fits, Disclosable, GuardedHits
<1>4. ChainInv => CacheSafe
  BY <1>1, <1>2, <1>3 DEF CacheSafe
<1> QED BY <1>4, ChainInvariant, PTL

-----------------------------------------------------------------------------
(* Sums over finite sets, as the community modules define them.            *)

\* A set of numbers has a least element.
LEMMA Least ==
    ASSUME NEW T \in SUBSET Nat, T # {}
    PROVE  \E n \in T : \A m \in T : n <= m
<1>1. \E n \in T : \A m \in T : ~(<<m, n>> \in OpToRel(<, Nat))
  BY WFMin, NatLessThanWellFounded
<1>2. PICK n \in T : \A m \in T : ~(<<m, n>> \in OpToRel(<, Nat))
  BY <1>1
<1>3. ASSUME NEW m \in T, m < n PROVE FALSE
  <2>1. <<m, n>> \in OpToRel(<, Nat)
    BY <1>3 DEF OpToRel
  <2> QED BY <1>2, <2>1
<1> QED BY <1>3

\* Induction over the subsets of a finite set: a collection of them that is not
\* empty has a member that is not in it any more without one of its elements.
LEMMA SmallestSet ==
    ASSUME NEW D, IsFiniteSet(D), NEW T \in SUBSET SUBSET D, T # {}
    PROVE  \E S \in T : \A x \in S : S \ {x} \notin T
<1> DEFINE C == {Cardinality(S) : S \in T}
<1>1. \A S \in T : IsFiniteSet(S) /\ Cardinality(S) \in Nat
  BY FS_Subset, FS_CardinalityType
<1>2. PICK n \in C : \A m \in C : n <= m
  <2>1. C \in SUBSET Nat /\ C # {}
    BY <1>1
  <2> HIDE DEF C
  <2> QED BY <2>1, Least
<1>3. PICK S \in T : Cardinality(S) = n
  BY <1>2
<1>4. ASSUME NEW x \in S, S \ {x} \in T PROVE FALSE
  <2>1. Cardinality(S \ {x}) = n - 1
    BY <1>1, <1>3, FS_RemoveElement
  <2>2. n \in Nat /\ n <= n - 1
    BY <1>1, <1>2, <1>3, <1>4, <2>1
  <2> QED BY <2>2
<1> QED BY <1>4

Pick(s) == CHOOSE x \in s : TRUE

\* What g must be in order to be the recursive function of the fold.
SumsUp(g, f, S) ==
    g = [s \in SUBSET S |-> IF s = {} THEN 0 ELSE f[Pick(s)] + g[s \ {Pick(s)}]]

\* The sum as a recursive function.
LEMMA SumDef ==
    ASSUME NEW f, NEW S, NEW g, SumsUp(g, f, S)
    PROVE  \E h : SumsUp(h, f, S) /\ SumFunctionOnSet(f, S) = h[S]
BY Zenon DEF SumFunctionOnSet, FoldFunctionOnSet, MapThenFoldSet, SumsUp, Pick

\* An element is picked from a set that is not empty; one is left out.
LEMMA Picked ==
    ASSUME NEW s, s # {}, IsFiniteSet(s)
    PROVE  /\ Pick(s) \in s /\ s \ {Pick(s)} \subseteq s
           /\ IsFiniteSet(s \ {Pick(s)}) /\ Cardinality(s) \in Nat \ {0}
           /\ Cardinality(s \ {Pick(s)}) = Cardinality(s) - 1
<1>1. Pick(s) \in s
  BY Zenon DEF Pick
<1>2. Cardinality(s) \in Nat /\ Cardinality(s) # 0
  BY FS_CardinalityType, FS_EmptySet
<1> QED BY <1>1, <1>2, FS_RemoveElement

\* A finite sum exists: the recursion has a solution on the subsets of S.
LEMMA SumExists ==
    ASSUME NEW S, IsFiniteSet(S), NEW f, \A x \in S : f[x] \in Int
    PROVE  \E g \in [SUBSET S -> Int] : SumsUp(g, f, S)
<1> DEFINE Part(n) == {s \in SUBSET S : Cardinality(s) <= n}
           Up(g, n) == \A s \in Part(n) :
                          g[s] = IF s = {} THEN 0 ELSE f[Pick(s)] + g[s \ {Pick(s)}]
           P(n) == \E g \in [Part(n) -> Int] : Up(g, n)
           T == {n \in Nat : ~P(n)}
<1>0. \A s \in SUBSET S : IsFiniteSet(s) /\ Cardinality(s) \in Nat
  BY FS_Subset, FS_CardinalityType
<1>1. T = {}
  <2> SUFFICES ASSUME T # {} PROVE FALSE
    OBVIOUS
  <2>1. PICK n \in T : \A m \in T : n <= m
    <3>1. T \in SUBSET Nat
      OBVIOUS
    <3> HIDE DEF T
    <3> QED BY <3>1, Least
  <2>2. n \in Nat /\ ~P(n)
    BY <2>1
  <2>3. CASE n = 0
    <3>1. Part(0) = {{}}
      BY <1>0, FS_EmptySet
    <3> DEFINE g == [s \in Part(0) |-> 0]
    <3>2. g \in [Part(0) -> Int] /\ Up(g, 0)
      BY <3>1
    <3> QED BY <2>2, <2>3, <3>2
  <2>4. CASE n # 0
    <3>1. n - 1 \in Nat /\ n - 1 \notin T
      <4>1. n - 1 \in Nat /\ ~(n <= n - 1)
        BY <2>2, <2>4
      <4> HIDE DEF T
      <4> QED BY <2>1, <4>1
    <3>2. PICK g \in [Part(n - 1) -> Int] : Up(g, n - 1)
      BY <3>1
    <3> DEFINE e == [s \in Part(n) |->
                        IF s \in Part(n - 1) THEN g[s] ELSE f[Pick(s)] + g[s \ {Pick(s)}]]
    <3>3. ASSUME NEW s \in Part(n), s # {}
          PROVE  s \ {Pick(s)} \in Part(n - 1) /\ f[Pick(s)] \in Int
      <4>1. IsFiniteSet(s) /\ Cardinality(s) <= n
        BY <1>0
      <4>2. /\ Pick(s) \in s /\ s \ {Pick(s)} \subseteq s
            /\ Cardinality(s \ {Pick(s)}) = Cardinality(s) - 1
            /\ Cardinality(s) \in Nat
        BY <3>3, <4>1, Picked
      <4>3. Cardinality(s) - 1 <= n - 1
        BY <2>2, <4>1, <4>2
      <4> QED BY <4>2, <4>3
    <3>4. {} \in Part(n - 1)
      BY <3>1, FS_EmptySet
    <3>5. \A s \in Part(n - 1) : s \in Part(n)
      BY <1>0, <2>2
    <3> HIDE DEF Part
    <3>6. \A s \in Part(n) : s \notin Part(n - 1) => s # {}
      BY <3>4
    <3>7. e \in [Part(n) -> Int]
      BY <3>2, <3>3, <3>6
    <3>8. ASSUME NEW s \in Part(n)
          PROVE  e[s] = IF s = {} THEN 0 ELSE f[Pick(s)] + e[s \ {Pick(s)}]
      <4>1. CASE s = {}
        BY <3>2, <3>4, <4>1
      <4>2. CASE s # {}
        <5>1. s \ {Pick(s)} \in Part(n - 1)
          BY <3>3, <4>2
        <5>2. e[s \ {Pick(s)}] = g[s \ {Pick(s)}]
          BY <3>5, <5>1
        <5>3. e[s] = f[Pick(s)] + g[s \ {Pick(s)}]
          BY <3>2, <4>2
        <5> QED BY <4>2, <5>2, <5>3
      <4> QED BY <4>1, <4>2
    <3>9. P(n)
      BY <3>7, <3>8
    <3> QED BY <2>2, <3>9
  <2> QED BY <2>3, <2>4
<1>2. Cardinality(S) \in Nat /\ Part(Cardinality(S)) = SUBSET S
  BY <1>0, FS_CardinalityType, FS_Subset
<1>3. PICK g \in [SUBSET S -> Int] : Up(g, Cardinality(S))
  BY <1>1, <1>2
<1>4. SumsUp(g, f, S)
  BY <1>2, <1>3 DEF SumsUp
<1> QED BY <1>4

\* Over a subset the sum is the same, whichever set it is a subset of.
LEMMA SumUnique ==
    ASSUME NEW D, IsFiniteSet(D), NEW S \in SUBSET D, NEW f, NEW g, NEW h,
           SumsUp(g, f, S), SumsUp(h, f, D)
    PROVE  \A s \in SUBSET S : g[s] = h[s]
<1> DEFINE T == {s \in SUBSET S : g[s] # h[s]}
<1>1. T = {}
  <2> SUFFICES ASSUME T # {} PROVE FALSE
    OBVIOUS
  <2>1. PICK s \in T : \A x \in s : s \ {x} \notin T
    <3>1. T \in SUBSET SUBSET D
      OBVIOUS
    <3> HIDE DEF T
    <3> QED BY <3>1, SmallestSet
  <2>2. CASE s = {}
    BY <2>1, <2>2 DEF SumsUp
  <2>3. CASE s # {}
    <3>1. IsFiniteSet(s) /\ s \in SUBSET D
      BY FS_Subset
    <3>2. g[s \ {Pick(s)}] = h[s \ {Pick(s)}]
      BY <2>1, <2>3, <3>1, Picked
    <3>3. g[s] = f[Pick(s)] + g[s \ {Pick(s)}]
      BY <2>3 DEF SumsUp
    <3>4. h[s] = f[Pick(s)] + h[s \ {Pick(s)}]
      BY <2>3, <3>1 DEF SumsUp
    <3> QED BY <3>2, <3>3, <3>4
  <2> QED BY <2>2, <2>3
<1> QED BY <1>1

\* h is the sum of f over every subset of D.
Tallies(h, f, D) ==
    /\ h \in [SUBSET D -> Int] /\ SumsUp(h, f, D)
    /\ \A S \in SUBSET D : SumFunctionOnSet(f, S) = h[S]

\* The sums of the community modules over the subsets of D are such a solution.
LEMMA SumTallies ==
    ASSUME NEW D, IsFiniteSet(D), NEW f, \A x \in D : f[x] \in Int
    PROVE  \E h : Tallies(h, f, D)
<1>1. PICK h \in [SUBSET D -> Int] : SumsUp(h, f, D)
  BY SumExists
<1>2. ASSUME NEW S \in SUBSET D PROVE SumFunctionOnSet(f, S) = h[S]
  <2>1. IsFiniteSet(S) /\ \A x \in S : f[x] \in Int
    BY FS_Subset
  <2>2. PICK g : SumsUp(g, f, S) /\ SumFunctionOnSet(f, S) = g[S]
    BY <2>1, SumExists, SumDef
  <2>3. g[S] = h[S]
    BY <1>1, <2>2, SumUnique
  <2> QED BY <2>2, <2>3
<1> QED BY <1>1, <1>2 DEF Tallies

\* The sum of a function over a finite set: it is a number, and any element may
\* be taken out first.
LEMMA SumFacts ==
    ASSUME NEW D, IsFiniteSet(D), NEW f, \A x \in D : f[x] \in Int
    PROVE  /\ SumFunctionOnSet(f, {}) = 0
           /\ \A S \in SUBSET D : SumFunctionOnSet(f, S) \in Int
           /\ \A S \in SUBSET D : \A x \in S :
                 SumFunctionOnSet(f, S) = SumFunctionOnSet(f, S \ {x}) + f[x]
<1>0. PICK h : Tallies(h, f, D)
  BY SumTallies
<1>1. /\ h \in [SUBSET D -> Int] /\ SumsUp(h, f, D)
      /\ \A S \in SUBSET D : SumFunctionOnSet(f, S) = h[S]
  BY <1>0 DEF Tallies
<1>2. \A S \in SUBSET D : IsFiniteSet(S) /\ Cardinality(S) \in Nat
  BY FS_Subset, FS_CardinalityType
<1>3. ASSUME NEW S \in SUBSET D, S # {} PROVE h[S] = f[Pick(S)] + h[S \ {Pick(S)}]
  BY <1>1, <1>3 DEF SumsUp
<1>4. h[{}] = 0
  BY <1>1 DEF SumsUp
<1> DEFINE T == {S \in SUBSET D : \E x \in S : h[S] # h[S \ {x}] + f[x]}
<1>5. T = {}
  <2> SUFFICES ASSUME T # {} PROVE FALSE
    OBVIOUS
  <2>1. PICK S \in T : \A x \in S : S \ {x} \notin T
    <3>1. T \in SUBSET SUBSET D
      OBVIOUS
    <3> HIDE DEF T
    <3> QED BY <3>1, SmallestSet
  <2>2. PICK x \in S : h[S] # h[S \ {x}] + f[x]
    BY <2>1
  <2>3. PICK y \in S : h[S] = f[y] + h[S \ {y}]
    BY <1>2, <1>3, <2>2, Picked
  <2>4. /\ S \ {x} \in SUBSET D /\ S \ {y} \in SUBSET D /\ (S \ {x}) \ {y} \in SUBSET D
        /\ (S \ {y}) \ {x} = (S \ {x}) \ {y}
    OBVIOUS
  <2>5. PICK a \in Int, b \in Int, q \in Int, r \in Int :
           a = f[x] /\ b = f[y] /\ q = h[S \ {y}] /\ r = h[(S \ {x}) \ {y}]
    BY <1>1, <2>4
  <2>6. CASE x = y
    <3>1. h[S] = b + q /\ h[S] # q + b
      BY <2>2, <2>3, <2>5, <2>6
    <3> QED BY <3>1
  <2>7. CASE x # y
    <3>1. h[S \ {x}] = r + b /\ h[S \ {y}] = r + a
      BY <2>1, <2>4, <2>5, <2>7
    <3>2. h[S] = b + (r + a) /\ h[S] # (r + b) + a
      BY <2>2, <2>3, <2>5, <3>1
    <3> QED BY <3>2
  <2> QED BY <2>6, <2>7
<1>6. \A S \in SUBSET D : \A x \in S : h[S] = h[S \ {x}] + f[x]
  BY <1>5
<1>7. \A S \in SUBSET D : \A x \in S : S \ {x} \in SUBSET D
  OBVIOUS
<1> QED BY <1>1, <1>4, <1>6, <1>7

\* Nothing adds up to nothing.
LEMMA SumZero ==
    ASSUME NEW D, IsFiniteSet(D), NEW f, \A x \in D : f[x] = 0
    PROVE  \A S \in SUBSET D : SumFunctionOnSet(f, S) = 0
<1> DEFINE T == {S \in SUBSET D : SumFunctionOnSet(f, S) # 0}
<1>0. /\ SumFunctionOnSet(f, {}) = 0
      /\ \A S \in SUBSET D : \A x \in S :
            SumFunctionOnSet(f, S) = SumFunctionOnSet(f, S \ {x}) + f[x]
  <2>1. \A x \in D : f[x] \in Int
    OBVIOUS
  <2> QED BY <2>1, SumFacts
<1>1. T = {}
  <2> SUFFICES ASSUME T # {} PROVE FALSE
    OBVIOUS
  <2>1. PICK S \in T : \A x \in S : S \ {x} \notin T
    <3>1. T \in SUBSET SUBSET D
      OBVIOUS
    <3> HIDE DEF T
    <3> QED BY <3>1, SmallestSet
  <2>2. PICK x : x \in S
    BY <1>0, <2>1
  <2>3. SumFunctionOnSet(f, S) = SumFunctionOnSet(f, S \ {x}) + f[x]
    BY <1>0, <2>1, <2>2
  <2>4. SumFunctionOnSet(f, S \ {x}) = 0 /\ f[x] = 0
    BY <2>1, <2>2
  <2> QED BY <2>1, <2>3, <2>4
<1> QED BY <1>1

\* More summands that are not negative do not make a sum smaller.
LEMMA SumGrows ==
    ASSUME NEW D, IsFiniteSet(D), NEW f, \A x \in D : f[x] \in Nat, NEW S \in SUBSET D
    PROVE  SumFunctionOnSet(f, S) <= SumFunctionOnSet(f, D)
<1> DEFINE T == {R \in SUBSET D : S \subseteq R
                                  /\ ~(SumFunctionOnSet(f, S) <= SumFunctionOnSet(f, R))}
<1>0. \A x \in D : f[x] \in Int
  OBVIOUS
<1>1. T = {}
  <2> SUFFICES ASSUME T # {} PROVE FALSE
    OBVIOUS
  <2>1. PICK R \in T : \A x \in R : R \ {x} \notin T
    <3>1. T \in SUBSET SUBSET D
      OBVIOUS
    <3> HIDE DEF T
    <3> QED BY <3>1, SmallestSet
  <2>2. \A Q \in SUBSET D : SumFunctionOnSet(f, Q) \in Int
    BY <1>0, SumFacts
  <2>3. R # S
    BY <2>1, <2>2
  <2>4. PICK x \in R : x \notin S
    BY <2>1, <2>3
  <2>5. SumFunctionOnSet(f, R) = SumFunctionOnSet(f, R \ {x}) + f[x]
    BY <1>0, <2>1, SumFacts
  <2>6. SumFunctionOnSet(f, S) <= SumFunctionOnSet(f, R \ {x})
    BY <2>1, <2>4
  <2>7. PICK a \in Int, b \in Int, v \in Nat :
           a = SumFunctionOnSet(f, S) /\ b = SumFunctionOnSet(f, R \ {x}) /\ v = f[x]
    BY <2>1, <2>2
  <2>8. a <= b /\ ~(a <= b + v)
    BY <2>1, <2>5, <2>6, <2>7
  <2> QED BY <2>8
<1> QED BY <1>1
-----------------------------------------------------------------------------
(* The rate limiter.                                                       *)

\* The constants of the limiter, and the objects there are.
LEMMA LimiterConstants ==
    /\ Burst \in Nat \ {0} /\ Rate \in Nat \ {0} /\ MaxBuckets \in Nat \ {0}
    /\ IdleTTL \in Nat /\ MaxTime \in Nat
    /\ IsFiniteSet(Procs) /\ Clients # {} /\ Cardinality(Procs) \in Nat
    /\ NoBucket \notin Ids /\ IsFiniteSet(Ids)
    /\ Cardinality(Ids) = MaxBuckets + Cardinality(Procs)
<1>1. Cardinality(Procs) \in Nat /\ MaxBuckets \in Nat
  BY LimiterAssumption, FS_CardinalityType
<1>2. PICK n \in Nat : n = MaxBuckets + Cardinality(Procs)
  BY <1>1
<1>3. Ids = 1..n /\ NoBucket \notin Ids
  BY <1>2 DEF Ids, NoBucket
<1>4. IsFiniteSet(Ids) /\ Cardinality(Ids) = n
  <2>1. IsFiniteSet(1..n) /\ Cardinality(1..n) = IF 1 > n THEN 0 ELSE n - 1 + 1
    BY FS_Interval
  <2>2. Cardinality(1..n) = n
    BY <2>1
  <2> QED BY <1>3, <2>1, <2>2
<1> QED BY <1>1, <1>2, <1>3, <1>4, LimiterAssumption

\* The sum that AdmissionBounded is about.
LEMMA SumOfWindow ==
    ASSUME NEW f, NEW S
    PROVE  MapThenSumSet(LAMBDA i : f[i], S) = SumFunctionOnSet(f, S)
BY DEF MapThenSumSet, SumFunctionOnSet, FoldFunctionOnSet

\* The elements of the list, the objects, and the tokens of one of them at a time.
Elem == [key : Clients, id : Ids, accessed : 0..MaxTime]
Object == [tokens : 0..Burst, refilled : 0..MaxTime]
Refill(x, now) == Min({Burst, x.tokens + Rate * (now - x.refilled)})

\* Min of two numbers.
LEMMA Smaller ==
    ASSUME NEW a \in Int, NEW b \in Int
    PROVE  Min({a, b}) = IF a <= b THEN a ELSE b
<1> DEFINE m == IF a <= b THEN a ELSE b
           P(x) == x \in {a, b} /\ \A y \in {a, b} : x <= y
<1>1. P(m)
  OBVIOUS
<1>2. \A x : P(x) => x = m
  OBVIOUS
<1>3. Min({a, b}) = CHOOSE x \in {a, b} : \A y \in {a, b} : x <= y
  BY DEF Min
<1>4. P(Min({a, b}))
  <2> HIDE DEF m
  <2> QED BY <1>1, <1>3, Zenon
<1> QED BY <1>2, <1>4

\* A refill fills up to Burst, and gains at most Rate in a tick.
LEMMA RefillRange ==
    ASSUME NEW x \in Object, NEW now \in 0..MaxTime, x.refilled <= now
    PROVE  /\ Refill(x, now) \in 0..Burst
           /\ Refill(x, now) <= x.tokens + Rate * (now - x.refilled)
           /\ (now + 1 \in 0..MaxTime => Refill(x, now + 1) <= Refill(x, now) + Rate)
<1>0. x.tokens \in 0..Burst /\ x.refilled \in 0..MaxTime
  BY DEF Object
<1>c. /\ Burst \in Nat /\ Rate \in Nat
      /\ now - x.refilled \in Nat /\ x.tokens \in Nat /\ x.tokens <= Burst
  <2>1. Burst \in Nat /\ Rate \in Nat /\ MaxTime \in Nat
    BY LimiterConstants
  <2> QED BY <1>0, <2>1
<1>1. PICK t \in Nat, r \in Nat, n \in Nat, u \in Nat :
         t = x.tokens /\ r = Rate /\ n = now - x.refilled /\ u = Burst /\ t <= u
  BY <1>c
<1>2. (now + 1) - x.refilled = n + 1
  BY <1>1, LimiterConstants DEF Object
<1>3. PICK z \in Nat : z = r * n
  OBVIOUS
<1>4. r * (n + 1) = z + r
  BY <1>3
<1>5. Refill(x, now) = IF u <= t + z THEN u ELSE t + z
  BY <1>1, <1>3, Smaller DEF Refill
<1>6. Refill(x, now + 1) = IF u <= t + (z + r) THEN u ELSE t + (z + r)
  <2>1. x.tokens + Rate * ((now + 1) - x.refilled) = t + (z + r) /\ t + (z + r) \in Int
    BY <1>1, <1>2, <1>4
  <2>2. Min({u, t + (z + r)}) = IF u <= t + (z + r) THEN u ELSE t + (z + r)
    BY <2>1, Smaller
  <2>3. Refill(x, now + 1) = Min({Burst, x.tokens + Rate * ((now + 1) - x.refilled)})
    BY DEF Refill
  <2>4. Refill(x, now + 1) = Min({u, t + (z + r)})
    BY <1>1, <2>1, <2>3
  <2> QED BY <2>2, <2>4
<1> QED BY <1>1, <1>3, <1>5, <1>6

\* Where idleTTL is long enough for an empty bucket to fill, one that was idle for
\* longer is full.
LEMMA RefilledWhenIdle ==
    ASSUME NEW x \in Object, NEW now \in 0..MaxTime, x.refilled <= now,
           now - x.refilled > IdleTTL, Rate * (IdleTTL + 1) >= Burst
    PROVE  Refill(x, now) = Burst
<1>0. x.tokens \in 0..Burst /\ x.refilled \in 0..MaxTime
  BY DEF Object
<1>c. /\ Burst \in Nat /\ Rate \in Nat /\ IdleTTL \in Nat
      /\ now - x.refilled \in Nat /\ x.tokens \in Nat /\ x.tokens <= Burst
  <2>1. Burst \in Nat /\ Rate \in Nat /\ IdleTTL \in Nat /\ MaxTime \in Nat
    BY LimiterConstants
  <2> QED BY <1>0, <2>1
<1>1. PICK t \in Nat, r \in Nat, n \in Nat, u \in Nat, w \in Nat :
         t = x.tokens /\ r = Rate /\ n = now - x.refilled /\ u = Burst /\ w = IdleTTL /\ t <= u
  BY <1>c
<1>3. PICK z \in Nat : z = r * n
  OBVIOUS
<1>5. Refill(x, now) = IF u <= t + z THEN u ELSE t + z
  BY <1>1, <1>3, Smaller DEF Refill
<1>7. z >= u
  <2>1. r * (w + 1) >= u /\ n > w
    BY <1>1
  <2>2. PICK k \in Nat : n = (w + 1) + k
    BY <2>1
  <2>3. r * n = r * (w + 1) + r * k
    BY <2>2
  <2>4. r * k \in Nat /\ r * (w + 1) \in Nat
    OBVIOUS
  <2> QED BY <1>3, <2>1, <2>3, <2>4
<1> QED BY <1>1, <1>5, <1>7

\* Functions that agree have the same sum.
LEMMA SumSame ==
    ASSUME NEW D, IsFiniteSet(D), NEW f, NEW g, \A x \in D : f[x] \in Int /\ g[x] = f[x]
    PROVE  \A S \in SUBSET D : SumFunctionOnSet(g, S) = SumFunctionOnSet(f, S)
<1> DEFINE T == {S \in SUBSET D : SumFunctionOnSet(g, S) # SumFunctionOnSet(f, S)}
<1>f. \A x \in D : f[x] \in Int
  OBVIOUS
<1>g. \A x \in D : g[x] \in Int
  OBVIOUS
<1>2. /\ SumFunctionOnSet(f, {}) = 0
      /\ \A S \in SUBSET D : \A x \in S :
            SumFunctionOnSet(f, S) = SumFunctionOnSet(f, S \ {x}) + f[x]
  BY <1>f, SumFacts
<1>3. /\ SumFunctionOnSet(g, {}) = 0
      /\ \A S \in SUBSET D : \A x \in S :
            SumFunctionOnSet(g, S) = SumFunctionOnSet(g, S \ {x}) + g[x]
  BY <1>g, SumFacts
<1>1. T = {}
  <2> SUFFICES ASSUME T # {} PROVE FALSE
    OBVIOUS
  <2>1. PICK S \in T : \A x \in S : S \ {x} \notin T
    <3>1. T \in SUBSET SUBSET D
      OBVIOUS
    <3> HIDE DEF T
    <3> QED BY <3>1, SmallestSet
  <2>2. S # {}
    BY <1>2, <1>3, <2>1
  <2>3. PICK x \in S : TRUE
    BY <2>2
  <2>4. SumFunctionOnSet(f, S) = SumFunctionOnSet(f, S \ {x}) + f[x]
    BY <1>2, <2>1
  <2>5. SumFunctionOnSet(g, S) = SumFunctionOnSet(g, S \ {x}) + g[x]
    BY <1>3, <2>1
  <2>6. SumFunctionOnSet(g, S \ {x}) = SumFunctionOnSet(f, S \ {x}) /\ g[x] = f[x]
    BY <2>1, <2>3
  <2> QED BY <2>1, <2>4, <2>5, <2>6
<1> QED BY <1>1

\* Natural numbers add up to a natural number; part of them to no more.
LEMMA SumNat ==
    ASSUME NEW D, IsFiniteSet(D), NEW f, \A x \in D : f[x] \in Nat
    PROVE  /\ \A S \in SUBSET D : SumFunctionOnSet(f, S) \in Nat
           /\ \A S \in SUBSET D : \A R \in SUBSET S :
                 SumFunctionOnSet(f, R) <= SumFunctionOnSet(f, S)
<1>0. \A x \in D : f[x] \in Int
  OBVIOUS
<1>1. ASSUME NEW S \in SUBSET D, NEW R \in SUBSET S
      PROVE  SumFunctionOnSet(f, R) <= SumFunctionOnSet(f, S)
  <2>1. IsFiniteSet(S) /\ \A x \in S : f[x] \in Nat
    BY FS_Subset
  <2> QED BY <2>1, SumGrows
<1>2. ASSUME NEW S \in SUBSET D PROVE SumFunctionOnSet(f, S) \in Nat
  <2>1. SumFunctionOnSet(f, {}) = 0 /\ SumFunctionOnSet(f, S) \in Int
    BY <1>0, SumFacts
  <2>2. SumFunctionOnSet(f, {}) <= SumFunctionOnSet(f, S)
    BY <1>1
  <2> QED BY <2>1, <2>2
<1> QED BY <1>1, <1>2

-----------------------------------------------------------------------------
(* The books of the limiter: what a client was given, and what it may still *)
(* ask for.  They are kept for a set E of list elements, objects b, holders *)
(* h serving f, admissions a, bursts d given anew (to a client whose bucket *)
(* was evicted before it was full) and a time now.                          *)

\* The objects that are held for client c and no longer in the list.
Detached(E, h, f, c) ==
    {i \in Ids : (\A e \in E : e.id # i) /\ \E p \in Procs : h[p] = i /\ f[p] = c}

Level(b, now) == [i \in Ids |-> Refill(b[i], now)]

\* What they have to give.
Loose(E, b, h, f, now, c) == SumFunctionOnSet(Level(b, now), Detached(E, h, f, c))

\* What the client's bucket has to give; who has none will get a full one.
Due(E, b, now, c) ==
    IF \E e \in E : e.key = c
    THEN Refill(b[(CHOOSE e \in E : e.key = c).id], now) ELSE Burst

Stake(E, b, h, f, now, c) == Due(E, b, now, c) + Loose(E, b, h, f, now, c)

Spent(a, s, t) == SumFunctionOnSet(a, s..t)

Limit(n, k) == Burst * (1 + n) + Rate * k

Typed(E, b, h, f, a, d, now) ==
    /\ E \in SUBSET Elem /\ b \in [Ids -> Object]
    /\ h \in [Procs -> Ids \cup {NoBucket}] /\ f \in [Procs -> Clients]
    /\ a \in [Clients -> [0..MaxTime -> Nat]] /\ d \in [Clients -> Nat]
    /\ now \in 0..MaxTime

\* A client has one element and an element its own object; an object was last
\* refilled no later than its element was used; a held object that is in the
\* list was asked for in this tick, by its client; and an object has one client.
Sound(E, b, h, f, now) ==
    /\ \A x, y \in E : x.key = y.key \/ x.id = y.id => x = y
    /\ \A e \in E : b[e.id].refilled <= e.accessed /\ e.accessed <= now
    /\ \A i \in Ids : b[i].refilled <= now
    /\ \A p \in Procs : \A e \in E : h[p] = e.id => e.key = f[p] /\ e.accessed = now
    /\ \A p, q \in Procs : h[p] # NoBucket /\ h[p] = h[q] => f[p] = f[q]

\* Nothing was given in the future, what was given and what is at stake together
\* are within the limit of every window that ends now, and what was given is
\* within that of every earlier one.
Future(a, now) == \A c \in Clients : \A t \in 0..MaxTime : t > now => a[c][t] = 0
Within(E, b, h, f, a, d, now) ==
    \A c \in Clients : \A s \in 0..now :
        Spent(a[c], s, now) + Stake(E, b, h, f, now, c) <= Limit(d[c], now - s)
Past(a, d, now) ==
    \A c \in Clients : \A s \in 0..now : \A t \in s..now : Spent(a[c], s, t) <= Limit(d[c], t - s)

Booked(E, b, h, f, a, d, now) ==
    /\ Typed(E, b, h, f, a, d, now) /\ Sound(E, b, h, f, now)
    /\ Future(a, now) /\ Within(E, b, h, f, a, d, now) /\ Past(a, d, now)

\* The fields of an element.
LEMMA ElemFields ==
    ASSUME NEW e \in Elem
    PROVE  e.key \in Clients /\ e.id \in Ids /\ e.accessed \in 0..MaxTime /\ e.accessed \in Nat
BY LimiterConstants DEF Elem

\* A client's bucket is that of its only element.
LEMMA DueIs ==
    ASSUME NEW E, NEW b, NEW now, NEW c, \A x, y \in E : x.key = y.key \/ x.id = y.id => x = y
    PROVE  /\ \A e \in E : e.key = c => Due(E, b, now, c) = Refill(b[e.id], now)
           /\ (\A e \in E : e.key # c) => Due(E, b, now, c) = Burst
<1>1. ASSUME NEW e \in E, e.key = c PROVE Due(E, b, now, c) = Refill(b[e.id], now)
  <2>1. (CHOOSE x \in E : x.key = c) = e
    <3>1. \E x \in E : x.key = c
      BY <1>1
    <3>2. (CHOOSE x \in E : x.key = c) \in E /\ (CHOOSE x \in E : x.key = c).key = c
      BY <3>1, Zenon
    <3> QED BY <1>1, <3>2
  <2> QED BY <1>1, <2>1 DEF Due
<1> QED BY <1>1 DEF Due

\* What is at stake is a number.
LEMMA StakeType ==
    ASSUME NEW E, NEW b, NEW h, NEW f, NEW a, NEW d, NEW now,
           Typed(E, b, h, f, a, d, now), Sound(E, b, h, f, now)
    PROVE  /\ \A i \in Ids : Level(b, now)[i] \in 0..Burst /\ Level(b, now)[i] = Refill(b[i], now)
           /\ \A i \in Ids : Refill(b[i], now) \in 0..Burst
           /\ \A c \in Clients : Due(E, b, now, c) \in 0..Burst
           /\ \A c \in Clients : Loose(E, b, h, f, now, c) \in Nat
           /\ \A c \in Clients : Detached(E, h, f, c) \in SUBSET Ids
<1>1. \A i \in Ids : b[i] \in Object /\ b[i].refilled <= now
  BY DEF Typed, Sound
<1>2. \A i \in Ids : Refill(b[i], now) \in 0..Burst
  BY <1>1, RefillRange DEF Typed
<1>3. \A i \in Ids : Level(b, now)[i] = Refill(b[i], now)
  BY DEF Level
<1>4. ASSUME NEW c \in Clients PROVE Due(E, b, now, c) \in 0..Burst
  <2>0. Burst \in 0..Burst
    BY LimiterConstants
  <2>1. \A x, y \in E : x.key = y.key \/ x.id = y.id => x = y
    BY DEF Sound
  <2>2. CASE \E e \in E : e.key = c
    <3>1. PICK e \in E : e.key = c
      BY <2>2
    <3>2. e.id \in Ids
      BY ElemFields DEF Typed
    <3> QED BY <1>2, <2>1, <3>1, <3>2, DueIs
  <2>3. CASE \A e \in E : e.key # c
    BY <2>0, <2>1, <2>3, DueIs
  <2> QED BY <2>2, <2>3
<1>5. \A c \in Clients : Detached(E, h, f, c) \in SUBSET Ids
  BY DEF Detached
<1>6. ASSUME NEW c \in Clients PROVE Loose(E, b, h, f, now, c) \in Nat
  <2>1. \A i \in Ids : Level(b, now)[i] \in Nat
    BY <1>2, <1>3, LimiterConstants
  <2> QED BY <1>5, <2>1, SumNat, LimiterConstants DEF Loose
<1> QED BY <1>2, <1>3, <1>4, <1>5, <1>6

\* A sum over a window is a number.
LEMMA SpentType ==
    ASSUME NEW a \in [0..MaxTime -> Nat], NEW s \in 0..MaxTime, NEW t \in 0..MaxTime
    PROVE  /\ Spent(a, s, t) \in Nat
           /\ s <= t => Spent(a, s, t) = Spent(a, s, t - 1) + a[t]
           /\ Spent(a, s, s - 1) = 0
<1>0. MaxTime \in Nat
  BY LimiterConstants
<1>1. IsFiniteSet(0..MaxTime)
  BY <1>0, FS_Interval
<1>n. \A x \in 0..MaxTime : a[x] \in Nat
  OBVIOUS
<1>i. \A x \in 0..MaxTime : a[x] \in Int
  OBVIOUS
<1>2. s..t \in SUBSET (0..MaxTime)
  BY <1>0
<1>3. SumFunctionOnSet(a, s..t) \in Nat
  BY <1>1, <1>2, <1>n, SumNat
<1>4. ASSUME s <= t PROVE SumFunctionOnSet(a, s..t) = SumFunctionOnSet(a, s..(t - 1)) + a[t]
  <2>1. t \in s..t /\ (s..t) \ {t} = s..(t - 1)
    BY <1>0, <1>4
  <2>2. SumFunctionOnSet(a, s..t) = SumFunctionOnSet(a, (s..t) \ {t}) + a[t]
    BY <1>1, <1>2, <1>i, <2>1, SumFacts
  <2> QED BY <2>1, <2>2
<1>5. SumFunctionOnSet(a, s..(s - 1)) = 0
  <2>1. s..(s - 1) = {}
    BY <1>0
  <2> QED BY <1>1, <1>i, <2>1, SumFacts
<1> QED BY <1>3, <1>4, <1>5 DEF Spent

\* The limit grows by Burst with every displacement and by Rate with every tick.
LEMMA LimitType ==
    ASSUME NEW n \in Nat, NEW k \in Nat
    PROVE  /\ Limit(n, k) \in Nat
           /\ Limit(n + 1, k) = Limit(n, k) + Burst
           /\ Limit(n, k + 1) = Limit(n, k) + Rate
           /\ Limit(n, 0) >= Burst
<1>1. PICK u \in Nat, r \in Nat : u = Burst /\ r = Rate
  BY LimiterConstants
<1>2. PICK y \in Nat, z \in Nat : y = u * (1 + n) /\ z = r * k
  OBVIOUS
<1>3. u * (1 + (n + 1)) = y + u /\ r * (k + 1) = z + r
  BY <1>2
<1>4. y >= u
  <2>1. y = u + u * n /\ u * n \in Nat
    BY <1>2
  <2> QED BY <2>1
<1>5. r * 0 = 0
  OBVIOUS
<1> QED BY <1>1, <1>2, <1>3, <1>4, <1>5 DEF Limit

\* Objects that are let go, and the others as full as before.
LEMMA LooseShrinks ==
    ASSUME NEW E, NEW b, NEW h, NEW f, NEW a, NEW d, NEW now,
           Typed(E, b, h, f, a, d, now), Sound(E, b, h, f, now),
           NEW E2, NEW b2, NEW h2, NEW f2, NEW c \in Clients,
           Typed(E2, b2, h2, f2, a, d, now), Sound(E2, b2, h2, f2, now),
           Detached(E2, h2, f2, c) \subseteq Detached(E, h, f, c),
           \A i \in Detached(E2, h2, f2, c) : Refill(b2[i], now) = Refill(b[i], now)
    PROVE  Loose(E2, b2, h2, f2, now, c) <= Loose(E, b, h, f, now, c)
<1> DEFINE D == Detached(E, h, f, c)
           R == Detached(E2, h2, f2, c)
<1>1. \A i \in Ids : Level(b, now)[i] \in 0..Burst /\ Level(b, now)[i] = Refill(b[i], now)
  BY StakeType
<1>2. \A i \in Ids : Level(b2, now)[i] = Refill(b2[i], now)
  BY StakeType
<1>3. D \in SUBSET Ids /\ R \in SUBSET Ids /\ R \in SUBSET D
  BY StakeType
<1> HIDE DEF D, R
<1>4. IsFiniteSet(R) /\ IsFiniteSet(Ids)
  BY <1>3, LimiterConstants, FS_Subset
<1>5. \A i \in R : Level(b, now)[i] \in Int /\ Level(b2, now)[i] = Level(b, now)[i]
  BY <1>1, <1>2, <1>3, LimiterConstants DEF R
<1>6. SumFunctionOnSet(Level(b2, now), R) = SumFunctionOnSet(Level(b, now), R)
  BY <1>4, <1>5, SumSame
<1>7. \A i \in Ids : Level(b, now)[i] \in Nat
  BY <1>1, LimiterConstants
<1>8. SumFunctionOnSet(Level(b, now), R) <= SumFunctionOnSet(Level(b, now), D)
  BY <1>3, <1>4, <1>7, SumNat
<1> QED BY <1>6, <1>8 DEF Loose, D, R

\* A step that gives nothing: what is at stake for a client has not grown, or by
\* one burst and the client was given another.
LEMMA Rebooked ==
    ASSUME NEW E, NEW b, NEW h, NEW f, NEW a, NEW d, NEW now, Booked(E, b, h, f, a, d, now),
           NEW E2, NEW b2, NEW h2, NEW f2, NEW d2,
           Typed(E2, b2, h2, f2, a, d2, now), Sound(E2, b2, h2, f2, now),
           \A c \in Clients :
              \/ /\ d2[c] = d[c]
                 /\ Stake(E2, b2, h2, f2, now, c) <= Stake(E, b, h, f, now, c)
              \/ /\ d2[c] = d[c] + 1
                 /\ Stake(E2, b2, h2, f2, now, c) <= Stake(E, b, h, f, now, c) + Burst
    PROVE  Booked(E2, b2, h2, f2, a, d2, now)
<1>1. /\ Typed(E, b, h, f, a, d, now) /\ Sound(E, b, h, f, now) /\ Future(a, now)
      /\ Within(E, b, h, f, a, d, now) /\ Past(a, d, now)
  BY DEF Booked
<1>2. now \in 0..MaxTime /\ MaxTime \in Nat /\ Burst \in Nat
      /\ \A c \in Clients : a[c] \in [0..MaxTime -> Nat] /\ d[c] \in Nat
  BY <1>1, LimiterConstants DEF Typed
<1>3. ASSUME NEW c \in Clients, NEW s \in 0..now, NEW t \in s..now
      PROVE  Spent(a[c], s, t) <= Limit(d2[c], t - s)
  <2>1. s \in 0..MaxTime /\ t \in 0..MaxTime /\ t - s \in Nat
    BY <1>2
  <2>2. PICK v \in Nat, l \in Nat, u \in Nat :
           v = Spent(a[c], s, t) /\ l = Limit(d[c], t - s) /\ u = Burst
    BY <1>2, <2>1, SpentType, LimitType
  <2>3. v <= l
    BY <1>1, <2>2 DEF Past
  <2>4. Limit(d2[c], t - s) = l \/ Limit(d2[c], t - s) = l + u
    <3>1. PICK n \in Nat, k \in Nat : n = d[c] /\ k = t - s
      BY <1>2, <2>1
    <3>2. Limit(n + 1, k) = Limit(n, k) + Burst
      BY LimitType
    <3> QED BY <2>2, <3>1, <3>2
  <2> QED BY <2>2, <2>3, <2>4
<1>4. ASSUME NEW c \in Clients, NEW s \in 0..now
      PROVE  Spent(a[c], s, now) + Stake(E2, b2, h2, f2, now, c) <= Limit(d2[c], now - s)
  <2>1. s \in 0..MaxTime /\ now - s \in Nat
    BY <1>2
  <2>2. PICK v \in Nat, l \in Nat, u \in Nat :
           v = Spent(a[c], s, now) /\ l = Limit(d[c], now - s) /\ u = Burst
    BY <1>2, <2>1, SpentType, LimitType
  <2>3. PICK x \in Int, y \in Int :
           x = Stake(E, b, h, f, now, c) /\ y = Stake(E2, b2, h2, f2, now, c)
    <3>1. Due(E, b, now, c) \in Int /\ Loose(E, b, h, f, now, c) \in Int
      BY <1>1, <1>2, StakeType
    <3>2. Due(E2, b2, now, c) \in Int /\ Loose(E2, b2, h2, f2, now, c) \in Int
      BY <1>2, StakeType
    <3> QED BY <3>1, <3>2 DEF Stake
  <2>4. v + x <= l
    BY <1>1, <2>2, <2>3 DEF Within
  <2>5. CASE d2[c] = d[c] /\ y <= x
    BY <2>2, <2>3, <2>4, <2>5
  <2>6. CASE d2[c] = d[c] + 1 /\ y <= x + u
    <3>0. PICK n \in Nat, k \in Nat : n = d[c] /\ k = now - s
      BY <1>2, <2>1
    <3>1. Limit(d2[c], now - s) = l + u
      <4>1. Limit(n + 1, k) = Limit(n, k) + Burst
        BY LimitType
      <4> QED BY <2>2, <2>6, <3>0, <4>1
    <3> QED BY <2>2, <2>3, <2>4, <2>6, <3>1
  <2> QED BY <2>2, <2>3, <2>5, <2>6
<1> QED BY <1>1, <1>3, <1>4 DEF Booked, Within, Past

\* Elements that were idle for longer than idleTTL are dropped: nobody holds their
\* objects, and the client of one that had not refilled is given another burst.
LEMMA IdleDropped ==
    ASSUME NEW E, NEW b, NEW h, NEW f, NEW a, NEW d, NEW now, Booked(E, b, h, f, a, d, now),
           NEW G \in SUBSET E, \A e \in E : e \notin G => now - e.accessed > IdleTTL,
           NEW d2 \in [Clients -> Nat],
           \A c \in Clients : d2[c] = d[c] \/ d2[c] = d[c] + 1,
           \A e \in E : e \notin G /\ Refill(b[e.id], now) < Burst => d2[e.key] = d[e.key] + 1
    PROVE  Booked(G, b, h, f, a, d2, now)
<1>1. Typed(E, b, h, f, a, d, now) /\ Sound(E, b, h, f, now)
  BY DEF Booked
<1>2. /\ Typed(G, b, h, f, a, d, now) /\ Typed(G, b, h, f, a, d2, now)
      /\ Sound(G, b, h, f, now)
  BY <1>1 DEF Typed, Sound
<1>3. \A e \in E : e \in Elem /\ b[e.id] \in Object /\ e.id \in Ids
                   /\ b[e.id].refilled <= e.accessed /\ e.accessed <= now
  BY <1>1, ElemFields DEF Typed, Sound
<1>4. now \in 0..MaxTime /\ MaxTime \in Nat /\ IdleTTL \in Nat
  BY <1>1, LimiterConstants DEF Typed
<1>5. ASSUME NEW c \in Clients
      PROVE  /\ Due(G, b, now, c) <= Due(E, b, now, c) + Burst
             /\ d2[c] = d[c] => Due(G, b, now, c) <= Due(E, b, now, c)
  <2>0. /\ \A x, y \in E : x.key = y.key \/ x.id = y.id => x = y
        /\ \A x, y \in G : x.key = y.key \/ x.id = y.id => x = y
    BY <1>1 DEF Sound
  <2>d. d[c] \in Nat /\ d2[c] \in Nat /\ Burst \in Nat
    BY <1>1, LimiterConstants DEF Typed
  <2>e. Due(G, b, now, c) \in Int /\ Due(E, b, now, c) \in Int
    BY <1>1, <1>2, StakeType
  <2>1. PICK v \in Int, w \in Int, u \in Nat, n \in Nat, m \in Nat :
           v = Due(G, b, now, c) /\ w = Due(E, b, now, c) /\ u = Burst /\ n = d[c] /\ m = d2[c]
    BY <2>d, <2>e
  <2>2. CASE \E e \in G : e.key = c
    <3>1. v = w
      BY <2>0, <2>1, <2>2, DueIs
    <3> QED BY <2>1, <3>1
  <2>3. CASE \A e \in E : e.key # c
    <3>1. v = w
      BY <2>0, <2>1, <2>3, DueIs
    <3> QED BY <2>1, <3>1
  <2>4. CASE (\A e \in G : e.key # c) /\ \E e \in E : e.key = c
    <3>1. PICK e \in E : e.key = c /\ e \notin G
      BY <2>4
    <3>2. w = Refill(b[e.id], now)
      BY <2>0, <2>1, <3>1, DueIs
    <3>3. v = u
      BY <2>0, <2>1, <2>4, DueIs
    <3>4. w \in 0..u
      <4>1. b[e.id].refilled <= now
        BY <1>1, <1>3 DEF Sound
      <4> QED BY <1>3, <1>4, <2>1, <3>2, <4>1, RefillRange
    <3>5. w < u => m = n + 1
      BY <2>1, <3>1, <3>2
    <3> QED BY <2>1, <3>3, <3>4, <3>5
  <2> QED BY <2>2, <2>3, <2>4
<1>6. ASSUME NEW c \in Clients PROVE Loose(G, b, h, f, now, c) <= Loose(E, b, h, f, now, c)
  <2>1. ASSUME NEW i \in Detached(G, h, f, c) PROVE i \in Detached(E, h, f, c)
    <3>1. PICK p \in Procs : h[p] = i /\ f[p] = c
      BY DEF Detached
    <3>2. i \in Ids /\ \A e \in G : e.id # i
      BY DEF Detached
    <3>3. ASSUME NEW e \in E, e.id = i PROVE FALSE
      <4>1. e.accessed = now /\ e \notin G
        BY <1>1, <3>1, <3>2, <3>3 DEF Sound
      <4>2. now - now > IdleTTL
        BY <4>1
      <4> QED BY <1>4, <4>2
    <3> QED BY <3>1, <3>2, <3>3 DEF Detached
  <2> QED BY <1>1, <1>2, <2>1, LooseShrinks
<1>7. ASSUME NEW c \in Clients
      PROVE  \/ /\ d2[c] = d[c]
                /\ Stake(G, b, h, f, now, c) <= Stake(E, b, h, f, now, c)
             \/ /\ d2[c] = d[c] + 1
                /\ Stake(G, b, h, f, now, c) <= Stake(E, b, h, f, now, c) + Burst
  <2>1. PICK x \in Int, y \in Int, v \in Int, w \in Int, u \in Nat :
           /\ x = Due(G, b, now, c) /\ y = Due(E, b, now, c) /\ u = Burst
           /\ v = Loose(G, b, h, f, now, c) /\ w = Loose(E, b, h, f, now, c)
    BY <1>1, <1>2, StakeType, LimiterConstants
  <2>2. x <= y + u /\ v <= w /\ (d2[c] = d[c] => x <= y)
    BY <1>5, <1>6, <2>1
  <2>3. CASE d2[c] = d[c]
    BY <2>1, <2>2, <2>3 DEF Stake
  <2>4. CASE d2[c] = d[c] + 1
    BY <2>1, <2>2, <2>4 DEF Stake
  <2> QED BY <2>3, <2>4
<1> QED BY <1>1, <1>2, <1>7, Rebooked

\* A client has less at stake when its bucket has less to give and no bucket
\* was detached.
LEMMA StakeShrinks ==
    ASSUME NEW E, NEW b, NEW h, NEW f, NEW a, NEW d, NEW now,
           Typed(E, b, h, f, a, d, now), Sound(E, b, h, f, now),
           NEW E2, NEW b2, NEW h2, NEW f2, NEW c \in Clients,
           Typed(E2, b2, h2, f2, a, d, now), Sound(E2, b2, h2, f2, now),
           Due(E2, b2, now, c) <= Due(E, b, now, c),
           \A i \in Detached(E2, h2, f2, c) :
              i \in Detached(E, h, f, c) /\ Refill(b2[i], now) = Refill(b[i], now)
    PROVE  Stake(E2, b2, h2, f2, now, c) <= Stake(E, b, h, f, now, c)
<1>1. Loose(E2, b2, h2, f2, now, c) <= Loose(E, b, h, f, now, c)
  BY LooseShrinks
<1>2. PICK x \in Int, y \in Int : x = Due(E, b, now, c) /\ y = Due(E2, b2, now, c)
  BY StakeType
<1>3. PICK v \in Int, w \in Int :
         v = Loose(E, b, h, f, now, c) /\ w = Loose(E2, b2, h2, f2, now, c)
  BY StakeType
<1>4. y <= x /\ w <= v
  BY <1>1, <1>2, <1>3
<1> QED BY <1>2, <1>3, <1>4 DEF Stake

\* Garbage is collected: the objects somebody refers to stay what they are.
LEMMA GarbageCollected ==
    ASSUME NEW E, NEW b, NEW h, NEW f, NEW a, NEW d, NEW now, Booked(E, b, h, f, a, d, now),
           NEW b2 \in [Ids -> Object], \A e \in E : b2[e.id] = b[e.id],
           \A p \in Procs : h[p] # NoBucket => b2[h[p]] = b[h[p]],
           \A i \in Ids : b2[i].refilled <= now
    PROVE  Booked(E, b2, h, f, a, d, now)
<1>1. Typed(E, b, h, f, a, d, now) /\ Sound(E, b, h, f, now)
  BY DEF Booked
<1>2. Typed(E, b2, h, f, a, d, now) /\ Sound(E, b2, h, f, now)
  BY <1>1 DEF Typed, Sound
<1>3. ASSUME NEW c \in Clients
      PROVE  Stake(E, b2, h, f, now, c) <= Stake(E, b, h, f, now, c)
  <2>0. \A x, y \in E : x.key = y.key \/ x.id = y.id => x = y
    BY <1>1 DEF Sound
  <2>1. Due(E, b2, now, c) = Due(E, b, now, c)
    <3>1. CASE \A e \in E : e.key # c
      BY <2>0, <3>1, DueIs
    <3>2. CASE \E e \in E : e.key = c
      <4>1. PICK e \in E : e.key = c
        BY <3>2
      <4>2. Due(E, b2, now, c) = Refill(b2[e.id], now) /\ Due(E, b, now, c) = Refill(b[e.id], now)
        BY <2>0, <4>1, DueIs
      <4> QED BY <4>2
    <3> QED BY <3>1, <3>2
  <2>2. Due(E, b2, now, c) <= Due(E, b, now, c)
    <3>1. Due(E, b, now, c) \in Int
      BY <1>1, StakeType
    <3> QED BY <2>1, <3>1
  <2>3. ASSUME NEW i \in Detached(E, h, f, c) PROVE Refill(b2[i], now) = Refill(b[i], now)
    <3>1. PICK p \in Procs : h[p] = i
      BY DEF Detached
    <3>2. i # NoBucket
      BY LimiterConstants DEF Detached
    <3> QED BY <3>1, <3>2
  <2> QED BY <1>1, <1>2, <2>2, <2>3, StakeShrinks
<1> QED BY <1>2, <1>3, Rebooked DEF Typed

\* GetBucket finds the client's element.
LEMMA ElementTouched ==
    ASSUME NEW E, NEW b, NEW h, NEW f, NEW a, NEW d, NEW now, Booked(E, b, h, f, a, d, now),
           NEW x \in E, NEW y \in Elem, y.key = x.key, y.id = x.id, y.accessed = now,
           NEW p \in Procs, h[p] = NoBucket
    PROVE  Booked((E \ {x}) \cup {y}, b, [h EXCEPT ![p] = x.id], [f EXCEPT ![p] = x.key], a, d, now)
<1> DEFINE G == (E \ {x}) \cup {y}
           h2 == [h EXCEPT ![p] = x.id]
           f2 == [f EXCEPT ![p] = x.key]
<1>1. Typed(E, b, h, f, a, d, now) /\ Sound(E, b, h, f, now)
  BY DEF Booked
<1>2. /\ E \in SUBSET Elem /\ h \in [Procs -> Ids \cup {NoBucket}] /\ f \in [Procs -> Clients]
      /\ x.id \in Ids /\ x.key \in Clients /\ now \in 0..MaxTime /\ b \in [Ids -> Object]
  BY <1>1, ElemFields DEF Typed
<1>3. /\ \A u, w \in E : u.key = w.key \/ u.id = w.id => u = w
      /\ \A e \in E : b[e.id].refilled <= e.accessed /\ e.accessed <= now
      /\ \A i \in Ids : b[i].refilled <= now
      /\ \A q \in Procs : \A e \in E : h[q] = e.id => e.key = f[q] /\ e.accessed = now
      /\ \A q, r \in Procs : h[q] # NoBucket /\ h[q] = h[r] => f[q] = f[r]
  BY <1>1 DEF Sound
<1>4. /\ h2[p] = x.id /\ f2[p] = x.key
      /\ \A q \in Procs : q # p => h2[q] = h[q] /\ f2[q] = f[q]
  BY <1>2
<1>5. Typed(G, b, h2, f2, a, d, now)
  <2>1. G \in SUBSET Elem /\ h2 \in [Procs -> Ids \cup {NoBucket}] /\ f2 \in [Procs -> Clients]
    BY <1>2
  <2> HIDE DEF G, h2, f2
  <2> QED BY <1>1, <2>1 DEF Typed
<1>g. \A e \in G : e = y \/ (e \in E /\ e # x)
  OBVIOUS
<1> HIDE DEF h2, f2
<1>6. Sound(G, b, h2, f2, now)
  <2>1. \A u, w \in G : u.key = w.key \/ u.id = w.id => u = w
    BY <1>3
  <2>2. \A e \in G : b[e.id].refilled <= e.accessed /\ e.accessed <= now
    <3>1. now <= now
      BY <1>2, LimiterConstants
    <3> QED BY <1>2, <1>3, <1>g, <3>1
  <2>3. ASSUME NEW q \in Procs, NEW e \in G, h2[q] = e.id
        PROVE  e.key = f2[q] /\ e.accessed = now
    <3>1. CASE q = p
      <4>1. e = y
        BY <1>3, <1>4, <2>3, <3>1
      <4> QED BY <1>4, <3>1, <4>1
    <3>2. CASE q # p
      <4>1. h[q] = e.id /\ f2[q] = f[q]
        BY <1>4, <2>3, <3>2
      <4> QED BY <1>3, <1>g, <4>1
    <3> QED BY <3>1, <3>2
  <2>4. ASSUME NEW q \in Procs, NEW r \in Procs, h2[q] # NoBucket, h2[q] = h2[r]
        PROVE  f2[q] = f2[r]
    <3>1. CASE q = p
      BY <1>3, <1>4, <2>4, <3>1
    <3>2. CASE r = p
      BY <1>3, <1>4, <2>4, <3>2
    <3>3. CASE q # p /\ r # p
      BY <1>3, <1>4, <2>4, <3>3
    <3> QED BY <3>1, <3>2, <3>3
  <2> HIDE DEF G
  <2> QED BY <1>3, <2>1, <2>2, <2>3, <2>4 DEF Sound
<1>7. ASSUME NEW c \in Clients
      PROVE  Stake(G, b, h2, f2, now, c) <= Stake(E, b, h, f, now, c)
  <2>0. \A u, w \in G : u.key = w.key \/ u.id = w.id => u = w
    BY <1>6 DEF Sound
  <2>1. Due(G, b, now, c) = Due(E, b, now, c)
    <3>1. CASE \A e \in E : e.key # c
      <4>1. \A e \in G : e.key # c
        BY <3>1
      <4> HIDE DEF G
      <4> QED BY <1>3, <2>0, <3>1, <4>1, DueIs
    <3>2. CASE \E e \in E : e.key = c
      <4>1. PICK e \in E : e.key = c
        BY <3>2
      <4>2. PICK g \in G : g.key = c /\ g.id = e.id
        BY <4>1
      <4> HIDE DEF G
      <4>3. Due(G, b, now, c) = Refill(b[g.id], now) /\ Due(E, b, now, c) = Refill(b[e.id], now)
        BY <1>3, <2>0, <4>1, <4>2, DueIs
      <4> QED BY <4>2, <4>3
    <3> QED BY <3>1, <3>2
  <2>2. Due(G, b, now, c) <= Due(E, b, now, c)
    <3>1. Due(E, b, now, c) \in Int
      BY <1>1, StakeType
    <3> QED BY <2>1, <3>1
  <2>3. ASSUME NEW i \in Detached(G, h2, f2, c) PROVE i \in Detached(E, h, f, c)
    <3>1. PICK q \in Procs : h2[q] = i /\ f2[q] = c
      BY DEF Detached
    <3>2. i \in Ids /\ \A e \in G : e.id # i
      BY DEF Detached
    <3>3. i # x.id /\ \A e \in E : e.id # i
      BY <3>2
    <3>4. h[q] = i /\ f[q] = c
      BY <1>4, <3>1, <3>3
    <3> QED BY <3>2, <3>3, <3>4 DEF Detached
  <2> HIDE DEF G
  <2> QED BY <1>1, <1>5, <1>6, <2>2, <2>3, StakeShrinks
<1> HIDE DEF G
<1>8. Booked(G, b, h2, f2, a, d, now)
  BY <1>5, <1>6, <1>7, Rebooked DEF Typed
<1> QED BY <1>8 DEF G, h2, f2

\* The element y is evicted for lack of room, and its object may still be held.
LEMMA ElementDisplaced ==
    ASSUME NEW E, NEW b, NEW h, NEW f, NEW a, NEW d, NEW now, Booked(E, b, h, f, a, d, now),
           NEW y \in E
    PROVE  Booked(E \ {y}, b, h, f, a, [d EXCEPT ![y.key] = @ + 1], now)
<1> DEFINE G == E \ {y}
           d2 == [d EXCEPT ![y.key] = @ + 1]
<1>1. Typed(E, b, h, f, a, d, now) /\ Sound(E, b, h, f, now)
  BY DEF Booked
<1>2. /\ d \in [Clients -> Nat] /\ y.key \in Clients /\ y.id \in Ids /\ y \in Elem
      /\ E \in SUBSET Elem
  BY <1>1, ElemFields DEF Typed
<1>3. Typed(G, b, h, f, a, d, now) /\ Typed(G, b, h, f, a, d2, now) /\ Sound(G, b, h, f, now)
  <2>1. d2 \in [Clients -> Nat] /\ G \in SUBSET Elem
    BY <1>2
  <2>2. Sound(G, b, h, f, now)
    BY <1>1 DEF Sound
  <2> HIDE DEF G, d2
  <2> QED BY <1>1, <2>1, <2>2 DEF Typed
<1>4. \A u, w \in E : u.key = w.key \/ u.id = w.id => u = w
  BY <1>1 DEF Sound
<1>5. \A u, w \in G : u.key = w.key \/ u.id = w.id => u = w
  BY <1>4
<1>6. ASSUME NEW c \in Clients, c # y.key
      PROVE  d2[c] = d[c] /\ Stake(G, b, h, f, now, c) <= Stake(E, b, h, f, now, c)
  <2>0. d2[c] = d[c]
    BY <1>2, <1>6
  <2>1. Due(G, b, now, c) = Due(E, b, now, c)
    <3>1. CASE \A e \in E : e.key # c
      <4>1. \A e \in G : e.key # c
        BY <3>1
      <4> HIDE DEF G
      <4> QED BY <1>4, <1>5, <3>1, <4>1, DueIs
    <3>2. CASE \E e \in E : e.key = c
      <4>1. PICK e \in E : e.key = c
        BY <3>2
      <4>2. e \in G
        BY <1>6, <4>1
      <4> HIDE DEF G
      <4>3. Due(G, b, now, c) = Refill(b[e.id], now) /\ Due(E, b, now, c) = Refill(b[e.id], now)
        BY <1>4, <1>5, <4>1, <4>2, DueIs
      <4> QED BY <4>3
    <3> QED BY <3>1, <3>2
  <2>2. Due(G, b, now, c) <= Due(E, b, now, c)
    <3>1. Due(E, b, now, c) \in Int
      BY <1>1, StakeType
    <3> QED BY <2>1, <3>1
  <2>3. ASSUME NEW i \in Detached(G, h, f, c) PROVE i \in Detached(E, h, f, c)
    <3>1. PICK q \in Procs : h[q] = i /\ f[q] = c
      BY DEF Detached
    <3>2. i \in Ids /\ \A e \in G : e.id # i
      BY DEF Detached
    <3>3. i # y.id
      BY <1>1, <1>6, <3>1 DEF Sound
    <3>4. \A e \in E : e.id # i
      BY <3>2, <3>3
    <3> QED BY <3>1, <3>2, <3>4 DEF Detached
  <2> HIDE DEF G
  <2> QED BY <1>1, <1>3, <2>0, <2>2, <2>3, StakeShrinks
<1>7. LET c == y.key IN
      d2[c] = d[c] + 1 /\ Stake(G, b, h, f, now, c) <= Stake(E, b, h, f, now, c) + Burst
  <2> DEFINE c == y.key
             D == Detached(E, h, f, c)
             R == Detached(G, h, f, c)
             L == Level(b, now)
  <2>0. d2[c] = d[c] + 1
    BY <1>2
  <2>1. Due(G, b, now, c) = Burst
    <3>1. \A e \in G : e.key # c
      BY <1>4
    <3> HIDE DEF G
    <3> QED BY <1>5, <3>1, DueIs
  <2>2. Due(E, b, now, c) = L[y.id]
    <3>1. L[y.id] = Refill(b[y.id], now)
      BY <1>2 DEF Level
    <3> HIDE DEF L
    <3> QED BY <1>4, <3>1, DueIs
  <2>3. R \subseteq D \cup {y.id} /\ y.id \notin D /\ D \in SUBSET Ids
    BY DEF Detached
  <2>4. \A i \in Ids : L[i] \in Nat
    BY <1>1, StakeType, LimiterConstants
  <2> HIDE DEF D, R, L, G, d2
  <2>5. SumFunctionOnSet(L, R) <= SumFunctionOnSet(L, D \cup {y.id})
    <3>1. D \cup {y.id} \in SUBSET Ids /\ R \in SUBSET (D \cup {y.id})
      BY <1>2, <2>3
    <3> QED BY <2>4, <3>1, SumNat, LimiterConstants
  <2>6. SumFunctionOnSet(L, D \cup {y.id}) = SumFunctionOnSet(L, D) + L[y.id]
    <3>1. D \cup {y.id} \in SUBSET Ids /\ (D \cup {y.id}) \ {y.id} = D
      BY <1>2, <2>3
    <3>2. \A i \in Ids : L[i] \in Int
      BY <2>4
    <3>3. \A S \in SUBSET Ids : \A i \in S : SumFunctionOnSet(L, S) = SumFunctionOnSet(L, S \ {i}) + L[i]
      BY <3>2, SumFacts, LimiterConstants
    <3> QED BY <3>1, <3>3
  <2>7. PICK v \in Nat, w \in Nat, k \in Nat, u \in Nat :
           v = SumFunctionOnSet(L, R) /\ w = SumFunctionOnSet(L, D) /\ k = L[y.id] /\ u = Burst
    <3>1. SumFunctionOnSet(L, R) \in Nat /\ SumFunctionOnSet(L, D) \in Nat
      <4>1. R \in SUBSET Ids /\ D \in SUBSET Ids
        BY <1>2, <2>3
      <4> QED BY <2>4, <4>1, SumNat, LimiterConstants
    <3> QED BY <1>2, <2>4, <3>1, LimiterConstants
  <2>8. u + v <= (k + w) + u
    BY <2>5, <2>6, <2>7
  <2>9. Stake(G, b, h, f, now, c) = u + v /\ Stake(E, b, h, f, now, c) = k + w
    BY <2>1, <2>2, <2>7 DEF Stake, Loose, D, R, L
  <2> QED BY <2>0, <2>7, <2>8, <2>9
<1> HIDE DEF G, d2
<1>8. Booked(G, b, h, f, a, d2, now)
  BY <1>2, <1>3, <1>6, <1>7, Rebooked
<1> QED BY <1>8 DEF G, d2

\* GetBucket makes a bucket for a client that has none, from an object nobody
\* refers to.
LEMMA ElementAdded ==
    ASSUME NEW E, NEW b, NEW h, NEW f, NEW a, NEW d, NEW now, Booked(E, b, h, f, a, d, now),
           NEW y \in Elem, y.accessed = now, \A e \in E : e.key # y.key /\ e.id # y.id,
           \A q \in Procs : h[q] # y.id, NEW o \in Object, o.refilled = now,
           NEW p \in Procs, h[p] = NoBucket
    PROVE  Booked(E \cup {y}, [b EXCEPT ![y.id] = o], [h EXCEPT ![p] = y.id],
                [f EXCEPT ![p] = y.key], a, d, now)
<1> DEFINE G == E \cup {y}
           b2 == [b EXCEPT ![y.id] = o]
           h2 == [h EXCEPT ![p] = y.id]
           f2 == [f EXCEPT ![p] = y.key]
<1>1. Typed(E, b, h, f, a, d, now) /\ Sound(E, b, h, f, now)
  BY DEF Booked
<1>2. /\ E \in SUBSET Elem /\ h \in [Procs -> Ids \cup {NoBucket}] /\ f \in [Procs -> Clients]
      /\ y.id \in Ids /\ y.key \in Clients /\ now \in 0..MaxTime /\ b \in [Ids -> Object]
  BY <1>1, ElemFields DEF Typed
<1>3. /\ \A u, w \in E : u.key = w.key \/ u.id = w.id => u = w
      /\ \A e \in E : b[e.id].refilled <= e.accessed /\ e.accessed <= now
      /\ \A i \in Ids : b[i].refilled <= now
      /\ \A q \in Procs : \A e \in E : h[q] = e.id => e.key = f[q] /\ e.accessed = now
      /\ \A q, r \in Procs : h[q] # NoBucket /\ h[q] = h[r] => f[q] = f[r]
  BY <1>1 DEF Sound
<1>4. /\ h2[p] = y.id /\ f2[p] = y.key
      /\ \A q \in Procs : q # p => h2[q] = h[q] /\ f2[q] = f[q]
      /\ b2[y.id] = o /\ \A i \in Ids : i # y.id => b2[i] = b[i]
  BY <1>2
<1>5. Typed(G, b2, h2, f2, a, d, now)
  <2>1. /\ G \in SUBSET Elem /\ h2 \in [Procs -> Ids \cup {NoBucket}]
        /\ f2 \in [Procs -> Clients] /\ b2 \in [Ids -> Object]
    BY <1>2
  <2> HIDE DEF G, b2, h2, f2
  <2> QED BY <1>1, <2>1 DEF Typed
<1>e. \A e \in E : e.id \in Ids /\ e.id # y.id /\ b2[e.id] = b[e.id]
  BY <1>2, <1>4, ElemFields
<1>n. now <= now
  BY <1>2, LimiterConstants
<1> HIDE DEF b2, h2, f2
<1>6. Sound(G, b2, h2, f2, now)
  <2>1. \A u, w \in G : u.key = w.key \/ u.id = w.id => u = w
    BY <1>3
  <2>2. \A e \in G : b2[e.id].refilled <= e.accessed /\ e.accessed <= now
    BY <1>3, <1>4, <1>e, <1>n
  <2>3. \A i \in Ids : b2[i].refilled <= now
    BY <1>3, <1>4, <1>n
  <2>4. ASSUME NEW q \in Procs, NEW e \in G, h2[q] = e.id
        PROVE  e.key = f2[q] /\ e.accessed = now
    <3>1. CASE q = p
      <4>1. e = y
        BY <1>4, <1>e, <2>4, <3>1
      <4> QED BY <1>4, <3>1, <4>1
    <3>2. CASE q # p
      <4>1. h[q] = e.id /\ f2[q] = f[q] /\ e \in E
        BY <1>4, <2>4, <3>2
      <4> QED BY <1>3, <4>1
    <3> QED BY <3>1, <3>2
  <2>5. ASSUME NEW q \in Procs, NEW r \in Procs, h2[q] # NoBucket, h2[q] = h2[r]
        PROVE  f2[q] = f2[r]
    <3>1. CASE q = p
      BY <1>4, <2>5, <3>1
    <3>2. CASE r = p
      BY <1>4, <2>5, <3>2
    <3>3. CASE q # p /\ r # p
      BY <1>3, <1>4, <2>5, <3>3
    <3> QED BY <3>1, <3>2, <3>3
  <2> HIDE DEF G
  <2> QED BY <2>1, <2>2, <2>3, <2>4, <2>5 DEF Sound
<1>7. ASSUME NEW c \in Clients
      PROVE  Stake(G, b2, h2, f2, now, c) <= Stake(E, b, h, f, now, c)
  <2>0. \A u, w \in G : u.key = w.key \/ u.id = w.id => u = w
    BY <1>6 DEF Sound
  <2>1. Due(G, b2, now, c) <= Due(E, b, now, c)
    <3>0. Due(G, b2, now, c) \in 0..Burst /\ Due(E, b, now, c) \in 0..Burst /\ Burst \in Nat
      BY <1>1, <1>5, <1>6, StakeType, LimiterConstants
    <3>1. CASE \A e \in E : e.key # c
      <4>1. Due(E, b, now, c) = Burst
        BY <1>3, <3>1, DueIs
      <4> QED BY <3>0, <4>1
    <3>2. CASE \E e \in E : e.key = c
      <4>1. PICK e \in E : e.key = c
        BY <3>2
      <4>2. e \in G
        OBVIOUS
      <4> HIDE DEF G
      <4>3. Due(G, b2, now, c) = Refill(b2[e.id], now)
        BY <2>0, <4>1, <4>2, DueIs
      <4>4. Due(E, b, now, c) = Refill(b[e.id], now)
        BY <1>3, <4>1, DueIs
      <4> QED BY <1>e, <3>0, <4>3, <4>4
    <3> QED BY <3>1, <3>2
  <2>2. ASSUME NEW i \in Detached(G, h2, f2, c)
        PROVE  i \in Detached(E, h, f, c) /\ Refill(b2[i], now) = Refill(b[i], now)
    <3>1. PICK q \in Procs : h2[q] = i /\ f2[q] = c
      BY DEF Detached
    <3>2. i \in Ids /\ \A e \in G : e.id # i
      BY DEF Detached
    <3>3. i # y.id /\ \A e \in E : e.id # i
      BY <3>2
    <3>4. h[q] = i /\ f[q] = c /\ b2[i] = b[i]
      BY <1>4, <3>1, <3>2, <3>3
    <3> QED BY <3>2, <3>3, <3>4 DEF Detached
  <2> HIDE DEF G
  <2> QED BY <1>1, <1>5, <1>6, <2>1, <2>2, StakeShrinks
<1> HIDE DEF G
<1>8. Booked(G, b2, h2, f2, a, d, now)
  BY <1>5, <1>6, <1>7, Rebooked DEF Typed
<1> QED BY <1>8 DEF G, b2, h2, f2

\* One object apart from the others.
LEMMA OneApart ==
    ASSUME NEW L, \A j \in Ids : L[j] \in Nat, NEW S \in SUBSET Ids, NEW i \in S
    PROVE  SumFunctionOnSet(L, S) = SumFunctionOnSet(L, S \ {i}) + L[i]
<1>1. \A j \in Ids : L[j] \in Int
  OBVIOUS
<1>2. IsFiniteSet(Ids)
  BY LimiterConstants
<1> QED BY <1>1, <1>2, SumFacts

\* Goroutine p asks the object i it holds, which is refilled and gives k tokens:
\* so much less is at stake for its client, also where the object was displaced.
LEMMA Asked ==
    ASSUME NEW E, NEW b, NEW h, NEW f, NEW a, NEW d, NEW now,
           Typed(E, b, h, f, a, d, now), Sound(E, b, h, f, now),
           NEW p \in Procs, h[p] # NoBucket, NEW o \in Object, o.refilled = now, NEW k \in Nat,
           Refill(o, now) + k = Refill(b[h[p]], now),
           NEW b2 \in [Ids -> Object], b2[h[p]] = o, \A j \in Ids : j # h[p] => b2[j] = b[j],
           NEW h2 \in [Procs -> Ids \cup {NoBucket}], h2[p] = NoBucket,
           \A q \in Procs : q # p => h2[q] = h[q]
    PROVE  /\ Typed(E, b2, h2, f, a, d, now) /\ Sound(E, b2, h2, f, now)
           /\ \A c \in Clients : c # f[p] =>
                 Stake(E, b2, h2, f, now, c) <= Stake(E, b, h, f, now, c)
           /\ Stake(E, b2, h2, f, now, f[p]) + k <= Stake(E, b, h, f, now, f[p])
<1>0. PICK i : i = h[p]
  OBVIOUS
<1>2. /\ E \in SUBSET Elem /\ h \in [Procs -> Ids \cup {NoBucket}] /\ f \in [Procs -> Clients]
      /\ i \in Ids /\ now \in 0..MaxTime /\ b \in [Ids -> Object]
  BY <1>0 DEF Typed
<1>3. /\ \A u, w \in E : u.key = w.key \/ u.id = w.id => u = w
      /\ \A e \in E : b[e.id].refilled <= e.accessed /\ e.accessed <= now
      /\ \A j \in Ids : b[j].refilled <= now
      /\ \A q \in Procs : \A e \in E : h[q] = e.id => e.key = f[q] /\ e.accessed = now
      /\ \A q, r \in Procs : h[q] # NoBucket /\ h[q] = h[r] => f[q] = f[r]
  BY DEF Sound
<1>4. /\ h2[p] = NoBucket /\ \A q \in Procs : q # p => h2[q] = h[q]
      /\ b2[i] = o /\ \A j \in Ids : j # i => b2[j] = b[j]
  BY <1>0
<1>5. Typed(E, b2, h2, f, a, d, now)
  BY DEF Typed
<1>n. now <= now /\ \A e \in E : e.id \in Ids
  BY <1>2, LimiterConstants, ElemFields
<1>6. Sound(E, b2, h2, f, now)
  <2>1. \A e \in E : b2[e.id].refilled <= e.accessed
    BY <1>0, <1>3, <1>4, <1>n
  <2>2. \A j \in Ids : b2[j].refilled <= now
    BY <1>3, <1>4, <1>n
  <2>3. \A q \in Procs : \A e \in E : h2[q] = e.id => h[q] = e.id
    BY <1>4, <1>n, LimiterConstants
  <2>4. \A q, r \in Procs : h2[q] # NoBucket /\ h2[q] = h2[r] => h[q] # NoBucket /\ h[q] = h[r]
    BY <1>4
  <2> QED BY <1>3, <2>1, <2>2, <2>3, <2>4 DEF Sound
<1>7. ASSUME NEW c \in Clients, NEW j \in Detached(E, h2, f, c) PROVE j \in Detached(E, h, f, c)
  <2>1. PICK q \in Procs : h2[q] = j /\ f[q] = c
    BY DEF Detached
  <2>2. j \in Ids /\ \A e \in E : e.id # j
    BY DEF Detached
  <2>3. h[q] = j
    BY <1>4, <2>1, <2>2, LimiterConstants
  <2> QED BY <2>1, <2>2, <2>3 DEF Detached
<1>d. \A u, w \in E : u.key = w.key \/ u.id = w.id => u = w
  BY <1>3
<1>8. ASSUME NEW c \in Clients, NEW e \in E, e.key = c, e.id # i
      PROVE  Due(E, b2, now, c) = Due(E, b, now, c)
  <2>1. Due(E, b2, now, c) = Refill(b2[e.id], now)
    BY <1>8, <1>d, DueIs
  <2>2. Due(E, b, now, c) = Refill(b[e.id], now)
    BY <1>8, <1>d, DueIs
  <2> QED BY <1>4, <1>8, <1>n, <2>1, <2>2
<1>9. ASSUME NEW c \in Clients, \A e \in E : e.key # c
      PROVE  Due(E, b2, now, c) = Due(E, b, now, c)
  BY <1>3, <1>9, DueIs
<1>10. ASSUME NEW c \in Clients, c # f[p]
       PROVE  Stake(E, b2, h2, f, now, c) <= Stake(E, b, h, f, now, c)
  <2>1. Due(E, b2, now, c) = Due(E, b, now, c)
    <3>1. CASE \E e \in E : e.key = c
      <4>1. PICK e \in E : e.key = c
        BY <3>1
      <4>2. e.id # i
        BY <1>0, <1>3, <1>10, <4>1
      <4> QED BY <1>8, <4>1, <4>2
    <3> QED BY <1>9, <3>1
  <2>2. Due(E, b2, now, c) <= Due(E, b, now, c)
    <3>1. Due(E, b, now, c) \in Int
      BY StakeType
    <3> QED BY <2>1, <3>1
  <2>3. ASSUME NEW j \in Detached(E, h2, f, c) PROVE Refill(b2[j], now) = Refill(b[j], now)
    <3>1. PICK q \in Procs : h[q] = j /\ f[q] = c /\ j \in Ids
      BY <1>7 DEF Detached
    <3>2. j # i
      BY <1>0, <1>3, <1>10, <3>1
    <3> QED BY <1>4, <3>1, <3>2
  <2> QED BY <1>5, <1>6, <1>7, <2>2, <2>3, StakeShrinks
<1>11. Stake(E, b2, h2, f, now, f[p]) + k <= Stake(E, b, h, f, now, f[p])
  <2>0. PICK c \in Clients : c = f[p]
    BY <1>2
  <2>1. PICK x \in Int, y \in Int, v \in Int, w \in Int :
           /\ x = Due(E, b, now, c) /\ y = Due(E, b2, now, c)
           /\ v = Loose(E, b, h, f, now, c) /\ w = Loose(E, b2, h2, f, now, c)
    <3>1. Due(E, b, now, c) \in Int /\ Loose(E, b, h, f, now, c) \in Int
      BY StakeType
    <3>2. Due(E, b2, now, c) \in Int /\ Loose(E, b2, h2, f, now, c) \in Int
      BY <1>5, <1>6, StakeType
    <3> QED BY <3>1, <3>2
  <2>2. CASE \E e \in E : e.id = i
    <3>1. PICK e \in E : e.id = i /\ e.key = c
      BY <1>0, <1>3, <2>0, <2>2
    <3>2. x = Refill(b[i], now) /\ y = Refill(o, now)
      <4>1. x = Refill(b[e.id], now)
        BY <1>d, <2>1, <3>1, DueIs
      <4>2. y = Refill(b2[e.id], now)
        BY <1>d, <2>1, <3>1, DueIs
      <4> QED BY <1>4, <3>1, <4>1, <4>2
    <3>3. y + k = x
      BY <1>0, <3>2
    <3>4. ASSUME NEW j \in Detached(E, h2, f, c) PROVE Refill(b2[j], now) = Refill(b[j], now)
      <4>1. j \in Ids /\ j # i
        BY <3>1 DEF Detached
      <4> QED BY <1>4, <4>1
    <3>5. w <= v
      BY <1>5, <1>6, <1>7, <2>1, <3>4, LooseShrinks
    <3> QED BY <2>0, <2>1, <3>3, <3>5 DEF Stake
  <2>3. CASE \A e \in E : e.id # i
    <3>1. y = x
      BY <1>8, <1>9, <2>1, <2>3
    <3> DEFINE D == Detached(E, h, f, c)
               R == Detached(E, h2, f, c)
               L == Level(b, now)
               M == Level(b2, now)
    <3>2. i \in D /\ R \in SUBSET D /\ D \in SUBSET Ids
      BY <1>0, <1>2, <1>7, <2>0, <2>3 DEF Detached
    <3>3. \A j \in Ids : L[j] \in Nat /\ L[j] = Refill(b[j], now)
      BY StakeType, LimiterConstants
    <3>4. \A j \in Ids : M[j] \in Nat /\ M[j] = Refill(b2[j], now)
      <4>1. \A j \in Ids : M[j] \in 0..Burst /\ M[j] = Refill(b2[j], now)
        BY <1>5, <1>6, StakeType
      <4> HIDE DEF M
      <4> QED BY <4>1, LimiterConstants
    <3>5. v = SumFunctionOnSet(L, D) /\ w = SumFunctionOnSet(M, R)
      BY <2>1 DEF Loose
    <3> HIDE DEF D, R, L, M
    <3>6. SumFunctionOnSet(M, R) <= SumFunctionOnSet(M, D)
      BY <3>2, <3>4, SumNat, LimiterConstants
    <3>7. SumFunctionOnSet(M, D) = SumFunctionOnSet(M, D \ {i}) + M[i]
      BY <3>2, <3>4, OneApart
    <3>8. SumFunctionOnSet(L, D) = SumFunctionOnSet(L, D \ {i}) + L[i]
      BY <3>2, <3>3, OneApart
    <3>9. SumFunctionOnSet(M, D \ {i}) = SumFunctionOnSet(L, D \ {i})
      <4>1. IsFiniteSet(D \ {i})
        BY <3>2, LimiterConstants, FS_Subset
      <4>2. \A j \in D \ {i} : L[j] \in Int /\ M[j] = L[j]
        BY <1>4, <3>2, <3>3, <3>4
      <4> QED BY <4>1, <4>2, SumSame
    <3>10. M[i] + k = L[i]
      BY <1>0, <1>2, <1>4, <3>3, <3>4
    <3>11. PICK r \in Int, m \in Int, l \in Int :
              r = SumFunctionOnSet(L, D \ {i}) /\ m = M[i] /\ l = L[i]
      <4>1. D \ {i} \in SUBSET Ids
        BY <3>2
      <4>2. SumFunctionOnSet(L, D \ {i}) \in Nat
        BY <3>3, <4>1, SumNat, LimiterConstants
      <4> QED BY <1>2, <3>3, <3>4, <4>2
    <3>12. w <= r + m /\ v = r + l /\ m + k = l
      BY <3>5, <3>6, <3>7, <3>8, <3>9, <3>10, <3>11
    <3>13. w + k <= v
      BY <3>12
    <3> QED BY <2>0, <2>1, <3>1, <3>13 DEF Stake
  <2> QED BY <2>2, <2>3
<1> QED BY <1>5, <1>6, <1>10, <1>11

\* A window reaches as far as the admissions in it.
LEMMA SpentSame ==
    ASSUME NEW a \in [0..MaxTime -> Nat], NEW g \in [0..MaxTime -> Nat],
           NEW s \in 0..MaxTime, NEW t \in Int, t <= MaxTime,
           \A x \in s..t : g[x] = a[x]
    PROVE  Spent(g, s, t) = Spent(a, s, t)
<1>0. MaxTime \in Nat
  BY LimiterConstants
<1>1. PICK D, u, v : D = s..t /\ u = g /\ v = a
  OBVIOUS
<1>2. IsFiniteSet(D)
  BY <1>0, <1>1, FS_Interval
<1>3. \A x \in D : v[x] \in Int /\ u[x] = v[x]
  BY <1>0, <1>1
<1>4. \A S \in SUBSET D : SumFunctionOnSet(u, S) = SumFunctionOnSet(v, S)
  BY ONLY <1>2, <1>3, SumSame
<1> QED BY <1>1, <1>4 DEF Spent

\* One admission more, of client k at time now.
Counted(a, a2, k, now) ==
    /\ a2 \in [Clients -> [0..MaxTime -> Nat]] /\ a2[k][now] = a[k][now] + 1
    /\ \A t \in 0..MaxTime : t # now => a2[k][t] = a[k][t]
    /\ \A c \in Clients : c # k => a2[c] = a[c]

\* Allow gives the token: it moves from what is at stake to what was given.
LEMMA TokenGiven ==
    ASSUME NEW E, NEW b, NEW h, NEW f, NEW a, NEW d, NEW now, Booked(E, b, h, f, a, d, now),
           NEW p \in Procs, h[p] # NoBucket, NEW o \in Object, o.refilled = now,
           Refill(o, now) + 1 = Refill(b[h[p]], now),
           NEW b2 \in [Ids -> Object], b2[h[p]] = o, \A j \in Ids : j # h[p] => b2[j] = b[j],
           NEW h2 \in [Procs -> Ids \cup {NoBucket}], h2[p] = NoBucket,
           \A q \in Procs : q # p => h2[q] = h[q],
           NEW a2, Counted(a, a2, f[p], now)
    PROVE  Booked(E, b2, h2, f, a2, d, now)
<1>0. /\ a2 \in [Clients -> [0..MaxTime -> Nat]] /\ a2[f[p]][now] = a[f[p]][now] + 1
      /\ \A t \in 0..MaxTime : t # now => a2[f[p]][t] = a[f[p]][t]
      /\ \A c \in Clients : c # f[p] => a2[c] = a[c]
  BY DEF Counted
<1>1. /\ Typed(E, b, h, f, a, d, now) /\ Sound(E, b, h, f, now) /\ Future(a, now)
      /\ Within(E, b, h, f, a, d, now) /\ Past(a, d, now)
  BY DEF Booked
<1>2. /\ now \in 0..MaxTime /\ MaxTime \in Nat /\ f[p] \in Clients
      /\ \A c \in Clients : /\ a[c] \in [0..MaxTime -> Nat] /\ a2[c] \in [0..MaxTime -> Nat]
                            /\ d[c] \in Nat
  BY <1>0, <1>1, LimiterConstants DEF Typed
<1>n. now \in 0..MaxTime /\ MaxTime \in Nat
  BY <1>2
<1>3. /\ Typed(E, b2, h2, f, a, d, now) /\ Sound(E, b2, h2, f, now)
      /\ \A c \in Clients : c # f[p] =>
            Stake(E, b2, h2, f, now, c) <= Stake(E, b, h, f, now, c)
      /\ Stake(E, b2, h2, f, now, f[p]) + 1 <= Stake(E, b, h, f, now, f[p])
  BY <1>1, Asked
<1>4. Typed(E, b2, h2, f, a2, d, now)
  BY <1>0, <1>3 DEF Typed
<1>5. Future(a2, now)
  <2>1. ASSUME NEW c \in Clients, NEW t \in 0..MaxTime, t > now PROVE a2[c][t] = a[c][t]
    <3>1. t # now
      BY <1>2, <2>1
    <3> QED BY <1>0, <3>1
  <2> QED BY <1>1, <2>1 DEF Future
<1>6. ASSUME NEW c \in Clients PROVE Stake(E, b, h, f, now, c) \in Int
  <2>1. Due(E, b, now, c) \in Int /\ Loose(E, b, h, f, now, c) \in Int
    BY <1>1, StakeType
  <2> QED BY <2>1 DEF Stake
<1>7. ASSUME NEW c \in Clients PROVE Stake(E, b2, h2, f, now, c) \in Nat
  <2>1. Due(E, b2, now, c) \in 0..Burst /\ Loose(E, b2, h2, f, now, c) \in Nat
    BY <1>3, StakeType
  <2>2. Due(E, b2, now, c) \in Nat
    BY <2>1, LimiterConstants
  <2> QED BY <2>1, <2>2 DEF Stake
<1>8. ASSUME NEW s \in 0..now
      PROVE  Spent(a2[f[p]], s, now) = Spent(a[f[p]], s, now) + 1
  <2>0. PICK g \in [0..MaxTime -> Nat], e \in [0..MaxTime -> Nat] : g = a2[f[p]] /\ e = a[f[p]]
    BY <1>2
  <2>1. s \in 0..MaxTime /\ s <= now /\ now - 1 \in Int /\ now - 1 <= MaxTime
    BY <1>2
  <2>2. Spent(g, s, now) = Spent(g, s, now - 1) + g[now]
    BY <1>2, <2>1, SpentType
  <2>3. Spent(e, s, now) = Spent(e, s, now - 1) + e[now]
    BY <1>2, <2>1, SpentType
  <2>4. \A x \in s..(now - 1) : g[x] = e[x]
    <3>1. ASSUME NEW x \in s..(now - 1) PROVE x \in 0..MaxTime /\ x # now
      BY <1>n, <2>1
    <3> QED BY <1>0, <2>0, <3>1
  <2>5. Spent(g, s, now - 1) = Spent(e, s, now - 1)
    BY <2>1, <2>4, SpentSame
  <2>6. Spent(e, s, now - 1) \in Int
    <3>1. IsFiniteSet(0..MaxTime) /\ s..(now - 1) \in SUBSET (0..MaxTime)
      <4>1. IsFiniteSet(0..MaxTime)
        BY <1>n, FS_Interval
      <4>2. s..(now - 1) \in SUBSET (0..MaxTime)
        BY <1>n, <2>1
      <4> QED BY <4>1, <4>2
    <3>2. \A x \in 0..MaxTime : e[x] \in Int
      OBVIOUS
    <3> QED BY <3>1, <3>2, SumFacts DEF Spent
  <2>7. g[now] = e[now] + 1 /\ e[now] \in Nat
    BY <1>0, <1>2, <2>0
  <2>8. PICK u \in Int, v \in Nat : u = Spent(e, s, now - 1) /\ v = e[now]
    BY <2>6, <2>7
  <2>9. Spent(g, s, now) = u + (v + 1) /\ Spent(e, s, now) = u + v
    BY <2>2, <2>3, <2>5, <2>7, <2>8
  <2>10. Spent(g, s, now) = Spent(e, s, now) + 1
    BY <2>9
  <2> QED BY <2>0, <2>10
<1>9. ASSUME NEW c \in Clients, NEW s \in 0..now
      PROVE  Spent(a2[c], s, now) + Stake(E, b2, h2, f, now, c) <= Limit(d[c], now - s)
  <2>1. s \in 0..MaxTime /\ now - s \in Nat
    BY <1>2
  <2>2. PICK v \in Nat, l \in Nat, x \in Int, y \in Int :
           /\ v = Spent(a[c], s, now) /\ l = Limit(d[c], now - s)
           /\ x = Stake(E, b, h, f, now, c) /\ y = Stake(E, b2, h2, f, now, c)
    <3>1. Spent(a[c], s, now) \in Nat /\ Limit(d[c], now - s) \in Nat
      BY <1>2, <2>1, SpentType, LimitType
    <3> QED BY <1>6, <1>7, <3>1
  <2>3. v + x <= l
    BY <1>1, <2>2 DEF Within
  <2>4. CASE c = f[p]
    <3>1. y + 1 <= x /\ Spent(a2[c], s, now) = v + 1
      BY <1>3, <1>8, <2>2, <2>4
    <3>2. (v + 1) + y <= l
      BY <2>3, <3>1
    <3> QED BY <2>2, <3>1, <3>2
  <2>5. CASE c # f[p]
    <3>1. y <= x /\ Spent(a2[c], s, now) = v
      BY <1>0, <1>3, <2>2, <2>5
    <3>2. v + y <= l
      BY <2>3, <3>1
    <3> QED BY <2>2, <3>1, <3>2
  <2> QED BY <2>4, <2>5
<1>10. ASSUME NEW c \in Clients, NEW s \in 0..now, NEW t \in s..now
       PROVE  Spent(a2[c], s, t) <= Limit(d[c], t - s)
  <2>1. s \in 0..MaxTime /\ t \in 0..MaxTime /\ t - s \in Nat
    BY <1>n
  <2>2. Spent(a2[c], s, t) \in Nat /\ Limit(d[c], t - s) \in Nat
    BY <1>2, <2>1, SpentType, LimitType
  <2>3. CASE t = now
    <3>1. PICK v \in Nat, l \in Nat, y \in Nat :
             /\ v = Spent(a2[c], s, now) /\ l = Limit(d[c], now - s)
             /\ y = Stake(E, b2, h2, f, now, c)
      BY <1>7, <2>2, <2>3
    <3>2. v + y <= l
      BY <1>9, <3>1
    <3>3. v <= l
      BY <3>2
    <3> QED BY <2>3, <3>1, <3>3
  <2>4. CASE t # now
    <3>1. \A x \in s..t : a2[c][x] = a[c][x]
      <4>1. ASSUME NEW x \in s..t PROVE x \in 0..MaxTime /\ x # now
        BY <1>2, <2>1, <2>4
      <4> QED BY <1>0, <4>1
    <3>2. Spent(a2[c], s, t) = Spent(a[c], s, t)
      <4>1. t \in Int /\ t <= MaxTime
        BY <1>2, <2>1
      <4> QED BY <1>2, <2>1, <3>1, <4>1, SpentSame
    <3> QED BY <1>1, <3>2 DEF Past
  <2> QED BY <2>3, <2>4
<1> QED BY <1>3, <1>4, <1>5, <1>9, <1>10 DEF Booked, Within, Past

\* Allow refuses: the object was refilled, and nothing was given.
LEMMA TokenRefused ==
    ASSUME NEW E, NEW b, NEW h, NEW f, NEW a, NEW d, NEW now, Booked(E, b, h, f, a, d, now),
           NEW p \in Procs, h[p] # NoBucket, NEW o \in Object, o.refilled = now,
           Refill(o, now) = Refill(b[h[p]], now),
           NEW b2 \in [Ids -> Object], b2[h[p]] = o, \A j \in Ids : j # h[p] => b2[j] = b[j],
           NEW h2 \in [Procs -> Ids \cup {NoBucket}], h2[p] = NoBucket,
           \A q \in Procs : q # p => h2[q] = h[q]
    PROVE  Booked(E, b2, h2, f, a, d, now)
<1>1. Typed(E, b, h, f, a, d, now) /\ Sound(E, b, h, f, now)
  BY DEF Booked
<1>2. Refill(o, now) + 0 = Refill(b[h[p]], now) /\ 0 \in Nat
  <2>1. Refill(o, now) \in 0..Burst
    <3>1. now \in 0..MaxTime /\ o.refilled <= now
      BY <1>1, LimiterConstants DEF Typed
    <3> QED BY <3>1, RefillRange
  <2>2. Refill(o, now) \in Nat
    BY <2>1, LimiterConstants
  <2> QED BY <2>2
<1>3. /\ Typed(E, b2, h2, f, a, d, now) /\ Sound(E, b2, h2, f, now)
      /\ \A c \in Clients : c # f[p] =>
            Stake(E, b2, h2, f, now, c) <= Stake(E, b, h, f, now, c)
      /\ Stake(E, b2, h2, f, now, f[p]) + 0 <= Stake(E, b, h, f, now, f[p])
  BY <1>1, <1>2, Asked
<1>4. f[p] \in Clients
  BY <1>1 DEF Typed
<1>5. Stake(E, b2, h2, f, now, f[p]) <= Stake(E, b, h, f, now, f[p])
  <2>1. Due(E, b2, now, f[p]) \in 0..Burst /\ Loose(E, b2, h2, f, now, f[p]) \in Nat
    BY <1>3, <1>4, StakeType
  <2>2. Stake(E, b2, h2, f, now, f[p]) \in Nat
    BY <2>1, LimiterConstants DEF Stake
  <2> QED BY <1>3, <2>2
<1>6. \A c \in Clients : Stake(E, b2, h2, f, now, c) <= Stake(E, b, h, f, now, c)
  BY <1>3, <1>5
<1> QED BY <1>3, <1>6, Rebooked DEF Typed

\* The clock ticks while nobody holds an object: every bucket gains at most Rate,
\* and a window that begins now has a burst to give.
LEMMA TimePasses ==
    ASSUME NEW E, NEW b, NEW h, NEW f, NEW a, NEW d, NEW now, Booked(E, b, h, f, a, d, now),
           \A p \in Procs : h[p] = NoBucket, NEW then \in 0..MaxTime, then = now + 1
    PROVE  Booked(E, b, h, f, a, d, then)
<1>1. /\ Typed(E, b, h, f, a, d, now) /\ Sound(E, b, h, f, now) /\ Future(a, now)
      /\ Within(E, b, h, f, a, d, now) /\ Past(a, d, now)
  BY DEF Booked
<1>2. /\ now \in 0..MaxTime /\ MaxTime \in Nat /\ Rate \in Nat /\ Burst \in Nat
      /\ E \in SUBSET Elem /\ b \in [Ids -> Object]
      /\ \A c \in Clients : a[c] \in [0..MaxTime -> Nat] /\ d[c] \in Nat
  BY <1>1, LimiterConstants DEF Typed
<1>3. Typed(E, b, h, f, a, d, then)
  BY <1>1 DEF Typed
<1>4. Sound(E, b, h, f, then)
  <2>1. \A e \in E : e.id \in Ids /\ e.accessed \in Nat
    BY <1>2, ElemFields
  <2>2. \A e \in E : e.accessed <= then
    <3>1. \A e \in E : e.accessed <= now
      BY <1>1 DEF Sound
    <3> QED BY <1>2, <2>1, <3>1
  <2>3. \A i \in Ids : b[i].refilled <= then
    <3>1. ASSUME NEW i \in Ids PROVE b[i].refilled \in 0..MaxTime /\ b[i].refilled <= now
      BY <1>1, <1>2 DEF Sound, Object
    <3> QED BY <1>2, <3>1
  <2>4. \A p \in Procs : \A e \in E : h[p] # e.id
    BY <2>1, LimiterConstants
  <2> QED BY <1>1, <2>2, <2>3, <2>4 DEF Sound
<1>5. Future(a, then)
  BY <1>1, <1>2 DEF Future
<1>6. ASSUME NEW c \in Clients
      PROVE  /\ Stake(E, b, h, f, then, c) \in 0..Burst
             /\ Stake(E, b, h, f, now, c) \in Nat
             /\ Stake(E, b, h, f, then, c) <= Stake(E, b, h, f, now, c) + Rate
  <2>1. Detached(E, h, f, c) = {}
    BY LimiterConstants DEF Detached
  <2>2. Loose(E, b, h, f, then, c) = 0 /\ Loose(E, b, h, f, now, c) = 0
    <3>1. IsFiniteSet({}) /\ \A x \in {} : x \in Int
      BY FS_EmptySet
    <3>2. \A g : SumFunctionOnSet(g, {}) = 0
      BY <3>1, SumFacts
    <3> QED BY <2>1, <3>2 DEF Loose
  <2>3. Due(E, b, then, c) \in 0..Burst
    BY <1>3, <1>4, StakeType
  <2>4. Due(E, b, now, c) \in 0..Burst
    BY <1>1, StakeType
  <2>5. Due(E, b, then, c) <= Due(E, b, now, c) + Rate
    <3>0. \A x, y \in E : x.key = y.key \/ x.id = y.id => x = y
      BY <1>1 DEF Sound
    <3>1. CASE \A e \in E : e.key # c
      <4>1. Due(E, b, then, c) = Burst
        BY <3>0, <3>1, DueIs
      <4>2. Due(E, b, now, c) = Burst
        BY <3>0, <3>1, DueIs
      <4> QED BY <1>2, <4>1, <4>2
    <3>2. CASE \E e \in E : e.key = c
      <4>1. PICK e \in E : e.key = c
        BY <3>2
      <4>2. Due(E, b, then, c) = Refill(b[e.id], then)
        BY <3>0, <4>1, DueIs
      <4>3. Due(E, b, now, c) = Refill(b[e.id], now)
        BY <3>0, <4>1, DueIs
      <4>4. e.id \in Ids
        BY <1>2, ElemFields
      <4>5. b[e.id] \in Object /\ b[e.id].refilled <= now
        BY <1>1, <1>2, <4>4 DEF Sound
      <4>6. Refill(b[e.id], now + 1) <= Refill(b[e.id], now) + Rate
        BY <1>2, <4>5, RefillRange
      <4> QED BY <4>2, <4>3, <4>6
    <3> QED BY <3>1, <3>2
  <2> HIDE DEF Due, Loose
  <2>6. PICK x \in 0..Burst, y \in 0..Burst : x = Due(E, b, then, c) /\ y = Due(E, b, now, c)
    BY <2>3, <2>4
  <2>7. Stake(E, b, h, f, then, c) = x /\ Stake(E, b, h, f, now, c) = y
    BY <1>2, <2>2, <2>6 DEF Stake
  <2> QED BY <1>2, <2>5, <2>6, <2>7
<1>7. ASSUME NEW c \in Clients PROVE a[c][then] = 0
  BY <1>1, <1>2 DEF Future
<1>8. ASSUME NEW c \in Clients, NEW s \in 0..then
      PROVE  Spent(a[c], s, then) + Stake(E, b, h, f, then, c) <= Limit(d[c], then - s)
  <2>1. PICK x \in 0..Burst, y \in Nat :
           x = Stake(E, b, h, f, then, c) /\ y = Stake(E, b, h, f, now, c)
    BY <1>6
  <2>2. x <= y + Rate
    BY <1>6, <2>1
  <2>3. s \in 0..MaxTime /\ s <= then
    BY <1>2
  <2>4. Spent(a[c], s, then) = Spent(a[c], s, then - 1) + 0
    BY <1>2, <1>7, <2>3, SpentType
  <2>5. CASE s = then
    <3>1. Spent(a[c], s, then - 1) = 0
      BY <1>2, <2>3, <2>5, SpentType
    <3>2. then - s = 0 /\ 0 \in Nat
      BY <1>2, <2>5
    <3>3. Limit(d[c], 0) >= Burst /\ Limit(d[c], 0) \in Nat
      BY <1>2, LimitType
    <3> QED BY <1>2, <2>1, <2>4, <3>1, <3>2, <3>3
  <2>6. CASE s # then
    <3>1. s \in 0..now /\ then - 1 = now /\ now - s \in Nat /\ then - s = (now - s) + 1
      BY <1>2, <2>6
    <3>2. PICK v \in Nat, l \in Nat, k \in Nat :
             v = Spent(a[c], s, now) /\ l = Limit(d[c], now - s) /\ k = now - s
      BY <1>2, <2>3, <3>1, SpentType, LimitType
    <3>3. v + y <= l
      BY <1>1, <2>1, <3>1, <3>2 DEF Within
    <3>4. Limit(d[c], k + 1) = l + Rate
      BY <1>2, <3>2, LimitType
    <3>5. Limit(d[c], then - s) = l + Rate
      BY <3>1, <3>2, <3>4
    <3>6. Spent(a[c], s, then) = v
      BY <2>4, <3>1, <3>2
    <3>7. v + x <= l + Rate
      BY <1>2, <2>2, <3>3
    <3> QED BY <2>1, <3>5, <3>6, <3>7
  <2> QED BY <2>5, <2>6
<1>9. ASSUME NEW c \in Clients, NEW s \in 0..then, NEW t \in s..then
      PROVE  Spent(a[c], s, t) <= Limit(d[c], t - s)
  <2>1. CASE t = then
    <3>1. s \in 0..MaxTime /\ then - s \in Nat
      BY <1>2
    <3>2. PICK v \in Nat, l \in Nat, y \in 0..Burst :
             /\ v = Spent(a[c], s, then) /\ l = Limit(d[c], then - s)
             /\ y = Stake(E, b, h, f, then, c)
      BY <1>2, <1>6, <3>1, SpentType, LimitType
    <3>3. v + y <= l
      BY <1>8, <3>2
    <3>4. v <= l
      BY <1>2, <3>2, <3>3
    <3> QED BY <2>1, <3>2, <3>4
  <2>2. CASE t # then
    <3>1. s \in 0..now /\ t \in s..now
      BY <1>2, <2>2
    <3> QED BY <1>1, <3>1 DEF Past
  <2> QED BY <2>1, <2>2
<1> QED BY <1>3, <1>4, <1>5, <1>8, <1>9 DEF Booked, Within, Past

-----------------------------------------------------------------------------
(* The list of the limiter, and the objects that are free.                 *)

\* Of the numbers up to n, a largest one.
LEMMA Greatest ==
    ASSUME NEW n \in Nat, NEW T \in SUBSET (1..n), T # {}
    PROVE  Max(T) \in T /\ \A x \in T : x <= Max(T)
<1> DEFINE C == {n - x : x \in T}
           P(x) == x \in T /\ \A y \in T : x >= y
<1>0. \A x \in T : n - x \in Nat
  OBVIOUS
<1>1. C \in SUBSET Nat /\ C # {}
  BY <1>0, Zenon
<1>2. PICK m \in C : \A k \in C : m <= k
  <2> HIDE DEF C
  <2> QED BY <1>1, Least
<1>3. PICK x \in T : m = n - x
  BY <1>2
<1>4. ASSUME NEW y \in T PROVE x >= y
  <2>1. n - x <= n - y
    BY <1>2, <1>3
  <2>2. x \in Nat /\ y \in Nat
    OBVIOUS
  <2> QED BY <2>1, <2>2
<1>5. \E y : P(y)
  BY <1>4
<1>6. Max(T) = CHOOSE y : P(y)
  BY DEF Max
<1>7. P(Max(T))
  <2> HIDE DEF P
  <2> QED BY <1>5, <1>6, Zenon
<1> QED BY <1>7

\* The smallest number of a set is one of them.
LEMMA SmallestIsOne ==
    ASSUME NEW T \in SUBSET Nat, T # {}
    PROVE  Min(T) \in T
<1> DEFINE P(x) == x \in T /\ \A y \in T : x <= y
<1>1. \E y : P(y)
  BY Least
<1>2. Min(T) = CHOOSE y : P(y)
  BY DEF Min
<1>3. P(Min(T))
  <2> HIDE DEF P
  <2> QED BY <1>1, <1>2, Zenon
<1> QED BY <1>3

\* A function has no more values than arguments.
LEMMA FewValues ==
    ASSUME NEW S, IsFiniteSet(S), NEW g
    PROVE  IsFiniteSet({g[x] : x \in S}) /\ Cardinality({g[x] : x \in S}) <= Cardinality(S)
<1> DEFINE T == {g[x] : x \in S}
           k == [x \in S |-> g[x]]
<1>1. k \in Surjection(S, T)
  BY DEF Surjection
<1>2. IsFiniteSet(T) /\ Cardinality(T) <= Cardinality(S)
  <2> HIDE DEF T, k
  <2> QED BY <1>1, FS_Surjection
<1> QED BY <1>2

\* The list has no more than maxBuckets elements, for different clients and with
\* different objects.
Distinct(l) ==
    \A i, j \in 1..Len(l) : i # j => l[i].key # l[j].key /\ l[i].id # l[j].id
Listed(l) == l \in Seq(Elem) /\ Len(l) <= MaxBuckets /\ Distinct(l)
Entered(l) == {l[k] : k \in DOMAIN l}

\* The list as a set of elements.
LEMMA ListFacts ==
    ASSUME NEW l, Listed(l)
    PROVE  /\ Len(l) \in Nat /\ DOMAIN l = 1..Len(l) /\ \A k \in 1..Len(l) : l[k] \in Elem
           /\ Entered(l) = {l[k] : k \in 1..Len(l)} /\ Entered(l) \in SUBSET Elem
<1>1. Len(l) \in Nat /\ DOMAIN l = 1..Len(l) /\ \A k \in 1..Len(l) : l[k] \in Elem
  BY DEF Listed
<1> QED BY <1>1 DEF Entered

\* The first n elements.
LEMMA Prefix ==
    ASSUME NEW l, Listed(l), NEW n \in 0..Len(l)
    PROVE  /\ Listed(SubSeq(l, 1, n)) /\ Len(SubSeq(l, 1, n)) = n
           /\ Entered(SubSeq(l, 1, n)) = {l[k] : k \in 1..n}
           /\ \A k \in 1..n : SubSeq(l, 1, n)[k] = l[k]
<1>0. Len(l) \in Nat /\ MaxBuckets \in Nat /\ n \in Nat /\ n <= Len(l) /\ Len(l) <= MaxBuckets
  BY ListFacts, LimiterConstants DEF Listed
<1>1. \A k \in 1..n : k \in 1..Len(l) /\ l[k] \in Elem
  BY <1>0, ListFacts
<1> DEFINE m == SubSeq(l, 1, n)
<1>2. m \in Seq(Elem) /\ Len(m) = n /\ \A k \in 1..n : m[k] = l[k]
  <2>1. m \in Seq(Elem)
    BY <1>1, <1>0, SubSeqProperties
  <2>2. Len(m) = IF 1 <= n THEN n - 1 + 1 ELSE 0
    BY <1>1, <1>0, SubSeqProperties
  <2>3. \A i \in 1..(n - 1 + 1) : m[i] = l[1 + i - 1]
    BY <1>1, <1>0, SubSeqProperties
  <2> HIDE DEF m
  <2> QED BY <1>0, <2>1, <2>2, <2>3
<1> HIDE DEF m
<1>3. Distinct(m)
  BY <1>1, <1>2 DEF Distinct, Listed
<1>4. Listed(m)
  BY <1>0, <1>2, <1>3 DEF Listed
<1>5. Entered(m) = {l[k] : k \in 1..n}
  BY <1>2, <1>4, ListFacts
<1> QED BY <1>2, <1>4, <1>5 DEF m

\* An element in front.
LEMMA Pushed ==
    ASSUME NEW l, Listed(l), Len(l) < MaxBuckets, NEW y \in Elem,
           \A k \in 1..Len(l) : l[k].key # y.key /\ l[k].id # y.id
    PROVE  Listed(<<y>> \o l) /\ Entered(<<y>> \o l) = Entered(l) \cup {y}
<1>0. Len(l) \in Nat /\ MaxBuckets \in Nat /\ l \in Seq(Elem)
  BY ListFacts, LimiterConstants DEF Listed
<1> DEFINE m == <<y>> \o l
<1>1. /\ m \in Seq(Elem) /\ Len(m) = Len(l) + 1 /\ m[1] = y
      /\ \A k \in 2..(Len(l) + 1) : m[k] = l[k - 1]
  <2>1. <<y>> \in Seq(Elem) /\ Len(<<y>>) = 1 /\ <<y>>[1] = y
    OBVIOUS
  <2>2. PICK u \in Seq(Elem) : u = <<y>>
    BY <2>1
  <2>3. /\ u \o l \in Seq(Elem) /\ Len(u \o l) = Len(u) + Len(l)
        /\ \A i \in 1..(Len(u) + Len(l)) : (u \o l)[i] = IF i <= Len(u) THEN u[i] ELSE l[i - Len(u)]
    BY <1>0, ConcatProperties
  <2>4. m = u \o l /\ Len(u) = 1 /\ u[1] = y
    BY <2>1, <2>2
  <2> HIDE DEF m
  <2> QED BY <1>0, <2>3, <2>4
<1> HIDE DEF m
<1>2. \A k \in 2..(Len(l) + 1) : k - 1 \in 1..Len(l) /\ m[k] = l[k - 1]
  BY <1>0, <1>1
<1>3. Distinct(m)
  <2>1. ASSUME NEW i \in 1..Len(m), NEW j \in 1..Len(m), i # j
        PROVE  m[i].key # m[j].key /\ m[i].id # m[j].id
    <3>1. CASE i = 1
      <4>1. j \in 2..(Len(l) + 1)
        BY <1>0, <1>1, <2>1, <3>1
      <4> QED BY <1>1, <1>2, <3>1, <4>1
    <3>2. CASE j = 1
      <4>1. i \in 2..(Len(l) + 1)
        BY <1>0, <1>1, <2>1, <3>2
      <4> QED BY <1>1, <1>2, <3>2, <4>1
    <3>3. CASE i # 1 /\ j # 1
      <4>1. i \in 2..(Len(l) + 1) /\ j \in 2..(Len(l) + 1) /\ i - 1 # j - 1
        BY <1>0, <1>1, <2>1, <3>3
      <4> QED BY <1>2, <4>1 DEF Listed, Distinct
    <3> QED BY <3>1, <3>2, <3>3
  <2> QED BY <2>1 DEF Distinct
<1>4. Listed(m)
  BY <1>0, <1>1, <1>3 DEF Listed
<1>5. Entered(m) = Entered(l) \cup {y}
  <2>1. Entered(m) = {m[k] : k \in 1..Len(m)} /\ Entered(l) = {l[k] : k \in 1..Len(l)}
    BY <1>4, ListFacts
  <2>2. ASSUME NEW k \in 1..Len(m) PROVE m[k] \in Entered(l) \cup {y}
    <3>1. CASE k = 1
      BY <1>1, <3>1
    <3>2. CASE k # 1
      <4>1. k \in 2..(Len(l) + 1)
        BY <1>0, <1>1, <3>2
      <4> QED BY <1>2, <2>1, <4>1
    <3> QED BY <3>1, <3>2
  <2>3. ASSUME NEW k \in 1..Len(l) PROVE l[k] \in Entered(m)
    <3>1. k + 1 \in 2..(Len(l) + 1) /\ k + 1 \in 1..Len(m) /\ (k + 1) - 1 = k
      BY <1>0, <1>1
    <3>2. m[k + 1] = l[k]
      BY <1>2, <3>1
    <3> QED BY <2>1, <3>1, <3>2
  <2>4. y \in Entered(m)
    <3>1. 1 \in 1..Len(m)
      BY <1>0, <1>1
    <3> QED BY <1>1, <2>1, <3>1
  <2> QED BY <2>1, <2>2, <2>3, <2>4
<1> QED BY <1>4, <1>5 DEF m

\* The list without its element i.
LEMMA Removed ==
    ASSUME NEW l, Listed(l), NEW i \in 1..Len(l)
    PROVE  /\ Listed(RemoveAt(l, i)) /\ Len(RemoveAt(l, i)) = Len(l) - 1
           /\ Entered(RemoveAt(l, i)) = Entered(l) \ {l[i]}
<1>0. Len(l) \in Nat /\ MaxBuckets \in Nat /\ l \in Seq(Elem) /\ Len(l) <= MaxBuckets
  BY ListFacts, LimiterConstants DEF Listed
<1>1. \A k \in 1..Len(l) : l[k] \in Elem
  BY ListFacts
<1> DEFINE u == SubSeq(l, 1, i - 1)
           v == SubSeq(l, i + 1, Len(l))
           m == RemoveAt(l, i)
<1>2. u \in Seq(Elem) /\ Len(u) = i - 1 /\ \A k \in 1..(i - 1) : u[k] = l[k]
  <2>0. i - 1 \in 0..Len(l)
    BY <1>0
  <2> QED BY <2>0, Prefix DEF Listed
<1>3. v \in Seq(Elem) /\ Len(v) = Len(l) - i /\ \A k \in 1..(Len(l) - i) : v[k] = l[k + i]
  <2>0. PICK a \in Int, c \in Int : a = i + 1 /\ c = Len(l)
    BY <1>0
  <2>1. \A k \in a..c : l[k] \in Elem
    BY <1>0, <1>1, <2>0
  <2>2. SubSeq(l, a, c) \in Seq(Elem)
    BY <2>1, SubSeqProperties
  <2>3. Len(SubSeq(l, a, c)) = IF a <= c THEN c - a + 1 ELSE 0
    BY <2>1, SubSeqProperties
  <2>4. \A k \in 1..(c - a + 1) : SubSeq(l, a, c)[k] = l[a + k - 1]
    BY <2>1, SubSeqProperties
  <2>5. c - a + 1 = Len(l) - i /\ \A k \in Int : a + k - 1 = k + i
    BY <1>0, <2>0
  <2>6. v = SubSeq(l, a, c)
    BY <2>0
  <2> HIDE DEF v
  <2>7. Len(v) = Len(l) - i
    BY <1>0, <2>0, <2>3, <2>6
  <2> QED BY <2>2, <2>4, <2>5, <2>6, <2>7
<1> HIDE DEF u, v
<1>4. m = u \o v
  BY DEF u, v, RemoveAt
<1> HIDE DEF m
<1>5. /\ m \in Seq(Elem) /\ Len(m) = Len(l) - 1
      /\ \A k \in 1..Len(m) : m[k] = IF k < i THEN l[k] ELSE l[k + 1]
  <2>1. /\ u \o v \in Seq(Elem) /\ Len(u \o v) = Len(u) + Len(v)
        /\ \A k \in 1..(Len(u) + Len(v)) : (u \o v)[k] = IF k <= Len(u) THEN u[k] ELSE v[k - Len(u)]
    BY <1>2, <1>3, ConcatProperties
  <2>2. Len(m) = Len(l) - 1 /\ Len(u) + Len(v) = Len(m)
    BY <1>0, <1>2, <1>3, <1>4, <2>1
  <2>3. ASSUME NEW k \in 1..Len(m) PROVE m[k] = IF k < i THEN l[k] ELSE l[k + 1]
    <3>1. m[k] = IF k <= i - 1 THEN u[k] ELSE v[k - (i - 1)]
      BY <1>2, <1>4, <2>1, <2>2
    <3>2. CASE k < i
      <4>1. k \in 1..(i - 1) /\ k <= i - 1
        BY <1>0, <2>2, <3>2
      <4> QED BY <1>2, <3>1, <3>2, <4>1
    <3>3. CASE ~(k < i)
      <4>1. ~(k <= i - 1) /\ k - (i - 1) \in 1..(Len(l) - i) /\ (k - (i - 1)) + i = k + 1
        BY <1>0, <2>2, <3>3
      <4>2. v[k - (i - 1)] = l[(k - (i - 1)) + i]
        BY <1>3, <4>1
      <4> QED BY <3>1, <3>3, <4>1, <4>2
    <3> QED BY <3>2, <3>3
  <2> QED BY <1>4, <2>1, <2>2, <2>3
<1> DEFINE w(k) == IF k < i THEN k ELSE k + 1
<1>6. /\ \A k \in 1..Len(m) : w(k) \in 1..Len(l) /\ w(k) # i /\ m[k] = l[w(k)]
      /\ \A k, j \in 1..Len(m) : k # j => w(k) # w(j)
      /\ \A j \in 1..Len(l) : j # i => \E k \in 1..Len(m) : w(k) = j
  <2>1. ASSUME NEW k \in 1..Len(m) PROVE w(k) \in 1..Len(l) /\ w(k) # i /\ m[k] = l[w(k)]
    BY <1>0, <1>5
  <2>2. ASSUME NEW k \in 1..Len(m), NEW j \in 1..Len(m), k # j PROVE w(k) # w(j)
    BY <1>0, <1>5, <2>2
  <2>3. ASSUME NEW j \in 1..Len(l), j # i PROVE \E k \in 1..Len(m) : w(k) = j
    <3>1. CASE j < i
      <4>1. j \in 1..Len(m) /\ w(j) = j
        BY <1>0, <1>5, <3>1
      <4> QED BY <4>1
    <3>2. CASE j > i
      <4>1. j - 1 \in 1..Len(m) /\ w(j - 1) = j
        BY <1>0, <1>5, <3>2
      <4> QED BY <4>1
    <3> QED BY <1>0, <2>3, <3>1, <3>2
  <2> QED BY <2>1, <2>2, <2>3
<1> HIDE DEF w
<1>7. Distinct(m)
  <2>1. \A j, k \in 1..Len(l) : j # k => l[j].key # l[k].key /\ l[j].id # l[k].id
    BY DEF Listed, Distinct
  <2>2. ASSUME NEW j \in 1..Len(m), NEW k \in 1..Len(m), j # k
        PROVE  m[j].key # m[k].key /\ m[j].id # m[k].id
    <3>1. PICK y \in 1..Len(l), z \in 1..Len(l) : y = w(j) /\ z = w(k)
      BY <1>6
    <3>2. y # z /\ m[j] = l[y] /\ m[k] = l[z]
      BY <1>6, <2>2, <3>1
    <3> QED BY <2>1, <3>2
  <2> QED BY <2>2 DEF Distinct
<1>8. Listed(m)
  BY <1>0, <1>5, <1>7 DEF Listed
<1>9. Entered(m) = Entered(l) \ {l[i]}
  <2>1. Entered(m) = {m[k] : k \in 1..Len(m)} /\ Entered(l) = {l[k] : k \in 1..Len(l)}
    BY <1>8, ListFacts
  <2>2. \A k \in 1..Len(l) : k # i => l[k] # l[i]
    BY DEF Listed, Distinct
  <2>3. ASSUME NEW k \in 1..Len(m) PROVE m[k] \in Entered(l) /\ m[k] # l[i]
    BY <1>6, <2>1, <2>2
  <2>4. ASSUME NEW j \in 1..Len(l), l[j] # l[i] PROVE l[j] \in Entered(m)
    <3>1. PICK k \in 1..Len(m) : w(k) = j
      BY <1>6, <2>4
    <3> QED BY <1>6, <2>1, <3>1
  <2> QED BY <2>1, <2>3, <2>4
<1> QED BY <1>5, <1>8, <1>9 DEF m

\* What Fresh drops was idle for longer than idleTTL.
LEMMA FreshFacts ==
    ASSUME NEW l, Listed(l), clock \in 0..MaxTime
    PROVE  /\ Listed(Fresh(l)) /\ Entered(Fresh(l)) \in SUBSET Entered(l)
           /\ \A e \in Entered(l) : e \notin Entered(Fresh(l)) => clock - e.accessed > IdleTTL
           /\ \A k \in 1..Len(l) : l[k] \notin Entered(Fresh(l)) => k > Len(Fresh(l))
           /\ \A k \in 1..Len(l) : k > Len(Fresh(l)) => clock - l[k].accessed > IdleTTL
<1>0. /\ Len(l) \in Nat /\ DOMAIN l = 1..Len(l) /\ Entered(l) = {l[k] : k \in 1..Len(l)}
      /\ \A k \in 1..Len(l) : l[k].accessed \in Nat
      /\ IdleTTL \in Nat /\ clock \in Nat
  BY ListFacts, ElemFields, LimiterConstants
<1> DEFINE recent == {i \in DOMAIN l : clock - l[i].accessed <= IdleTTL}
           n == IF recent = {} THEN 0 ELSE Max(recent)
<1>1. recent \in SUBSET (1..Len(l))
  BY <1>0
<1>2. \A k \in 1..Len(l) : k \notin recent => clock - l[k].accessed > IdleTTL
  BY <1>0
<1> HIDE DEF recent
<1>3. n \in 0..Len(l) /\ \A k \in recent : k <= n
  <2>1. CASE recent = {}
    BY <1>0, <2>1
  <2>2. CASE recent # {}
    <3>1. Max(recent) \in recent /\ \A x \in recent : x <= Max(recent)
      BY <1>0, <1>1, <2>2, Greatest
    <3>2. n = Max(recent)
      BY <2>2
    <3> HIDE DEF n
    <3>3. n \in 1..Len(l)
      BY <1>1, <3>1, <3>2
    <3>4. n \in 0..Len(l)
      BY <1>0, <3>3
    <3> QED BY <3>1, <3>2, <3>4
  <2> QED BY <2>1, <2>2
<1>4. Fresh(l) = SubSeq(l, 1, n)
  BY DEF Fresh, recent
<1> HIDE DEF n
<1>5. /\ Listed(SubSeq(l, 1, n)) /\ Entered(SubSeq(l, 1, n)) = {l[k] : k \in 1..n}
      /\ Len(SubSeq(l, 1, n)) = n
  BY <1>3, Prefix
<1>6. {l[k] : k \in 1..n} \in SUBSET Entered(l)
  <2>1. \A k \in 1..n : k \in 1..Len(l)
    BY <1>0, <1>3
  <2> QED BY <1>0, <2>1
<1>7. ASSUME NEW k \in 1..Len(l), l[k] \notin {l[j] : j \in 1..n}
      PROVE  clock - l[k].accessed > IdleTTL /\ k > n
  <2>1. k \notin 1..n
    BY <1>7
  <2>2. ~(k <= n) /\ k > n
    BY <1>0, <1>3, <2>1
  <2> QED BY <1>2, <1>3, <2>2
<1>8. ASSUME NEW k \in 1..Len(l), k > n PROVE clock - l[k].accessed > IdleTTL
  <2>1. ~(k <= n)
    BY <1>0, <1>3, <1>8
  <2> QED BY <1>2, <1>3, <2>1
<1> QED BY <1>0, <1>4, <1>5, <1>6, <1>7, <1>8

\* The objects in the list l or in the hands of a request.
Taken(l, h) == {l[k].id : k \in DOMAIN l} \cup {h[q] : q \in Procs}

\* A request that holds nothing finds an object that is in no list and in
\* nobody's hands.
LEMMA FreeObject ==
    ASSUME NEW l, Listed(l), NEW h \in [Procs -> Ids \cup {NoBucket}],
           NEW p \in Procs, h[p] = NoBucket
    PROVE  Min(Ids \ Taken(l, h)) \in Ids \ Taken(l, h)
<1>0. /\ Len(l) \in Nat /\ DOMAIN l = 1..Len(l) /\ Len(l) <= MaxBuckets
      /\ MaxBuckets \in Nat /\ Cardinality(Procs) \in Nat /\ IsFiniteSet(Procs)
      /\ NoBucket \notin Ids /\ Cardinality(Ids) = MaxBuckets + Cardinality(Procs)
  BY ListFacts, LimiterConstants DEF Listed
<1> DEFINE g == [k \in 1..Len(l) |-> l[k].id]
           A == {g[k] : k \in 1..Len(l)}
           B == {h[q] : q \in Procs \ {p}}
<1>1. IsFiniteSet(A) /\ Cardinality(A) <= Len(l) /\ Cardinality(A) \in Nat
  <2>0. PICK n \in Nat : n = Len(l)
    BY <1>0
  <2>1. IsFiniteSet(1..n) /\ Cardinality(1..n) = IF 1 > n THEN 0 ELSE n - 1 + 1
    BY FS_Interval
  <2>2. IsFiniteSet(1..Len(l)) /\ Cardinality(1..Len(l)) = Len(l)
    BY <2>0, <2>1
  <2>3. IsFiniteSet(A) /\ Cardinality(A) <= Cardinality(1..Len(l))
    <3> HIDE DEF g
    <3> QED BY <2>2, FewValues
  <2> HIDE DEF A
  <2> QED BY <2>2, <2>3, FS_CardinalityType
<1>2. IsFiniteSet(B) /\ Cardinality(B) <= Cardinality(Procs) - 1 /\ Cardinality(B) \in Nat
  <2>1. IsFiniteSet(Procs \ {p}) /\ Cardinality(Procs \ {p}) = Cardinality(Procs) - 1
    BY <1>0, FS_RemoveElement
  <2>2. IsFiniteSet(B) /\ Cardinality(B) <= Cardinality(Procs \ {p})
    BY <2>1, FewValues
  <2> HIDE DEF B
  <2> QED BY <2>1, <2>2, FS_CardinalityType
<1>3. A = {l[k].id : k \in DOMAIN l}
  BY <1>0
<1>4. \A i \in Ids : i \in Taken(l, h) => i \in A \cup B
  BY <1>0, <1>3 DEF Taken
<1> HIDE DEF A, B
<1>5. Ids \ Taken(l, h) # {}
  <2> SUFFICES ASSUME Ids \ Taken(l, h) = {} PROVE FALSE
    OBVIOUS
  <2>1. Ids \in SUBSET (A \cup B)
    BY <1>4
  <2>2. IsFiniteSet(A \cup B) /\ Cardinality(A \cup B) = Cardinality(A) + Cardinality(B) - Cardinality(A \cap B)
    BY <1>1, <1>2, FS_Union
  <2>3. Cardinality(A \cap B) \in Nat
    <3>1. A \cap B \in SUBSET A
      OBVIOUS
    <3>2. IsFiniteSet(A \cap B)
      BY <1>1, <3>1, FS_Subset
    <3> QED BY <3>2, FS_CardinalityType
  <2>4. Cardinality(Ids) <= Cardinality(A \cup B)
    BY <2>1, <2>2, FS_Subset
  <2>5. PICK x \in Nat, y \in Nat, z \in Nat, m \in Nat, r \in Nat, n \in Nat :
           /\ x = Cardinality(A) /\ y = Cardinality(B) /\ z = Cardinality(A \cap B)
           /\ m = MaxBuckets /\ r = Cardinality(Procs) /\ n = Len(l)
    BY <1>0, <1>1, <1>2, <2>3
  <2>6. m + r <= x + y - z /\ x <= n /\ n <= m /\ y <= r - 1
    BY <1>0, <1>1, <1>2, <2>2, <2>4, <2>5
  <2> QED BY <2>6
<1>6. Ids \ Taken(l, h) \in SUBSET Nat
  BY <1>0 DEF Ids
<1> QED BY <1>5, <1>6, SmallestIsOne

\* The objects nobody refers to.
LEMMA GarbageGone ==
    ASSUME NEW l, Listed(l), NEW b, NEW h, NEW f, NEW a, NEW d, NEW now,
           Booked(Entered(l), b, h, f, a, d, now)
    PROVE  Booked(Entered(l), Collected(l, h, b), h, f, a, d, now)
<1> DEFINE b2 == Collected(l, h, b)
<1>1. /\ b \in [Ids -> Object] /\ h \in [Procs -> Ids \cup {NoBucket}] /\ now \in 0..MaxTime
      /\ \A i \in Ids : b[i].refilled <= now
  BY DEF Booked, Typed, Sound
<1>2. Unused \in Object /\ Unused.refilled = 0 /\ 0 <= now
  BY <1>1, LimiterConstants DEF Unused, Object
<1>3. /\ b2 \in [Ids -> Object]
      /\ \A i \in Ids : i \in Taken(l, h) => b2[i] = b[i]
      /\ \A i \in Ids : b2[i] = b[i] \/ b2[i] = Unused
  <2>1. b2 = [i \in Ids |-> IF i \in Taken(l, h) THEN b[i] ELSE Unused]
    BY DEF Collected, Taken
  <2> HIDE DEF b2, Unused
  <2> QED BY <1>1, <1>2, <2>1
<1> HIDE DEF b2
<1>4. \A e \in Entered(l) : b2[e.id] = b[e.id]
  <2>1. ASSUME NEW e \in Entered(l) PROVE e.id \in Ids /\ e.id \in Taken(l, h)
    BY ListFacts, ElemFields DEF Entered, Taken
  <2> QED BY <1>3, <2>1
<1>5. \A p \in Procs : h[p] # NoBucket => b2[h[p]] = b[h[p]]
  BY <1>1, <1>3 DEF Taken
<1>6. \A i \in Ids : b2[i].refilled <= now
  BY <1>1, <1>2, <1>3
<1>7. Booked(Entered(l), b2, h, f, a, d, now)
  BY <1>3, <1>4, <1>5, <1>6, GarbageCollected
<1> QED BY <1>7 DEF b2

\* An object that was refilled now has the tokens it has.
LEMMA RefilledNow ==
    ASSUME NEW o \in Object, NEW now \in 0..MaxTime, o.refilled = now
    PROVE  Refill(o, now) = o.tokens
<1>1. o.tokens \in 0..Burst /\ Burst \in Nat /\ Rate \in Nat /\ now \in Int
  BY LimiterConstants DEF Object
<1>2. o.tokens + Rate * (now - o.refilled) = o.tokens
  <2>1. now - o.refilled = 0
    BY <1>1
  <2>2. Rate * 0 = 0
    BY <1>1
  <2> QED BY <1>1, <2>1, <2>2
<1>3. Burst \in Int /\ o.tokens \in Int /\ o.tokens <= Burst
  BY <1>1
<1>4. Min({Burst, o.tokens}) = o.tokens
  BY <1>3, Smaller
<1> QED BY <1>2, <1>4 DEF Refill

-----------------------------------------------------------------------------
(* The steps of the limiter.                                               *)

\* The bursts given anew: for x displaced and y lapsed.
Anew(x, y) == [c \in Clients |-> x[c] + y[c]]

\* The list is well formed and the books are in order.
AdmInv ==
    /\ Listed(lru) /\ displaced \in [Clients -> Nat] /\ lapsed \in [Clients -> Nat]
    /\ Booked(Entered(lru), bucket, held, heldFor, admitted, Anew(displaced, lapsed), clock)

\* Every bucket is still to be made, and nothing was given.
LEMMA LimiterBegins ==
    ASSUME LimiterInit
    PROVE  AdmInv
<1>0. Burst \in Nat /\ Rate \in Nat /\ MaxBuckets \in Nat /\ MaxTime \in Nat /\ Clients # {}
      /\ NoBucket \notin Ids
  BY LimiterConstants
<1>1. /\ clock = 0 /\ lru = <<>> /\ bucket = [i \in Ids |-> Unused]
      /\ held = [p \in Procs |-> NoBucket]
      /\ heldFor = [p \in Procs |-> CHOOSE c \in Clients : TRUE]
      /\ admitted = [c \in Clients |-> [t \in 0..MaxTime |-> 0]]
      /\ displaced = [c \in Clients |-> 0] /\ lapsed = [c \in Clients |-> 0]
  BY DEF LimiterInit
<1>d. PICK d : d = Anew(displaced, lapsed)
  OBVIOUS
<1>e. d = [c \in Clients |-> 0]
  BY <1>1, <1>d DEF Anew
<1>2. Listed(lru) /\ Entered(lru) = {}
  <2>1. <<>> \in Seq(Elem) /\ Len(<<>>) = 0
    OBVIOUS
  <2>2. Listed(lru)
    BY <1>0, <1>1, <2>1 DEF Listed, Distinct
  <2>3. Len(lru) = 0
    BY <1>1, <2>1
  <2>4. Entered(lru) = {lru[k] : k \in 1..0}
    BY <2>2, <2>3, ListFacts
  <2> QED BY <2>2, <2>4
<1>3. Unused \in Object /\ Unused.refilled = 0 /\ 0 \in 0..MaxTime
  BY <1>0 DEF Unused, Object
<1>4. Typed({}, bucket, held, heldFor, admitted, d, clock)
  <2>1. bucket \in [Ids -> Object] /\ held \in [Procs -> Ids \cup {NoBucket}]
    <3> HIDE DEF Unused
    <3> QED BY <1>1, <1>3
  <2>2. heldFor \in [Procs -> Clients]
    <3>1. (CHOOSE c \in Clients : TRUE) \in Clients
      BY <1>0
    <3>2. PICK k \in Clients : k = CHOOSE c \in Clients : TRUE
      BY <3>1
    <3> QED BY <1>1, <3>2
  <2>3. admitted \in [Clients -> [0..MaxTime -> Nat]] /\ d \in [Clients -> Nat]
    BY <1>1, <1>e
  <2> QED BY <1>1, <1>3, <2>1, <2>2, <2>3 DEF Typed
<1>5. Sound({}, bucket, held, heldFor, clock)
  <2>1. \A i \in Ids : bucket[i].refilled <= clock
    <3> HIDE DEF Unused
    <3> QED BY <1>1, <1>3
  <2>2. \A p \in Procs : held[p] = NoBucket
    BY <1>1
  <2> QED BY <2>1, <2>2 DEF Sound
<1>6. Future(admitted, clock)
  BY <1>1 DEF Future
<1>7. ASSUME NEW c \in Clients
      PROVE  Stake({}, bucket, held, heldFor, clock, c) = Burst
  <2>1. Detached({}, held, heldFor, c) = {}
    BY <1>0, <1>1 DEF Detached
  <2>2. SumFunctionOnSet(Level(bucket, clock), {}) = 0
    <3>1. IsFiniteSet({}) /\ \A x \in {} : x \in Int
      BY FS_EmptySet
    <3>2. \A g : SumFunctionOnSet(g, {}) = 0
      BY <3>1, SumFacts
    <3> QED BY <3>2
  <2>3. Due({}, bucket, clock, c) = Burst
    BY DEF Due
  <2> QED BY <1>0, <2>1, <2>2, <2>3 DEF Stake, Loose
<1>8. ASSUME NEW c \in Clients
      PROVE  Spent(admitted[c], 0, 0) = 0 /\ Limit(d[c], 0) >= Burst
             /\ Limit(d[c], 0) \in Nat
  <2>1. admitted[c] \in [0..MaxTime -> Nat] /\ admitted[c][0] = 0 /\ d[c] \in Nat
    BY <1>0, <1>1, <1>e
  <2>2. Spent(admitted[c], 0, 0) = Spent(admitted[c], 0, 0 - 1) + admitted[c][0]
    BY <1>3, <2>1, SpentType
  <2>3. Spent(admitted[c], 0, 0 - 1) = 0
    BY <1>3, <2>1, SpentType
  <2>4. PICK n \in Nat, k \in Nat : n = d[c] /\ k = 0
    BY <2>1
  <2>5. Limit(n, 0) >= Burst /\ Limit(n, k) \in Nat
    BY LimitType
  <2> QED BY <2>1, <2>2, <2>3, <2>4, <2>5
<1>9. 0..0 = {0} /\ 0 - 0 = 0
  OBVIOUS
<1>10. Within({}, bucket, held, heldFor, admitted, d, clock)
  <2>1. ASSUME NEW c \in Clients
        PROVE  Spent(admitted[c], 0, 0) + Stake({}, bucket, held, heldFor, clock, c)
                   <= Limit(d[c], 0)
    BY <1>0, <1>7, <1>8
  <2> QED BY <1>1, <1>9, <2>1 DEF Within
<1>11. Past(admitted, d, clock)
  <2>1. ASSUME NEW c \in Clients PROVE Spent(admitted[c], 0, 0) <= Limit(d[c], 0)
    BY <1>0, <1>8
  <2> QED BY <1>1, <1>9, <2>1 DEF Past
<1>12. displaced \in [Clients -> Nat] /\ lapsed \in [Clients -> Nat]
  BY <1>1
<1> QED BY <1>2, <1>4, <1>5, <1>6, <1>10, <1>11, <1>12, <1>d DEF AdmInv, Booked

\* What the list holds once the idle tail is gone.
LEMMA AfterFresh ==
    ASSUME AdmInv
    PROVE  /\ Listed(Fresh(lru)) /\ Lapses \in [Clients -> Nat]
           /\ Booked(Entered(Fresh(lru)), bucket, held, heldFor, admitted,
                     Anew(displaced, Lapses), clock)
<1>1. clock \in 0..MaxTime /\ Listed(lru)
  BY DEF AdmInv, Booked, Typed
<1>2. /\ Listed(Fresh(lru)) /\ Entered(Fresh(lru)) \in SUBSET Entered(lru)
      /\ \A e \in Entered(lru) : e \notin Entered(Fresh(lru)) => clock - e.accessed > IdleTTL
      /\ \A k \in 1..Len(lru) : lru[k] \notin Entered(Fresh(lru)) => k > Len(Fresh(lru))
  BY <1>1, FreshFacts
<1>3. PICK x, y, z : x = displaced /\ y = lapsed /\ z = Lapses
  OBVIOUS
<1>4. x \in [Clients -> Nat] /\ y \in [Clients -> Nat]
  BY <1>3 DEF AdmInv
<1>5. /\ z \in [Clients -> Nat]
      /\ \A c \in Clients : z[c] = IF c \in Lapsing THEN y[c] + 1 ELSE y[c]
  <2>1. z = [c \in Clients |-> IF c \in Lapsing THEN y[c] + 1 ELSE y[c]]
    BY <1>3 DEF Lapses
  <2> QED BY <1>4, <2>1
<1>6. PICK d, d2 : d = Anew(x, y) /\ d2 = Anew(x, z)
  OBVIOUS
<1>7. /\ d2 \in [Clients -> Nat]
      /\ \A c \in Clients : d2[c] = IF c \in Lapsing THEN d[c] + 1 ELSE d[c]
  BY <1>4, <1>5, <1>6 DEF Anew
<1>8. ASSUME NEW e \in Entered(lru), e \notin Entered(Fresh(lru)),
             Refill(bucket[e.id], clock) < Burst
      PROVE  e.key \in Lapsing /\ e.key \in Clients
  <2>1. PICK k \in DOMAIN lru : e = lru[k]
    BY DEF Entered
  <2>2. k > Len(Fresh(lru)) /\ e \in Elem
    BY <1>1, <1>2, <1>8, <2>1, ListFacts
  <2>3. Refilled(bucket[lru[k].id]) < Burst
    BY <1>8, <2>1 DEF Refill, Refilled
  <2> QED BY <2>1, <2>2, <2>3, ElemFields DEF Lapsing
<1>9. \A e \in Entered(lru) :
         e \notin Entered(Fresh(lru)) /\ Refill(bucket[e.id], clock) < Burst
             => d2[e.key] = d[e.key] + 1
  BY <1>7, <1>8
<1>10. \A c \in Clients : d2[c] = d[c] \/ d2[c] = d[c] + 1
  BY <1>7
<1>11. Booked(Entered(lru), bucket, held, heldFor, admitted, d, clock)
  BY <1>3, <1>6 DEF AdmInv
<1>12. Booked(Entered(Fresh(lru)), bucket, held, heldFor, admitted, d2, clock)
  BY <1>2, <1>7, <1>9, <1>10, <1>11, IdleDropped
<1> QED BY <1>2, <1>3, <1>5, <1>6, <1>12

\* CleanupStale.
LEMMA CleanupKeeps ==
    ASSUME AdmInv, CleanupStale
    PROVE  AdmInv'
<1>1. PICK l, d : l = Fresh(lru) /\ d = Anew(displaced, Lapses)
  OBVIOUS
<1>2. /\ lru' = l /\ bucket' = Collected(l, held, bucket) /\ clock' = clock /\ held' = held
      /\ heldFor' = heldFor /\ admitted' = admitted
      /\ displaced' = displaced /\ lapsed' = Lapses
  BY <1>1 DEF CleanupStale
<1>3. /\ Listed(l) /\ Booked(Entered(l), bucket, held, heldFor, admitted, d, clock)
      /\ displaced' \in [Clients -> Nat] /\ lapsed' \in [Clients -> Nat]
  BY <1>1, <1>2, AfterFresh DEF AdmInv
<1>4. Booked(Entered(l), Collected(l, held, bucket), held, heldFor, admitted, d, clock)
  BY <1>3, GarbageGone
<1>5. Anew(displaced', lapsed') = d
  BY <1>1, <1>2
<1> QED BY <1>2, <1>3, <1>4, <1>5 DEF AdmInv

\* GetBucket for a client that has an element: it moves to the front.
LEMMA GetResidentKeeps ==
    ASSUME AdmInv, NEW p \in Procs, held[p] = NoBucket, NEW c, GetResident(p, c)
    PROVE  AdmInv'
<1>1. PICK l, d : l = Fresh(lru) /\ d = Anew(displaced, Lapses)
  OBVIOUS
<1>2. Listed(l) /\ Booked(Entered(l), bucket, held, heldFor, admitted, d, clock)
  BY <1>1, AfterFresh
<1>3. PICK i \in 1..Len(l) :
        /\ l[i].key = c
        /\ lru' = <<[l[i] EXCEPT !.accessed = clock]>> \o RemoveAt(l, i)
        /\ held' = [held EXCEPT ![p] = l[i].id]
        /\ heldFor' = [heldFor EXCEPT ![p] = c]
        /\ bucket' = Collected(lru', held', bucket)
        /\ clock' = clock /\ admitted' = admitted /\ displaced' = displaced /\ lapsed' = Lapses
  <2>1. DOMAIN l = 1..Len(l)
    BY <1>2, ListFacts
  <2> QED BY <1>1, <2>1 DEF GetResident
<1>4. clock \in 0..MaxTime
  BY <1>2 DEF Booked, Typed
<1>5. PICK x, y, m : x = l[i] /\ y = [l[i] EXCEPT !.accessed = clock] /\ m = RemoveAt(l, i)
  OBVIOUS
<1>6. x \in Elem /\ x \in Entered(l)
  BY <1>2, <1>5, ListFacts
<1>7. y \in Elem /\ y.key = x.key /\ y.id = x.id /\ y.accessed = clock
  BY <1>4, <1>5, <1>6 DEF Elem
<1>8. Listed(m) /\ Len(m) = Len(l) - 1 /\ Entered(m) = Entered(l) \ {x}
  BY <1>2, <1>5, Removed
<1>9. Len(m) < MaxBuckets
  <2>1. Len(l) \in Nat /\ Len(l) <= MaxBuckets /\ MaxBuckets \in Nat
    BY <1>2, ListFacts, LimiterConstants DEF Listed
  <2> QED BY <1>8, <2>1
<1>10. \A k \in 1..Len(m) : m[k].key # y.key /\ m[k].id # y.id
  <2>1. ASSUME NEW k \in 1..Len(m) PROVE m[k] \in Entered(l) /\ m[k] # x
    <3>1. Entered(m) = {m[j] : j \in 1..Len(m)}
      BY <1>8, ListFacts
    <3> QED BY <1>8, <3>1
  <2>2. \A u, w \in Entered(l) : u.key = w.key \/ u.id = w.id => u = w
    BY <1>2 DEF Booked, Sound
  <2> QED BY <1>6, <1>7, <2>1, <2>2
<1>11. Listed(<<y>> \o m) /\ Entered(<<y>> \o m) = Entered(m) \cup {y}
  BY <1>7, <1>8, <1>9, <1>10, Pushed
<1>12. lru' = <<y>> \o m
  BY <1>3, <1>5
<1>13. Listed(lru') /\ Entered(lru') = (Entered(l) \ {x}) \cup {y}
  BY <1>8, <1>11, <1>12
<1>14. Booked((Entered(l) \ {x}) \cup {y}, bucket, [held EXCEPT ![p] = x.id],
            [heldFor EXCEPT ![p] = x.key], admitted, d, clock)
  BY <1>2, <1>6, <1>7, ElementTouched
<1>15. held' = [held EXCEPT ![p] = x.id] /\ heldFor' = [heldFor EXCEPT ![p] = x.key]
  BY <1>3, <1>5
<1>16. PICK r, h2, f2 : r = lru' /\ h2 = held' /\ f2 = heldFor'
  OBVIOUS
<1>17. Listed(r) /\ Booked(Entered(r), bucket, h2, f2, admitted, d, clock)
  BY <1>13, <1>14, <1>15, <1>16
<1>18. Booked(Entered(r), Collected(r, h2, bucket), h2, f2, admitted, d, clock)
  BY <1>17, GarbageGone
<1>19. bucket' = Collected(r, h2, bucket) /\ clock' = clock /\ admitted' = admitted
  BY <1>3, <1>16
<1>20. /\ Anew(displaced', lapsed') = d
       /\ displaced' \in [Clients -> Nat] /\ lapsed' \in [Clients -> Nat]
  BY <1>1, <1>3, AfterFresh DEF AdmInv
<1> QED BY <1>16, <1>17, <1>18, <1>19, <1>20 DEF AdmInv

\* GetBucket for a client that has none, with or without room for it.
LEMMA GetNewKeeps ==
    ASSUME AdmInv, NEW p \in Procs, held[p] = NoBucket, NEW c \in Clients, GetNew(p, c)
    PROVE  AdmInv'
<1>1. PICK l, d, d2 : l = Fresh(lru) /\ d = Anew(displaced, Lapses) /\ d2 = Anew(displaced', lapsed')
  OBVIOUS
<1>2. Listed(l) /\ Booked(Entered(l), bucket, held, heldFor, admitted, d, clock)
  BY <1>1, AfterFresh
<1>3. PICK id, y : id = Min(Ids \ Taken(l, held)) /\ y = [key |-> c, id |-> id, accessed |-> clock]
  OBVIOUS
<1>4. PICK m : m = IF Len(l) >= MaxBuckets THEN Front(l) ELSE l
  OBVIOUS
<1>5. /\ \A i \in DOMAIN l : l[i].key # c
      /\ lru' = <<y>> \o m
      /\ held' = [held EXCEPT ![p] = id]
      /\ heldFor' = [heldFor EXCEPT ![p] = c]
      /\ bucket' = Collected(lru', held', [bucket EXCEPT ![id] = NewBucket])
      /\ displaced' = IF Len(l) >= MaxBuckets
                       THEN [displaced EXCEPT ![Last(l).key] = @ + 1] ELSE displaced
      /\ clock' = clock /\ admitted' = admitted /\ lapsed' = Lapses
  BY <1>1, <1>3, <1>4 DEF GetNew, Taken
<1>6. clock \in 0..MaxTime /\ held \in [Procs -> Ids \cup {NoBucket}]
  BY <1>2 DEF Booked, Typed
<1>7. id \in Ids \ Taken(l, held)
  BY <1>2, <1>3, <1>6, FreeObject
<1>8. y \in Elem /\ y.key = c /\ y.id = id /\ y.accessed = clock
  BY <1>3, <1>6, <1>7 DEF Elem
<1>9. NewBucket \in Object /\ NewBucket.refilled = clock
  BY <1>6, LimiterConstants DEF NewBucket, Object
<1>10. Len(l) \in Nat /\ Len(l) <= MaxBuckets /\ MaxBuckets \in Nat \ {0} /\ DOMAIN l = 1..Len(l)
       /\ Entered(l) = {l[k] : k \in 1..Len(l)}
  BY <1>2, ListFacts, LimiterConstants DEF Listed
<1>11. /\ Listed(m) /\ Len(m) < MaxBuckets /\ Entered(m) \in SUBSET Entered(l)
       /\ Booked(Entered(m), bucket, held, heldFor, admitted, d2, clock)
       /\ displaced' \in [Clients -> Nat]
  <2>1. CASE ~(Len(l) >= MaxBuckets)
    <3>1. m = l /\ displaced' = displaced
      BY <1>4, <1>5, <2>1
    <3>2. Len(l) < MaxBuckets
      BY <1>10, <2>1
    <3>3. d2 = d /\ displaced' \in [Clients -> Nat]
      BY <1>1, <1>5, <3>1 DEF AdmInv
    <3> QED BY <1>2, <3>1, <3>2, <3>3
  <2>2. CASE Len(l) >= MaxBuckets
    <3>1. m = SubSeq(l, 1, Len(l) - 1) /\ displaced' = [displaced EXCEPT ![Last(l).key] = @ + 1]
      BY <1>4, <1>5, <2>2 DEF Front
    <3>2. PICK n \in 0..Len(l) : n = Len(l) - 1
      <4>1. PICK u \in Nat : u = Len(l) /\ u # 0
        <5>1. PICK v \in Nat : v = MaxBuckets /\ v # 0
          BY <1>10
        <5>2. PICK u \in Nat : u = Len(l) /\ u >= v
          BY <1>10, <2>2, <5>1
        <5> QED BY <5>1, <5>2
      <4>2. u - 1 \in 0..u
        BY <4>1
      <4> QED BY <4>1, <4>2
    <3>3. Listed(m) /\ Len(m) = n /\ Entered(m) = {l[k] : k \in 1..n}
      BY <1>2, <3>1, <3>2, Prefix
    <3>4. PICK z : z = Last(l)
      OBVIOUS
    <3>5. z = l[Len(l)] /\ Len(l) \in 1..Len(l) /\ z \in Entered(l)
      BY <1>10, <2>2, <3>4 DEF Last
    <3>6. Entered(m) = Entered(l) \ {z}
      <4>1. ASSUME NEW k \in 1..n PROVE l[k] \in Entered(l) /\ l[k] # z
        <5>1. k \in 1..Len(l) /\ k # Len(l)
          <6>1. PICK u \in Nat : u = Len(l) /\ n = u - 1
            BY <1>10, <3>2
          <6> QED BY <6>1
        <5> QED BY <1>2, <1>10, <3>5, <5>1 DEF Listed, Distinct
      <4>2. ASSUME NEW k \in 1..Len(l), l[k] # z PROVE k \in 1..n
        BY <1>10, <3>2, <3>5, <4>2
      <4> QED BY <1>10, <3>3, <4>1, <4>2
    <3>7. Booked(Entered(l) \ {z}, bucket, held, heldFor, admitted,
               [d EXCEPT ![z.key] = @ + 1], clock)
      BY <1>2, <3>5, ElementDisplaced
    <3>9. d2 = [d EXCEPT ![z.key] = @ + 1] /\ displaced' \in [Clients -> Nat]
      <4>1. PICK v, w, k : v = displaced /\ w = Lapses /\ k = z.key
        OBVIOUS
      <4>2. v \in [Clients -> Nat] /\ w \in [Clients -> Nat]
        BY <4>1, AfterFresh DEF AdmInv
      <4>3. PICK u : u = [v EXCEPT ![k] = @ + 1]
        OBVIOUS
      <4>4. d2 = Anew(u, w) /\ d = Anew(v, w) /\ displaced' = u
        BY <1>1, <1>5, <3>1, <3>4, <4>1, <4>3
      <4>5. k \in Clients
        BY <1>2, <3>5, <4>1, ListFacts, ElemFields
      <4>6. u \in [Clients -> Nat] /\ u[k] = v[k] + 1 /\ \A c2 \in Clients : c2 # k => u[c2] = v[c2]
        BY <4>2, <4>3, <4>5
      <4>7. d2 = [c2 \in Clients |-> u[c2] + w[c2]] /\ d = [c2 \in Clients |-> v[c2] + w[c2]]
        BY <4>4 DEF Anew
      <4>8. d2[k] = d[k] + 1 /\ \A c2 \in Clients : c2 # k => d2[c2] = d[c2]
        BY <4>2, <4>5, <4>6, <4>7
      <4>9. d2 = [d EXCEPT ![k] = d[k] + 1]
        BY <4>5, <4>7, <4>8
      <4> QED BY <4>1, <4>4, <4>6, <4>9
    <3>8. Len(m) < MaxBuckets
      BY <1>10, <3>2, <3>3
    <3> QED BY <3>3, <3>6, <3>7, <3>8, <3>9
  <2> QED BY <2>1, <2>2
<1>12. \A e \in Entered(l) : e.key # y.key /\ e.id # y.id
  BY <1>5, <1>7, <1>8, <1>10 DEF Taken
<1>13. \A k \in 1..Len(m) : m[k].key # y.key /\ m[k].id # y.id
  <2>1. Entered(m) = {m[k] : k \in 1..Len(m)}
    BY <1>11, ListFacts
  <2> QED BY <1>11, <1>12, <2>1
<1>14. Listed(lru') /\ Entered(lru') = Entered(m) \cup {y}
  BY <1>5, <1>8, <1>11, <1>13, Pushed
<1>15. displaced' \in [Clients -> Nat] /\ lapsed' \in [Clients -> Nat]
  BY <1>5, <1>11, AfterFresh
<1>16. \A q \in Procs : held[q] # y.id
  BY <1>7, <1>8 DEF Taken
<1>17. Booked(Entered(m) \cup {y}, [bucket EXCEPT ![y.id] = NewBucket], [held EXCEPT ![p] = y.id],
            [heldFor EXCEPT ![p] = y.key], admitted, d2, clock)
  <2>1. Booked(Entered(m), bucket, held, heldFor, admitted, d2, clock)
    BY <1>11
  <2>2. \A e \in Entered(m) : e.key # y.key /\ e.id # y.id
    BY <1>11, <1>12
  <2> QED BY <1>8, <1>9, <1>16, <2>1, <2>2, ElementAdded
<1>18. PICK r, h2, f2, b2 : r = lru' /\ h2 = held' /\ f2 = heldFor'
                            /\ b2 = [bucket EXCEPT ![y.id] = NewBucket]
  OBVIOUS
<1>19. Listed(r) /\ Booked(Entered(r), b2, h2, f2, admitted, d2, clock)
  <2>1. h2 = [held EXCEPT ![p] = y.id] /\ f2 = [heldFor EXCEPT ![p] = y.key]
    BY <1>5, <1>8, <1>18
  <2> QED BY <1>14, <1>17, <1>18, <2>1
<1>20. Booked(Entered(r), Collected(r, h2, b2), h2, f2, admitted, d2, clock)
  BY <1>19, GarbageGone
<1>21. bucket' = Collected(r, h2, b2) /\ clock' = clock /\ admitted' = admitted
  BY <1>5, <1>8, <1>18
<1> QED BY <1>1, <1>15, <1>18, <1>19, <1>20, <1>21 DEF AdmInv

\* The object that goroutine p asks.
LEMMA Holding ==
    ASSUME AdmInv, NEW p \in Procs, held[p] # NoBucket
    PROVE  /\ held[p] \in Ids /\ bucket[held[p]] \in Object
           /\ Refilled(bucket[held[p]]) = Refill(bucket[held[p]], clock)
           /\ Refilled(bucket[held[p]]) \in 0..Burst
           /\ clock \in 0..MaxTime /\ heldFor[p] \in Clients
<1>1. /\ clock \in 0..MaxTime /\ held \in [Procs -> Ids \cup {NoBucket}]
      /\ bucket \in [Ids -> Object] /\ heldFor \in [Procs -> Clients]
      /\ \A i \in Ids : bucket[i].refilled <= clock
  BY DEF AdmInv, Booked, Typed, Sound
<1>2. held[p] \in Ids /\ bucket[held[p]] \in Object /\ heldFor[p] \in Clients
  BY <1>1
<1>3. Refill(bucket[held[p]], clock) \in 0..Burst
  BY <1>1, <1>2, RefillRange
<1> QED BY <1>1, <1>2, <1>3 DEF Refilled, Refill

\* Allow gives a token.
LEMMA AllowKeeps ==
    ASSUME AdmInv, NEW p \in Procs, Allow(p)
    PROVE  AdmInv'
<1>d. PICK d : d = Anew(displaced, lapsed)
  OBVIOUS
<1>1. /\ held[p] # NoBucket /\ Refilled(bucket[held[p]]) >= 1
      /\ held' = [held EXCEPT ![p] = NoBucket]
      /\ bucket' = Collected(lru, held', [bucket EXCEPT ![held[p]] =
                    [tokens |-> Refilled(bucket[held[p]]) - 1, refilled |-> clock]])
      /\ admitted' = [admitted EXCEPT ![heldFor[p]][clock] = @ + 1]
      /\ clock' = clock /\ lru' = lru /\ heldFor' = heldFor /\ displaced' = displaced
      /\ lapsed' = lapsed
  BY DEF Allow
<1>2. /\ held[p] \in Ids /\ bucket[held[p]] \in Object
      /\ Refilled(bucket[held[p]]) = Refill(bucket[held[p]], clock)
      /\ Refilled(bucket[held[p]]) \in 0..Burst
      /\ clock \in 0..MaxTime /\ heldFor[p] \in Clients
  BY <1>1, Holding
<1>n. PICK n \in Int : n = Refilled(bucket[held[p]])
  BY <1>2, LimiterConstants
<1>3. PICK o : o = [tokens |-> n - 1, refilled |-> clock]
  OBVIOUS
<1>4. o \in Object /\ o.refilled = clock /\ o.tokens = n - 1
  <2>1. n - 1 \in 0..Burst
    BY <1>1, <1>2, <1>n, LimiterConstants
  <2> QED BY <1>2, <1>3, <2>1 DEF Object
<1>5. Refill(o, clock) + 1 = Refill(bucket[held[p]], clock)
  <2>1. Refill(o, clock) = n - 1
    BY <1>2, <1>4, RefilledNow
  <2> QED BY <1>2, <1>n, <2>1
<1>6. PICK b2, h2, a2 : b2 = [bucket EXCEPT ![held[p]] = o] /\ h2 = held' /\ a2 = admitted'
  OBVIOUS
<1>7. /\ bucket \in [Ids -> Object] /\ held \in [Procs -> Ids \cup {NoBucket}]
      /\ admitted \in [Clients -> [0..MaxTime -> Nat]]
      /\ Booked(Entered(lru), bucket, held, heldFor, admitted, d, clock)
  BY <1>d DEF AdmInv, Booked, Typed
<1>8. b2 \in [Ids -> Object] /\ b2[held[p]] = o /\ \A j \in Ids : j # held[p] => b2[j] = bucket[j]
  BY <1>2, <1>4, <1>6, <1>7
<1>9. /\ h2 \in [Procs -> Ids \cup {NoBucket}] /\ h2[p] = NoBucket
      /\ \A q \in Procs : q # p => h2[q] = held[q]
  BY <1>1, <1>6, <1>7
<1>10. Counted(admitted, a2, heldFor[p], clock)
  <2>1. PICK k \in Clients : k = heldFor[p]
    BY <1>2
  <2>2. a2 = [admitted EXCEPT ![k] = [admitted[k] EXCEPT ![clock] = admitted[k][clock] + 1]]
    BY <1>1, <1>6, <2>1
  <2>3. PICK g : g = [admitted[k] EXCEPT ![clock] = admitted[k][clock] + 1]
    OBVIOUS
  <2>4. /\ g \in [0..MaxTime -> Nat] /\ g[clock] = admitted[k][clock] + 1
        /\ \A t \in 0..MaxTime : t # clock => g[t] = admitted[k][t]
    <3>1. PICK e \in [0..MaxTime -> Nat] : e = admitted[k]
      BY <1>7
    <3>2. PICK u \in Nat : u = e[clock] + 1
      BY <1>2
    <3>3. g = [e EXCEPT ![clock] = u]
      BY <2>3, <3>1, <3>2
    <3>4. g \in [0..MaxTime -> Nat] /\ g[clock] = u /\ \A t \in 0..MaxTime : t # clock => g[t] = e[t]
      BY <1>2, <3>3
    <3> QED BY <3>1, <3>2, <3>4
  <2>5. a2 = [admitted EXCEPT ![k] = g]
    BY <2>2, <2>3
  <2>6. a2 \in [Clients -> [0..MaxTime -> Nat]] /\ a2[k] = g /\ \A c \in Clients : c # k => a2[c] = admitted[c]
    BY <1>7, <2>4, <2>5
  <2> QED BY <2>1, <2>4, <2>6 DEF Counted
<1>11. Booked(Entered(lru), b2, h2, heldFor, a2, d, clock)
  BY <1>1, <1>4, <1>5, <1>7, <1>8, <1>9, <1>10, TokenGiven
<1>12. Listed(lru)
  BY DEF AdmInv
<1>13. Booked(Entered(lru), Collected(lru, h2, b2), h2, heldFor, a2, d, clock)
  BY <1>11, <1>12, GarbageGone
<1>14. bucket' = Collected(lru, h2, b2)
  BY <1>1, <1>3, <1>6, <1>n
<1> QED BY <1>1, <1>6, <1>12, <1>13, <1>14, <1>d DEF AdmInv

\* Allow refuses.
LEMMA ThrottleKeeps ==
    ASSUME AdmInv, NEW p \in Procs, Throttle(p)
    PROVE  AdmInv'
<1>d. PICK d : d = Anew(displaced, lapsed)
  OBVIOUS
<1>1. /\ held[p] # NoBucket
      /\ held' = [held EXCEPT ![p] = NoBucket]
      /\ bucket' = Collected(lru, held', [bucket EXCEPT ![held[p]] =
                    [tokens |-> Refilled(bucket[held[p]]), refilled |-> clock]])
      /\ clock' = clock /\ lru' = lru /\ heldFor' = heldFor /\ displaced' = displaced
      /\ lapsed' = lapsed
      /\ admitted' = admitted
  BY DEF Throttle
<1>2. /\ held[p] \in Ids /\ bucket[held[p]] \in Object
      /\ Refilled(bucket[held[p]]) = Refill(bucket[held[p]], clock)
      /\ Refilled(bucket[held[p]]) \in 0..Burst
      /\ clock \in 0..MaxTime
  BY <1>1, Holding
<1>3. PICK n, o : n = Refilled(bucket[held[p]]) /\ o = [tokens |-> n, refilled |-> clock]
  OBVIOUS
<1>4. o \in Object /\ o.refilled = clock /\ o.tokens = n
  BY <1>2, <1>3 DEF Object
<1>5. Refill(o, clock) = Refill(bucket[held[p]], clock)
  BY <1>2, <1>3, <1>4, RefilledNow
<1>6. PICK b2, h2 : b2 = [bucket EXCEPT ![held[p]] = o] /\ h2 = held'
  OBVIOUS
<1>7. /\ bucket \in [Ids -> Object] /\ held \in [Procs -> Ids \cup {NoBucket}]
      /\ Booked(Entered(lru), bucket, held, heldFor, admitted, d, clock)
  BY <1>d DEF AdmInv, Booked, Typed
<1>8. b2 \in [Ids -> Object] /\ b2[held[p]] = o /\ \A j \in Ids : j # held[p] => b2[j] = bucket[j]
  BY <1>2, <1>4, <1>6, <1>7
<1>9. /\ h2 \in [Procs -> Ids \cup {NoBucket}] /\ h2[p] = NoBucket
      /\ \A q \in Procs : q # p => h2[q] = held[q]
  BY <1>1, <1>6, <1>7
<1>10. Booked(Entered(lru), b2, h2, heldFor, admitted, d, clock)
  BY <1>1, <1>4, <1>5, <1>7, <1>8, <1>9, TokenRefused
<1>11. Listed(lru)
  BY DEF AdmInv
<1>12. Booked(Entered(lru), Collected(lru, h2, b2), h2, heldFor, admitted, d, clock)
  BY <1>10, <1>11, GarbageGone
<1>13. bucket' = Collected(lru, h2, b2)
  BY <1>1, <1>3, <1>6
<1> QED BY <1>1, <1>6, <1>11, <1>12, <1>13, <1>d DEF AdmInv

\* The clock ticks.
LEMMA TickKeeps ==
    ASSUME AdmInv, Tick
    PROVE  AdmInv'
<1>d. PICK d : d = Anew(displaced, lapsed)
  OBVIOUS
<1>1. /\ clock < MaxTime /\ \A p \in Procs : held[p] = NoBucket
      /\ lru' = lru /\ bucket' = bucket /\ held' = held /\ heldFor' = heldFor
      /\ admitted' = admitted /\ displaced' = displaced
      /\ lapsed' = lapsed
  BY DEF Tick, limiterVars
<1>2. PICK then : then = clock' /\ then = clock + 1
  BY DEF Tick
<1>3. then \in 0..MaxTime
  <2>1. clock \in 0..MaxTime /\ MaxTime \in Nat
    BY LimiterConstants DEF AdmInv, Booked, Typed
  <2> QED BY <1>1, <1>2, <2>1
<1>4. Booked(Entered(lru), bucket, held, heldFor, admitted, d, then)
  BY <1>1, <1>2, <1>3, TimePasses, <1>d DEF AdmInv
<1> QED BY <1>1, <1>2, <1>4, <1>d DEF AdmInv

\* From the books to the bound of every window.
LEMMA BooksBound ==
    ASSUME AdmInv
    PROVE  AdmissionBounded
<1>1. PICK d : /\ Listed(lru) /\ Typed(Entered(lru), bucket, held, heldFor, admitted, d, clock)
               /\ Past(admitted, d, clock) /\ d = Anew(displaced, lapsed)
               /\ displaced \in [Clients -> Nat] /\ lapsed \in [Clients -> Nat]
  BY DEF AdmInv, Booked
<1>2. LimiterTypeOK
  <2>1. lru \in BoundedSeq([key : Clients, id : Ids, accessed : 0..MaxTime], MaxBuckets)
    <3>1. PICK n \in Nat : n = Len(lru)
      BY <1>1, ListFacts
    <3>2. n \in 0..MaxBuckets
      BY <1>1, <3>1, LimiterConstants DEF Listed
    <3>3. lru \in [1..n -> Elem]
      BY <1>1, <3>1 DEF Listed
    <3>4. lru \in UNION {[1..m -> Elem] : m \in 0..MaxBuckets}
      BY <3>2, <3>3
    <3> QED BY <3>4 DEF BoundedSeq, SeqOf, Elem
  <2>2. \A i, j \in DOMAIN lru : i # j => lru[i].key # lru[j].key /\ lru[i].id # lru[j].id
    BY <1>1, ListFacts DEF Listed, Distinct
  <2>3. /\ clock \in 0..MaxTime /\ bucket \in [Ids -> [tokens : 0..Burst, refilled : 0..MaxTime]]
        /\ held \in [Procs -> Ids \cup {NoBucket}] /\ heldFor \in [Procs -> Clients]
    BY <1>1 DEF Typed, Object
  <2>4. \A c \in Clients : /\ displaced[c] \in Nat /\ lapsed[c] \in Nat
                           /\ \A t \in 0..MaxTime : admitted[c][t] \in Nat
    BY <1>1 DEF Typed
  <2> QED BY <2>1, <2>2, <2>3, <2>4 DEF LimiterTypeOK
<1>3. ASSUME NEW c \in Clients, NEW s \in 0..clock, NEW t \in s..clock
      PROVE  MapThenSumSet(LAMBDA i : admitted[c][i], s..t)
                 <= Burst * (1 + displaced[c] + lapsed[c]) + Rate * (t - s)
  <2>0. PICK x \in Nat, y \in Nat : x = displaced[c] /\ y = lapsed[c] /\ d[c] = x + y
    BY <1>1 DEF Anew
  <2>1. Spent(admitted[c], s, t) <= Limit(x + y, t - s)
    BY <1>1, <2>0 DEF Past
  <2>2. PICK g : g = admitted[c]
    OBVIOUS
  <2>3. MapThenSumSet(LAMBDA i : g[i], s..t) = Spent(g, s, t)
    BY SumOfWindow DEF Spent
  <2>4. 1 + x + y = 1 + (x + y)
    OBVIOUS
  <2> QED BY <2>0, <2>1, <2>2, <2>3, <2>4 DEF Limit
<1> QED BY <1>2, <1>3 DEF AdmissionBounded

-----------------------------------------------------------------------------
(* The limiter in the chain.                                               *)

\* A step that leaves the limiter alone.
LEMMA LimiterIdle ==
    ASSUME AdmInv, UNCHANGED <<clock, limiterVars>>
    PROVE  AdmInv'
BY DEF AdmInv, limiterVars

\* A request asks for the bucket of a client that there is.
LEMMA EnterRouteKeeps ==
    ASSUME AdmInv, ChainInv, NEW p \in Procs, EnterRoute(p)
    PROVE  AdmInv'
<1>1. req[p] \in Requests
  BY ProcFacts DEF EnterRoute
<1>2. ClientKey(req[p]) \in Clients
  BY <1>1, ChainAssumption
<1>3. GetBucket(p, ClientKey(req[p]))
  BY DEF EnterRoute
<1> QED BY <1>2, <1>3, GetResidentKeeps, GetNewKeeps DEF GetBucket

\* In every state of the chain a client was given, and has still to ask for, no
\* more than the limit of any window that ends now, counting the buckets that were
\* evicted while a request held them.
THEOREM AdmissionInvariant == Spec => []AdmInv
<1>1. Init => AdmInv
  BY LimiterBegins DEF Init
<1>2. AdmInv /\ ChainInv /\ [Next]_vars => AdmInv'
  <2> SUFFICES ASSUME AdmInv, ChainInv, [Next]_vars PROVE AdmInv'
    OBVIOUS
  <2>1. ASSUME NEW p \in Procs,
               \/ Arrive(p) \/ Lookup(p) \/ PurgeExpired(p)
               \/ Unauthorised(p) \/ Preflight(p)
               \/ Fetch(p) \/ Store(p) \/ Serve(p)
        PROVE  AdmInv'
    <3>1. UNCHANGED <<clock, limiterVars>>
      BY <2>1, Zenon DEF Arrive, Lookup, PurgeExpired, Unauthorised, Preflight, Fetch, Store, Serve
    <3> QED BY <3>1, LimiterIdle
  <2>2. ASSUME NEW p \in Procs, EnterRoute(p) \/ Admitted(p) \/ Throttled(p) PROVE AdmInv'
    BY <2>2, EnterRouteKeeps, AllowKeeps, ThrottleKeeps, Zenon DEF Admitted, Throttled
  <2>3. CASE CleanupStale
    BY <2>3, CleanupKeeps
  <2>4. CASE Tick
    BY <2>4, TickKeeps
  <2>5. CASE UNCHANGED vars
    <3>1. UNCHANGED <<clock, limiterVars>>
      BY <2>5, Zenon DEF vars
    <3> QED BY <3>1, LimiterIdle
  <2> QED BY <2>1, <2>2, <2>3, <2>4, <2>5, Zenon DEF Next
<1> QED BY <1>1, <1>2, ChainInvariant, PTL DEF Spec

\* However requests of a client interleave, whatever is evicted for being idle and
\* whoever still holds what was evicted, the tokens Allow gives the client in any
\* window of time are at most a burst, Rate for every tick of it, and another burst
\* for every time its bucket was displaced for lack of room or evicted for being
\* idle before it had refilled.
THEOREM AdmissionStaysBounded == Spec => []AdmissionBounded
<1>1. AdmInv => AdmissionBounded
  BY BooksBound
<1> QED BY <1>1, AdmissionInvariant, PTL

\* Where idleTTL is long enough, what Fresh drops is full.
LEMMA NothingLapses ==
    ASSUME AdmInv, Rate * (IdleTTL + 1) >= Burst
    PROVE  Lapsing = {}
<1>1. /\ clock \in 0..MaxTime /\ Listed(lru) /\ bucket \in [Ids -> Object]
      /\ \A e \in Entered(lru) : bucket[e.id].refilled <= e.accessed /\ e.accessed <= clock
      /\ \A i \in Ids : bucket[i].refilled <= clock
  BY DEF AdmInv, Booked, Typed, Sound
<1>2. ASSUME NEW k \in DOMAIN lru, k > Len(Fresh(lru))
      PROVE  Refilled(bucket[lru[k].id]) = Burst
  <2>1. PICK e : e = lru[k]
    OBVIOUS
  <2>2. k \in 1..Len(lru) /\ e \in Elem /\ e \in Entered(lru)
    BY <1>1, <2>1, ListFacts
  <2>3. clock - e.accessed > IdleTTL
    BY <1>1, <1>2, <2>1, <2>2, FreshFacts
  <2>4. e.id \in Ids /\ e.accessed \in Nat /\ bucket[e.id] \in Object
    BY <1>1, <2>2, ElemFields
  <2>5. PICK r \in Nat, m \in Nat, n \in Nat, i \in Nat :
           r = bucket[e.id].refilled /\ m = e.accessed /\ n = clock /\ i = IdleTTL
    BY <1>1, <2>4, LimiterConstants DEF Object
  <2>6. r <= m /\ n - m > i /\ r <= n
    BY <1>1, <2>2, <2>3, <2>4, <2>5
  <2>7. n - r > i
    BY <2>6
  <2>8. Refill(bucket[e.id], clock) = Burst
    BY <1>1, <2>4, <2>5, <2>6, <2>7, RefilledWhenIdle
  <2> QED BY <2>1, <2>8 DEF Refill, Refilled
<1>3. Burst \in Nat
  BY LimiterConstants
<1> QED BY <1>2, <1>3 DEF Lapsing

\* If an empty bucket fills within idleTTL, as it does for a limit in seconds and
\* the default of ten minutes, only full buckets are purged for being idle, and the
\* bound above has no such term.
THEOREM QuickLimitsNeverLapse ==
    ASSUME Rate * (IdleTTL + 1) >= Burst
    PROVE  Spec => []FullWhenPurged
<1>1. Init => FullWhenPurged
  BY DEF Init, LimiterInit, FullWhenPurged
<1>2. AdmInv /\ FullWhenPurged /\ [Next]_vars => FullWhenPurged'
  <2> SUFFICES ASSUME AdmInv, FullWhenPurged, [Next]_vars PROVE FullWhenPurged'
    OBVIOUS
  <2>1. lapsed \in [Clients -> Nat]
    BY DEF AdmInv
  <2>2. \A c \in Clients : Lapses[c] = lapsed[c]
    BY NothingLapses DEF Lapses
  <2>3. lapsed' = lapsed \/ lapsed' = Lapses
    <3>1. ASSUME NEW p \in Procs,
                 \/ Arrive(p) \/ Lookup(p) \/ PurgeExpired(p)
                 \/ Unauthorised(p) \/ Preflight(p)
                 \/ Fetch(p) \/ Store(p) \/ Serve(p)
          PROVE  lapsed' = lapsed
      <4>1. UNCHANGED limiterVars
        BY <3>1, Zenon
        DEF Arrive, Lookup, PurgeExpired, Unauthorised, Preflight, Fetch, Store, Serve
      <4> QED BY <4>1 DEF limiterVars
    <3>2. ASSUME NEW p \in Procs, EnterRoute(p) PROVE lapsed' = Lapses
      BY <3>2, Zenon DEF EnterRoute, GetBucket, GetResident, GetNew
    <3>3. ASSUME NEW p \in Procs, Admitted(p) \/ Throttled(p) PROVE lapsed' = lapsed
      BY <3>3 DEF Admitted, Throttled, Allow, Throttle
    <3>4. CASE CleanupStale
      BY <3>4 DEF CleanupStale
    <3>5. CASE Tick
      BY <3>5 DEF Tick, limiterVars
    <3>6. CASE UNCHANGED vars
      BY <3>6 DEF vars, limiterVars
    <3> QED BY <3>1, <3>2, <3>3, <3>4, <3>5, <3>6, Zenon DEF Next
  <2> QED BY <2>2, <2>3 DEF FullWhenPurged
<1> QED BY <1>1, <1>2, AdmissionInvariant, PTL DEF Spec
=============================================================================
