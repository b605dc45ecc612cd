----------------------------- MODULE WafEngine -----------------------------
(***************************************************************************)
(* pkg/waf: the engine that Reload changes while requests pass through it  *)
(* (waf.go, middleware.go, ip_acl.go, protocol.go).  A request asks the    *)
(* engine several times, each time under the read lock, and keeps that     *)
(* lock while it reads the body it inspects.  A writer that waits for a    *)
(* sync.RWMutex keeps new readers out.  Auto-bans: module AutoBan.         *)
(***************************************************************************)
EXTENDS Integers, FiniteSets, FiniteSetsExt

CONSTANTS
    Workers,      \* goroutines with a request
    WafRequests,  \* the requests clients send
    Configs,      \* by name: the WAFConfig of a configuration
    Writers,      \* goroutines that reload
    LoadedBans,   \* the bans read from the state file
    MaxWafRequests

NoWriter == 0

VARIABLES
    running,   \* the name and version of the configuration in force
    at,        \* where a worker is
    wreq,      \* its request
    client,    \* the address ExtractClientIP gave
    readers,   \* workers that hold the read lock across a body
    writer,    \* the reload that waits for the write lock
    banned,    \* clients on the ban list: the manager's or, without one, the file's
    wafSent

wafVars == <<running, at, wreq, client, readers, writer, banned, wafSent>>

Idle == [path |-> "none"]

WafInit ==
    /\ running = [v |-> 0, name |-> "start"]
    /\ at = [w \in Workers |-> "idle"] /\ wreq = [w \in Workers |-> Idle]
    /\ client = [w \in Workers |-> "none"]
    /\ readers = {} /\ writer = NoWriter /\ banned = LoadedBans /\ wafSent = 0

Config == Configs[running.name]

\* RLock: not while a writer waits or writes.
MayRead == writer = NoWriter

WorkerTo(w, l) == at' = [at EXCEPT ![w] = l]

WorkerDone(w) ==
    /\ WorkerTo(w, "idle") /\ wreq' = [wreq EXCEPT ![w] = Idle]
    /\ client' = [client EXCEPT ![w] = "none"]

WafArrive(w) ==
    /\ at[w] = "idle" /\ wafSent < MaxWafRequests
    /\ \E r \in WafRequests : wreq' = [wreq EXCEPT ![w] = r]
    /\ WorkerTo(w, "gate") /\ wafSent' = wafSent + 1
    /\ UNCHANGED <<running, client, readers, writer, banned>>

\* engine.Config().Enabled
Gate(w) ==
    /\ at[w] = "gate" /\ MayRead
    /\ IF Config.enabled THEN WorkerTo(w, "paths") /\ UNCHANGED <<wreq, client>>
       ELSE WorkerDone(w)
    /\ UNCHANGED <<running, readers, writer, banned, wafSent>>

\* engine.Config().Excluded: a route with a policy of its own passes.
Exclusions(w) ==
    /\ at[w] = "paths" /\ MayRead
    /\ IF wreq[w].path \in Config.excluded THEN WorkerDone(w)
       ELSE WorkerTo(w, "identify") /\ UNCHANGED <<wreq, client>>
    /\ UNCHANGED <<running, readers, writer, banned, wafSent>>

\* ExtractClientIP: headers count only when the peer is a trusted proxy.
ClientIP(r, trusted) ==
    IF r.peer \in trusted /\ r.forwarded # "none" THEN r.forwarded ELSE r.peer

Identify(w) ==
    /\ at[w] = "identify" /\ MayRead
    /\ client' = [client EXCEPT ![w] = ClientIP(wreq[w], Config.trusted)]
    /\ WorkerTo(w, "ban")
    /\ UNCHANGED <<running, wreq, readers, writer, banned, wafSent>>

\* AutoBanManager() and IsBanned: a banned client is refused.
BanCheck(w) ==
    /\ at[w] = "ban" /\ MayRead
    /\ WorkerTo(w, IF Config.autoBan /\ client[w] \in banned THEN "log" ELSE "acl")
    /\ UNCHANGED <<running, wreq, client, readers, writer, banned, wafSent>>

\* CheckIP: the deny list first, then the allow list if there is one.
Permitted(c, cfg) ==
    c \notin cfg.denied /\ (cfg.allowed = {} \/ c \in cfg.allowed)

\* IPAccessList() and, for a request that passes, ValidateProtocolIntegrity,
\* which asks the engine nothing.
AclAndProtocol(w) ==
    /\ at[w] = "acl" /\ MayRead
    /\ WorkerTo(w, IF Permitted(client[w], Config) /\ wreq[w].wellFormed
                   THEN "inspect" ELSE "report")
    /\ UNCHANGED <<running, wreq, client, readers, writer, banned, wafSent>>

\* inspectInternal takes the read lock and, for a method with a body, reads
\* from the connection.
InspectBegins(w) ==
    /\ at[w] = "inspect" /\ MayRead
    /\ readers' = readers \cup {w} /\ WorkerTo(w, "body")
    /\ UNCHANGED <<running, wreq, client, writer, banned, wafSent>>

\* The rules that match add up; in enforce mode the threshold blocks.
Score(r, cfg) == MapThenSumSet(LAMBDA m : cfg.rules[m], r.marks \cap DOMAIN cfg.rules)
Blocked(r, cfg) == cfg.enforce /\ Score(r, cfg) >= cfg.threshold

\* Mutant: the threshold is read through Config() under the lock already held.
InspectEnds_Nested(w) ==
    /\ at[w] = "body" /\ MayRead
    /\ readers' = readers \ {w}
    /\ IF Score(wreq[w], Config) = 0 THEN WorkerDone(w)
       ELSE /\ WorkerTo(w, IF Blocked(wreq[w], Config) THEN "report" ELSE "log")
            /\ UNCHANGED <<wreq, client>>
    /\ UNCHANGED <<running, writer, banned, wafSent>>

\* The body has come, or its reading has failed; the rules are applied and the
\* lock is released.
InspectEnds(w) ==
    /\ at[w] = "body"
    /\ readers' = readers \ {w}
    /\ IF Score(wreq[w], Config) = 0 THEN WorkerDone(w)
       ELSE /\ WorkerTo(w, IF Blocked(wreq[w], Config) THEN "report" ELSE "log")
            /\ UNCHANGED <<wreq, client>>
    /\ UNCHANGED <<running, writer, banned, wafSent>>

\* AuditLogger() and LogEvent.  A banned client has been refused, and a request
\* that only scored goes on to next(); of the others the violation is recorded.
Audit(w) ==
    /\ at[w] \in {"log", "report"} /\ MayRead
    /\ IF at[w] = "log" THEN WorkerDone(w)
       ELSE WorkerTo(w, "record") /\ UNCHANGED <<wreq, client>>
    /\ UNCHANGED <<running, readers, writer, banned, wafSent>>

\* AutoBanManager() and RecordViolation, which bans the client or only counts
\* (module AutoBan); the request is refused.
Violation(w) ==
    /\ at[w] = "record" /\ MayRead
    /\ \/ UNCHANGED banned
       \/ Config.autoBan /\ banned' = banned \cup {client[w]}
    /\ WorkerDone(w)
    /\ UNCHANGED <<running, readers, writer, wafSent>>

\* Reload, once the new lists and rules are built: Lock ...
ReloadLocks(t) ==
    /\ writer = NoWriter
    /\ writer' = t
    /\ UNCHANGED <<running, at, wreq, client, readers, banned, wafSent>>

\* The auto-ban manager exists while the configuration in force asks for one.
\* UpdateConfig keeps its bans, Close saves them, and NewAutoBanManager, which
\* never returns an error, loads what the file gives back: the bans, or none if
\* there is no file or it cannot be read (module AutoBan).
ReloadAutoBan(cfg) ==
    IF cfg.autoBan /\ ~Config.autoBan THEN banned' \in {banned, {}} ELSE UNCHANGED banned

\* ... and the whole configuration is replaced.
ReloadApplies(t, c) ==
    /\ writer = t /\ readers = {}
    /\ ReloadAutoBan(Configs[c.name])
    /\ running' = c /\ writer' = NoWriter
    /\ UNCHANGED <<at, wreq, client, readers, wafSent>>

WafStep(w) ==
    \/ Gate(w) \/ Exclusions(w) \/ Identify(w) \/ BanCheck(w) \/ AclAndProtocol(w)
    \/ InspectBegins(w) \/ InspectEnds(w) \/ Audit(w) \/ Violation(w)

WafTypeOK ==
    /\ running.name \in DOMAIN Configs /\ running.v \in Nat
    /\ at \in [Workers -> {"idle", "gate", "paths", "identify", "ban", "acl", "inspect",
                           "body", "log", "report", "record"}]
    /\ \A w \in Workers : (at[w] = "idle") = (wreq[w] = Idle)
    /\ readers = {w \in Workers : at[w] = "body"}
    /\ writer \in Writers \cup {NoWriter} /\ wafSent \in 0..MaxWafRequests

\* Every request leaves the WAF, though a reload that waits for the write lock
\* holds up all of them until the slowest body has been read (inspectInternal
\* reads it under the read lock).
RequestsGetThrough == \A w \in Workers : at[w] # "idle" ~> at[w] = "idle"
=============================================================================
