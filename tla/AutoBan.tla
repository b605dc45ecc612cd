------------------------------ MODULE AutoBan ------------------------------
(***************************************************************************)
(* The two-stage auto-ban engine of pkg/waf/auto_ban.go: strikes in a      *)
(* sliding window, temporary bans that escalate to a permanent one, manual *)
(* bans, configuration reloads, and the state file that is to survive a    *)
(* crash.                                                                  *)
(*                                                                         *)
(* Every mutation runs under m.mu and ends with saveStateLocked, which is  *)
(* several system calls long: `saving` tells how far the save of the       *)
(* holder of the mutex has come, and a crash may come at any point of it.  *)
(* The whitelist is checked before the mutex is taken, and IsBanned looks  *)
(* an entry up under the read lock and deletes it under the write lock: in *)
(* between, the data may change.                                           *)
(***************************************************************************)
EXTENDS Integers, Sequences, FiniteSets

CONSTANTS
    IPs,               \* client addresses
    Callers,           \* requests in the WAF middleware or the internal API
    Paths,             \* persistence files
    Whitelists,        \* the whitelists a reload may install
    Limits,            \* the limits a configuration may set, times in ticks
    DiskFails,         \* BOOLEAN: a save may fail, and so may the load of the file
    Crashes,           \* BOOLEAN: the process may die
    MaxTime            \* bound on the clock

ASSUME AutoBanAssumption ==
    /\ IsFiniteSet(IPs)
    /\ Paths # {} /\ IPs # {}
    /\ Whitelists \subseteq SUBSET IPs
    /\ Limits # {} /\ Whitelists # {}
    /\ \A l \in Limits : /\ l.maxViolations \in Nat \ {0}
                         /\ l.window \in Nat \ {0}
                         /\ l.banDuration \in Nat \ {0}
                         /\ l.maxTemporaryBans \in Nat \ {0}
    /\ DiskFails \in BOOLEAN /\ Crashes \in BOOLEAN
    /\ MaxTime \in Nat

VARIABLES
    now,        \* the clock
    up,         \* the manager exists
    bans,       \* m.bans
    strikes,    \* m.strikes
    limits,     \* m.cfg: what makes a ban, and how long it is
    whitelist,  \* the compiled whitelist
    path,       \* m.persistencePath
    file,       \* [Paths -> what the file holds]
    acked,      \* history: the state of the last save that completed
    saving,     \* progress of saveStateLocked, "no" when m.mu is free
    dirty,      \* history: the last save failed, or the last start could not
                \* read the state file
    caller      \* the calls inside IsBanned, RecordViolation or Ban

vars == <<now, up, bans, strikes, limits, whitelist, path, file, acked, saving, dirty, caller>>

NoBan == [type |-> "none", expires |-> 0]
Permanent == [type |-> "permanent", expires |-> 0]
Temporary(e) == [type |-> "temporary", expires |-> e]

Ban == [type : {"none", "permanent", "temporary"}, expires : Nat]

\* A StrikeRecord; the address has no record when it equals NoStrikes.
Strike == [times : Seq(Nat), count : Nat]
NoStrikes == [times |-> <<>>, count |-> 0]

\* A PersistentBanState; a file that is missing or unreadable loads as empty.
FileState == [bans : [IPs -> Ban], strikes : [IPs -> Strike]]

EmptyState == [bans |-> [a \in IPs |-> NoBan], strikes |-> [a \in IPs |-> NoStrikes]]

CallerState ==
    [pc : {"idle", "lookup", "strike", "ban", "expired"}, ip : IPs, at : Nat]

TypeOK ==
    /\ now \in 0 .. MaxTime
    /\ up \in BOOLEAN
    /\ bans \in [IPs -> Ban]
    /\ strikes \in [IPs -> Strike]
    /\ limits \in Limits
    /\ whitelist \in SUBSET IPs
    /\ path \in Paths
    /\ file \in [Paths -> FileState]
    /\ acked \in FileState
    /\ saving \in {"no", "write", "rename", "closing", "renameclosing"}
    /\ dirty \in BOOLEAN
    /\ caller \in [Callers -> CallerState]

Idle == [pc |-> "idle", ip |-> CHOOSE a \in IPs : TRUE, at |-> 0]

\* The manager of the first start: no state file, nothing whitelisted.
Init ==
    /\ now = 0
    /\ up = TRUE
    /\ bans = [a \in IPs |-> NoBan]
    /\ strikes = [a \in IPs |-> NoStrikes]
    /\ limits \in Limits
    /\ whitelist = {}
    /\ path \in Paths
    /\ file = [p \in Paths |-> EmptyState]
    /\ acked = EmptyState
    /\ saving = "no"
    /\ dirty = FALSE
    /\ caller = [k \in Callers |-> Idle]

\* A ban that is in force now.
Active(b) == b.type = "permanent" \/ (b.type = "temporary" /\ now < b.expires)

\* The mutex m.mu is free.
Unlocked == up /\ saving = "no"

-----------------------------------------------------------------------------
(* saveStateLocked.                                                        *)

\* Mutant: the state file is rewritten in place.
SaveWrite_InPlace ==
    /\ saving \in {"write", "closing"}
    /\ file' = [file EXCEPT ![path] = EmptyState]
    /\ saving' = IF saving = "write" THEN "rename" ELSE "renameclosing"
    /\ UNCHANGED <<now, up, bans, strikes, limits, whitelist, path, acked, dirty, caller>>

\* The temporary file is written, synced and closed; the state file is
\* untouched.
SaveWrite ==
    /\ saving \in {"write", "closing"}
    /\ saving' = IF saving = "write" THEN "rename" ELSE "renameclosing"
    /\ UNCHANGED <<now, up, bans, strikes, limits, whitelist, path, file, acked, dirty, caller>>

\* What the manager becomes when the save is over: Close leaves no manager.
SaveEnds ==
    /\ saving' = "no"
    /\ up' = (saving \notin {"closing", "renameclosing"})

\* os.Rename replaces the state file in one step; the mutex is released.
SaveRename ==
    /\ saving \in {"rename", "renameclosing"}
    /\ acked' = [bans |-> bans, strikes |-> strikes]
    /\ file' = [file EXCEPT ![path] = acked']
    /\ dirty' = FALSE
    /\ SaveEnds
    /\ UNCHANGED <<now, bans, strikes, limits, whitelist, path, caller>>

\* A system call fails: the error is returned, and ignored by the engine.
SaveFails ==
    /\ DiskFails
    /\ saving # "no"
    /\ dirty' = TRUE
    /\ SaveEnds
    /\ UNCHANGED <<now, bans, strikes, limits, whitelist, path, file, acked, caller>>

-----------------------------------------------------------------------------
(* The request path.                                                       *)

\* IsBanned ("lookup"), RecordViolation ("strike") and Ban ("ban") begin
\* alike, without the mutex: for a whitelisted address they return.
CheckWhitelist(k, a, op) ==
    /\ up
    /\ caller[k].pc = "idle"
    /\ a \notin whitelist
    /\ caller' = [caller EXCEPT ![k] = [pc |-> op, ip |-> a, at |-> 0]]
    /\ UNCHANGED <<now, up, bans, strikes, limits, whitelist, path, file, acked, saving, dirty>>

\* The timestamps still in the window.  They are appended in the order of the
\* clock, so that those out of it come first.
OutOfWindow(times) == {i \in DOMAIN times : ~(times[i] > now - limits.window)}

InWindow(times) == SubSeq(times, Cardinality(OutOfWindow(times)) + 1, Len(times))

WindowFull(times) == Len(times) >= limits.maxViolations

\* The ban a full window leads to.
BanFor(count) ==
    IF count >= limits.maxTemporaryBans THEN Permanent ELSE Temporary(now + limits.banDuration)

\* RecordViolation under the mutex: nothing for an address banned already;
\* otherwise a strike, and a ban when the window is full.  Only a ban is saved.
RecordViolation(k) ==
    LET a == caller[k].ip
        times == Append(InWindow(strikes[a].times), now)
        count == strikes[a].count + 1 IN
    /\ Unlocked
    /\ caller[k].pc = "strike"
    /\ CASE Active(bans[a]) -> UNCHANGED <<bans, strikes, saving>>
         [] ~Active(bans[a]) /\ ~WindowFull(times) ->
              /\ bans' = [bans EXCEPT ![a] = NoBan]
              /\ strikes' = [strikes EXCEPT ![a].times = times]
              /\ saving' = "no"
         [] OTHER ->
              /\ bans' = [bans EXCEPT ![a] = BanFor(count)]
              /\ strikes' = [strikes EXCEPT ![a] = [times |-> <<>>, count |-> count]]
              /\ saving' = "write"
    /\ caller' = [caller EXCEPT ![k] = Idle]
    /\ UNCHANGED <<now, up, limits, whitelist, path, file, acked, dirty>>

\* IsBanned under the read lock: a temporary ban that has expired is to be
\* cleaned up; every other outcome is an answer.
IsBanned(k) ==
    LET b == bans[caller[k].ip] IN
    /\ Unlocked
    /\ caller[k].pc = "lookup"
    /\ caller' = [caller EXCEPT ![k] =
                    IF b.type = "temporary" /\ ~Active(b)
                    THEN [@ EXCEPT !.pc = "expired", !.at = now] ELSE Idle]
    /\ UNCHANGED <<now, up, bans, strikes, limits, whitelist, path, file, acked, saving, dirty>>

\* Mutant: the entry is deleted without being looked at again.
StillExpired_Assumed(k) == TRUE

\* The second look, under the mutex, at the entry of this moment but with the
\* time of the first look.
StillExpired(k) ==
    /\ bans[caller[k].ip].type = "temporary"
    /\ caller[k].at >= bans[caller[k].ip].expires

\* IsBanned under the write lock: delete the expired entry, and save.
CleanUpExpired(k) ==
    /\ Unlocked
    /\ caller[k].pc = "expired"
    /\ IF StillExpired(k)
       THEN bans' = [bans EXCEPT ![caller[k].ip] = NoBan] /\ saving' = "write"
       ELSE UNCHANGED <<bans, saving>>
    /\ caller' = [caller EXCEPT ![k] = Idle]
    /\ UNCHANGED <<now, up, strikes, limits, whitelist, path, file, acked, dirty>>

-----------------------------------------------------------------------------
(* The internal API, the sweeper and the reload.                           *)

\* POST .../ban: replaces whatever entry the address has.
ManualBan(k, b) ==
    /\ Unlocked
    /\ caller[k].pc = "ban"
    /\ bans' = [bans EXCEPT ![caller[k].ip] = b]
    /\ saving' = "write"
    /\ caller' = [caller EXCEPT ![k] = Idle]
    /\ UNCHANGED <<now, up, strikes, limits, whitelist, path, file, acked, dirty>>

\* POST .../unban.
Unban(a) ==
    /\ Unlocked
    /\ bans' = [bans EXCEPT ![a] = NoBan]
    /\ strikes' = [strikes EXCEPT ![a] = NoStrikes]
    /\ saving' = "write"
    /\ UNCHANGED <<now, up, limits, whitelist, path, file, acked, dirty, caller>>

\* Mutant: the comparison with the expiry is the wrong way round.
Swept_Inverted == {a \in IPs : bans[a].type = "temporary" /\ now < bans[a].expires}

Swept == {a \in IPs : bans[a].type = "temporary" /\ now > bans[a].expires}

\* sweepExpiredBans, of the 30 s ticker; without a change nothing is saved.
SweepExpiredBans ==
    /\ Unlocked
    /\ Swept # {}
    /\ bans' = [a \in IPs |-> IF a \in Swept THEN NoBan ELSE bans[a]]
    /\ saving' = "write"
    /\ UNCHANGED <<now, up, strikes, limits, whitelist, path, file, acked, dirty, caller>>

\* loadStateLocked over the tables bs and ss.  The bans in force are taken over,
\* and a strike table that is not empty replaces the one there is (an empty one
\* is omitted from the JSON).  A file that cannot be read or parsed leaves both
\* tables as they are; the callers ignore the error.
LoadState(p, bs, ss, read) ==
    /\ read \/ DiskFails
    /\ bans' = [a \in IPs |-> IF read /\ Active(file[p].bans[a])
                             THEN file[p].bans[a] ELSE bs[a]]
    /\ strikes' = IF read /\ \E a \in IPs : file[p].strikes[a] # NoStrikes
                  THEN file[p].strikes ELSE ss

\* UpdateConfig, called by WAFEngine.Reload: new limits and a new whitelist; the
\* state file of a new path is loaded over the state in memory.  The strikes
\* recorded under the old limits stay.
UpdateConfig(l, w, p) ==
    /\ Unlocked
    /\ limits' = l
    /\ whitelist' = w
    /\ path' = p
    /\ IF p # path THEN \E read \in BOOLEAN : LoadState(p, bans, strikes, read)
                   ELSE UNCHANGED <<bans, strikes>>
    /\ UNCHANGED <<now, up, file, acked, saving, dirty, caller>>

\* Reload with the engine disabled: Close saves, and the manager is dropped.
Close ==
    /\ Unlocked
    /\ \A k \in Callers : caller[k].pc = "idle"
    /\ saving' = "closing"
    /\ UNCHANGED <<now, up, bans, strikes, limits, whitelist, path, file, acked, dirty, caller>>

\* The process dies, at any point of a save too.
Crash ==
    /\ Crashes
    /\ up
    /\ up' = FALSE
    /\ saving' = "no"
    /\ caller' = [k \in Callers |-> Idle]
    /\ UNCHANGED <<now, bans, strikes, limits, whitelist, path, file, acked, dirty>>

\* NewAutoBanManager, after a crash or by a reload that switches the engine on
\* again: empty tables, then loadState of the configured path.
NewAutoBanManager(l, w, p) ==
    /\ ~up
    /\ up' = TRUE
    /\ limits' = l
    /\ whitelist' = w
    /\ path' = p
    /\ \E read \in BOOLEAN :
          /\ LoadState(p, EmptyState.bans, EmptyState.strikes, read)
          /\ dirty' = ~read
    /\ UNCHANGED <<now, file, acked, saving, caller>>

Tick ==
    /\ now < MaxTime
    /\ now' = now + 1
    /\ UNCHANGED <<up, bans, strikes, limits, whitelist, path, file, acked, saving, dirty, caller>>

-----------------------------------------------------------------------------
ManualBanStep(k) == ManualBan(k, Permanent) \/ ManualBan(k, Temporary(now + limits.banDuration))

CallerStep(k) ==
    \/ \E a \in IPs, op \in {"lookup", "strike", "ban"} : CheckWhitelist(k, a, op)
    \/ IsBanned(k)
    \/ RecordViolation(k)
    \/ CleanUpExpired(k)
    \/ ManualBanStep(k)

SaveStep == SaveWrite \/ SaveRename \/ SaveFails

Next ==
    \/ \E k \in Callers : CallerStep(k)
    \/ \E a \in IPs : Unban(a)
    \/ SaveStep
    \/ SweepExpiredBans
    \/ \E l \in Limits, w \in Whitelists, p \in Paths :
          UpdateConfig(l, w, p) \/ NewAutoBanManager(l, w, p)
    \/ Close
    \/ Crash
    \/ Tick

\* A save ends; the ticker of the sweeper fires again and again, and a Go
\* mutex does not starve a waiter.
Fairness ==
    /\ WF_vars(SaveStep)
    /\ SF_vars(SweepExpiredBans)

Spec == Init /\ [][Next]_vars /\ Fairness

-----------------------------------------------------------------------------
(* Properties.                                                             *)

\* REQ-136, FR-7 and AC-4: unless the last save failed or the last start could
\* not read the file, the bans in force and the number of bans each address has
\* collected are those of the last save that completed, through any number of
\* crashes, restarts and changes of the limits.  A crash in the
\* middle of a save brings back the state before it, never less.  (The state is
\* also well typed.)
RestartRetainsBans ==
    /\ TypeOK
    /\ (up /\ saving = "no" /\ ~dirty) =>
           \A a \in IPs :
               /\ Active(bans[a]) \/ Active(acked.bans[a]) => bans[a] = acked.bans[a]
               /\ strikes[a].count = acked.strikes[a].count

\* A ban in force is lifted or changed only by an administrator (or lost with
\* the process): the lazy clean-up of IsBanned, which acts on a lookup made
\* before it had the mutex, and the sweeper never take a newer ban away.
ActiveBanKept ==
    [][\A a \in IPs :
          (up /\ up' /\ Active(bans[a]) /\ bans'[a] # bans[a]) =>
              Unban(a) \/ \E k \in Callers : caller[k].ip = a /\ ManualBanStep(k)]_vars

\* An expired ban does not stay in the table for ever: the sweeper removes it
\* however often the mutex is taken by others.
ExpiredPurged ==
    \A a \in IPs, e \in 0 .. MaxTime :
        (up /\ bans[a] = Temporary(e) /\ now > e) ~> (~up \/ bans[a] # Temporary(e))
=============================================================================
