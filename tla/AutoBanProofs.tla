--------------------------- MODULE AutoBanProofs ---------------------------
(***************************************************************************)
(* Proofs about AutoBan, for any addresses, callers, whitelists, limits    *)
(* and clock, with saves and loads that fail and crashes in the middle of  *)
(* a save: what a restart brings back, and who may lift a ban in force.    *)
(*                                                                         *)
(* Both are about a configuration whose persistence path a reload does not *)
(* change (OnePath): UpdateConfig loads the file of a new path over the    *)
(* bans in memory and saves nothing, so that with two paths neither holds. *)
(***************************************************************************)
EXTENDS AutoBan, FiniteSetTheorems, TLAPS

OnePath == \A p, q \in Paths : p = q

\* The state file is, at every instant, the last state that was saved: the
\* rename is the only write of it.
Filed == file[path] = acked

\* What memory and the last completed save agree on while nobody is saving.
Retained ==
    (up /\ saving = "no" /\ ~dirty) =>
        \A a \in IPs :
            /\ Active(bans[a]) \/ Active(acked.bans[a]) => bans[a] = acked.bans[a]
            /\ strikes[a].count = acked.strikes[a].count

\* The time a lookup has noted is in the past.
Dated == \A k \in Callers : caller[k].at <= now

BanInv == TypeOK /\ Filed /\ Retained /\ Dated

-----------------------------------------------------------------------------
(* The values of the tables.                                               *)

\* The three forms of an entry of m.bans.
LEMMA BanValues ==
    /\ NoBan \in Ban /\ NoBan.type = "none"
    /\ Permanent \in Ban
    /\ \A e \in Nat : Temporary(e) \in Ban
BY DEF NoBan, Permanent, Temporary, Ban

\* A strike record and its fields.
LEMMA StrikeValues ==
    /\ NoStrikes \in Strike /\ NoStrikes.times = <<>> /\ NoStrikes.count = 0
    /\ \A s \in Strike : s.times \in Seq(Nat) /\ s.count \in Nat
    /\ \A t \in Seq(Nat), n \in Nat :
          LET s == [times |-> t, count |-> n]
          IN  s \in Strike /\ s.times = t /\ s.count = n
    /\ \A s \in Strike, t \in Seq(Nat) :
          LET n == [s EXCEPT !.times = t]
          IN  n \in Strike /\ n.times = t /\ n.count = s.count
BY DEF NoStrikes, Strike

\* A state file and its fields.
LEMMA FileValues ==
    /\ EmptyState \in FileState
    /\ EmptyState.bans = [a \in IPs |-> NoBan]
    /\ EmptyState.strikes = [a \in IPs |-> NoStrikes]
    /\ \A f \in FileState : f.bans \in [IPs -> Ban] /\ f.strikes \in [IPs -> Strike]
    /\ \A bs \in [IPs -> Ban], ss \in [IPs -> Strike] :
          LET f == [bans |-> bs, strikes |-> ss]
          IN  f \in FileState /\ f.bans = bs /\ f.strikes = ss
BY BanValues, StrikeValues DEF FileState, EmptyState

\* A call and its fields.
LEMMA CallerValues ==
    /\ Idle \in CallerState /\ Idle.at = 0
    /\ \A c \in CallerState : c.ip \in IPs /\ c.at \in Nat
    /\ \A op \in {"lookup", "strike", "ban"}, a \in IPs :
          LET c == [pc |-> op, ip |-> a, at |-> 0]
          IN  c \in CallerState /\ c.at = 0
    /\ \A c \in CallerState, t \in Nat :
          LET n == [c EXCEPT !.pc = "expired", !.at = t]
          IN  n \in CallerState /\ n.at = t
<1>1. (CHOOSE a \in IPs : TRUE) \in IPs
  BY AutoBanAssumption
<1> QED BY <1>1 DEF Idle, CallerState

\* The timestamps in the window are timestamps.
LEMMA WindowType ==
    ASSUME now \in Nat, limits \in Limits, NEW times \in Seq(Nat)
    PROVE  Append(InWindow(times), now) \in Seq(Nat)
<1> DEFINE n == Cardinality(OutOfWindow(times))
<1>1. OutOfWindow(times) \subseteq 1..Len(times)
  BY DEF OutOfWindow
<1>2. IsFiniteSet(1..Len(times))
  BY FS_Interval
<1>3. n \in Nat
  BY <1>1, <1>2, FS_Subset, FS_CardinalityType
<1>4. n <= Len(times)
  BY <1>1, <1>2, FS_Subset, FS_Interval
<1> HIDE DEF n
<1>5. SubSeq(times, n + 1, Len(times)) \in Seq(Nat)
  BY <1>3, <1>4
<1> QED BY <1>5 DEF InWindow, n

-----------------------------------------------------------------------------
(* The invariant is inductive: one lemma per action.                       *)

\* The manager of the first start.
LEMMA InitInv == Init => BanInv
<1> SUFFICES ASSUME Init PROVE BanInv
  OBVIOUS
<1>1. now = 0 /\ bans = EmptyState.bans /\ strikes = EmptyState.strikes /\ acked = EmptyState
  BY FileValues DEF Init
<1>2. EmptyState.bans \in [IPs -> Ban] /\ EmptyState.strikes \in [IPs -> Strike]
  BY FileValues
<1>4. /\ caller \in [Callers -> CallerState]
      /\ \A k \in Callers : caller[k] = Idle
  BY CallerValues DEF Init
<1>5. TypeOK
  <2>1. now \in 0 .. MaxTime
    BY <1>1, AutoBanAssumption
  <2>2. file \in [Paths -> FileState]
    BY FileValues DEF Init
  <2>3. /\ up \in BOOLEAN /\ dirty \in BOOLEAN /\ path \in Paths
        /\ limits \in Limits /\ whitelist \in SUBSET IPs
        /\ saving \in {"no", "write", "rename", "closing", "renameclosing"}
    BY DEF Init
  <2> QED BY <1>1, <1>2, <1>4, <2>1, <2>2, <2>3, FileValues DEF TypeOK
<1>6. Filed
  BY <1>1 DEF Init, Filed
<1>7. Retained
  BY <1>1 DEF Retained
<1>8. Dated
  <2> SUFFICES ASSUME NEW k \in Callers PROVE caller[k].at <= now
    BY DEF Dated
  <2>1. caller[k].at = 0
    BY <1>4, CallerValues
  <2> QED BY <1>1, <2>1
<1> QED BY <1>5, <1>6, <1>7, <1>8 DEF BanInv

\* A mutation under the mutex that goes on to save: whatever it does to the
\* tables, it is the save that has to answer for it.
LEMMA MutationKeeps ==
    ASSUME BanInv, saving' = "write",
           bans' \in [IPs -> Ban], strikes' \in [IPs -> Strike],
           caller' \in [Callers -> CallerState],
           \A k \in Callers : caller'[k].at <= now,
           UNCHANGED <<now, up, limits, whitelist, path, file, acked, dirty>>
    PROVE  BanInv'
<1>1. TypeOK'
  BY DEF BanInv, TypeOK
<1>2. Filed'
  BY DEF BanInv, Filed
<1>3. Retained'
  BY DEF Retained
<1>4. Dated'
  BY DEF Dated
<1> QED BY <1>1, <1>2, <1>3, <1>4 DEF BanInv

\* A step of a caller that leaves the tables alone.
LEMMA LookKeeps ==
    ASSUME BanInv, caller' \in [Callers -> CallerState],
           \A k \in Callers : caller'[k].at <= now,
           UNCHANGED <<now, up, bans, strikes, limits, whitelist, path, file, acked, saving, dirty>>
    PROVE  BanInv'
<1>1. TypeOK'
  BY DEF BanInv, TypeOK
<1>2. Filed'
  BY DEF BanInv, Filed
<1>3. Retained'
  BY DEF BanInv, Retained, Active
<1>4. Dated'
  BY DEF Dated
<1> QED BY <1>1, <1>2, <1>3, <1>4 DEF BanInv

\* A caller that returns.
LEMMA ReturnKeeps ==
    ASSUME BanInv, NEW k \in Callers, caller' = [caller EXCEPT ![k] = Idle]
    PROVE  /\ caller' \in [Callers -> CallerState]
           /\ \A j \in Callers : caller'[j].at <= now
<1>1. now \in Nat /\ caller \in [Callers -> CallerState]
  BY AutoBanAssumption DEF BanInv, TypeOK
<1>2. Idle \in CallerState /\ Idle.at = 0
  BY CallerValues
<1> QED BY <1>1, <1>2 DEF BanInv, Dated

\* The whitelist is looked at without the mutex.
LEMMA CheckWhitelistInv ==
    ASSUME BanInv, NEW k \in Callers, NEW a \in IPs,
           NEW op \in {"lookup", "strike", "ban"}, CheckWhitelist(k, a, op)
    PROVE  BanInv'
<1> DEFINE c == [pc |-> op, ip |-> a, at |-> 0]
<1>1. c \in CallerState /\ c.at = 0
  BY CallerValues
<1>2. caller' = [caller EXCEPT ![k] = c]
  BY DEF CheckWhitelist
<1> HIDE DEF c
<1>3. /\ caller' \in [Callers -> CallerState]
      /\ \A j \in Callers : caller'[j].at <= now
  BY <1>1, <1>2, AutoBanAssumption DEF BanInv, TypeOK, Dated
<1> QED BY <1>3, LookKeeps DEF CheckWhitelist

\* The look under the read lock notes the time.
LEMMA IsBannedInv ==
    ASSUME BanInv, NEW k \in Callers, IsBanned(k)
    PROVE  BanInv'
<1> DEFINE c == [caller[k] EXCEPT !.pc = "expired", !.at = now]
<1>1. now \in Nat /\ caller[k] \in CallerState
  BY AutoBanAssumption DEF BanInv, TypeOK
<1>2. c \in CallerState /\ c.at = now
  BY <1>1, CallerValues
<1>3. caller' = [caller EXCEPT ![k] = c] \/ caller' = [caller EXCEPT ![k] = Idle]
  BY DEF IsBanned, BanInv, TypeOK
<1> HIDE DEF c
<1>4. /\ caller' \in [Callers -> CallerState]
      /\ \A j \in Callers : caller'[j].at <= now
  BY <1>1, <1>2, <1>3, ReturnKeeps, AutoBanAssumption DEF BanInv, TypeOK, Dated
<1> QED BY <1>4, LookKeeps DEF IsBanned

\* A violation: nothing, a strike, or a ban that is saved.
LEMMA RecordViolationInv ==
    ASSUME BanInv, NEW k \in Callers, RecordViolation(k)
    PROVE  BanInv'
<1> DEFINE a == caller[k].ip
           times == Append(InWindow(strikes[a].times), now)
           count == strikes[a].count + 1
<1>1. now \in Nat /\ limits \in Limits /\ a \in IPs
  <2>1. caller[k] \in CallerState
    BY DEF BanInv, TypeOK
  <2>2. a \in IPs
    BY <2>1, CallerValues
  <2> QED BY <2>2, AutoBanAssumption DEF BanInv, TypeOK
<1>2. strikes[a] \in Strike /\ strikes[a].times \in Seq(Nat) /\ strikes[a].count \in Nat
  BY <1>1, StrikeValues DEF BanInv, TypeOK
<1>3. times \in Seq(Nat) /\ count \in Nat
  BY <1>1, <1>2, WindowType
<1>4. /\ caller' \in [Callers -> CallerState]
      /\ \A j \in Callers : caller'[j].at <= now
  BY ReturnKeeps DEF RecordViolation
<1>5. UNCHANGED <<now, up, limits, whitelist, path, file, acked, dirty>> /\ Unlocked
  BY DEF RecordViolation
<1> HIDE DEF times
<1>6. CASE Active(bans[a])
  BY <1>4, <1>5, <1>6, LookKeeps DEF RecordViolation
<1>7. CASE ~Active(bans[a]) /\ ~WindowFull(times)
  <2> DEFINE s == [strikes[a] EXCEPT !.times = times]
  <2>1. s \in Strike /\ s.times = times /\ s.count = strikes[a].count
    BY <1>2, <1>3, StrikeValues
  <2>2. /\ bans' = [bans EXCEPT ![a] = NoBan]
        /\ strikes' = [strikes EXCEPT ![a] = s]
        /\ saving' = "no"
    BY <1>7 DEF RecordViolation, times
  <2> HIDE DEF s
  <2>4. bans' \in [IPs -> Ban] /\ strikes' \in [IPs -> Strike]
    BY <2>1, <2>2, BanValues DEF BanInv, TypeOK
  <2>6. TypeOK'
    BY <1>4, <1>5, <2>2, <2>4 DEF BanInv, TypeOK
  <2>7. Filed'
    BY <1>5 DEF BanInv, Filed
  <2>8. Retained'
    <3> SUFFICES ASSUME up, ~dirty, NEW b \in IPs
                 PROVE  /\ Active(bans'[b]) \/ Active(acked.bans[b]) => bans'[b] = acked.bans[b]
                        /\ strikes'[b].count = acked.strikes[b].count
      BY <1>5, <2>2 DEF Retained, Active
    <3>1. /\ Active(bans[b]) \/ Active(acked.bans[b]) => bans[b] = acked.bans[b]
          /\ strikes[b].count = acked.strikes[b].count
      BY <1>5 DEF BanInv, Retained, Unlocked
    <3>2. CASE b # a
      BY <2>2, <3>1, <3>2 DEF BanInv, TypeOK
    <3>3. CASE b = a
      <4>1. ~Active(acked.bans[b])
        BY <1>7, <3>1, <3>3
      <4>2. bans'[b] = NoBan /\ strikes'[b] = s
        BY <2>2, <3>3 DEF BanInv, TypeOK
      <4>3. ~Active(NoBan)
        BY BanValues DEF Active
      <4> QED BY <2>1, <3>1, <3>3, <4>1, <4>2, <4>3
    <3> QED BY <3>2, <3>3
  <2>9. Dated'
    BY <1>4, <1>5 DEF Dated
  <2> QED BY <2>6, <2>7, <2>8, <2>9 DEF BanInv
<1>8. CASE ~Active(bans[a]) /\ WindowFull(times)
  <2> DEFINE s == [times |-> <<>>, count |-> count]
  <2>1. s \in Strike /\ s.times = <<>>
    BY <1>3, StrikeValues
  <2>2. /\ bans' = [bans EXCEPT ![a] = BanFor(count)]
        /\ strikes' = [strikes EXCEPT ![a] = s]
        /\ saving' = "write"
    BY <1>8 DEF RecordViolation, times
  <2> HIDE DEF s
  <2>3. BanFor(count) \in Ban
    BY <1>1, BanValues, AutoBanAssumption DEF BanFor
  <2>4. bans' \in [IPs -> Ban] /\ strikes' \in [IPs -> Strike]
    BY <2>1, <2>2, <2>3 DEF BanInv, TypeOK
  <2> QED BY <1>4, <1>5, <2>2, <2>4, MutationKeeps
<1> QED BY <1>6, <1>7, <1>8

\* The clean-up of IsBanned under the write lock.
LEMMA CleanUpExpiredInv ==
    ASSUME BanInv, NEW k \in Callers, CleanUpExpired(k)
    PROVE  BanInv'
<1>1. /\ caller' \in [Callers -> CallerState]
      /\ \A j \in Callers : caller'[j].at <= now
  BY ReturnKeeps DEF CleanUpExpired
<1>2. CASE StillExpired(k)
  <2>1. bans' \in [IPs -> Ban] /\ saving' = "write" /\ strikes' = strikes
    BY <1>2, BanValues DEF CleanUpExpired, BanInv, TypeOK
  <2>2. strikes' \in [IPs -> Strike]
    BY <2>1 DEF BanInv, TypeOK
  <2> QED BY <1>1, <2>1, <2>2, MutationKeeps DEF CleanUpExpired
<1>3. CASE ~StillExpired(k)
  BY <1>1, <1>3, LookKeeps DEF CleanUpExpired
<1> QED BY <1>2, <1>3

\* A ban by hand.
LEMMA ManualBanInv ==
    ASSUME BanInv, NEW k \in Callers, ManualBanStep(k)
    PROVE  BanInv'
<1>1. now + limits.banDuration \in Nat
  BY AutoBanAssumption DEF BanInv, TypeOK
<1>2. PICK b \in Ban : ManualBan(k, b)
  BY <1>1, BanValues DEF ManualBanStep
<1>3. /\ caller' \in [Callers -> CallerState]
      /\ \A j \in Callers : caller'[j].at <= now
  BY <1>2, ReturnKeeps DEF ManualBan
<1>4. bans' \in [IPs -> Ban] /\ strikes' \in [IPs -> Strike]
  BY <1>2 DEF ManualBan, BanInv, TypeOK
<1> QED BY <1>2, <1>3, <1>4, MutationKeeps DEF ManualBan

\* An administrator's unban clears the strikes too.
LEMMA UnbanInv ==
    ASSUME BanInv, NEW a \in IPs, Unban(a)
    PROVE  BanInv'
<1>1. bans' \in [IPs -> Ban] /\ strikes' \in [IPs -> Strike]
  BY BanValues, StrikeValues DEF Unban, BanInv, TypeOK
<1>3. /\ caller' \in [Callers -> CallerState]
      /\ \A j \in Callers : caller'[j].at <= now
  BY DEF Unban, BanInv, TypeOK, Dated
<1> QED BY <1>1, <1>3, MutationKeeps DEF Unban

\* The sweeper.
LEMMA SweepInv ==
    ASSUME BanInv, SweepExpiredBans
    PROVE  BanInv'
<1>1. bans' \in [IPs -> Ban]
  BY BanValues DEF SweepExpiredBans, BanInv, TypeOK
<1>2. strikes' \in [IPs -> Strike]
  BY DEF SweepExpiredBans, BanInv, TypeOK
<1>3. /\ caller' \in [Callers -> CallerState]
      /\ \A j \in Callers : caller'[j].at <= now
  BY DEF SweepExpiredBans, BanInv, TypeOK, Dated
<1> QED BY <1>1, <1>2, <1>3, MutationKeeps DEF SweepExpiredBans

-----------------------------------------------------------------------------
(* Saving, crashing and starting again.                                    *)

\* The temporary file; the state file is not touched.
LEMMA SaveWriteInv ==
    ASSUME BanInv, SaveWrite
    PROVE  BanInv'
<1>1. TypeOK'
  BY DEF SaveWrite, BanInv, TypeOK
<1>2. Filed'
  BY DEF SaveWrite, BanInv, Filed
<1>3. Retained'
  BY DEF SaveWrite, Retained
<1>4. Dated'
  BY DEF SaveWrite, BanInv, Dated
<1> QED BY <1>1, <1>2, <1>3, <1>4 DEF BanInv

\* The rename makes the file, the history and the tables agree.
LEMMA SaveRenameInv ==
    ASSUME BanInv, SaveRename
    PROVE  BanInv'
<1>1. acked' \in FileState /\ acked'.bans = bans /\ acked'.strikes = strikes
  BY FileValues DEF SaveRename, BanInv, TypeOK
<1>2. UNCHANGED <<now, bans, strikes, limits, whitelist, path, caller>> /\ dirty' = FALSE
  BY DEF SaveRename
<1>3. file' \in [Paths -> FileState] /\ file'[path] = acked'
  BY <1>1 DEF SaveRename, BanInv, TypeOK
<1>4. saving' = "no" /\ up' \in BOOLEAN
  BY DEF SaveRename, SaveEnds
<1>5. TypeOK'
  BY <1>1, <1>2, <1>3, <1>4 DEF BanInv, TypeOK
<1>6. Filed'
  BY <1>1, <1>2, <1>3 DEF BanInv, TypeOK, Filed
<1>7. Retained'
  BY <1>1, <1>2 DEF Retained, Active
<1>8. Dated'
  BY <1>2 DEF BanInv, Dated
<1> QED BY <1>5, <1>6, <1>7, <1>8 DEF BanInv

\* A save that fails leaves the file and says so.
LEMMA SaveFailsInv ==
    ASSUME BanInv, SaveFails
    PROVE  BanInv'
<1>1. saving' = "no" /\ up' \in BOOLEAN /\ dirty' = TRUE
  BY DEF SaveFails, SaveEnds
<1>2. UNCHANGED <<now, bans, strikes, limits, whitelist, path, file, acked, caller>>
  BY DEF SaveFails
<1>3. TypeOK'
  BY <1>1, <1>2 DEF BanInv, TypeOK
<1>4. Filed'
  BY <1>2 DEF BanInv, Filed
<1>5. Retained'
  BY <1>1 DEF Retained
<1>6. Dated'
  BY <1>2 DEF BanInv, Dated
<1> QED BY <1>3, <1>4, <1>5, <1>6 DEF BanInv

\* A reload that leaves the path alone changes no table.
LEMMA UpdateConfigInv ==
    ASSUME BanInv, OnePath, NEW l \in Limits, NEW w \in Whitelists, NEW p \in Paths,
           UpdateConfig(l, w, p)
    PROVE  BanInv'
<1>1. p = path
  BY DEF OnePath, BanInv, TypeOK
<1>2. UNCHANGED <<now, up, bans, strikes, path, file, acked, saving, dirty, caller>>
  BY <1>1 DEF UpdateConfig
<1>3. limits' \in Limits /\ whitelist' \in SUBSET IPs
  BY AutoBanAssumption DEF UpdateConfig
<1>4. TypeOK'
  BY <1>2, <1>3 DEF BanInv, TypeOK
<1>5. Filed'
  BY <1>2 DEF BanInv, Filed
<1>6. Retained'
  BY <1>2 DEF BanInv, Retained, Active
<1>7. Dated'
  BY <1>2 DEF BanInv, Dated
<1> QED BY <1>4, <1>5, <1>6, <1>7 DEF BanInv

\* Close keeps the mutex until its save is over.
LEMMA CloseInv ==
    ASSUME BanInv, Close
    PROVE  BanInv'
<1>1. saving' = "closing"
  BY DEF Close
<1>2. UNCHANGED <<now, up, bans, strikes, limits, whitelist, path, file, acked, dirty, caller>>
  BY DEF Close
<1>3. TypeOK'
  BY <1>1, <1>2 DEF BanInv, TypeOK
<1>4. Filed'
  BY <1>2 DEF BanInv, Filed
<1>5. Retained'
  BY <1>1 DEF Retained
<1>6. Dated'
  BY <1>2 DEF BanInv, Dated
<1> QED BY <1>3, <1>4, <1>5, <1>6 DEF BanInv

\* A crash, wherever the save is, leaves the file of the last rename.
LEMMA CrashInv ==
    ASSUME BanInv, Crash
    PROVE  BanInv'
<1>1. up' = FALSE /\ saving' = "no"
  BY DEF Crash
<1>2. UNCHANGED <<now, bans, strikes, limits, whitelist, path, file, acked, dirty>>
  BY DEF Crash
<1>3. /\ caller' \in [Callers -> CallerState]
      /\ \A k \in Callers : caller'[k] = Idle
  BY CallerValues DEF Crash
<1>4. TypeOK'
  BY <1>1, <1>2, <1>3 DEF BanInv, TypeOK
<1>5. Filed'
  BY <1>2 DEF BanInv, Filed
<1>6. Retained'
  BY <1>1 DEF Retained
<1>7. Dated'
  <2> SUFFICES ASSUME NEW k \in Callers PROVE caller'[k].at <= now
    BY <1>2 DEF Dated
  <2>1. now \in Nat
    BY AutoBanAssumption DEF BanInv, TypeOK
  <2>2. caller'[k].at = 0
    BY <1>3, CallerValues
  <2> QED BY <2>1, <2>2
<1> QED BY <1>4, <1>5, <1>6, <1>7 DEF BanInv

\* A start takes over what is in force of the file.
LEMMA RestartInv ==
    ASSUME BanInv, OnePath, NEW l \in Limits, NEW w \in Whitelists, NEW p \in Paths,
           NewAutoBanManager(l, w, p)
    PROVE  BanInv'
<1>1. acked \in FileState /\ acked.bans \in [IPs -> Ban] /\ acked.strikes \in [IPs -> Strike]
  BY FileValues DEF BanInv, TypeOK
<1>2. file[p] = acked /\ p = path
  BY DEF OnePath, BanInv, TypeOK, Filed
<1>3. /\ up' = TRUE /\ limits' \in Limits /\ whitelist' \in SUBSET IPs
      /\ UNCHANGED <<now, path, file, acked, saving, caller>>
  BY <1>2, AutoBanAssumption DEF NewAutoBanManager
<1>4. PICK read \in BOOLEAN :
          LoadState(p, EmptyState.bans, EmptyState.strikes, read) /\ dirty' = ~read
  BY DEF NewAutoBanManager
<1>5. /\ \A a \in IPs : EmptyState.bans[a] = NoBan /\ EmptyState.strikes[a] = NoStrikes
      /\ EmptyState.bans \in [IPs -> Ban] /\ EmptyState.strikes \in [IPs -> Strike]
  BY FileValues
<1>6. bans' \in [IPs -> Ban] /\ strikes' \in [IPs -> Strike]
  BY <1>1, <1>2, <1>4, <1>5 DEF LoadState
<1>7. TypeOK'
  BY <1>3, <1>4, <1>6 DEF BanInv, TypeOK
<1>8. Filed'
  BY <1>2, <1>3 DEF Filed
<1>9. Retained'
  <2> SUFFICES ASSUME ~dirty', NEW a \in IPs
               PROVE  /\ Active(bans'[a]) \/ Active(acked.bans[a]) => bans'[a] = acked.bans[a]
                      /\ strikes'[a].count = acked.strikes[a].count
    BY <1>3 DEF Retained, Active
  <2>1. read
    BY <1>4
  <2>2. ~Active(NoBan)
    BY BanValues DEF Active
  <2>3. bans'[a] = IF Active(acked.bans[a]) THEN acked.bans[a] ELSE NoBan
    BY <1>2, <1>4, <1>5, <2>1 DEF LoadState
  <2>4. strikes'[a] = acked.strikes[a]
    BY <1>2, <1>4, <1>5, <2>1 DEF LoadState
  <2> QED BY <2>2, <2>3, <2>4
<1>10. Dated'
  BY <1>3 DEF BanInv, Dated
<1> QED BY <1>7, <1>8, <1>9, <1>10 DEF BanInv

\* As time passes fewer bans are in force, in memory and in the file alike.
LEMMA TickInv ==
    ASSUME BanInv, Tick
    PROVE  BanInv'
<1>1. now \in Nat /\ now' = now + 1 /\ now' \in 0 .. MaxTime
  BY AutoBanAssumption DEF Tick, BanInv, TypeOK
<1>2. UNCHANGED <<up, bans, strikes, limits, whitelist, path, file, acked, saving, dirty, caller>>
  BY DEF Tick
<1>3. TypeOK'
  BY <1>1, <1>2 DEF BanInv, TypeOK
<1>4. Filed'
  BY <1>2 DEF BanInv, Filed
<1>5. Retained'
  <2>1. \A b \in Ban : Active(b)' => Active(b)
    BY <1>1 DEF Active, Ban
  <2>2. \A a \in IPs : acked.bans[a] \in Ban /\ bans[a] \in Ban
    BY FileValues DEF BanInv, TypeOK
  <2> SUFFICES ASSUME up, saving = "no", ~dirty, NEW a \in IPs
               PROVE  /\ Active(bans[a])' \/ Active(acked.bans[a])' => bans[a] = acked.bans[a]
                      /\ strikes[a].count = acked.strikes[a].count
    BY <1>2 DEF Retained
  <2>3. Active(bans[a])' => Active(bans[a])
    BY <1>1, <1>2, <2>2 DEF Active, Ban
  <2>4. Active(acked.bans[a])' => Active(acked.bans[a])
    BY <1>1, <1>2, <2>2 DEF Active, Ban
  <2> QED BY <2>3, <2>4 DEF BanInv, Retained
<1>6. Dated'
  <2> SUFFICES ASSUME NEW k \in Callers PROVE caller[k].at <= now + 1
    BY <1>1, <1>2 DEF Dated
  <2>1. caller[k] \in CallerState
    BY DEF BanInv, TypeOK
  <2>2. caller[k].at \in Nat /\ caller[k].at <= now
    BY <2>1, CallerValues DEF BanInv, Dated
  <2> QED BY <1>1, <2>2
<1> QED BY <1>3, <1>4, <1>5, <1>6 DEF BanInv

\* A step of a caller.
LEMMA CallerStepInv ==
    ASSUME BanInv, NEW k \in Callers, CallerStep(k)
    PROVE  BanInv'
BY CheckWhitelistInv, IsBannedInv, RecordViolationInv, CleanUpExpiredInv, ManualBanInv
DEF CallerStep

-----------------------------------------------------------------------------
(* The theorems.                                                           *)

\* With one persistence path, BanInv holds in every state the auto-ban manager
\* reaches, also between the system calls of saveStateLocked.
THEOREM AutoBanInvariant ==
    ASSUME OnePath
    PROVE  Spec => []BanInv
<1>1. Init => BanInv
  BY InitInv
<1>2. BanInv /\ [Next]_vars => BanInv'
  <2> SUFFICES ASSUME BanInv, [Next]_vars PROVE BanInv'
    OBVIOUS
  <2>1. CASE \E k \in Callers : CallerStep(k)
    BY <2>1, CallerStepInv
  <2>2. CASE \E a \in IPs : Unban(a)
    BY <2>2, UnbanInv
  <2>3. CASE SaveStep
    BY <2>3, SaveWriteInv, SaveRenameInv, SaveFailsInv DEF SaveStep
  <2>4. CASE SweepExpiredBans
    BY <2>4, SweepInv
  <2>5. CASE \E l \in Limits, w \in Whitelists, p \in Paths :
               UpdateConfig(l, w, p) \/ NewAutoBanManager(l, w, p)
    BY <2>5, UpdateConfigInv, RestartInv
  <2>6. CASE Close
    BY <2>6, CloseInv
  <2>7. CASE Crash
    BY <2>7, CrashInv
  <2>9. CASE Tick
    BY <2>9, TickInv
  <2>10. CASE UNCHANGED vars
    BY <2>10, LookKeeps DEF vars, BanInv, TypeOK, Dated
  <2> QED BY <2>1, <2>2, <2>3, <2>4, <2>5, <2>6, <2>7, <2>9, <2>10 DEF Next
<1> QED BY <1>1, <1>2, PTL DEF Spec

\* REQ-136: while no save and no load has failed, the bans in force and the ban counts are
\* those of the last completed save, whenever and however often the process has
\* died in saveStateLocked and has been started again.
THEOREM RestartsRetainBans ==
    ASSUME OnePath
    PROVE  Spec => []RestartRetainsBans
<1>1. BanInv => RestartRetainsBans
  BY DEF BanInv, Retained, RestartRetainsBans
<1> QED BY <1>1, AutoBanInvariant, PTL

\* Only an administrator lifts or changes a ban in force: not the clean-up of
\* IsBanned, whose lookup may be out of date, nor the sweeper, nor a violation.
THEOREM BansInForceStay ==
    ASSUME OnePath
    PROVE  Spec => ActiveBanKept
<1> DEFINE Lifted(a) ==
             Unban(a) \/ \E k \in Callers : caller[k].ip = a /\ ManualBanStep(k)
           Kept == \A a \in IPs : (up /\ up' /\ Active(bans[a]) /\ bans'[a] # bans[a]) => Lifted(a)
<1>1. BanInv /\ [Next]_vars => [Kept]_vars
  <2> SUFFICES ASSUME BanInv, Next, NEW a \in IPs,
                      up, Active(bans[a]), bans'[a] # bans[a]
               PROVE  Lifted(a)
    BY Zenon
  <2>1. ASSUME NEW k \in Callers, CallerStep(k) PROVE Lifted(a)
    <3>1. CASE \E b \in IPs, op \in {"lookup", "strike", "ban"} : CheckWhitelist(k, b, op)
      BY <3>1 DEF CheckWhitelist
    <3>2. CASE IsBanned(k)
      BY <3>2 DEF IsBanned
    <3>3. CASE RecordViolation(k)
      BY <3>3 DEF RecordViolation, BanInv, TypeOK
    <3>4. CASE CleanUpExpired(k)
      <4>1. StillExpired(k) /\ a = caller[k].ip
        BY <3>4 DEF CleanUpExpired, BanInv, TypeOK
      <4>2. caller[k] \in CallerState /\ caller[k].at <= now /\ now \in Nat
        BY AutoBanAssumption DEF BanInv, TypeOK, Dated
      <4>3. caller[k].at \in Nat /\ bans[a] \in Ban
        BY <4>2, CallerValues DEF BanInv, TypeOK
      <4>4. bans[a].type = "temporary" /\ caller[k].at >= bans[a].expires
        BY <4>1 DEF StillExpired
      <4>5. bans[a].expires \in Nat
        BY <4>3 DEF Ban
      <4> QED BY <4>2, <4>3, <4>4, <4>5 DEF Active
    <3>5. CASE ManualBanStep(k)
      <4>1. caller[k].ip = a
        BY <3>5 DEF ManualBanStep, ManualBan, BanInv, TypeOK
      <4> QED BY <3>5, <4>1
    <3> QED BY <2>1, <3>1, <3>2, <3>3, <3>4, <3>5 DEF CallerStep
  <2>2. ASSUME NEW b \in IPs, Unban(b) PROVE Lifted(a)
    <3>1. b = a
      BY <2>2 DEF Unban, BanInv, TypeOK
    <3> QED BY <2>2, <3>1
  <2>3. CASE SaveStep
    BY <2>3 DEF SaveStep, SaveWrite, SaveRename, SaveFails
  <2>4. CASE SweepExpiredBans
    <3>1. a \in Swept
      BY <2>4 DEF SweepExpiredBans, BanInv, TypeOK
    <3>2. bans[a].type = "temporary" /\ now > bans[a].expires
      BY <3>1 DEF Swept
    <3>3. bans[a].expires \in Nat /\ now \in Nat
      BY AutoBanAssumption DEF BanInv, TypeOK, Ban
    <3> QED BY <3>2, <3>3 DEF Active
  <2>5. ASSUME NEW l \in Limits, NEW w \in Whitelists, NEW p \in Paths,
               UpdateConfig(l, w, p) \/ NewAutoBanManager(l, w, p)
        PROVE  Lifted(a)
    <3>1. p = path
      BY DEF OnePath, BanInv, TypeOK
    <3> QED BY <2>5, <3>1 DEF UpdateConfig, NewAutoBanManager
  <2>6. CASE Close
    BY <2>6 DEF Close
  <2>7. CASE Crash
    BY <2>7 DEF Crash
  <2>9. CASE Tick
    BY <2>9 DEF Tick
  <2> QED BY <2>1, <2>2, <2>3, <2>4, <2>5, <2>6, <2>7, <2>9 DEF Next
<1>2. [Kept]_vars => [\A a \in IPs :
          (up /\ up' /\ Active(bans[a]) /\ bans'[a] # bans[a]) =>
              Unban(a) \/ \E k \in Callers : caller[k].ip = a /\ ManualBanStep(k)]_vars
  OBVIOUS
<1> QED BY <1>1, <1>2, AutoBanInvariant, PTL DEF Spec, ActiveBanKept
=============================================================================
