----------------------------- MODULE HotReload -----------------------------
(***************************************************************************)
(* pkg/config/watcher.go: the ConfigWatcher, its debounce timer and the    *)
(* reloads it starts, whose callback in cmd/toron/main.go reloads the WAF  *)
(* engine; composed with the engine, the log sinks and shutdown.           *)
(***************************************************************************)
EXTENDS WafEngine, LogSinks, Sequences

CONSTANTS
    Edits,      \* the configurations the operator writes, one after the other
    MaxMixed    \* bound: requests times rotations, which share no state

ASSUME EditsAssumption ==
    /\ Edits \in Seq(DOMAIN Configs) /\ Writers \subseteq Nat \ {NoWriter}
    /\ MaxMixed \in Nat

VARIABLES
    conf,        \* the file: version, configuration, completely written or not
    events,      \* fsnotify events not yet received
    timer,       \* debouncer is armed
    task,        \* reloads: what each has loaded
    closed,      \* the watcher's closed channel
    listening,   \* listen() runs
    overlapped,  \* history: a reload has begun while another was under way
    auditFile,   \* the file of the engine's audit logger: FromSink, or its own
    exiting      \* main has returned from Shutdown: sinks are closed

watchVars == <<conf, events, timer, task, closed, listening, overlapped, auditFile, exiting>>
vars == <<wafVars, sinkVars, watchVars>>

FromSink == -3
NoTask == [pc |-> "idle", loaded |-> [v |-> 0, name |-> "start"], log |-> 0]

Init ==
    /\ WafInit /\ SinksInit
    /\ conf = [v |-> 0, name |-> "start", whole |-> TRUE]
    /\ events = 0 /\ timer = FALSE /\ task = [t \in Writers |-> NoTask]
    /\ closed = FALSE /\ listening = TRUE /\ overlapped = FALSE
    /\ auditFile = FromSink /\ exiting = FALSE

\* The operator begins to write a new configuration into the file ...
EditBegins ==
    /\ conf.whole /\ conf.v < Len(Edits) /\ ~closed
    /\ conf' = [v |-> conf.v + 1, name |-> Edits[conf.v + 1], whole |-> FALSE]
    /\ events' = events + 1
    /\ UNCHANGED <<wafVars, sinkVars, timer, task, closed, listening, overlapped, auditFile,
                   exiting>>

\* ... and completes it with another write.
EditEnds ==
    /\ ~conf.whole
    /\ conf' = [conf EXCEPT !.whole = TRUE] /\ events' = events + 1
    /\ UNCHANGED <<wafVars, sinkVars, timer, task, closed, listening, overlapped, auditFile,
                   exiting>>

\* Mutant: an event is dropped while a reload is under way.
Listen_NoRestart ==
    /\ listening /\ events > 0
    /\ events' = events - 1
    /\ timer' = (\A t \in Writers : task[t].pc = "idle")
    /\ UNCHANGED <<wafVars, sinkVars, conf, task, closed, listening, overlapped, auditFile,
                   exiting>>

\* listen() and scheduleReload: an event stops the timer and starts it anew.
Listen ==
    /\ listening /\ events > 0
    /\ events' = events - 1 /\ timer' = TRUE
    /\ UNCHANGED <<wafVars, sinkVars, conf, task, closed, listening, overlapped, auditFile,
                   exiting>>

ListenStops ==
    /\ listening /\ closed
    /\ listening' = FALSE
    /\ UNCHANGED <<wafVars, sinkVars, conf, events, timer, task, closed, overlapped,
                   auditFile, exiting>>

\* The timer fires: triggerReload in a goroutine of its own.
TimerFires(t) ==
    /\ timer /\ \E u \in Writers : task[u].pc = "idle"
    /\ t = Min({u \in Writers : task[u].pc = "idle"})
    /\ timer' = FALSE /\ task' = [task EXCEPT ![t].pc = "load"]
    /\ overlapped' = (overlapped \/ \E u \in Writers : task[u].pc # "idle")
    /\ UNCHANGED <<wafVars, sinkVars, conf, events, closed, listening, auditFile, exiting>>

\* What LoadFromFiles may see: the file or, while it is written, a beginning of it.
Readable == IF conf.whole THEN {conf.name} ELSE {"garbled", "prefix"}

\* LoadFromFiles, ValidateConfig, the callback and the first half of Reload: an
\* error, or a WAF that is switched off, retains the configuration in force.
Retained(n) == ~Configs[n].loads \/ ~Configs[n].enabled \/ ~Configs[n].builds

LoadConfig(t) ==
    /\ task[t].pc = "load"
    /\ \E n \in Readable :
         task' = [task EXCEPT ![t] =
             IF Retained(n) THEN NoTask
             ELSE [pc |-> "lock", loaded |-> [v |-> conf.v, name |-> n], log |-> rotations]]
    /\ UNCHANGED <<wafVars, sinkVars, conf, events, timer, closed, listening, overlapped,
                   auditFile, exiting>>

LockEngine(t) ==
    /\ task[t].pc = "lock" /\ ReloadLocks(t)
    /\ task' = [task EXCEPT ![t].pc = "wait"]
    /\ UNCHANGED <<sinkVars, conf, events, timer, closed, listening, overlapped, auditFile,
                   exiting>>

\* The second half of Reload; the logger is replaced by one that has opened the
\* file of the configuration itself.
ApplyConfig(t) ==
    /\ task[t].pc = "wait" /\ ReloadApplies(t, task[t].loaded)
    /\ task' = [task EXCEPT ![t] = NoTask]
    /\ auditFile' = IF Configs[task[t].loaded.name].auditLog THEN task[t].log ELSE auditFile
    /\ UNCHANGED <<sinkVars, conf, events, timer, closed, listening, overlapped, exiting>>

\* Stop of the watcher at shutdown.
StopWatcher ==
    /\ ~closed
    /\ closed' = TRUE /\ timer' = FALSE
    /\ UNCHANGED <<wafVars, sinkVars, conf, events, task, listening, overlapped, auditFile,
                   exiting>>

\* main returns: the sinks are closed.
Exit ==
    /\ closed /\ ~exiting
    /\ exiting' = TRUE /\ CloseSinks
    /\ UNCHANGED <<wafVars, conf, events, timer, task, closed, listening, overlapped,
                   auditFile>>

SystemStep ==
    \/ EditEnds \/ Listen \/ ListenStops
    \/ \E t \in Writers : TimerFires(t) \/ LoadConfig(t) \/ LockEngine(t) \/ ApplyConfig(t)
    \/ SinkSystemStep /\ UNCHANGED <<wafVars, watchVars>>
    \/ \E w \in Workers : WafStep(w) /\ UNCHANGED <<sinkVars, watchVars>>

Environment ==
    \/ EditBegins \/ StopWatcher \/ Exit
    \/ /\ ~closed
       /\ \/ SinkEnvironment /\ UNCHANGED <<wafVars, watchVars>>
          \/ \E w \in Workers : WafArrive(w) /\ UNCHANGED <<sinkVars, watchVars>>
       /\ wafSent' * rotations' <= MaxMixed

Next == SystemStep \/ Environment

\* Goroutines are scheduled, writes of a file are completed, a rotation is
\* followed by its signal, and the reading of a body ends (its deadline).
Spec == Init /\ [][Next]_vars /\ WF_vars(SystemStep)

TypeOK ==
    /\ WafTypeOK /\ SinksTypeOK
    /\ conf.v \in 0..Len(Edits) /\ conf.name \in DOMAIN Configs /\ events \in 0..(2 * Len(Edits))
    /\ \A t \in Writers : task[t].pc \in {"idle", "load", "lock", "wait"}
    /\ writer # NoWriter <=> \E t \in Writers : task[t].pc = "wait"

\* Once the operator's edits have stopped, the configuration last written is
\* in force if it can be, whatever was read of half-written files before, and
\* though requests hold the engine's lock; unless two reloads overlapped (they
\* may finish in either order) or the watcher was stopped.  (The state is also
\* well typed.)
LatestConfigApplied ==
    /\ []TypeOK
    /\ <>[](overlapped \/ closed \/ Retained(conf.name) \/ running = [v |-> conf.v, name |-> conf.name])

\* After rotations and their signals every sink writes to the file that is now
\* at its path, though signals are dropped when one is pending and sinks are
\* created while others are reopened; unless its own reopening failed.
SinksFollowRotation ==
    <>[](exiting \/ \A s \in registered : file[s] = rotations \/ s \in unopened)

\* "re-open all active log file descriptors": the audit log of the WAF too.
AuditFollowsRotation ==
    <>[](exiting \/ auditFile = FromSink \/ auditFile = rotations)
=============================================================================
