------------------------------ MODULE LogSinks ------------------------------
(***************************************************************************)
(* pkg/logging/manager.go: the file sinks of the LogManager, and the       *)
(* SIGHUP loop of cmd/toron/main.go that reopens them after the operator's *)
(* log rotation has moved the files away.  A file is named by the number   *)
(* of rotations before it was created.                                     *)
(***************************************************************************)
EXTENDS Integers, FiniteSets

CONSTANTS
    DefaultSinks,  \* the sinks NewLogManager opens
    RouteSinks,    \* sinks of per-route overrides, opened on their first line
    MaxRotations,  \* bound
    MaxLogFaults   \* bound: failures to open a file

ASSUME SinksAssumption ==
    DefaultSinks \cap RouteSinks = {} /\ MaxRotations \in Nat /\ MaxLogFaults \in Nat

Sinks == DefaultSinks \cup RouteSinks
NoFile == -1     \* file and writer are nil
ClosedFile == -2 \* file and writer refer to a file that was closed

VARIABLES
    rotations,  \* rotations so far: the file now at every path
    registered, \* m.sinks
    file,       \* the file each sink writes to
    hupDue,     \* the operator has rotated and has not sent SIGHUP yet
    hupChan,    \* signals in hupChan (capacity 1)
    toReopen,   \* the snapshot Reopen is working through
    reopening,  \* the SIGHUP loop is in Reopen
    unopened,   \* sinks whose last reopening failed
    logFaults

sinkVars == <<rotations, registered, file, hupDue, hupChan, toReopen, reopening,
              unopened, logFaults>>

SinksTypeOK ==
    /\ rotations \in 0..MaxRotations /\ registered \subseteq Sinks
    /\ file \in [Sinks -> {NoFile, ClosedFile} \cup 0..MaxRotations]
    /\ hupDue \in BOOLEAN /\ hupChan \in 0..1 /\ reopening \in BOOLEAN
    /\ toReopen \subseteq Sinks /\ unopened \subseteq Sinks
    /\ logFaults \in 0..MaxLogFaults
    /\ \A s \in Sinks : file[s] = ClosedFile => s \in unopened

SinksInit ==
    /\ rotations = 0 /\ registered = DefaultSinks
    /\ file = [s \in Sinks |-> IF s \in DefaultSinks THEN 0 ELSE NoFile]
    /\ hupDue = FALSE /\ hupChan = 0 /\ toReopen = {} /\ reopening = FALSE
    /\ unopened = {} /\ logFaults = 0

\* LogAccess and LogSecurity with an override: GetOrCreateSink.
CreateSink(s) ==
    /\ s \in RouteSinks \ registered
    /\ registered' = registered \cup {s}
    /\ file' = [file EXCEPT ![s] = rotations]
    /\ UNCHANGED <<rotations, hupDue, hupChan, toReopen, reopening, unopened, logFaults>>

\* The operator moves the files away and then signals.
Rotate ==
    /\ rotations < MaxRotations /\ ~hupDue
    /\ rotations' = rotations + 1 /\ hupDue' = TRUE
    /\ UNCHANGED <<registered, file, hupChan, toReopen, reopening, unopened, logFaults>>

\* signal.Notify drops a signal for which the channel has no room.
Sighup ==
    /\ hupDue
    /\ hupDue' = FALSE /\ hupChan' = 1
    /\ UNCHANGED <<rotations, registered, file, toReopen, reopening, unopened, logFaults>>

\* The loop takes a signal; LogManager.Reopen copies the sinks.
TakeHup ==
    /\ hupChan = 1 /\ ~reopening
    /\ hupChan' = 0 /\ reopening' = TRUE /\ toReopen' = registered
    /\ UNCHANGED <<rotations, registered, file, hupDue, unopened, logFaults>>

\* LogSink.Reopen.
ReopenSink(s) ==
    /\ reopening /\ s \in toReopen
    /\ file' = [file EXCEPT ![s] = rotations]
    /\ toReopen' = toReopen \ {s} /\ unopened' = unopened \ {s}
    /\ UNCHANGED <<rotations, registered, hupDue, hupChan, reopening, logFaults>>

\* Mutant: LogManager.Reopen returns at the first error.
ReopenFails_Returns(s) ==
    /\ reopening /\ s \in toReopen /\ logFaults < MaxLogFaults
    /\ file' = [file EXCEPT ![s] = ClosedFile]
    /\ toReopen' = {} /\ unopened' = unopened \cup {s}
    /\ logFaults' = logFaults + 1
    /\ UNCHANGED <<rotations, registered, hupDue, hupChan, reopening>>

\* The directory or the file cannot be opened, after the old one was closed.
ReopenFails(s) ==
    /\ reopening /\ s \in toReopen /\ logFaults < MaxLogFaults
    /\ file' = [file EXCEPT ![s] = IF @ = NoFile THEN NoFile ELSE ClosedFile]
    /\ toReopen' = toReopen \ {s} /\ unopened' = unopened \cup {s}
    /\ logFaults' = logFaults + 1
    /\ UNCHANGED <<rotations, registered, hupDue, hupChan, reopening>>

ReopenReturns ==
    /\ reopening /\ toReopen = {}
    /\ reopening' = FALSE
    /\ UNCHANGED <<rotations, registered, file, hupDue, hupChan, toReopen, unopened, logFaults>>

\* LogManager.Close, deferred by main.
CloseSinks ==
    /\ file' = [s \in Sinks |-> NoFile]
    /\ UNCHANGED <<rotations, registered, hupDue, hupChan, toReopen, reopening, unopened,
                   logFaults>>

SinkSystemStep ==
    \/ Sighup \/ TakeHup \/ ReopenReturns
    \/ \E s \in Sinks : ReopenSink(s)

SinkEnvironment ==
    \/ Rotate
    \/ \E s \in Sinks : CreateSink(s) \/ ReopenFails(s)
=============================================================================
