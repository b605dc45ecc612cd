----------------------------- MODULE Discovery -----------------------------
(***************************************************************************)
(* The container discovery of pkg/discovery: manager.go with the Unix      *)
(* socket provider of unix_provider.go.                                    *)
(*                                                                         *)
(* Three goroutines follow the container engine: the watcher reads its     *)
(* event stream into m.events, the event worker applies the events, and    *)
(* the poll worker rescans everything.  The last two share m.activeRoutes  *)
(* under m.mu, but list the containers before they take the mutex and      *)
(* publish to the router after they have released it.                      *)
(*                                                                         *)
(* A container here is one that ParseContainerLabels accepts while it      *)
(* runs; the grouping of containers into route specs is a function of      *)
(* m.activeRoutes, so that the set of containers stands for the specs.     *)
(***************************************************************************)
EXTENDS Integers, Sequences, FiniteSets

CONSTANTS
    Containers,   \* labelled containers
    QueueSize,    \* capacity of m.events
    MaxChanges,   \* bound: containers starting or stopping
    MaxFailures   \* bound: ListContainers calls that fail

ASSUME DiscoveryAssumption ==
    /\ IsFiniteSet(Containers)
    /\ QueueSize \in Nat \ {0}
    /\ MaxChanges \in Nat
    /\ MaxFailures \in Nat

VARIABLES
    world,      \* the containers that are running
    changes,    \* how often that has changed
    failures,   \* how many listings have failed
    missed,     \* history: a change fell between the first listing and the watch
    stream,     \* events the engine has sent and the watcher has not read
    watch,      \* the watcher goroutine: pc and the event it holds
    queue,      \* m.events
    activeRoutes, \* m.activeRoutes
    worker,     \* the goroutines that rescan: Start itself, event and poll worker
    published,  \* the containers behind the oci-discovery routes of the router
    polling,    \* poll_interval is set
    cancelled,  \* the context
    life        \* "running", "stopping" (in wg.Wait) or "stopped"

engine == <<world, changes, missed, stream>>
discoveryVars == <<world, changes, failures, missed, stream, watch, queue, activeRoutes,
                   worker, published, polling, cancelled, life>>

Workers == {"start", "event", "poll"}

\* A ContainerEvent.  obj is the Container of a start event as the watcher has
\* found it: running, exited, or not at all (nil).
Event == [type : {"start", "stop"}, id : Containers, obj : {"nil", "running", "exited"}]

Started(c) == [type |-> "start", id |-> c, obj |-> "nil"]
Died(c) == [type |-> "stop", id |-> c, obj |-> "nil"]

DiscoveryTypeOK ==
    /\ world \in SUBSET Containers
    /\ changes \in 0 .. MaxChanges
    /\ failures \in 0 .. MaxFailures
    /\ missed \in BOOLEAN
    /\ stream \in Seq(Event)
    /\ watch.pc \in {"off", "dial", "check", "read", "lookup", "send", "ended"}
    /\ watch.pc \in {"lookup", "send"} => watch.event \in Event
    /\ queue \in Seq(Event) /\ Len(queue) <= QueueSize
    /\ activeRoutes \in SUBSET Containers
    /\ worker \in [Workers -> [pc : {"off", "idle", "list", "listed", "publish", "exited"},
                               set : SUBSET Containers]]
    /\ published \in SUBSET Containers
    /\ polling \in BOOLEAN /\ cancelled \in BOOLEAN
    /\ life \in {"running", "stopping", "stopped"}

At(pc, s) == [pc |-> pc, set |-> s]

NoEvent == [type |-> "none"]

\* Start has been called, in any situation, and scans the containers first.
DiscoveryInit ==
    /\ world \in SUBSET Containers
    /\ changes = 0 /\ failures = 0
    /\ missed = FALSE
    /\ stream = <<>>
    /\ watch = [pc |-> "off", event |-> NoEvent]
    /\ queue = <<>>
    /\ activeRoutes = {}
    /\ worker = [w \in Workers |-> At(IF w = "start" THEN "list" ELSE "off", {})]
    /\ published = {}
    /\ polling \in BOOLEAN
    /\ cancelled = FALSE
    /\ life = "running"

-----------------------------------------------------------------------------
(* The container engine.  It streams events from the moment the watcher    *)
(* has connected.                                                          *)

Connected == watch.pc \notin {"off", "dial", "ended"}

Emit(events) ==
    /\ changes < MaxChanges
    /\ changes' = changes + 1
    /\ stream' = IF Connected THEN stream \o events ELSE stream
    /\ missed' = (missed \/ (~Connected /\ worker["start"].pc # "list"))
    /\ UNCHANGED <<failures, watch, queue, activeRoutes, worker, published, polling,
                   cancelled, life>>

ContainerStarts(c) ==
    /\ c \notin world
    /\ world' = world \cup {c}
    /\ Emit(<<Started(c)>>)

\* "die", followed by "stop" when it was stopped on request.
ContainerStops(c) ==
    /\ c \in world
    /\ world' = world \ {c}
    /\ \E n \in 1 .. 2 : Emit([i \in 1 .. n |-> Died(c)])

-----------------------------------------------------------------------------
(* syncInitialContainers, by Start, the event worker or the poll worker.   *)

\* ListContainers, before the mutex is taken.
ListContainers(w) ==
    /\ worker[w].pc = "list"
    /\ ~cancelled
    /\ worker' = [worker EXCEPT ![w] = At("listed", world)]
    /\ UNCHANGED <<engine, failures, watch, queue, activeRoutes, published, polling,
                   cancelled, life>>

\* A listing that fails, always so once the context is cancelled, is logged
\* and counts as an empty one.
ListFails(w) ==
    /\ worker[w].pc = "list"
    /\ cancelled \/ failures < MaxFailures
    /\ failures' = IF cancelled THEN failures ELSE failures + 1
    /\ worker' = [worker EXCEPT ![w] = At("listed", {})]
    /\ UNCHANGED <<engine, watch, queue, activeRoutes, published, polling, cancelled, life>>

\* Mutant: the rescan adds to the routes in memory instead of replacing them.
Overwrite_Merges(w) ==
    /\ worker[w].pc = "listed"
    /\ activeRoutes' = activeRoutes \cup worker[w].set
    /\ worker' = [worker EXCEPT ![w] = At("publish", activeRoutes')]
    /\ UNCHANGED <<engine, failures, watch, queue, published, polling, cancelled, life>>

\* Under m.mu: the listing replaces activeRoutes, and the specs are built.
Overwrite(w) ==
    /\ worker[w].pc = "listed"
    /\ activeRoutes' = worker[w].set
    /\ worker' = [worker EXCEPT ![w] = At("publish", activeRoutes')]
    /\ UNCHANGED <<engine, failures, watch, queue, published, polling, cancelled, life>>

\* After the unlock: ReplacePrefixRoutesBySource("oci-discovery", specs).
PublishSpecs(w) ==
    /\ worker[w].pc = "publish"
    /\ published' = worker[w].set
    /\ IF w = "start"
       THEN /\ worker' = [v \in Workers |->
                            At(CASE v = "start" -> "exited" [] v = "event" -> "idle"
                                 [] OTHER -> IF polling THEN "idle" ELSE "off", {})]
            /\ watch' = [watch EXCEPT !.pc = "dial"]
       ELSE worker' = [worker EXCEPT ![w] = At("idle", {})] /\ watch' = watch
    /\ UNCHANGED <<engine, failures, queue, activeRoutes, polling, cancelled, life>>

\* The ticker of periodicPollWorker.
PollTick ==
    /\ worker["poll"].pc = "idle"
    /\ worker' = [worker EXCEPT !["poll"] = At("list", {})]
    /\ UNCHANGED <<engine, failures, watch, queue, activeRoutes, published, polling,
                   cancelled, life>>

-----------------------------------------------------------------------------
(* consumeEventsWorker.  The receive and what follows up to the unlock of  *)
(* m.mu is one step: the event in between is local to the worker.          *)

Dequeue ==
    /\ worker["event"].pc = "idle"
    /\ queue # <<>>
    /\ queue' = Tail(queue)
    /\ UNCHANGED <<engine, failures, watch, published, polling, cancelled, life>>

EventWorkerPublishes ==
    worker' = [worker EXCEPT !["event"] = At("publish", activeRoutes')]

\* handleContainerStart; a container that no longer runs is not accepted.
HandleContainerStart ==
    LET e == Head(queue) IN
    /\ Dequeue
    /\ e.type = "start" /\ e.obj # "nil"
    /\ IF e.obj = "running"
       THEN activeRoutes' = activeRoutes \cup {e.id} /\ EventWorkerPublishes
       ELSE UNCHANGED <<activeRoutes, worker>>

\* A start event without its container: rescan.
HandlePartialStart ==
    /\ Dequeue
    /\ Head(queue).type = "start" /\ Head(queue).obj = "nil"
    /\ worker' = [worker EXCEPT !["event"] = At("list", {})]
    /\ activeRoutes' = activeRoutes

\* handleContainerStop: nothing for a container without a route.
HandleContainerStop ==
    LET e == Head(queue) IN
    /\ Dequeue
    /\ e.type = "stop"
    /\ IF e.id \in activeRoutes
       THEN activeRoutes' = activeRoutes \ {e.id} /\ EventWorkerPublishes
       ELSE UNCHANGED <<activeRoutes, worker>>

-----------------------------------------------------------------------------
(* WatchEvents.                                                            *)

WatchAt(pc, e) == watch' = [pc |-> pc, event |-> e]

\* The dial, the request and the response headers.
WatchConnects ==
    /\ watch.pc = "dial"
    /\ WatchAt("check", NoEvent)
    /\ UNCHANGED <<engine, failures, queue, activeRoutes, worker, published, polling,
                   cancelled, life>>

\* The dial fails or the engine ends the stream: nobody dials again.
WatchEnds ==
    /\ watch.pc \in {"dial", "read"}
    /\ WatchAt("ended", NoEvent)
    /\ stream' = <<>>
    /\ UNCHANGED <<world, changes, failures, missed, queue, activeRoutes, worker, published,
                   polling, cancelled, life>>

\* The context is looked at between two events only.
WatchCheck ==
    /\ watch.pc = "check"
    /\ WatchAt(IF cancelled THEN "ended" ELSE "read", NoEvent)
    /\ UNCHANGED <<engine, failures, queue, activeRoutes, worker, published, polling,
                   cancelled, life>>

\* reader.ReadBytes blocks until the engine has sent an event.
WatchRead ==
    /\ watch.pc = "read"
    /\ stream # <<>>
    /\ stream' = Tail(stream)
    /\ WatchAt(IF Head(stream).type = "start" THEN "lookup" ELSE "send", Head(stream))
    /\ UNCHANGED <<world, changes, failures, missed, queue, activeRoutes, worker, published,
                   polling, cancelled, life>>

\* What the listing for a start event may say of the container: one that has
\* exited stays listed until it is removed.
LookedUp(c) ==
    IF cancelled THEN {"nil"}
    ELSE IF c \in world THEN {"running"} ELSE {"exited", "nil"}

WatchLookup ==
    /\ watch.pc = "lookup"
    /\ \E o \in LookedUp(watch.event.id) : WatchAt("send", [watch.event EXCEPT !.obj = o])
    /\ UNCHANGED <<engine, failures, queue, activeRoutes, worker, published, polling,
                   cancelled, life>>

\* The listing fails: the event goes out without its container.
WatchLookupFails ==
    /\ watch.pc = "lookup"
    /\ failures < MaxFailures
    /\ failures' = failures + 1
    /\ WatchAt("send", watch.event)
    /\ UNCHANGED <<engine, queue, activeRoutes, worker, published, polling, cancelled, life>>

\* Mutant: an event that finds the channel full is dropped.
WatchSend_Drops ==
    /\ watch.pc = "send"
    /\ queue' = IF Len(queue) < QueueSize THEN Append(queue, watch.event) ELSE queue
    /\ WatchAt("check", NoEvent)
    /\ UNCHANGED <<engine, failures, activeRoutes, worker, published, polling, cancelled, life>>

\* events <- evt blocks while the channel is full, whatever the context says.
WatchSend ==
    /\ watch.pc = "send"
    /\ Len(queue) < QueueSize
    /\ queue' = Append(queue, watch.event)
    /\ WatchAt("check", NoEvent)
    /\ UNCHANGED <<engine, failures, activeRoutes, worker, published, polling, cancelled, life>>

-----------------------------------------------------------------------------
(* Stop.                                                                   *)

\* running = false, cancel(): main defers it, so Start has returned.
Stop ==
    /\ life = "running"
    /\ worker["start"].pc = "exited"
    /\ cancelled' = TRUE
    /\ life' = "stopping"
    /\ UNCHANGED <<engine, failures, watch, queue, activeRoutes, worker, published, polling>>

\* Mutant: only the event worker looks at the context.
WorkerExits_EventOnly(w) ==
    /\ w = "event"
    /\ worker[w].pc = "idle"
    /\ cancelled
    /\ worker' = [worker EXCEPT ![w] = At("exited", {})]
    /\ UNCHANGED <<engine, failures, watch, queue, activeRoutes, published, polling,
                   cancelled, life>>

\* case <-ctx.Done(): return
WorkerExits(w) ==
    /\ worker[w].pc = "idle"
    /\ cancelled
    /\ worker' = [worker EXCEPT ![w] = At("exited", {})]
    /\ UNCHANGED <<engine, failures, watch, queue, activeRoutes, published, polling,
                   cancelled, life>>

\* wg.Wait() returns.
StopReturns ==
    /\ life = "stopping"
    /\ watch.pc = "ended"
    /\ \A w \in Workers : worker[w].pc \in {"off", "exited"}
    /\ life' = "stopped"
    /\ UNCHANGED <<engine, failures, watch, queue, activeRoutes, worker, published, polling,
                   cancelled>>

-----------------------------------------------------------------------------
HandleEvent == HandleContainerStart \/ HandlePartialStart \/ HandleContainerStop

SyncStep(w) == Overwrite(w) \/ PublishSpecs(w)

WatchStep == WatchConnects \/ WatchCheck \/ WatchRead \/ WatchLookup \/ WatchSend

DiscoveryNext ==
    \/ \E c \in Containers : ContainerStarts(c) \/ ContainerStops(c)
    \/ \E w \in Workers : ListContainers(w) \/ ListFails(w) \/ SyncStep(w) \/ WorkerExits(w)
    \/ PollTick
    \/ HandleEvent
    \/ WatchStep
    \/ WatchEnds
    \/ WatchLookupFails
    \/ Stop
    \/ StopReturns

\* Goroutines run, a listing ends one way or the other and succeeds when it
\* does not fail, the ticker fires, and a select that keeps finding its
\* context done takes that case in the end (Go chooses among the ready cases
\* at random).  Stop is called by main or not, the engine owes no events.
DiscoveryFairness ==
    /\ WF_discoveryVars(WatchStep)
    /\ WF_discoveryVars(PollTick)
    /\ WF_discoveryVars(HandleEvent)
    /\ WF_discoveryVars(StopReturns)
    /\ \A w \in Workers :
          /\ WF_discoveryVars(ListContainers(w))
          /\ WF_discoveryVars(cancelled /\ ListFails(w))
          /\ WF_discoveryVars(SyncStep(w))
          /\ SF_discoveryVars(WorkerExits(w))

DiscoverySpec == DiscoveryInit /\ [][DiscoveryNext]_discoveryVars /\ DiscoveryFairness

-----------------------------------------------------------------------------
(* Properties.                                                             *)

\* Every event has been applied, and nobody is about to publish.
Quiescent ==
    /\ Connected /\ stream = <<>> /\ queue = <<>>
    /\ watch.pc \in {"check", "read"}
    /\ worker["event"].pc = "idle"

\* The event path alone is complete: without a poll worker, and unless a
\* listing failed or a change fell between the first scan and the watch, the
\* routes are those of the running containers whenever all events have been
\* applied.  Late look-ups of a start event, rescans that run ahead of queued
\* events, and a full channel do not lose or resurrect a container.  (The state is also well typed.)
EventsSuffice ==
    /\ DiscoveryTypeOK
    /\ (~polling /\ ~cancelled /\ ~missed /\ failures = 0 /\ Quiescent) => published = world

\* With a poll worker the routes end up being those of the running containers
\* and stay so, whatever was missed: changes before the watch, a watch that
\* ended, failed listings that have emptied the table, and the races of the
\* two workers, whose rescans can overwrite and be overtaken by each other.
RoutesStabilise == polling => <>[](cancelled \/ published = world)

\* Stop returns when the engine has ended the stream: a worker in the middle
\* of a rescan, and a queue nobody reads any more, do not hold it up.
StopAfterStreamEnds == (cancelled /\ watch.pc = "ended") ~> (life = "stopped")
=============================================================================
