------------------------------ MODULE Reactor ------------------------------
(***************************************************************************)
(* pkg/reactor/reactor.go: the accept loop (Serve), the bounded channel of *)
(* accepted connections, the fixed pool of workers and Shutdown.           *)
(*                                                                         *)
(* r.conns and the Close of tracked connections are protected by connsMu;  *)
(* isShutdown is an atomic flag read outside it.  Every step below is one  *)
(* atomic access or one critical section.                                  *)
(***************************************************************************)
EXTENDS Integers, FiniteSets, Sequences

CONSTANTS
    Conns,         \* client connections that may arrive
    Workers,       \* the goroutines of the pool (WorkerPoolSize of them)
    MaxQueueSize,  \* capacity of the tasks channel
    NoConn         \* "holds no connection"

ASSUME ReactorAssumption ==
    /\ IsFiniteSet(Conns)
    /\ IsFiniteSet(Workers) /\ Workers # {}
    /\ MaxQueueSize \in Nat \ {0}
    /\ NoConn \notin Conns

VARIABLES
    isShutdown,  \* r.isShutdown
    cancelled,   \* r.ctx is done
    lnSet,       \* r.listener has been assigned
    lnOpen,      \* the listener accepts
    tasks,       \* the channel's buffer
    chanClosed,  \* close(r.tasks) was called
    conns,       \* r.conns, the tracked connections
    life,        \* [Conns -> "new", "open" or "closed"], the sockets
    serve,       \* the goroutine running Serve: pc and the connection it holds
    worker,      \* [Workers -> pc and the connection it holds]
    shut         \* the goroutine running Shutdown

vars == <<isShutdown, cancelled, lnSet, lnOpen, tasks, chanClosed, conns, life,
          serve, worker, shut>>

ServePC == {"start", "bind", "spawn", "accept", "accepted", "track", "enqueue",
            "refuse", "defer", "waiting", "returned"}

WorkerPC == {"none", "select", "handling", "upstream", "handled", "drain", "discard",
             "exited"}

ShutPC == {"idle", "cancel", "listener", "sweep", "waiting", "done", "expired"}

\* A goroutine holds a connection at the program points of Holding, and no
\* connection (never a nil one it would go on to use) at the others.
Holder(PCs, Holding) ==
    [pc : Holding, conn : Conns] \cup [pc : PCs \ Holding, conn : {NoConn}]

TypeOK ==
    /\ isShutdown \in BOOLEAN /\ cancelled \in BOOLEAN
    /\ lnSet \in BOOLEAN /\ lnOpen \in BOOLEAN /\ chanClosed \in BOOLEAN
    /\ tasks \in Seq(Conns)
    /\ conns \in SUBSET Conns
    /\ life \in [Conns -> {"new", "open", "closed"}]
    /\ serve \in Holder(ServePC, {"accepted", "track", "enqueue", "refuse"})
    /\ worker \in [Workers -> Holder(WorkerPC,
                                    {"handling", "upstream", "handled", "discard"})]
    /\ shut \in ShutPC

Init ==
    /\ isShutdown = FALSE /\ cancelled = FALSE
    /\ lnSet = FALSE /\ lnOpen = TRUE /\ chanClosed = FALSE
    /\ tasks = <<>>
    /\ conns = {}
    /\ life = [c \in Conns |-> "new"]
    /\ serve = [pc |-> "start", conn |-> NoConn]
    /\ worker = [w \in Workers |-> [pc |-> "none", conn |-> NoConn]]
    /\ shut = "idle"

Closed(c) == [life EXCEPT ![c] = "closed"]

-----------------------------------------------------------------------------
(* Serve.                                                                  *)

ServeGoto(pc) == serve' = [serve EXCEPT !.pc = pc]

ServeDrop(pc) == serve' = [pc |-> pc, conn |-> NoConn]

\* The entry check of isShutdown.
ServeEnter ==
    /\ serve.pc = "start"
    /\ ServeGoto(IF isShutdown THEN "returned" ELSE "bind")
    /\ UNCHANGED <<isShutdown, cancelled, lnSet, lnOpen, tasks, chanClosed, conns,
                   life, worker, shut>>

\* r.listener = ln
SetListener ==
    /\ serve.pc = "bind"
    /\ lnSet' = TRUE
    /\ ServeGoto("spawn")
    /\ UNCHANGED <<isShutdown, cancelled, lnOpen, tasks, chanClosed, conns, life,
                   worker, shut>>

\* The pool is started: wg.Add and go, WorkerPoolSize times.
StartWorkers ==
    /\ serve.pc = "spawn"
    /\ worker' = [w \in Workers |-> [pc |-> "select", conn |-> NoConn]]
    /\ ServeGoto("accept")
    /\ UNCHANGED <<isShutdown, cancelled, lnSet, lnOpen, tasks, chanClosed, conns,
                   life, shut>>

\* ln.Accept returns a connection.
Accept(c) ==
    /\ serve.pc = "accept"
    /\ lnOpen
    /\ life[c] = "new"
    /\ life' = [life EXCEPT ![c] = "open"]
    /\ serve' = [pc |-> "accepted", conn |-> c]
    /\ UNCHANGED <<isShutdown, cancelled, lnSet, lnOpen, tasks, chanClosed, conns,
                   worker, shut>>

\* ln.Accept fails for good: the listener is closed, or the error is neither
\* a timeout (retried without any change of state) nor due to a shutdown.
\* Either way Serve leaves through its deferred function.
AcceptError ==
    /\ serve.pc = "accept"
    /\ ServeGoto("defer")
    /\ UNCHANGED <<isShutdown, cancelled, lnSet, lnOpen, tasks, chanClosed, conns,
                   life, worker, shut>>

\* isShutdown, read again after Accept: refuse, or go on to track it.
CheckShutdown ==
    /\ serve.pc = "accepted"
    /\ IF isShutdown
       THEN life' = Closed(serve.conn) /\ ServeDrop("defer")
       ELSE life' = life /\ ServeGoto("track")
    /\ UNCHANGED <<isShutdown, cancelled, lnSet, lnOpen, tasks, chanClosed, conns,
                   worker, shut>>

\* Mutant: trackConn does not look at isShutdown again.
TrackConn_Unchecked ==
    /\ serve.pc = "track"
    /\ conns' = conns \cup {serve.conn}
    /\ ServeGoto("enqueue")
    /\ UNCHANGED <<isShutdown, cancelled, lnSet, lnOpen, tasks, chanClosed, life,
                   worker, shut>>

\* trackConn(conn, true): a shutdown that has begun meanwhile closes it here,
\* because the sweep of Shutdown may already be over.
TrackConn ==
    /\ serve.pc = "track"
    /\ life' = IF isShutdown THEN Closed(serve.conn) ELSE life
    /\ conns' = conns \cup {serve.conn}
    /\ ServeGoto("enqueue")
    /\ UNCHANGED <<isShutdown, cancelled, lnSet, lnOpen, tasks, chanClosed, worker, shut>>

\* Mutant: the dispatch does not wait for room in the channel.
Enqueue_Unbounded ==
    /\ serve.pc = "enqueue"
    /\ tasks' = Append(tasks, serve.conn)
    /\ ServeDrop("accept")
    /\ UNCHANGED <<isShutdown, cancelled, lnSet, lnOpen, chanClosed, conns, life,
                   worker, shut>>

\* select, case r.tasks <- conn: the accept loop waits while the queue is full.
Enqueue ==
    /\ serve.pc = "enqueue"
    /\ Len(tasks) < MaxQueueSize
    /\ tasks' = Append(tasks, serve.conn)
    /\ ServeDrop("accept")
    /\ UNCHANGED <<isShutdown, cancelled, lnSet, lnOpen, chanClosed, conns, life,
                   worker, shut>>

\* select, case <-r.ctx.Done(): untrack, then close.
EnqueueCancelled ==
    /\ serve.pc = "enqueue"
    /\ cancelled
    /\ conns' = conns \ {serve.conn}
    /\ ServeGoto("refuse")
    /\ UNCHANGED <<isShutdown, cancelled, lnSet, lnOpen, tasks, chanClosed, life,
                   worker, shut>>

RefuseConn ==
    /\ serve.pc = "refuse"
    /\ life' = Closed(serve.conn)
    /\ ServeDrop("defer")
    /\ UNCHANGED <<isShutdown, cancelled, lnSet, lnOpen, tasks, chanClosed, conns,
                   worker, shut>>

\* The deferred close(r.tasks); workers still receive what is buffered.
CloseTasks ==
    /\ serve.pc = "defer"
    /\ chanClosed' = TRUE
    /\ ServeGoto("waiting")
    /\ UNCHANGED <<isShutdown, cancelled, lnSet, lnOpen, tasks, conns, life, worker, shut>>

WorkersGone == \A w \in Workers : worker[w].pc \in {"none", "exited"}

\* The deferred r.wg.Wait() and r.tasks = nil.
ServeReturn ==
    /\ serve.pc = "waiting"
    /\ WorkersGone
    /\ tasks' = <<>>
    /\ ServeGoto("returned")
    /\ UNCHANGED <<isShutdown, cancelled, lnSet, lnOpen, chanClosed, conns, life,
                   worker, shut>>

-----------------------------------------------------------------------------
(* workerLoop.                                                             *)

WorkerAt(w, pc, c) == worker' = [worker EXCEPT ![w] = [pc |-> pc, conn |-> c]]

\* case conn, ok := <-r.tasks, with a connection: processConn.
TakeTask(w) ==
    /\ worker[w].pc = "select"
    /\ tasks # <<>>
    /\ tasks' = Tail(tasks)
    /\ WorkerAt(w, "handling", Head(tasks))
    /\ UNCHANGED <<isShutdown, cancelled, lnSet, lnOpen, chanClosed, conns, life,
                   serve, shut>>

\* The handler waits for an upstream where nothing but the upstream ends the
\* wait: the answer to a WebSocket handshake is read without a deadline and
\* without r.ctx.
AskUpstream(w) ==
    /\ worker[w].pc = "handling"
    /\ WorkerAt(w, "upstream", worker[w].conn)
    /\ UNCHANGED <<isShutdown, cancelled, lnSet, lnOpen, tasks, chanClosed, conns,
                   life, serve, shut>>

\* The upstream sends something, or its connection breaks.
UpstreamAnswers(w) ==
    /\ worker[w].pc = "upstream"
    /\ WorkerAt(w, "handling", worker[w].conn)
    /\ UNCHANGED <<isShutdown, cancelled, lnSet, lnOpen, tasks, chanClosed, conns,
                   life, serve, shut>>

\* Mutant: processConn returns without its deferred conn.Close.
HandleConn_NoClose(w) ==
    /\ worker[w].pc = "handling"
    /\ WorkerAt(w, "handled", worker[w].conn)
    /\ UNCHANGED <<isShutdown, cancelled, lnSet, lnOpen, tasks, chanClosed, conns,
                   life, serve, shut>>

\* The handler returns; processConn's deferred conn.Close runs.
HandleConn(w) ==
    /\ worker[w].pc = "handling"
    /\ life' = Closed(worker[w].conn)
    /\ WorkerAt(w, "handled", worker[w].conn)
    /\ UNCHANGED <<isShutdown, cancelled, lnSet, lnOpen, tasks, chanClosed, conns,
                   serve, shut>>

\* trackConn(conn, false) and the end of the iteration.
Untrack(w) ==
    /\ worker[w].pc = "handled"
    /\ conns' = conns \ {worker[w].conn}
    /\ WorkerAt(w, "select", NoConn)
    /\ UNCHANGED <<isShutdown, cancelled, lnSet, lnOpen, tasks, chanClosed, life,
                   serve, shut>>

\* The channel is closed and empty (ok is false): the worker returns.
TasksClosed(w) ==
    /\ worker[w].pc = "select"
    /\ chanClosed
    /\ tasks = <<>>
    /\ WorkerAt(w, "exited", NoConn)
    /\ UNCHANGED <<isShutdown, cancelled, lnSet, lnOpen, tasks, chanClosed, conns,
                   life, serve, shut>>

\* case <-r.ctx.Done(); select may prefer it to a task and a task to it.
SeeCancel(w) ==
    /\ worker[w].pc = "select"
    /\ cancelled
    /\ WorkerAt(w, "drain", NoConn)
    /\ UNCHANGED <<isShutdown, cancelled, lnSet, lnOpen, tasks, chanClosed, conns,
                   life, serve, shut>>

\* Draining: take a buffered connection, untrack it ...
DrainTask(w) ==
    /\ worker[w].pc = "drain"
    /\ tasks # <<>>
    /\ tasks' = Tail(tasks)
    /\ conns' = conns \ {Head(tasks)}
    /\ WorkerAt(w, "discard", Head(tasks))
    /\ UNCHANGED <<isShutdown, cancelled, lnSet, lnOpen, chanClosed, life, serve, shut>>

\* ... and close it.
DiscardConn(w) ==
    /\ worker[w].pc = "discard"
    /\ life' = Closed(worker[w].conn)
    /\ WorkerAt(w, "drain", NoConn)
    /\ UNCHANGED <<isShutdown, cancelled, lnSet, lnOpen, tasks, chanClosed, conns,
                   serve, shut>>

\* Nothing is buffered (default), or the channel is closed: return.
Drained(w) ==
    /\ worker[w].pc = "drain"
    /\ tasks = <<>>
    /\ WorkerAt(w, "exited", NoConn)
    /\ UNCHANGED <<isShutdown, cancelled, lnSet, lnOpen, tasks, chanClosed, conns,
                   life, serve, shut>>

-----------------------------------------------------------------------------
(* Shutdown.                                                               *)

\* isShutdown.CompareAndSwap(false, true); a second call returns at once.
Shutdown ==
    /\ shut = "idle"
    /\ isShutdown' = TRUE
    /\ shut' = "cancel"
    /\ UNCHANGED <<cancelled, lnSet, lnOpen, tasks, chanClosed, conns, life, serve, worker>>

Cancel ==
    /\ shut = "cancel"
    /\ cancelled' = TRUE
    /\ shut' = "listener"
    /\ UNCHANGED <<isShutdown, lnSet, lnOpen, tasks, chanClosed, conns, life, serve, worker>>

\* if r.listener != nil { r.listener.Close() }
CloseListener ==
    /\ shut = "listener"
    /\ lnOpen' = (lnOpen /\ ~lnSet)
    /\ shut' = "sweep"
    /\ UNCHANGED <<isShutdown, cancelled, lnSet, tasks, chanClosed, conns, life, serve, worker>>

\* Mutant: only the listener is closed, as TCPProxy.Close once did.
Sweep_None ==
    /\ shut = "sweep"
    /\ shut' = "waiting"
    /\ UNCHANGED <<isShutdown, cancelled, lnSet, lnOpen, tasks, chanClosed, conns,
                   life, serve, worker>>

\* Close every tracked connection, under connsMu.
Sweep ==
    /\ shut = "sweep"
    /\ life' = [c \in Conns |-> IF c \in conns THEN "closed" ELSE life[c]]
    /\ shut' = "waiting"
    /\ UNCHANGED <<isShutdown, cancelled, lnSet, lnOpen, tasks, chanClosed, conns,
                   serve, worker>>

\* wg.Wait() has returned ...
ShutdownDone ==
    /\ shut = "waiting"
    /\ WorkersGone
    /\ shut' = "done"
    /\ UNCHANGED <<isShutdown, cancelled, lnSet, lnOpen, tasks, chanClosed, conns,
                   life, serve, worker>>

\* ... or the caller's context expires first.
ShutdownExpires ==
    /\ shut = "waiting"
    /\ shut' = "expired"
    /\ UNCHANGED <<isShutdown, cancelled, lnSet, lnOpen, tasks, chanClosed, conns,
                   life, serve, worker>>

-----------------------------------------------------------------------------
ServeStep ==
    \/ ServeEnter \/ SetListener \/ StartWorkers \/ CheckShutdown \/ TrackConn
    \/ Enqueue \/ EnqueueCancelled \/ RefuseConn \/ CloseTasks \/ ServeReturn

WorkerStep(w) ==
    \/ TakeTask(w) \/ Untrack(w) \/ TasksClosed(w) \/ SeeCancel(w)
    \/ DrainTask(w) \/ DiscardConn(w) \/ Drained(w)

ShutdownStep == Cancel \/ CloseListener \/ Sweep \/ ShutdownDone \/ ShutdownExpires

Next ==
    \/ ServeStep
    \/ AcceptError
    \/ \E c \in Conns : Accept(c)
    \/ \E w \in Workers : WorkerStep(w) \/ HandleConn(w) \/ AskUpstream(w)
                             \/ UpstreamAnswers(w)
    \/ Shutdown
    \/ ShutdownStep

\* Goroutines run; Accept fails at once on a closed listener; a handler whose
\* connection has been closed under it gets errors from it, so that it returns
\* unless an upstream it waits for keeps silent for ever.  An upstream, a
\* handler of a live connection, and a client, owe nothing.
Fairness ==
    /\ WF_vars(ServeStep)
    /\ WF_vars(~lnOpen /\ AcceptError)
    /\ WF_vars(ShutdownStep)
    /\ \A w \in Workers :
          /\ WF_vars(WorkerStep(w))
          /\ SF_vars(worker[w].pc = "handling" /\ life[worker[w].conn] = "closed"
                        /\ HandleConn(w))

Spec == Init /\ [][Next]_vars /\ Fairness

-----------------------------------------------------------------------------
(* Properties.                                                             *)

Open == {c \in Conns : life[c] = "open"}

\* REQ-111: the bounded queue is the admission limit.  However many clients
\* connect, at most the pool, the queue and the one connection the accept
\* loop holds are open at a time.  (The state is also well typed.)
Backpressure ==
    /\ TypeOK
    /\ Cardinality(Open) <= Cardinality(Workers) + MaxQueueSize + 1

\* Once Shutdown has swept r.conns, no tracked connection is open: one that is
\* tracked after the sweep was closed when it was tracked.
SweptStayClosed == shut \in {"waiting", "done", "expired"} => conns \cap Open = {}

\* When Serve returns, for whatever reason, every accepted connection is
\* closed, or is tracked and about to be swept: not even the ones buffered
\* after the workers have left, or the one being dispatched, are forgotten.
ServeReturnsClean ==
    serve.pc = "returned" /\ Open # {} =>
        /\ shut \in {"cancel", "listener", "sweep"}
        /\ Open \subseteq conns

\* Serve waits in wg.Wait for handlers of mute upstreams, and for nothing else.
Pinned ==
    /\ serve.pc = "waiting"
    /\ \E w \in Workers : worker[w].pc = "upstream"
    /\ \A w \in Workers : worker[w].pc \in {"upstream", "exited"}

\* A Shutdown that finds the listener set makes Serve return, whatever the
\* accept loop and the workers were doing: a full queue, a connection in
\* every worker, a select that keeps preferring tasks.  Only a handler that
\* waits for a mute upstream can hold it up, and then nothing else does: the
\* channel is closed and every other worker has left.
ShutdownStopsServe ==
    <>[](isShutdown /\ ~lnOpen => serve.pc = "returned" \/ Pinned)
=============================================================================
