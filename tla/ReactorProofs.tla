---------------------------- MODULE ReactorProofs ----------------------------
(***************************************************************************)
(* Proofs about Reactor, for every set of connections, every pool of at    *)
(* least one worker and every queue size.                                  *)
(***************************************************************************)
EXTENDS Reactor, FiniteSetTheorems, TLAPS

-----------------------------------------------------------------------------
(* The inductive invariant.                                                *)

\* How far Shutdown has come is what isShutdown and the context say.
ShutdownOrder ==
    /\ isShutdown <=> shut # "idle"
    /\ cancelled <=> shut \notin {"idle", "cancel"}

\* Until Serve has started the pool there is nothing in the channel; from then
\* on every worker is running or has exited.
PoolOrder ==
    /\ serve.pc \in {"start", "bind", "spawn"} => tasks = <<>>
    /\ \A w \in Workers :
          /\ serve.pc \in {"start", "bind", "spawn"} => worker[w].pc = "none"
          /\ worker[w].pc = "none" => serve.pc \in {"start", "bind", "spawn", "returned"}
          /\ serve.pc = "returned" => worker[w].pc \in {"none", "exited"}

\* close(r.tasks) is the first thing the deferred function does.
ChannelOrder ==
    /\ chanClosed => serve.pc \in {"waiting", "returned"}
    /\ Len(tasks) <= MaxQueueSize

\* A worker leaves because of the cancelled context, or because the channel
\* is closed and empty; it drains only after the cancellation.
ExitReason ==
    \A w \in Workers :
        /\ worker[w].pc \in {"drain", "discard"} => cancelled
        /\ worker[w].pc = "exited" => cancelled \/ (chanClosed /\ tasks = <<>>)

HeldByServe(c) == serve.conn = c
HeldByWorker(w, c) ==
    worker[w].pc \in {"handling", "upstream", "discard"} /\ worker[w].conn = c
Buffered(c) == \E i \in 1..Len(tasks) : tasks[i] = c

\* While Serve runs, a connection that is open is in somebody's hands.
OpenHeld ==
    serve.pc # "returned" =>
        \A c \in Open : \/ HeldByServe(c) \/ Buffered(c)
                        \/ \E w \in Workers : HeldByWorker(w, c)

\* A connection that is open and not tracked is about to be tracked or closed.
OpenTracked ==
    \A c \in Open :
        \/ c \in conns
        \/ serve.pc \in {"accepted", "track", "refuse"} /\ serve.conn = c
        \/ \E w \in Workers : worker[w].pc = "discard" /\ worker[w].conn = c

\* Only an accepted connection is held or tracked, and a worker untracks a
\* connection it has closed.
Accepted ==
    /\ \A c \in conns : life[c] # "new"
    /\ serve.conn # NoConn => life[serve.conn] # "new"
    /\ \A w \in Workers : worker[w].pc = "handled" => life[worker[w].conn] = "closed"

\* What Serve leaves behind: nothing, unless the context was cancelled, and
\* never more than the channel can hold.
Remains ==
    serve.pc = "returned" =>
        /\ ~cancelled => Open = {}
        /\ Cardinality(Open) <= MaxQueueSize

Control == ShutdownOrder /\ PoolOrder /\ ChannelOrder /\ ExitReason

ReactorInv ==
    /\ TypeOK /\ Control
    /\ OpenHeld /\ OpenTracked /\ Accepted /\ Remains /\ SweptStayClosed

-----------------------------------------------------------------------------
(* The channel's buffer.                                                   *)

\* What is in the buffer after a send: what was there, and what was sent.
LEMMA AppendElements ==
    ASSUME NEW S, NEW s \in Seq(S), NEW e \in S
    PROVE  /\ Append(s, e) \in Seq(S)
           /\ Len(Append(s, e)) = Len(s) + 1
           /\ \E i \in 1..Len(Append(s, e)) : Append(s, e)[i] = e
           /\ \A d : (\E i \in 1..Len(s) : s[i] = d)
                        => \E i \in 1..Len(Append(s, e)) : Append(s, e)[i] = d
<1>1. /\ Append(s, e) \in Seq(S) /\ Len(Append(s, e)) = Len(s) + 1
      /\ Append(s, e)[Len(s) + 1] = e
      /\ \A i \in 1..Len(s) : Append(s, e)[i] = s[i]
  OBVIOUS
<1>2. Len(s) \in Nat
  OBVIOUS
<1>3. ASSUME NEW i \in 1..Len(s)
      PROVE  i \in 1..Len(Append(s, e)) /\ Append(s, e)[i] = s[i]
  BY <1>1, <1>2
<1> QED
  BY <1>1, <1>2, <1>3

\* A receive takes the head and leaves the others.
LEMMA TailElements ==
    ASSUME NEW S, NEW s \in Seq(S), s # <<>>
    PROVE  /\ Head(s) \in S /\ Tail(s) \in Seq(S) /\ Len(Tail(s)) = Len(s) - 1
           /\ \A d : (\E i \in 1..Len(s) : s[i] = d)
                        => d = Head(s) \/ \E i \in 1..Len(Tail(s)) : Tail(s)[i] = d
<1>1. Len(s) \in Nat /\ Head(s) = s[1] /\ Head(s) \in S
  OBVIOUS
<1>2. /\ Tail(s) \in Seq(S) /\ Len(Tail(s)) = Len(s) - 1
      /\ \A i \in 1..Len(Tail(s)) : Tail(s)[i] = s[i + 1]
  OBVIOUS
<1>3. ASSUME NEW i \in 1..Len(s), i # 1
      PROVE  i - 1 \in 1..Len(Tail(s)) /\ Tail(s)[i - 1] = s[i]
  BY <1>1, <1>2, <1>3
<1> QED
  BY <1>1, <1>2, <1>3

\* A sequence of n elements has at most n different ones.
LEMMA FewElements ==
    ASSUME NEW S, NEW s \in Seq(S), NEW D, \A d \in D : \E i \in 1..Len(s) : s[i] = d
    PROVE  IsFiniteSet(D) /\ Cardinality(D) <= Len(s)
<1> DEFINE T == {s[i] : i \in 1..Len(s)}
           f == [i \in 1..Len(s) |-> s[i]]
<1>1. Len(s) \in Nat
  OBVIOUS
<1>2. IsFiniteSet(1..Len(s)) /\ Cardinality(1..Len(s)) = Len(s)
  BY <1>1, FS_Interval
<1>3. f \in Surjection(1..Len(s), T)
  BY DEF Surjection
<1>4. IsFiniteSet(T) /\ Cardinality(T) <= Len(s)
  BY <1>2, <1>3, FS_Surjection
<1>5. D \in SUBSET T
  OBVIOUS
<1>6. IsFiniteSet(D) /\ Cardinality(D) <= Cardinality(T)
  BY <1>4, <1>5, FS_Subset
<1>7. Cardinality(D) \in Nat /\ Cardinality(T) \in Nat
  BY <1>4, <1>6, FS_CardinalityType
<1> QED
  BY <1>1, <1>4, <1>6, <1>7

\* r.tasks <- e: e is buffered now, and nothing that was buffered is lost.
LEMMA Sent ==
    ASSUME TypeOK, NEW e \in Conns, tasks' = Append(tasks, e)
    PROVE  Buffered(e)' /\ \A d : Buffered(d) => Buffered(d)'
BY AppendElements DEF TypeOK, Buffered

\* <-r.tasks: only the head leaves the buffer.
LEMMA Received ==
    ASSUME TypeOK, tasks # <<>>, tasks' = Tail(tasks)
    PROVE  Head(tasks) \in Conns /\ \A d : Buffered(d) => d = Head(tasks) \/ Buffered(d)'
BY TailElements DEF TypeOK, Buffered

-----------------------------------------------------------------------------
(* Every step keeps the invariant, part by part.                           *)

\* Types, and with them that a goroutine holds a connection exactly where its
\* code uses one.
LEMMA TypeStep == TypeOK /\ [Next]_vars => TypeOK'
<1> SUFFICES ASSUME TypeOK, [Next]_vars PROVE TypeOK'
  OBVIOUS
<1> USE DEF TypeOK, Holder, ServePC, WorkerPC, ShutPC
<1>1. CASE ServeEnter
  BY <1>1 DEF ServeEnter, ServeGoto
<1>2. CASE SetListener
  BY <1>2 DEF SetListener, ServeGoto
<1>3. CASE StartWorkers
  BY <1>3 DEF StartWorkers, ServeGoto
<1>4. CASE CheckShutdown
  BY <1>4 DEF CheckShutdown, ServeGoto, ServeDrop, Closed
<1>5. CASE TrackConn
  BY <1>5 DEF TrackConn, ServeGoto, Closed
<1>6. CASE Enqueue
  BY <1>6, AppendElements DEF Enqueue, ServeDrop
<1>7. CASE EnqueueCancelled
  BY <1>7 DEF EnqueueCancelled, ServeGoto
<1>8. CASE RefuseConn
  BY <1>8 DEF RefuseConn, ServeDrop, Closed
<1>9. CASE CloseTasks
  BY <1>9 DEF CloseTasks, ServeGoto
<1>10. CASE ServeReturn
  BY <1>10 DEF ServeReturn, ServeGoto, WorkersGone
<1>11. CASE AcceptError
  BY <1>11 DEF AcceptError, ServeGoto
<1>12. ASSUME NEW c \in Conns, Accept(c) PROVE TypeOK'
  BY <1>12 DEF Accept
<1>13. ASSUME NEW w \in Workers, TakeTask(w) PROVE TypeOK'
  BY <1>13, TailElements DEF TakeTask, WorkerAt
<1>14. ASSUME NEW w \in Workers, Untrack(w) PROVE TypeOK'
  BY <1>14 DEF Untrack, WorkerAt
<1>15. ASSUME NEW w \in Workers, TasksClosed(w) PROVE TypeOK'
  BY <1>15 DEF TasksClosed, WorkerAt
<1>16. ASSUME NEW w \in Workers, SeeCancel(w) PROVE TypeOK'
  BY <1>16 DEF SeeCancel, WorkerAt
<1>17. ASSUME NEW w \in Workers, DrainTask(w) PROVE TypeOK'
  BY <1>17, TailElements DEF DrainTask, WorkerAt
<1>18. ASSUME NEW w \in Workers, DiscardConn(w) PROVE TypeOK'
  BY <1>18 DEF DiscardConn, WorkerAt, Closed
<1>19. ASSUME NEW w \in Workers, Drained(w) PROVE TypeOK'
  BY <1>19 DEF Drained, WorkerAt
<1>20. ASSUME NEW w \in Workers, HandleConn(w) PROVE TypeOK'
  BY <1>20 DEF HandleConn, WorkerAt, Closed
<1>21. ASSUME NEW w \in Workers, AskUpstream(w) PROVE TypeOK'
  BY <1>21 DEF AskUpstream, WorkerAt
<1>22. ASSUME NEW w \in Workers, UpstreamAnswers(w) PROVE TypeOK'
  BY <1>22 DEF UpstreamAnswers, WorkerAt
<1>23. CASE Shutdown
  BY <1>23 DEF Shutdown
<1>24. CASE Cancel
  BY <1>24 DEF Cancel
<1>25. CASE CloseListener
  BY <1>25 DEF CloseListener
<1>26. CASE Sweep
  BY <1>26 DEF Sweep
<1>27. CASE ShutdownDone
  BY <1>27 DEF ShutdownDone, WorkersGone
<1>28. CASE ShutdownExpires
  BY <1>28 DEF ShutdownExpires
<1>29. CASE UNCHANGED vars
  BY <1>29 DEF vars
<1> QED
  BY <1>1, <1>2, <1>3, <1>4, <1>5, <1>6, <1>7, <1>8, <1>9, <1>10, <1>11,
     <1>12, <1>13, <1>14, <1>15, <1>16, <1>17, <1>18, <1>19, <1>20, <1>21,
     <1>22, <1>23, <1>24, <1>25, <1>26, <1>27, <1>28, <1>29
     DEF Next, ServeStep, WorkerStep, ShutdownStep

\* The order in which Serve, the workers and Shutdown move.
LEMMA ControlStep == ReactorInv /\ [Next]_vars => Control'
<1> SUFFICES ASSUME ReactorInv, [Next]_vars PROVE Control'
  OBVIOUS
<1> USE ReactorAssumption
    DEF ReactorAssumption, ReactorInv, TypeOK, Holder, ServePC, WorkerPC, ShutPC,
        Control, ShutdownOrder, PoolOrder, ChannelOrder, ExitReason
<1>1. CASE ServeEnter
  BY <1>1 DEF ServeEnter, ServeGoto
<1>2. CASE SetListener
  BY <1>2 DEF SetListener, ServeGoto
<1>3. CASE StartWorkers
  BY <1>3 DEF StartWorkers, ServeGoto
<1>4. CASE CheckShutdown
  BY <1>4 DEF CheckShutdown, ServeGoto, ServeDrop, Closed
<1>5. CASE TrackConn
  BY <1>5 DEF TrackConn, ServeGoto, Closed
<1>6. CASE Enqueue
  BY <1>6, AppendElements DEF Enqueue, ServeDrop
<1>7. CASE EnqueueCancelled
  BY <1>7 DEF EnqueueCancelled, ServeGoto
<1>8. CASE RefuseConn
  BY <1>8 DEF RefuseConn, ServeDrop, Closed
<1>9. CASE CloseTasks
  BY <1>9 DEF CloseTasks, ServeGoto
<1>10. CASE ServeReturn
  BY <1>10 DEF ServeReturn, ServeGoto, WorkersGone
<1>11. CASE AcceptError
  BY <1>11 DEF AcceptError, ServeGoto
<1>12. ASSUME NEW c \in Conns, Accept(c) PROVE Control'
  BY <1>12 DEF Accept
<1>13. ASSUME NEW w \in Workers, TakeTask(w) PROVE Control'
  BY <1>13, TailElements DEF TakeTask, WorkerAt
<1>14. ASSUME NEW w \in Workers, Untrack(w) PROVE Control'
  BY <1>14 DEF Untrack, WorkerAt
<1>15. ASSUME NEW w \in Workers, TasksClosed(w) PROVE Control'
  BY <1>15 DEF TasksClosed, WorkerAt
<1>16. ASSUME NEW w \in Workers, SeeCancel(w) PROVE Control'
  BY <1>16 DEF SeeCancel, WorkerAt
<1>17. ASSUME NEW w \in Workers, DrainTask(w) PROVE Control'
  BY <1>17, TailElements DEF DrainTask, WorkerAt
<1>18. ASSUME NEW w \in Workers, DiscardConn(w) PROVE Control'
  BY <1>18 DEF DiscardConn, WorkerAt, Closed
<1>19. ASSUME NEW w \in Workers, Drained(w) PROVE Control'
  BY <1>19 DEF Drained, WorkerAt
<1>20. ASSUME NEW w \in Workers, HandleConn(w) PROVE Control'
  BY <1>20 DEF HandleConn, WorkerAt, Closed
<1>21. ASSUME NEW w \in Workers, AskUpstream(w) PROVE Control'
  BY <1>21 DEF AskUpstream, WorkerAt
<1>22. ASSUME NEW w \in Workers, UpstreamAnswers(w) PROVE Control'
  BY <1>22 DEF UpstreamAnswers, WorkerAt
<1>23. CASE Shutdown
  BY <1>23 DEF Shutdown
<1>24. CASE Cancel
  BY <1>24 DEF Cancel
<1>25. CASE CloseListener
  BY <1>25 DEF CloseListener
<1>26. CASE Sweep
  BY <1>26 DEF Sweep
<1>27. CASE ShutdownDone
  BY <1>27 DEF ShutdownDone, WorkersGone
<1>28. CASE ShutdownExpires
  BY <1>28 DEF ShutdownExpires
<1>29. CASE UNCHANGED vars
  BY <1>29 DEF vars
<1> QED
  BY <1>1, <1>2, <1>3, <1>4, <1>5, <1>6, <1>7, <1>8, <1>9, <1>10, <1>11,
     <1>12, <1>13, <1>14, <1>15, <1>16, <1>17, <1>18, <1>19, <1>20, <1>21,
     <1>22, <1>23, <1>24, <1>25, <1>26, <1>27, <1>28, <1>29
     DEF Next, ServeStep, WorkerStep, ShutdownStep

\* A worker that receives from the channel has what it received in hand.
LEMMA TakenHeld ==
    ASSUME ReactorInv, NEW w \in Workers, NEW pc \in {"handling", "discard"},
           worker[w].pc \notin {"handling", "upstream", "discard"},
           tasks # <<>>, tasks' = Tail(tasks), WorkerAt(w, pc, Head(tasks)),
           UNCHANGED <<serve, life>>
    PROVE  OpenHeld'
<1> SUFFICES ASSUME serve.pc # "returned", NEW c \in Open
             PROVE  \/ HeldByServe(c)' \/ Buffered(c)'
                    \/ \E v \in Workers : HeldByWorker(v, c)'
  BY DEF OpenHeld, Open
<1>1. TypeOK /\ (HeldByServe(c) \/ Buffered(c) \/ \E v \in Workers : HeldByWorker(v, c))
  BY DEF ReactorInv, OpenHeld
<1>2. /\ worker'[w].pc = pc /\ worker'[w].conn = Head(tasks)
      /\ \A v \in Workers \ {w} : worker'[v] = worker[v]
  BY <1>1 DEF TypeOK, WorkerAt
<1>3. CASE HeldByServe(c)
  BY <1>3 DEF HeldByServe
<1>4. CASE Buffered(c)
  <2>1. c = Head(tasks) \/ Buffered(c)'
    BY <1>1, <1>4, Received
  <2> QED
    BY <1>2, <2>1 DEF HeldByWorker
<1>5. ASSUME NEW v \in Workers, HeldByWorker(v, c) PROVE HeldByWorker(v, c)'
  BY <1>2, <1>5 DEF HeldByWorker
<1> QED
  BY <1>1, <1>3, <1>4, <1>5

\* No step drops an open connection while Serve runs.
LEMMA OpenHeldStep == ReactorInv /\ [Next]_vars => OpenHeld'
<1> SUFFICES ASSUME ReactorInv, [Next]_vars PROVE OpenHeld'
  OBVIOUS
<1> USE ReactorAssumption
    DEF ReactorAssumption, ReactorInv, TypeOK, Holder, ServePC, WorkerPC, ShutPC,
        Control, PoolOrder, OpenHeld, Open, HeldByServe, HeldByWorker, Buffered
<1>1. CASE ServeEnter
  BY <1>1 DEF ServeEnter, ServeGoto
<1>2. CASE SetListener
  BY <1>2 DEF SetListener, ServeGoto
<1>3. CASE StartWorkers
  BY <1>3 DEF StartWorkers, ServeGoto
<1>4. CASE CheckShutdown
  BY <1>4 DEF CheckShutdown, ServeGoto, ServeDrop, Closed
<1>5. CASE TrackConn
  BY <1>5 DEF TrackConn, ServeGoto, Closed
<1>6. CASE Enqueue
  <2>1. PICK e \in Conns : e = serve.conn
    BY <1>6 DEF Enqueue
  <2>2. Buffered(e)' /\ \A d : Buffered(d) => Buffered(d)'
    BY <1>6, <2>1, Sent DEF Enqueue
  <2>3. UNCHANGED <<life, worker>> /\ serve.pc # "returned"
    BY <1>6 DEF Enqueue
  <2> HIDE DEF Buffered
  <2> QED
    BY <2>1, <2>2, <2>3
<1>7. CASE EnqueueCancelled
  BY <1>7 DEF EnqueueCancelled, ServeGoto
<1>8. CASE RefuseConn
  BY <1>8 DEF RefuseConn, ServeDrop, Closed
<1>9. CASE CloseTasks
  BY <1>9 DEF CloseTasks, ServeGoto
<1>10. CASE ServeReturn
  BY <1>10 DEF ServeReturn, ServeGoto, WorkersGone
<1>11. CASE AcceptError
  BY <1>11 DEF AcceptError, ServeGoto
<1>12. ASSUME NEW c \in Conns, Accept(c) PROVE OpenHeld'
  BY <1>12 DEF Accept
<1>13. ASSUME NEW w \in Workers, TakeTask(w) PROVE OpenHeld'
  BY <1>13, TakenHeld DEF TakeTask, WorkerAt
<1>14. ASSUME NEW w \in Workers, Untrack(w) PROVE OpenHeld'
  BY <1>14 DEF Untrack, WorkerAt
<1>15. ASSUME NEW w \in Workers, TasksClosed(w) PROVE OpenHeld'
  BY <1>15 DEF TasksClosed, WorkerAt
<1>16. ASSUME NEW w \in Workers, SeeCancel(w) PROVE OpenHeld'
  BY <1>16 DEF SeeCancel, WorkerAt
<1>17. ASSUME NEW w \in Workers, DrainTask(w) PROVE OpenHeld'
  BY <1>17, TakenHeld DEF DrainTask, WorkerAt
<1>18. ASSUME NEW w \in Workers, DiscardConn(w) PROVE OpenHeld'
  BY <1>18 DEF DiscardConn, WorkerAt, Closed
<1>19. ASSUME NEW w \in Workers, Drained(w) PROVE OpenHeld'
  BY <1>19 DEF Drained, WorkerAt
<1>20. ASSUME NEW w \in Workers, HandleConn(w) PROVE OpenHeld'
  BY <1>20 DEF HandleConn, WorkerAt, Closed
<1>21. ASSUME NEW w \in Workers, AskUpstream(w) PROVE OpenHeld'
  BY <1>21 DEF AskUpstream, WorkerAt
<1>22. ASSUME NEW w \in Workers, UpstreamAnswers(w) PROVE OpenHeld'
  BY <1>22 DEF UpstreamAnswers, WorkerAt
<1>23. CASE Shutdown
  BY <1>23 DEF Shutdown
<1>24. CASE Cancel
  BY <1>24 DEF Cancel
<1>25. CASE CloseListener
  BY <1>25 DEF CloseListener
<1>26. CASE Sweep
  BY <1>26 DEF Sweep
<1>27. CASE ShutdownDone
  BY <1>27 DEF ShutdownDone, WorkersGone
<1>28. CASE ShutdownExpires
  BY <1>28 DEF ShutdownExpires
<1>29. CASE UNCHANGED vars
  BY <1>29 DEF vars
<1> QED
  BY <1>1, <1>2, <1>3, <1>4, <1>5, <1>6, <1>7, <1>8, <1>9, <1>10, <1>11,
     <1>12, <1>13, <1>14, <1>15, <1>16, <1>17, <1>18, <1>19, <1>20, <1>21,
     <1>22, <1>23, <1>24, <1>25, <1>26, <1>27, <1>28, <1>29
     DEF Next, ServeStep, WorkerStep, ShutdownStep

\* No step forgets to track an open connection, or reopens a closed one.
LEMMA TrackedStep == ReactorInv /\ [Next]_vars => (OpenTracked /\ Accepted)'
<1> SUFFICES ASSUME ReactorInv, [Next]_vars PROVE (OpenTracked /\ Accepted)'
  OBVIOUS
<1> USE ReactorAssumption
    DEF ReactorAssumption, ReactorInv, TypeOK, Holder, ServePC, WorkerPC, ShutPC,
        Control, PoolOrder, OpenTracked, Accepted, Open
<1>1. CASE ServeEnter
  BY <1>1 DEF ServeEnter, ServeGoto
<1>2. CASE SetListener
  BY <1>2 DEF SetListener, ServeGoto
<1>3. CASE StartWorkers
  BY <1>3 DEF StartWorkers, ServeGoto
<1>4. CASE CheckShutdown
  BY <1>4 DEF CheckShutdown, ServeGoto, ServeDrop, Closed
<1>5. CASE TrackConn
  BY <1>5 DEF TrackConn, ServeGoto, Closed
<1>6. CASE Enqueue
  BY <1>6 DEF Enqueue, ServeDrop
<1>7. CASE EnqueueCancelled
  BY <1>7 DEF EnqueueCancelled, ServeGoto
<1>8. CASE RefuseConn
  BY <1>8 DEF RefuseConn, ServeDrop, Closed
<1>9. CASE CloseTasks
  BY <1>9 DEF CloseTasks, ServeGoto
<1>10. CASE ServeReturn
  BY <1>10 DEF ServeReturn, ServeGoto, WorkersGone
<1>11. CASE AcceptError
  BY <1>11 DEF AcceptError, ServeGoto
<1>12. ASSUME NEW c \in Conns, Accept(c) PROVE (OpenTracked /\ Accepted)'
  BY <1>12 DEF Accept
<1>13. ASSUME NEW w \in Workers, TakeTask(w) PROVE (OpenTracked /\ Accepted)'
  BY <1>13 DEF TakeTask, WorkerAt
<1>14. ASSUME NEW w \in Workers, Untrack(w) PROVE (OpenTracked /\ Accepted)'
  BY <1>14 DEF Untrack, WorkerAt
<1>15. ASSUME NEW w \in Workers, TasksClosed(w) PROVE (OpenTracked /\ Accepted)'
  BY <1>15 DEF TasksClosed, WorkerAt
<1>16. ASSUME NEW w \in Workers, SeeCancel(w) PROVE (OpenTracked /\ Accepted)'
  BY <1>16 DEF SeeCancel, WorkerAt
<1>17. ASSUME NEW w \in Workers, DrainTask(w) PROVE (OpenTracked /\ Accepted)'
  BY <1>17 DEF DrainTask, WorkerAt
<1>18. ASSUME NEW w \in Workers, DiscardConn(w) PROVE (OpenTracked /\ Accepted)'
  BY <1>18 DEF DiscardConn, WorkerAt, Closed
<1>19. ASSUME NEW w \in Workers, Drained(w) PROVE (OpenTracked /\ Accepted)'
  BY <1>19 DEF Drained, WorkerAt
<1>20. ASSUME NEW w \in Workers, HandleConn(w) PROVE (OpenTracked /\ Accepted)'
  BY <1>20 DEF HandleConn, WorkerAt, Closed
<1>21. ASSUME NEW w \in Workers, AskUpstream(w) PROVE (OpenTracked /\ Accepted)'
  BY <1>21 DEF AskUpstream, WorkerAt
<1>22. ASSUME NEW w \in Workers, UpstreamAnswers(w) PROVE (OpenTracked /\ Accepted)'
  BY <1>22 DEF UpstreamAnswers, WorkerAt
<1>23. CASE Shutdown
  BY <1>23 DEF Shutdown
<1>24. CASE Cancel
  BY <1>24 DEF Cancel
<1>25. CASE CloseListener
  BY <1>25 DEF CloseListener
<1>26. CASE Sweep
  BY <1>26 DEF Sweep
<1>27. CASE ShutdownDone
  BY <1>27 DEF ShutdownDone, WorkersGone
<1>28. CASE ShutdownExpires
  BY <1>28 DEF ShutdownExpires
<1>29. CASE UNCHANGED vars
  BY <1>29 DEF vars
<1> QED
  BY <1>1, <1>2, <1>3, <1>4, <1>5, <1>6, <1>7, <1>8, <1>9, <1>10, <1>11,
     <1>12, <1>13, <1>14, <1>15, <1>16, <1>17, <1>18, <1>19, <1>20, <1>21,
     <1>22, <1>23, <1>24, <1>25, <1>26, <1>27, <1>28, <1>29
     DEF Next, ServeStep, WorkerStep, ShutdownStep

\* After the sweep no step adds an open connection to r.conns.
LEMMA SweptStep == ReactorInv /\ [Next]_vars => SweptStayClosed'
<1> SUFFICES ASSUME ReactorInv, [Next]_vars PROVE SweptStayClosed'
  OBVIOUS
<1> USE ReactorAssumption
    DEF ReactorAssumption, ReactorInv, TypeOK, Holder, ServePC, WorkerPC, ShutPC,
        Control, ShutdownOrder, Accepted, SweptStayClosed, Open
<1>1. CASE ServeEnter
  BY <1>1 DEF ServeEnter, ServeGoto
<1>2. CASE SetListener
  BY <1>2 DEF SetListener, ServeGoto
<1>3. CASE StartWorkers
  BY <1>3 DEF StartWorkers, ServeGoto
<1>4. CASE CheckShutdown
  BY <1>4 DEF CheckShutdown, ServeGoto, ServeDrop, Closed
<1>5. CASE TrackConn
  BY <1>5 DEF TrackConn, ServeGoto, Closed
<1>6. CASE Enqueue
  BY <1>6 DEF Enqueue, ServeDrop
<1>7. CASE EnqueueCancelled
  BY <1>7 DEF EnqueueCancelled, ServeGoto
<1>8. CASE RefuseConn
  BY <1>8 DEF RefuseConn, ServeDrop, Closed
<1>9. CASE CloseTasks
  BY <1>9 DEF CloseTasks, ServeGoto
<1>10. CASE ServeReturn
  BY <1>10 DEF ServeReturn, ServeGoto, WorkersGone
<1>11. CASE AcceptError
  BY <1>11 DEF AcceptError, ServeGoto
<1>12. ASSUME NEW c \in Conns, Accept(c) PROVE SweptStayClosed'
  BY <1>12 DEF Accept
<1>13. ASSUME NEW w \in Workers, TakeTask(w) PROVE SweptStayClosed'
  BY <1>13 DEF TakeTask, WorkerAt
<1>14. ASSUME NEW w \in Workers, Untrack(w) PROVE SweptStayClosed'
  BY <1>14 DEF Untrack, WorkerAt
<1>15. ASSUME NEW w \in Workers, TasksClosed(w) PROVE SweptStayClosed'
  BY <1>15 DEF TasksClosed, WorkerAt
<1>16. ASSUME NEW w \in Workers, SeeCancel(w) PROVE SweptStayClosed'
  BY <1>16 DEF SeeCancel, WorkerAt
<1>17. ASSUME NEW w \in Workers, DrainTask(w) PROVE SweptStayClosed'
  BY <1>17 DEF DrainTask, WorkerAt
<1>18. ASSUME NEW w \in Workers, DiscardConn(w) PROVE SweptStayClosed'
  BY <1>18 DEF DiscardConn, WorkerAt, Closed
<1>19. ASSUME NEW w \in Workers, Drained(w) PROVE SweptStayClosed'
  BY <1>19 DEF Drained, WorkerAt
<1>20. ASSUME NEW w \in Workers, HandleConn(w) PROVE SweptStayClosed'
  BY <1>20 DEF HandleConn, WorkerAt, Closed
<1>21. ASSUME NEW w \in Workers, AskUpstream(w) PROVE SweptStayClosed'
  BY <1>21 DEF AskUpstream, WorkerAt
<1>22. ASSUME NEW w \in Workers, UpstreamAnswers(w) PROVE SweptStayClosed'
  BY <1>22 DEF UpstreamAnswers, WorkerAt
<1>23. CASE Shutdown
  BY <1>23 DEF Shutdown
<1>24. CASE Cancel
  BY <1>24 DEF Cancel
<1>25. CASE CloseListener
  BY <1>25 DEF CloseListener
<1>26. CASE Sweep
  BY <1>26 DEF Sweep
<1>27. CASE ShutdownDone
  BY <1>27 DEF ShutdownDone, WorkersGone
<1>28. CASE ShutdownExpires
  BY <1>28 DEF ShutdownExpires
<1>29. CASE UNCHANGED vars
  BY <1>29 DEF vars
<1> QED
  BY <1>1, <1>2, <1>3, <1>4, <1>5, <1>6, <1>7, <1>8, <1>9, <1>10, <1>11,
     <1>12, <1>13, <1>14, <1>15, <1>16, <1>17, <1>18, <1>19, <1>20, <1>21,
     <1>22, <1>23, <1>24, <1>25, <1>26, <1>27, <1>28, <1>29
     DEF Next, ServeStep, WorkerStep, ShutdownStep

\* Where Serve has not returned, only it and the workers that have something
\* in hand, and the buffer, hold open connections; when it returns, only the
\* buffer does.
LEMMA OpenBuffered ==
    ASSUME ReactorInv, serve.pc = "waiting", WorkersGone
    PROVE  \A c \in Open : Buffered(c)
<1>1. serve.conn = NoConn
  BY DEF ReactorInv, TypeOK, Holder
<1> QED
  BY <1>1, ReactorAssumption
     DEF ReactorInv, ReactorAssumption, OpenHeld, Open, HeldByServe, HeldByWorker, WorkersGone

\* After Serve has returned no connection is accepted.
LEMMA NoneOpened ==
    ASSUME ReactorInv, [Next]_vars, serve.pc = "returned"
    PROVE  /\ serve' = serve /\ Open' \subseteq Open
           /\ cancelled => cancelled'
<1> USE DEF ReactorInv, TypeOK, Open
<1>1. CASE ServeStep \/ AcceptError
  BY <1>1 DEF ServeStep, ServeEnter, SetListener, StartWorkers, CheckShutdown, TrackConn,
     Enqueue, EnqueueCancelled, RefuseConn, CloseTasks, ServeReturn, AcceptError
<1>2. ASSUME NEW c \in Conns, Accept(c) PROVE FALSE
  BY <1>2 DEF Accept
<1>3. ASSUME NEW w \in Workers,
             WorkerStep(w) \/ HandleConn(w) \/ AskUpstream(w) \/ UpstreamAnswers(w)
      PROVE  serve' = serve /\ Open' \subseteq Open /\ cancelled' = cancelled
  BY <1>3 DEF WorkerStep, TakeTask, Untrack, TasksClosed, SeeCancel, DrainTask,
     DiscardConn, Drained, HandleConn, AskUpstream, UpstreamAnswers, Closed
<1>4. CASE Shutdown \/ ShutdownStep
  BY <1>4 DEF Shutdown, ShutdownStep, Cancel, CloseListener, Sweep, ShutdownDone,
     ShutdownExpires
<1>5. CASE UNCHANGED vars
  BY <1>5 DEF vars
<1> QED
  BY <1>1, <1>2, <1>3, <1>4, <1>5 DEF Next

\* What Serve leaves behind when it returns does not grow afterwards.
LEMMA RemainsStep == ReactorInv /\ [Next]_vars => Remains'
<1> SUFFICES ASSUME ReactorInv, [Next]_vars, serve'.pc = "returned"
             PROVE  /\ ~cancelled' => Open' = {}
                    /\ Cardinality(Open') <= MaxQueueSize
  BY DEF Remains, Open
<1>1. CASE serve.pc = "returned"
  <2>1. Open' \subseteq Open /\ (cancelled => cancelled')
    BY <1>1, NoneOpened
  <2>2. Open \subseteq Conns /\ Cardinality(Open) <= MaxQueueSize
    BY <1>1 DEF ReactorInv, Remains, Open
  <2>3. IsFiniteSet(Open)
    BY <2>2, FS_Subset, ReactorAssumption DEF ReactorAssumption
  <2>4. IsFiniteSet(Open') /\ Cardinality(Open') <= Cardinality(Open)
    BY <2>1, <2>3, FS_Subset
  <2>5. Cardinality(Open) \in Nat /\ Cardinality(Open') \in Nat
    BY <2>3, <2>4, FS_CardinalityType
  <2>6. Cardinality(Open') <= MaxQueueSize
    BY <2>2, <2>4, <2>5, ReactorAssumption DEF ReactorAssumption
  <2>7. ~cancelled' => Open' = {}
    BY <1>1, <2>1 DEF ReactorInv, Remains
  <2> QED
    BY <2>6, <2>7
<1>2. CASE ServeEnter
  <2>1. serve.pc = "start" /\ UNCHANGED life
    BY <1>2 DEF ServeEnter
  <2>2. serve.conn = NoConn /\ NoConn \notin Conns /\ tasks = <<>>
    BY <2>1, ReactorAssumption
       DEF ReactorAssumption, ReactorInv, TypeOK, Holder, Control, PoolOrder
  <2>3. Open' = {}
    BY <2>1, <2>2
       DEF ReactorInv, Control, PoolOrder, OpenHeld, Open, HeldByServe, HeldByWorker, Buffered
  <2> QED
    BY <2>3, FS_EmptySet, ReactorAssumption DEF ReactorAssumption
<1>3. CASE ServeReturn
  <2>1. /\ serve.pc = "waiting" /\ WorkersGone /\ UNCHANGED <<life, cancelled, chanClosed>>
    BY <1>3 DEF ServeReturn
  <2>2. \A c \in Open : Buffered(c)
    BY <2>1, OpenBuffered
  <2>3. tasks \in Seq(Conns) /\ Len(tasks) <= MaxQueueSize /\ Len(tasks) \in Nat
    BY DEF ReactorInv, TypeOK, Control, ChannelOrder
  <2>4. IsFiniteSet(Open) /\ Cardinality(Open) <= Len(tasks)
    BY <2>2, <2>3, FewElements DEF Buffered
  <2>5. Cardinality(Open) <= MaxQueueSize
    BY <2>3, <2>4, FS_CardinalityType, ReactorAssumption DEF ReactorAssumption
  <2>6. ASSUME ~cancelled PROVE tasks = <<>>
    BY <2>1, <2>6, ReactorAssumption
       DEF ReactorAssumption, ReactorInv, Control, PoolOrder, ExitReason, WorkersGone
  <2>7. Open' = Open
    BY <2>1 DEF Open
  <2>8. ~cancelled' => Open' = {}
    BY <2>1, <2>2, <2>6, <2>7 DEF Buffered
  <2> QED
    BY <2>5, <2>7, <2>8
<1>4. CASE serve.pc # "returned" /\ ~ServeEnter /\ ~ServeReturn
  <2>1. serve'.pc # "returned"
    BY <1>4 DEF Next, vars, ServeStep, SetListener, StartWorkers, CheckShutdown, TrackConn,
       Enqueue, EnqueueCancelled, RefuseConn, CloseTasks, AcceptError, Accept, ServeGoto,
       ServeDrop, WorkerStep, TakeTask, Untrack, TasksClosed, SeeCancel, DrainTask,
       DiscardConn, Drained, HandleConn, AskUpstream, UpstreamAnswers, Shutdown, ShutdownStep,
       Cancel, CloseListener, Sweep, ShutdownDone, ShutdownExpires, ReactorInv, TypeOK, Holder
  <2> QED
    BY <2>1
<1> QED
  BY <1>1, <1>2, <1>3, <1>4

\* make(chan net.Conn, n) buffers nothing.
LEMMA EmptyBuffer == <<>> \in Seq(Conns) /\ Len(<<>>) = 0
OBVIOUS

\* A Reactor that New has just returned satisfies the invariant.
LEMMA ReactorInit == Init => ReactorInv
<1> SUFFICES ASSUME Init PROVE ReactorInv
  OBVIOUS
<1> USE DEF Init
<1>1. TypeOK
  BY EmptyBuffer DEF TypeOK, Holder, ServePC, WorkerPC, ShutPC
<1>2. Control
  BY ReactorAssumption
     DEF ReactorAssumption, Control, ShutdownOrder, PoolOrder, ChannelOrder, ExitReason
<1>3. Open = {}
  BY DEF Open
<1>4. OpenHeld /\ OpenTracked /\ Accepted /\ Remains /\ SweptStayClosed
  BY <1>3 DEF OpenHeld, OpenTracked, Accepted, Remains, SweptStayClosed
<1> QED
  BY <1>1, <1>2, <1>4 DEF ReactorInv

-----------------------------------------------------------------------------
(* The theorems.                                                           *)

\* In every reachable state of Serve, the workers and Shutdown the parts of
\* the invariant hold together.
THEOREM ReactorInvariant == Spec => []ReactorInv
<1>1. ReactorInv /\ [Next]_vars => ReactorInv'
  <2> SUFFICES ASSUME ReactorInv, [Next]_vars PROVE ReactorInv'
    OBVIOUS
  <2>1. TypeOK'
    BY TypeStep DEF ReactorInv
  <2> QED
    BY <2>1, ControlStep, OpenHeldStep, TrackedStep, SweptStep, RemainsStep DEF ReactorInv
<1> QED
  BY ReactorInit, <1>1, PTL DEF Spec

\* At any moment the open connections are at most the pool's, the queue's and
\* the one in the accept loop's hands.
LEMMA OpenBound == ReactorInv => Backpressure
<1> SUFFICES ASSUME ReactorInv
             PROVE  Cardinality(Open) <= Cardinality(Workers) + MaxQueueSize + 1
  BY DEF ReactorInv, Backpressure
<1> DEFINE inPool == {c \in Open : \E w \in Workers : HeldByWorker(w, c)}
           inQueue == {c \in Open : Buffered(c)}
<1>1. IsFiniteSet(Workers) /\ Cardinality(Workers) \in Nat /\ MaxQueueSize \in Nat
  BY ReactorAssumption, FS_CardinalityType DEF ReactorAssumption
<1>2. CASE serve.pc = "returned"
  <2>1. IsFiniteSet(Open)
    BY FS_Subset, ReactorAssumption DEF ReactorAssumption, Open
  <2> QED
    BY <1>1, <1>2, <2>1, FS_CardinalityType DEF ReactorInv, Remains
<1>3. CASE serve.pc # "returned"
  <2>1. IsFiniteSet(inQueue) /\ Cardinality(inQueue) <= MaxQueueSize
    <3>1. tasks \in Seq(Conns) /\ Len(tasks) <= MaxQueueSize /\ Len(tasks) \in Nat
      BY DEF ReactorInv, TypeOK, Control, ChannelOrder
    <3>2. IsFiniteSet(inQueue) /\ Cardinality(inQueue) <= Len(tasks)
      BY <3>1, FewElements DEF Buffered
    <3> QED
      BY <1>1, <3>1, <3>2, FS_CardinalityType
  <2>2. IsFiniteSet(inPool) /\ Cardinality(inPool) <= Cardinality(Workers)
    <3> DEFINE T == {worker[w].conn : w \in Workers}
               f == [w \in Workers |-> worker[w].conn]
    <3>1. f \in Surjection(Workers, T)
      BY DEF Surjection
    <3>2. IsFiniteSet(T) /\ Cardinality(T) <= Cardinality(Workers)
      BY <1>1, <3>1, FS_Surjection
    <3>3. inPool \in SUBSET T
      BY DEF HeldByWorker
    <3>4. IsFiniteSet(inPool) /\ Cardinality(inPool) <= Cardinality(T)
      BY <3>2, <3>3, FS_Subset
    <3> QED
      BY <1>1, <3>2, <3>4, FS_CardinalityType
  <2>3. IsFiniteSet({serve.conn}) /\ Cardinality({serve.conn}) = 1
    BY FS_Singleton
  <2>4. Open \subseteq (inPool \cup inQueue) \cup {serve.conn}
    BY <1>3 DEF ReactorInv, OpenHeld, HeldByServe
  <2>5. /\ IsFiniteSet(inPool \cup inQueue)
        /\ Cardinality(inPool \cup inQueue) <= Cardinality(Workers) + MaxQueueSize
    <3> DEFINE U == inPool \cup inQueue
               I == inPool \cap inQueue
    <3>1. /\ IsFiniteSet(U)
          /\ Cardinality(U) = Cardinality(inPool) + Cardinality(inQueue) - Cardinality(I)
      BY <2>1, <2>2, FS_Union
    <3>2. IsFiniteSet(I)
      BY <2>1, FS_Subset
    <3>3. Cardinality(inPool) \in Nat /\ Cardinality(inQueue) \in Nat /\ Cardinality(I) \in Nat
      BY <2>1, <2>2, <3>2, FS_CardinalityType
    <3> HIDE DEF inPool, inQueue, U, I
    <3> QED
      BY <1>1, <2>1, <2>2, <3>1, <3>3 DEF U
  <2>6. /\ IsFiniteSet((inPool \cup inQueue) \cup {serve.conn})
        /\ Cardinality((inPool \cup inQueue) \cup {serve.conn})
             <= Cardinality(inPool \cup inQueue) + 1
    <3> DEFINE U == inPool \cup inQueue
    <3>1. IsFiniteSet(U) /\ Cardinality(U) \in Nat
      BY <2>5, FS_CardinalityType
    <3> HIDE DEF U
    <3>2. /\ IsFiniteSet(U \cup {serve.conn})
          /\ Cardinality(U \cup {serve.conn}) <= Cardinality(U) + 1
      BY <3>1, FS_AddElement
    <3> QED
      BY <3>2 DEF U
  <2>7. Cardinality(Open) <= Cardinality((inPool \cup inQueue) \cup {serve.conn})
        /\ IsFiniteSet(Open)
    BY <2>4, <2>6, FS_Subset
  <2>8. /\ Cardinality(Open) \in Nat /\ Cardinality(inPool \cup inQueue) \in Nat
        /\ Cardinality((inPool \cup inQueue) \cup {serve.conn}) \in Nat
    BY <2>5, <2>6, <2>7, FS_CardinalityType
  <2> HIDE DEF inPool, inQueue
  <2> QED
    BY <1>1, <2>5, <2>6, <2>7, <2>8
<1> QED
  BY <1>2, <1>3

\* REQ-111, for every pool and queue: however many clients connect, no more
\* connections are open than the workers, the channel and Serve can hold.
THEOREM AdmissionBoundHolds == Spec => []Backpressure
<1> QED
  BY ReactorInvariant, OpenBound, PTL

\* Once Shutdown has swept r.conns, trackConn lets no open connection in.
THEOREM SweepIsFinal == Spec => []SweptStayClosed
<1>1. ReactorInv => SweptStayClosed
  BY DEF ReactorInv
<1> QED
  BY ReactorInvariant, <1>1, PTL

\* Serve returns with every accepted connection closed, or tracked with the
\* sweep still to come.
THEOREM ServeLeavesNothing == Spec => []ServeReturnsClean
<1>1. ReactorInv => ServeReturnsClean
  BY ReactorAssumption
     DEF ReactorAssumption, ReactorInv, TypeOK, ShutPC, Control, ShutdownOrder, PoolOrder,
         Remains, OpenTracked, SweptStayClosed, ServeReturnsClean
<1> QED
  BY ReactorInvariant, <1>1, PTL
=============================================================================
