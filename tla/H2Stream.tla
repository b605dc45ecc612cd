------------------------------ MODULE H2Stream ------------------------------
(***************************************************************************)
(* pkg/server/server.go, http2AdapterHandler: one HTTP/2 (or HTTP/3)       *)
(* stream, run by http2.Server in a goroutine of its own.  An upgraded     *)
(* stream is relayed by relayHTTP2UpgradedStream: a ticker, a goroutine    *)
(* from the request's body to the upstream, and the handler itself from    *)
(* the upstream to the client, which end together.                         *)
(***************************************************************************)
EXTENDS Integers

CONSTANTS
    H2BodyLimit,  \* maxBodyBytes
    H2Idle,       \* idleTimeout, in ticks
    MaxH2Moves    \* bound: reads of each side, and pieces of a stream

ASSUME H2Assumption ==
    H2BodyLimit \in Nat \ {0} /\ H2Idle \in Nat \ {0} /\ MaxH2Moves \in Nat

VARIABLES
    h2,        \* where the handler is
    h2Slot,    \* releaseSlot is deferred and has not run
    h2Body,    \* r.Body: declared length (-1: none), open or closed
    h2Gone,    \* r.Context() is done: the client has reset the stream
    h2Served,  \* length of the body the router was given, or -1
    upgraded,  \* upstreamConn: "none", "open", "closed"
    ticker,    \* the ticker goroutine: "none", "run", "end"
    pump,      \* the goroutine that reads the body: "none", "read", "write", "end"
    idleFor,   \* ticks since lastActivity, saturating
    upLeft,    \* ticks left of the upstream's read deadline
    h2Moved,   \* reads so far
    h2Stop     \* done is closed

h2Vars == <<h2, h2Slot, h2Body, h2Gone, h2Served, upgraded, ticker, pump, idleFor,
            upLeft, h2Moved, h2Stop>>

H2TypeOK ==
    /\ h2 \in {"new", "gate", "body", "serve", "answer", "stream", "arm", "read",
               "write", "join", "done"}
    /\ h2Slot \in BOOLEAN /\ h2Gone \in BOOLEAN /\ h2Stop \in BOOLEAN
    /\ h2Body \in [declared : -1..H2BodyLimit, open : BOOLEAN]
    /\ h2Served \in -1..H2BodyLimit
    /\ upgraded \in {"none", "open", "closed"}
    /\ ticker \in {"none", "run", "end"}
    /\ pump \in {"none", "read", "write", "end"}
    /\ idleFor \in 0..H2Idle /\ upLeft \in 0..H2Idle
    /\ h2Moved \in 0..MaxH2Moves

H2Init ==
    /\ h2 = "new" /\ h2Slot = FALSE /\ h2Gone = FALSE /\ h2Served = -1
    /\ h2Body = [declared |-> -1, open |-> TRUE]
    /\ upgraded = "none" /\ ticker = "none" /\ pump = "none"
    /\ idleFor = 0 /\ upLeft = H2Idle /\ h2Moved = 0 /\ h2Stop = FALSE

\* The handler returns: the deferred calls run, the slot's release among them.
H2Return ==
    /\ h2' = "done"
    /\ h2Slot' = FALSE
    /\ h2Body' = [h2Body EXCEPT !.open = FALSE]
    /\ upgraded' = IF upgraded = "open" THEN "closed" ELSE upgraded

RelayUntouched == UNCHANGED <<ticker, pump, idleFor, upLeft, h2Moved, h2Stop>>

-----------------------------------------------------------------------------
(* Up to the router.                                                       *)

\* A request is refused by ValidateHTTP2Request (400) or because of the length
\* it declares (413).
H2Refuse ==
    /\ h2 = "new"
    /\ H2Return
    /\ UNCHANGED <<h2Gone, h2Served>> /\ RelayUntouched

H2Validate ==
    /\ h2 = "new"
    /\ \E length \in -1..H2BodyLimit : h2Body' = [h2Body EXCEPT !.declared = length]
    /\ h2' = "gate"
    /\ UNCHANGED <<h2Slot, h2Gone, h2Served, upgraded>> /\ RelayUntouched

\* The bulkhead: 503, a slot, or a route without a limit.
H2Gate ==
    /\ h2 = "gate"
    /\ \/ H2Return
       \/ /\ h2Slot' \in BOOLEAN
          /\ h2' = "body"
          /\ UNCHANGED <<h2Body, upgraded>>
    /\ UNCHANGED <<h2Gone, h2Served>> /\ RelayUntouched

\* The whole body is read first, one byte beyond the limit at most.  A read
\* error and a length other than the declared one are refused with 400, a body
\* above the limit with 413.  CONNECT keeps its body for the relay.
H2ReadBody ==
    /\ h2 = "body"
    /\ \E received \in 0..(H2BodyLimit + 1), failed, connect \in BOOLEAN :
          IF connect
          THEN h2' = "serve" /\ UNCHANGED <<h2Slot, h2Body, h2Served, upgraded>>
          ELSE IF \/ failed \/ received > H2BodyLimit
                  \/ h2Body.declared # -1 /\ h2Body.declared # received
          THEN H2Return /\ UNCHANGED h2Served
          ELSE /\ h2' = "serve" /\ h2Served' = received
               /\ UNCHANGED <<h2Slot, h2Body, upgraded>>
    /\ UNCHANGED h2Gone /\ RelayUntouched

\* Router.ServeHTTP: an answer in res.Body, a stream, or an upgrade, which only
\* a CONNECT leads to.  Headers are copied and written at once.
H2Serve ==
    /\ h2 = "serve"
    /\ \/ /\ H2Return
          /\ RelayUntouched
       \/ /\ h2' = "stream"
          /\ UNCHANGED <<h2Slot, h2Body, upgraded>> /\ RelayUntouched
       \/ /\ h2Served = -1
          /\ h2' = "arm" /\ upgraded' = "open" /\ ticker' = "run" /\ pump' = "read"
          /\ idleFor' = 0 /\ upLeft' = H2Idle
          /\ UNCHANGED <<h2Slot, h2Body, h2Moved, h2Stop>>
    /\ UNCHANGED <<h2Gone, h2Served>>

\* A streamed body: until its end, an error, a failed write or a cancelled
\* request; the stream's own end tells the client.
H2Piece ==
    /\ h2 = "stream" /\ ~h2Gone /\ h2Moved < MaxH2Moves
    /\ h2Moved' = h2Moved + 1
    /\ UNCHANGED <<h2, h2Slot, h2Body, h2Gone, h2Served, upgraded, ticker, pump,
                   idleFor, upLeft, h2Stop>>

H2StreamEnds ==
    /\ h2 = "stream"
    /\ H2Return
    /\ UNCHANGED <<h2Gone, h2Served>> /\ RelayUntouched

-----------------------------------------------------------------------------
(* relayHTTP2UpgradedStream.                                               *)

\* closeConn: the upstream's connection and the request's body.
\* Mutant: the request's body is left open.
closeConn_KeepsBody ==
    upgraded' = "closed" /\ UNCHANGED h2Body

closeConn ==
    /\ upgraded' = "closed"
    /\ h2Body' = [h2Body EXCEPT !.open = FALSE]

\* The ticker's goroutine: stopped, the request cancelled, or idle too long.
TickerStops ==
    /\ ticker = "run" /\ h2Stop
    /\ ticker' = "end"
    /\ UNCHANGED <<h2, h2Slot, h2Body, h2Gone, h2Served, upgraded, pump, idleFor,
                   upLeft, h2Moved, h2Stop>>

TickerCloses ==
    /\ ticker = "run" /\ (h2Gone \/ idleFor >= H2Idle)
    /\ ticker' = "end"
    /\ closeConn
    /\ UNCHANGED <<h2, h2Slot, h2Gone, h2Served, pump, idleFor, upLeft, h2Moved,
                   h2Stop>>

PumpRead ==
    /\ pump = "read" /\ h2Body.open /\ h2Moved < MaxH2Moves
    /\ pump' = "write"
    /\ idleFor' = 0
    /\ h2Moved' = h2Moved + 1
    /\ UNCHANGED <<h2, h2Slot, h2Body, h2Gone, h2Served, upgraded, ticker, upLeft,
                   h2Stop>>

PumpWrite ==
    /\ pump = "write" /\ upgraded = "open"
    /\ pump' = "read"
    /\ UNCHANGED <<h2, h2Slot, h2Body, h2Gone, h2Served, upgraded, ticker, idleFor,
                   upLeft, h2Moved, h2Stop>>

\* The body ends or is closed; the write fails or times out.
PumpEnds ==
    /\ \/ pump = "read" /\ (h2Gone \/ ~h2Body.open)
       \/ pump = "write" /\ (upgraded = "closed" \/ idleFor >= H2Idle)
    /\ pump' = "end"
    /\ closeConn
    /\ UNCHANGED <<h2, h2Slot, h2Gone, h2Served, ticker, idleFor, upLeft, h2Moved,
                   h2Stop>>

\* The handler: each turn of its loop sets the upstream's read deadline.
UpArm ==
    /\ h2 = "arm"
    /\ h2' = "read" /\ upLeft' = H2Idle
    /\ UNCHANGED <<h2Slot, h2Body, h2Gone, h2Served, upgraded, ticker, pump, idleFor,
                   h2Moved, h2Stop>>

UpRead ==
    /\ h2 = "read" /\ upgraded = "open" /\ upLeft > 0 /\ h2Moved < MaxH2Moves
    /\ h2' = "write"
    /\ idleFor' = 0
    /\ h2Moved' = h2Moved + 1
    /\ UNCHANGED <<h2Slot, h2Body, h2Gone, h2Served, upgraded, ticker, pump, upLeft,
                   h2Stop>>

UpWrite ==
    /\ h2 = "write" /\ ~h2Gone
    /\ h2' = "arm"
    /\ UNCHANGED <<h2Slot, h2Body, h2Gone, h2Served, upgraded, ticker, pump, idleFor,
                   upLeft, h2Moved, h2Stop>>

\* The upstream ends, fails, is closed or is silent until the deadline, or the
\* client is gone: stopDone and closeConn, then wg.Wait.
UpEnds ==
    /\ h2 = "read" \/ (h2 = "write" /\ h2Gone)
    /\ h2' = "join" /\ h2Stop' = TRUE
    /\ closeConn
    /\ UNCHANGED <<h2Slot, h2Gone, h2Served, ticker, pump, idleFor, upLeft, h2Moved>>

Join ==
    /\ h2 = "join" /\ ticker = "end" /\ pump = "end"
    /\ H2Return
    /\ UNCHANGED <<h2Gone, h2Served>> /\ RelayUntouched

\* The client resets the stream; time passes.
ClientResets ==
    /\ ~h2Gone /\ h2 # "done"
    /\ h2Gone' = TRUE
    /\ UNCHANGED <<h2, h2Slot, h2Body, h2Served, upgraded, ticker, pump, idleFor,
                   upLeft, h2Moved, h2Stop>>

H2Clock ==
    /\ ticker = "run" /\ idleFor < H2Idle
    /\ idleFor' = idleFor + 1
    /\ upLeft' = IF upLeft = 0 THEN 0 ELSE upLeft - 1
    /\ UNCHANGED <<h2, h2Slot, h2Body, h2Gone, h2Served, upgraded, ticker, pump,
                   h2Moved, h2Stop>>

H2Step ==
    \/ H2Refuse \/ H2Validate \/ H2Gate \/ H2ReadBody \/ H2Serve
    \/ H2Piece \/ H2StreamEnds
    \/ TickerStops \/ TickerCloses \/ PumpRead \/ PumpWrite \/ PumpEnds
    \/ UpArm \/ UpRead \/ UpWrite \/ UpEnds \/ Join
    \/ H2Clock

\* The steps that come for certain: goroutines run, timers fire, and a stream
\* the client has reset gives errors.  The handler, the upstream and a client
\* that neither sends, reads nor resets may take their time.
H2Bounded ==
    \/ H2Refuse \/ H2Validate \/ H2Gate \/ (h2Gone /\ (H2ReadBody \/ H2StreamEnds))
    \/ TickerStops \/ TickerCloses \/ PumpEnds
    \/ UpArm \/ ((h2 = "write" \/ upLeft = 0 \/ upgraded = "closed") /\ UpEnds)
    \/ Join \/ H2Clock

-----------------------------------------------------------------------------
\* The handler of a stream leaves nothing behind: when it has returned, its
\* slot is released, the upstream's connection is closed and neither of the
\* relay's goroutines runs.  What it served had the length it declared.
H2Safe ==
    /\ H2TypeOK
    /\ h2 = "done" =>
          ~h2Slot /\ upgraded # "open" /\ ticker # "run" /\ pump \in {"none", "end"}
    /\ h2Served # -1 => h2Body.declared \in {-1, h2Served}
=============================================================================
