-------------------------- MODULE ServerConnProofs --------------------------
(***************************************************************************)
(* Proofs about ServerConn: the relay of an upgraded connection, one       *)
(* HTTP/2 stream and the HTTP/1.1 loop.                                    *)
(***************************************************************************)
EXTENDS ServerConn, TLAPS

-----------------------------------------------------------------------------
(* The relay.                                                              *)

\* A direction that waits in Read was given more than half of the timeout, and
\* what has passed of it since was spent in silence.
ReadsGuarded ==
    \A s \in Ends : copy[s] = "read" => 2 * (deadline[s].read + quiet) > UpgradeIdle

RelayInv == RelayTypeOK /\ ReadsGuarded

\* The fields of the deadlines of one side.
LEMMA DeadlineFields ==
    ASSUME NEW d \in Deadline
    PROVE  /\ d.read \in 0..UpgradeIdle /\ d.write \in 0..UpgradeIdle
           /\ d.readForced \in BOOLEAN /\ d.writeForced \in BOOLEAN
BY DEF Deadline

\* Amortising leaves more than half of the timeout.
LEMMA AmortizedLeft ==
    ASSUME NEW n \in 0..UpgradeIdle, NEW f \in BOOLEAN
    PROVE  Amortized(n, f) \in 0..UpgradeIdle /\ 2 * Amortized(n, f) > UpgradeIdle
BY RelayAssumption DEF RelayAssumption, Amortized

\* SetAmortizedReadDeadline.
LEMMA ReadRefreshedLeft ==
    ASSUME NEW d \in Deadline
    PROVE  /\ ReadRefreshed(d) \in Deadline
           /\ 2 * ReadRefreshed(d).read > UpgradeIdle
<1> DEFINE n == Amortized(d.read, d.readForced)
<1>1. n \in 0..UpgradeIdle /\ 2 * n > UpgradeIdle
  BY DeadlineFields, AmortizedLeft
<1>2. ReadRefreshed(d) = [d EXCEPT !.read = n, !.readForced = FALSE]
  BY DEF ReadRefreshed
<1> HIDE DEF n
<1>3. ReadRefreshed(d) \in Deadline /\ ReadRefreshed(d).read = n
  BY <1>1, <1>2, Zenon DEF Deadline
<1> QED BY <1>1, <1>3

\* SetAmortizedWriteDeadline leaves the read deadline alone.
LEMMA WriteRefreshedLeft ==
    ASSUME NEW d \in Deadline
    PROVE  WriteRefreshed(d) \in Deadline /\ WriteRefreshed(d).read = d.read
<1> DEFINE n == Amortized(d.write, d.writeForced)
<1>1. n \in 0..UpgradeIdle
  BY DeadlineFields, AmortizedLeft
<1>2. WriteRefreshed(d) = [d EXCEPT !.write = n, !.writeForced = FALSE]
  BY DEF WriteRefreshed
<1> HIDE DEF n
<1> QED BY <1>1, <1>2, Zenon DEF Deadline

\* A tick.
LEMMA TickedDown ==
    ASSUME NEW d \in Deadline
    PROVE  LET e == [d EXCEPT !.read = Later(@), !.write = Later(@)]
           IN  e \in Deadline /\ e.read = Later(d.read)
<1> DEFINE m == Later(d.read)
           n == Later(d.write)
<1>1. m \in 0..UpgradeIdle /\ n \in 0..UpgradeIdle
  BY DeadlineFields, RelayAssumption DEF RelayAssumption, Later
<1>2. [d EXCEPT !.read = Later(@), !.write = Later(@)] = [d EXCEPT !.read = m, !.write = n]
  OBVIOUS
<1>3. m = Later(d.read)
  OBVIOUS
<1> HIDE DEF m, n
<1>4. LET e == [d EXCEPT !.read = m, !.write = n] IN e \in Deadline /\ e.read = m
  BY <1>1, Zenon DEF Deadline
<1> QED BY <1>2, <1>3, <1>4

LEMMA RelayInitInv == RelayInit => RelayInv
<1> SUFFICES ASSUME RelayInit PROVE RelayInv
  OBVIOUS
<1> DEFINE n == UpgradeIdle
           D == [read |-> n, write |-> n, readForced |-> TRUE, writeForced |-> TRUE]
<1>1. n \in 0..UpgradeIdle /\ 0 \in 0..UpgradeIdle /\ 0 \in 0..MaxRelayed
  BY RelayAssumption DEF RelayAssumption
<1>2. deadline = [s \in Ends |-> D]
  BY DEF RelayInit
<1>3. D \in Deadline
  <2> HIDE DEF n
  <2> QED BY <1>1, Zenon DEF Deadline
<1> HIDE DEF D
<1>4. RelayTypeOK
  BY <1>1, <1>2, <1>3 DEF RelayInit, RelayTypeOK
<1>5. ReadsGuarded
  BY DEF RelayInit, ReadsGuarded
<1> QED BY <1>4, <1>5 DEF RelayInv

\* A step that only ends directions and closes sockets.
LEMMA RelayOnlyEnds ==
    ASSUME RelayInv, NEW s \in Ends,
           copy' = [copy EXCEPT ![s] = "stopped"], UNCHANGED <<deadline, moved, quiet>>,
           halfClosed' \in BOOLEAN, sockets' \in BOOLEAN
    PROVE  RelayInv'
<1>1. RelayTypeOK'
  BY DEF RelayInv, RelayTypeOK
<1>2. ReadsGuarded'
  BY DEF RelayInv, RelayTypeOK, ReadsGuarded
<1> QED BY <1>1, <1>2 DEF RelayInv

LEMMA RelayTopInv ==
    ASSUME RelayInv, NEW s \in Ends, RelayTop(s)
    PROVE  RelayInv'
<1> DEFINE d == ReadRefreshed(deadline[s])
<1>1. deadline[s] \in Deadline
  BY DEF RelayInv, RelayTypeOK
<1>2. d \in Deadline /\ 2 * d.read > UpgradeIdle
  BY <1>1, ReadRefreshedLeft
<1>3. deadline' = [deadline EXCEPT ![s] = d]
  BY DEF RelayTop
<1> HIDE DEF d
<1>4. RelayTypeOK'
  BY <1>2, <1>3 DEF RelayInv, RelayTypeOK, RelayTop
<1>5. ASSUME NEW t \in Ends, copy'[t] = "read"
      PROVE  2 * (deadline'[t].read + quiet') > UpgradeIdle
  <2>1. quiet' = quiet /\ quiet \in Nat /\ UpgradeIdle \in Nat
    BY RelayAssumption DEF RelayAssumption, RelayInv, RelayTypeOK, RelayTop
  <2>2. CASE t = s
    <3>1. deadline'[t] = d
      BY <1>3, <2>2 DEF RelayInv, RelayTypeOK
    <3>2. d.read \in Nat
      BY <1>2, DeadlineFields, RelayAssumption DEF RelayAssumption
    <3> QED BY <1>2, <2>1, <3>1, <3>2
  <2>3. CASE t # s
    <3>1. deadline'[t] = deadline[t] /\ copy[t] = "read"
      BY <1>3, <1>5, <2>3 DEF RelayInv, RelayTypeOK, RelayTop
    <3> QED BY <2>1, <3>1 DEF RelayInv, ReadsGuarded
  <2> QED BY <2>2, <2>3
<1> QED BY <1>4, <1>5 DEF RelayInv, ReadsGuarded

\* What one side sends gives the other direction more than half of the timeout.
LEMMA RelayReadInv ==
    ASSUME RelayInv, NEW s \in Ends, RelayRead(s)
    PROVE  RelayInv'
<1> DEFINE o == Opposite(s)
           d == WriteRefreshed(ReadRefreshed(deadline[o]))
<1>1. o \in Ends /\ o # s /\ \A t \in Ends : t \in {s, o}
  BY DEF Ends, Opposite
<1>2. deadline[o] \in Deadline
  BY <1>1 DEF RelayInv, RelayTypeOK
<1>3. d \in Deadline /\ 2 * d.read > UpgradeIdle
  BY <1>2, ReadRefreshedLeft, WriteRefreshedLeft
<1>4. deadline' = [deadline EXCEPT ![o] = d]
  BY DEF RelayRead
<1> HIDE DEF o, d
<1>5. moved' \in [Ends -> 0..MaxRelayed] /\ quiet' = 0 /\ quiet' \in 0..UpgradeIdle
  BY RelayAssumption DEF RelayAssumption, RelayInv, RelayTypeOK, RelayRead
<1>6. RelayTypeOK'
  BY <1>1, <1>3, <1>4, <1>5 DEF RelayInv, RelayTypeOK, RelayRead
<1>7. ASSUME NEW t \in Ends, copy'[t] = "read"
      PROVE  2 * (deadline'[t].read + quiet') > UpgradeIdle
  <2>1. t = o
    BY <1>1, <1>7 DEF RelayInv, RelayTypeOK, RelayRead
  <2>2. deadline'[t] = d
    BY <1>4, <2>1 DEF RelayInv, RelayTypeOK
  <2>3. d.read \in Nat /\ UpgradeIdle \in Nat
    BY <1>3, DeadlineFields, RelayAssumption DEF RelayAssumption
  <2> QED BY <1>3, <1>5, <2>2, <2>3
<1> QED BY <1>6, <1>7 DEF RelayInv, ReadsGuarded

LEMMA RelayClockInv ==
    ASSUME RelayInv, RelayClock
    PROVE  RelayInv'
<1> DEFINE Down(d) == [d EXCEPT !.read = Later(@), !.write = Later(@)]
<1>1. \A s \in Ends : Down(deadline[s]) \in Deadline
                        /\ Down(deadline[s]).read = Later(deadline[s].read)
  BY TickedDown DEF RelayInv, RelayTypeOK
<1>2. deadline' = [s \in Ends |-> Down(deadline[s])]
  BY DEF RelayClock
<1> HIDE DEF Down
<1>3. quiet' \in 0..UpgradeIdle
  <2>1. quiet \in 0..UpgradeIdle /\ quiet' = IF quiet < UpgradeIdle THEN quiet + 1 ELSE quiet
    BY DEF RelayInv, RelayTypeOK, RelayClock
  <2> QED BY <2>1, RelayAssumption DEF RelayAssumption
<1>4. RelayTypeOK'
  <2>1. deadline' \in [Ends -> Deadline]
    BY <1>1, <1>2
  <2> QED BY <1>3, <2>1, Zenon DEF RelayInv, RelayTypeOK, RelayClock
<1>5. ASSUME NEW t \in Ends, copy'[t] = "read"
      PROVE  2 * (deadline'[t].read + quiet') > UpgradeIdle
  <2>1. copy[t] = "read" /\ deadline'[t].read = Later(deadline[t].read)
    BY <1>1, <1>2, <1>5 DEF RelayClock
  <2>2. deadline[t].read \in 0..UpgradeIdle /\ deadline[t].read > 0
    BY <2>1, DeadlineFields DEF RelayInv, RelayTypeOK, RelayClock, RelayWaits
  <2>3. quiet \in 0..UpgradeIdle /\ quiet' = IF quiet < UpgradeIdle THEN quiet + 1 ELSE quiet
    BY DEF RelayInv, RelayTypeOK, RelayClock
  <2>4. 2 * (deadline[t].read + quiet) > UpgradeIdle
    BY <2>1 DEF RelayInv, ReadsGuarded
  <2> QED BY <2>1, <2>2, <2>3, <2>4, RelayAssumption DEF RelayAssumption, Later
<1> QED BY <1>4, <1>5 DEF RelayInv, ReadsGuarded

LEMMA RelayStepInv ==
    ASSUME RelayInv, RelayStep
    PROVE  RelayInv'
<1>1. ASSUME NEW s \in Ends, RelayTop(s) PROVE RelayInv'
  BY <1>1, RelayTopInv
<1>2. ASSUME NEW s \in Ends, RelayRead(s) PROVE RelayInv'
  BY <1>2, RelayReadInv
<1>3. ASSUME NEW s \in Ends, RelayWrite(s) PROVE RelayInv'
  <2>1. RelayTypeOK'
    BY <1>3 DEF RelayInv, RelayTypeOK, RelayWrite
  <2>2. ReadsGuarded'
    BY <1>3 DEF RelayInv, RelayTypeOK, ReadsGuarded, RelayWrite
  <2> QED BY <2>1, <2>2 DEF RelayInv
<1>4. ASSUME NEW s \in Ends,
             RelayWriteFails(s) \/ RelayEOF(s) \/ RelayTimeout(s) \/ RelayReadFails(s)
      PROVE  RelayInv'
  <2>1. /\ copy' = [copy EXCEPT ![s] = "stopped"] /\ UNCHANGED <<deadline, moved, quiet>>
        /\ halfClosed' \in BOOLEAN /\ sockets' \in BOOLEAN
    BY <1>4 DEF RelayInv, RelayTypeOK, RelayWriteFails, RelayEOF, RelayTimeout,
                RelayReadFails, Stop
  <2> QED BY <2>1, RelayOnlyEnds
<1>5. ASSUME RelayClock PROVE RelayInv'
  BY <1>5, RelayClockInv
<1> QED BY <1>1, <1>2, <1>3, <1>4, <1>5 DEF RelayStep
-----------------------------------------------------------------------------
(* One HTTP/2 stream.                                                      *)

\* The goroutines of the relay exist while the handler relays, and the router
\* has been given a body only after it was read.
H2Stages ==
    /\ h2 \in {"new", "gate", "body", "serve", "stream"} =>
          ticker = "none" /\ pump = "none" /\ upgraded = "none"
    /\ h2 \in {"arm", "read", "write", "join"} =>
          ticker # "none" /\ pump # "none" /\ upgraded # "none"
    /\ h2 \in {"new", "gate", "body"} => h2Served = -1
    /\ h2 # "answer"

H2Inv == H2Safe /\ H2Stages

H2BodyState == [declared : -1..H2BodyLimit, open : BOOLEAN]

\* The request's body, closed or not, keeps the length it declared.
LEMMA H2BodyClosed ==
    ASSUME NEW b \in H2BodyState
    PROVE  LET c == [b EXCEPT !.open = FALSE]
           IN  c \in H2BodyState /\ c.declared = b.declared
BY Zenon DEF H2BodyState

LEMMA H2BodyDeclared ==
    ASSUME NEW b \in H2BodyState, NEW n \in -1..H2BodyLimit
    PROVE  [b EXCEPT !.declared = n] \in H2BodyState
BY Zenon DEF H2BodyState

LEMMA H2InitInv == H2Init => H2Inv
<1> SUFFICES ASSUME H2Init PROVE H2Inv
  OBVIOUS
<1> DEFINE n == -1
<1>1. /\ n \in -1..H2BodyLimit /\ 0 \in 0..H2Idle /\ H2Idle \in 0..H2Idle
      /\ 0 \in 0..MaxH2Moves
  BY H2Assumption DEF H2Assumption
<1>2. h2Body \in H2BodyState
  <2>1. h2Body = [declared |-> n, open |-> TRUE]
    BY DEF H2Init
  <2> HIDE DEF n
  <2> QED BY <1>1, <2>1, Zenon DEF H2BodyState
<1>3. H2TypeOK
  BY <1>1, <1>2 DEF H2Init, H2TypeOK, H2BodyState
<1> QED BY <1>3 DEF H2Init, H2Inv, H2Safe, H2Stages

LEMMA H2StepInv ==
    ASSUME H2Inv, H2Step \/ ClientResets
    PROVE  H2Inv'
<1> DEFINE shut == [h2Body EXCEPT !.open = FALSE]
<1>1. h2Body \in H2BodyState
  BY DEF H2Inv, H2Safe, H2TypeOK, H2BodyState
<1>2. shut \in H2BodyState /\ shut.declared = h2Body.declared
  BY <1>1, H2BodyClosed
<1>3. H2Return => h2Body' = shut
  BY DEF H2Return
<1>4. closeConn => upgraded' = "closed" /\ h2Body' = shut
  BY DEF closeConn
<1>5. /\ H2BodyLimit \in Nat \ {0} /\ H2Idle \in Nat \ {0} /\ MaxH2Moves \in Nat
      /\ H2TypeOK /\ H2Stages
      /\ h2 = "done" =>
             ~h2Slot /\ upgraded # "open" /\ ticker # "run" /\ pump \in {"none", "end"}
      /\ h2Served # -1 => h2Body.declared \in {-1, h2Served}
  BY H2Assumption DEF H2Assumption, H2Inv, H2Safe
<1> HIDE DEF shut
\* A handler that returns outside of its relay, or after it.
<1>6. ASSUME H2Return, UNCHANGED <<h2Gone, h2Served>>, RelayUntouched,
             \/ h2 \in {"new", "gate", "body", "serve", "stream"}
             \/ h2 = "join" /\ ticker = "end" /\ pump = "end"
      PROVE  H2Inv'
  <2>1. H2TypeOK'
    BY <1>2, <1>3, <1>5, <1>6
       DEF H2Return, RelayUntouched, H2TypeOK, H2BodyState
  <2>2. H2Stages'
    BY <1>5, <1>6 DEF H2Return, RelayUntouched, H2TypeOK, H2Stages
  <2>3. h2Served' # -1 => h2Body'.declared \in {-1, h2Served'}
    BY <1>2, <1>3, <1>5, <1>6
  <2>4. ~h2Slot' /\ upgraded' # "open" /\ ticker' # "run" /\ pump' \in {"none", "end"}
    BY <1>5, <1>6 DEF H2Return, RelayUntouched, H2Stages, H2TypeOK
  <2> QED BY <2>1, <2>2, <2>3, <2>4 DEF H2Inv, H2Safe
\* A step that keeps the handler in its stage of the relay or before it.
<1>7. ASSUME h2Body' \in {h2Body, shut}, h2Slot' \in BOOLEAN, h2Gone' \in BOOLEAN,
             h2Stop' \in BOOLEAN, h2Served' = h2Served,
             idleFor' \in 0..H2Idle, upLeft' \in 0..H2Idle, h2Moved' \in 0..MaxH2Moves,
             \/ /\ h2 \in {"serve", "stream"} /\ h2' \in {"serve", "stream"}
                /\ UNCHANGED <<ticker, pump, upgraded>>
             \/ /\ h2 \in {"arm", "read", "write", "join"}
                /\ h2' \in {"arm", "read", "write", "join"}
                /\ ticker' \in {"run", "end"} /\ pump' \in {"read", "write", "end"}
                /\ upgraded' \in {"open", "closed"}
             \/ UNCHANGED <<h2, h2Slot, ticker, pump, upgraded>>
      PROVE  H2Inv'
  <2>1. H2TypeOK'
    BY <1>1, <1>2, <1>5, <1>7 DEF H2TypeOK, H2BodyState
  <2>2. H2Stages'
    BY <1>5, <1>7 DEF H2TypeOK, H2Stages
  <2>3. h2Served' # -1 => h2Body'.declared \in {-1, h2Served'}
    BY <1>2, <1>5, <1>7
  <2>4. h2' = "done" =>
          ~h2Slot' /\ upgraded' # "open" /\ ticker' # "run" /\ pump' \in {"none", "end"}
    BY <1>5, <1>7
  <2> QED BY <2>1, <2>2, <2>3, <2>4 DEF H2Inv, H2Safe
<1>8. CASE H2Refuse
  BY <1>6, <1>8 DEF H2Refuse
<1>9. CASE H2Validate
  <2>1. PICK n \in -1..H2BodyLimit : h2Body' = [h2Body EXCEPT !.declared = n]
    BY <1>9 DEF H2Validate
  <2>2. h2Body' \in H2BodyState
    BY <1>1, <2>1, H2BodyDeclared
  <2>3. H2TypeOK'
    BY <1>5, <1>9, <2>2 DEF H2Validate, RelayUntouched, H2TypeOK, H2BodyState
  <2>4. H2Stages' /\ h2Served' = -1 /\ h2' = "gate"
    BY <1>5, <1>9 DEF H2Validate, RelayUntouched, H2TypeOK, H2Stages
  <2> QED BY <2>3, <2>4 DEF H2Inv, H2Safe
<1>10. CASE H2Gate
  <2>1. CASE H2Return
    BY <1>6, <1>10, <2>1 DEF H2Gate
  <2>2. CASE /\ h2Slot' \in BOOLEAN /\ h2' = "body" /\ UNCHANGED <<h2Body, upgraded>>
    <3>1. H2TypeOK'
      BY <1>5, <1>10, <2>2 DEF H2Gate, RelayUntouched, H2TypeOK
    <3>2. H2Stages' /\ h2Served' = -1 /\ h2' = "body"
      BY <1>5, <1>10, <2>2 DEF H2Gate, RelayUntouched, H2TypeOK, H2Stages
    <3> QED BY <3>1, <3>2 DEF H2Inv, H2Safe
  <2> QED BY <1>10, <2>1, <2>2 DEF H2Gate
<1>11. CASE H2ReadBody
  <2>1. h2 = "body" /\ UNCHANGED h2Gone /\ RelayUntouched
    BY <1>11 DEF H2ReadBody
  <2>2. CASE H2Return /\ UNCHANGED h2Served
    BY <1>6, <2>1, <2>2
  <2>3. CASE h2' = "serve" /\ UNCHANGED <<h2Slot, h2Body, h2Served, upgraded>>
    <3>1. H2TypeOK'
      BY <1>5, <2>1, <2>3 DEF RelayUntouched, H2TypeOK
    <3>2. H2Stages' /\ h2Served' = -1 /\ h2' = "serve"
      BY <1>5, <2>1, <2>3 DEF RelayUntouched, H2TypeOK, H2Stages
    <3> QED BY <3>1, <3>2 DEF H2Inv, H2Safe
  <2>4. ASSUME NEW n \in 0..(H2BodyLimit + 1), ~(n > H2BodyLimit),
               ~(h2Body.declared # -1 /\ h2Body.declared # n),
               h2' = "serve", h2Served' = n, UNCHANGED <<h2Slot, h2Body, upgraded>>
        PROVE  H2Inv'
    <3>0. n \in -1..H2BodyLimit
      BY <1>5, <2>4
    <3>1. H2TypeOK'
      BY <1>5, <2>1, <2>4, <3>0 DEF RelayUntouched, H2TypeOK
    <3>2. H2Stages' /\ h2' = "serve"
      BY <1>5, <2>1, <2>4 DEF RelayUntouched, H2TypeOK, H2Stages
    <3>3. h2Body'.declared \in {-1, h2Served'}
      BY <2>4
    <3> QED BY <3>1, <3>2, <3>3 DEF H2Inv, H2Safe
  <2> QED BY <1>11, <2>2, <2>3, <2>4 DEF H2ReadBody
<1>12. CASE H2Serve
  <2>1. CASE H2Return /\ RelayUntouched
    BY <1>6, <1>12, <2>1 DEF H2Serve
  <2>2. CASE h2' = "stream" /\ UNCHANGED <<h2Slot, h2Body, upgraded>> /\ RelayUntouched
    BY <1>5, <1>7, <1>12, <2>2 DEF H2Serve, RelayUntouched, H2TypeOK
  <2>3. CASE /\ h2Served = -1 /\ h2' = "arm" /\ upgraded' = "open" /\ ticker' = "run"
             /\ pump' = "read" /\ idleFor' = 0 /\ upLeft' = H2Idle
             /\ UNCHANGED <<h2Slot, h2Body, h2Moved, h2Stop>>
    <3>1. H2TypeOK'
      BY <1>5, <1>12, <2>3 DEF H2Serve, H2TypeOK
    <3>2. H2Stages' /\ h2' = "arm" /\ h2Served' = -1
      BY <1>12, <2>3 DEF H2Serve, H2Stages
    <3> QED BY <3>1, <3>2 DEF H2Inv, H2Safe
  <2> QED BY <1>12, <2>1, <2>2, <2>3 DEF H2Serve
<1>13. CASE H2StreamEnds
  BY <1>6, <1>13 DEF H2StreamEnds
<1>14. CASE Join
  BY <1>6, <1>14 DEF Join
<1>15. CASE H2Piece
  BY <1>5, <1>7, <1>15 DEF H2Piece, H2TypeOK
<1>23. CASE ClientResets
  BY <1>5, <1>7, <1>23 DEF ClientResets, H2TypeOK
<1>24. CASE H2Clock
  <2>1. idleFor \in 0..H2Idle /\ upLeft \in 0..H2Idle
    BY <1>5 DEF H2TypeOK
  <2>2. idleFor' \in 0..H2Idle /\ upLeft' \in 0..H2Idle
    BY <1>5, <1>24, <2>1 DEF H2Clock
  <2> QED BY <1>5, <1>7, <1>24, <2>2 DEF H2Clock, H2TypeOK
<1>16. ASSUME ticker = "run" \/ pump \in {"read", "write"}
       PROVE  /\ h2 \in {"arm", "read", "write", "join"}
              /\ ticker \in {"run", "end"} /\ pump \in {"read", "write", "end"}
              /\ upgraded \in {"open", "closed"}
  BY <1>5, <1>16 DEF H2TypeOK, H2Stages
<1>17. CASE TickerStops
  BY <1>5, <1>7, <1>16, <1>17 DEF TickerStops, H2TypeOK
<1>18. CASE TickerCloses
  BY <1>4, <1>5, <1>7, <1>16, <1>18 DEF TickerCloses, H2TypeOK
<1>19. CASE PumpRead \/ PumpWrite
  BY <1>5, <1>7, <1>16, <1>19 DEF PumpRead, PumpWrite, H2TypeOK
<1>20. CASE PumpEnds
  BY <1>4, <1>5, <1>7, <1>16, <1>20 DEF PumpEnds, H2TypeOK
<1>21. CASE UpArm \/ UpRead \/ UpWrite
  BY <1>5, <1>7, <1>21 DEF UpArm, UpRead, UpWrite, H2TypeOK, H2Stages
<1>22. CASE UpEnds
  BY <1>4, <1>5, <1>7, <1>22 DEF UpEnds, H2TypeOK, H2Stages
<1> QED
  BY <1>8, <1>9, <1>10, <1>11, <1>12, <1>13, <1>14, <1>15, <1>17, <1>18, <1>19, <1>20,
     <1>21, <1>22, <1>23, <1>24 DEF H2Step
-----------------------------------------------------------------------------
(* The HTTP/1.1 loop: the inductive invariant.                             *)

Tag(k) == stream[k].req
IsHead(k) == stream[k].sym = "head"

\* The client's symbols come request by request, each request's head first.
Tagged ==
    /\ req.n <= Begun
    /\ Begun > 0 => stream # <<>> /\ Tag(Len(stream)) = Begun
    /\ \A k \in DOMAIN stream : Tag(k) <= Begun
    /\ \A j, k \in DOMAIN stream : j <= k => Tag(j) <= Tag(k)
    /\ \A k \in DOMAIN stream :
          IsHead(k) <=> \A j \in DOMAIN stream : j < k => Tag(j) < Tag(k)

\* The head at k is followed by the body b: as much of it as was sent, and the
\* rest of the last one is what the client has still to send.
Spells(k, b) ==
    /\ \A j \in DOMAIN stream : j <= k + Len(b) <=> Tag(j) <= Tag(k)
    /\ \A j \in DOMAIN b : k + j <= Len(stream) => stream[k + j].sym = b[j]
    /\ Tag(k) = Begun =>
          /\ Len(stream) + Len(client.todo) = k + Len(b)
          /\ \A j \in DOMAIN client.todo : client.todo[j] = b[Len(stream) - k + j]

Spelled ==
    /\ \A k \in DOMAIN stream :
          IsHead(k) => \E b \in Bodies(client.heads[Tag(k)]) : Spells(k, b)
    /\ Begun = 0 => client.todo = <<>>

\* Behind a chunked body nothing was sent before the server had parsed its head.
Polite ==
    \A n \in DOMAIN client.heads :
       n < Begun /\ client.heads[n].te # <<>> => req.n >= n

\* What is consumed is what belongs to the requests parsed so far.
InSync ==
    /\ \A k \in DOMAIN stream : k <= buf.lo <=> Tag(k) <= req.n
    /\ req.n = Begun => client.todo = <<>>

\* The decoder's state behind a symbol of a chunked body.
StateBehind(sym) ==
    CASE sym = "size" -> "data"
      [] sym = "zero" -> "trailer"
      [] sym = "data" -> "crlf"
      [] sym = "crlf" -> "size"
      [] sym = "trailer" -> "trailer"
      [] sym = "blank" -> "done"
      [] OTHER -> "failed"

\* The body of known length is read up to its byte body.total.
AtLength(k) ==
    /\ req.length >= 0 /\ Spells(k, DataSymbols(req.length))
    /\ body.total <= req.length /\ buf.lo = k + body.total

\* The chunked body b is decoded up to its symbol buf.cb - k.
AtChunk(k, b) ==
    /\ req.length = Chunked /\ req.n = Begun /\ client.heads[req.n].te # <<>>
    /\ Spells(k, b) /\ k <= buf.cb /\ buf.cb <= k + Len(b)
    /\ buf.cb = k => buf.lo = k /\ body.state \in {"none", "size"}
    /\ buf.cb # k => body.state = StateBehind(b[buf.cb - k]) /\ pc # "admit"
    /\ body.state = "crlf" \/ (body.state = "size" /\ buf.cb # k) => body.total > 0

Positioned ==
    \E k \in DOMAIN stream :
       /\ IsHead(k) /\ Tag(k) = req.n
       /\ AtLength(k) \/ \E b \in ChunkedBodies : AtChunk(k, b)

Busy == {"admit", "serve", "await", "announce", "answer", "streaming", "closeBody",
         "switched"}

\* While the connection is open the loop stands where the next request begins,
\* or in the body of the current one.
Placed ==
    open => /\ Polite
            /\ pc \in {"detect", "top", "parse"} => InSync
            /\ pc \in Busy => Positioned

\* The reader of the body is the one for the request's length.
ReaderOf ==
    /\ pc \in {"detect", "top", "parse", "refuse", "admit"} => body = NoBody
    /\ pc = "admit" => req.length >= Chunked
    /\ pc \in Busy \ {"admit"} =>
          \/ req.length = Chunked /\ body.state \in ChunkStates
          \/ req.length = 0 /\ body.state = "none" /\ body.total = 0
          \/ req.length > 0 /\ body.state \in {"length", "failed"}
    /\ body.state = "failed" => ~open

\* No more of a body is read than is admitted, and the WAF, whose limit is above
\* that, has taken the place of a reader only when there is no more to read.
Inspected ==
    /\ body.total <= MaxBody
    /\ pc \in Busy \ {"admit"} => req.length <= MaxBody
    /\ body.type = "multi" => BodyRead

\* Where nothing is held, and where nothing of the upstream's is open.
Free == {"detect", "h2", "top", "parse", "refuse", "admit", "done"}
Apart == {"detect", "h2", "top", "parse", "refuse", "admit", "serve", "await", "closeBody"}

Unheld ==
    /\ pc \in Free => ~held /\ ~live
    /\ pc \in Apart => up # "open"
    /\ pc \in {"announce", "answer"} /\ res.kind = "buffer" => up # "open"
    /\ pc = "announce" => res.kind # "upgrade" /\ res.status = 101
    /\ pc = "done" /\ up = "open" => res.kind = "stream" /\ res.status = 101

\* What is held, and what the response is, at every place of the loop.
Phases ==
    /\ Unheld
    /\ pc = "streaming" => res.kind = "stream" /\ open
    /\ pc = "switched" => res.kind = "upgrade" /\ open
    /\ pc \in {"answer", "switched"} /\ res.kind = "upgrade" /\ body.type = "own" =>
          body.total = 0 /\ body.state \in {"none", "length", "size"}
    /\ pc \in {"announce", "answer", "streaming", "closeBody"} /\ res.kind = "stream" =>
          (req.length > 0 => body.total = req.length)
    /\ pc = "closeBody" /\ res.after = "keepAlive" => res.kind = "stream"
    /\ pc = "closeBody" /\ res.eof = "broken" => res.after = "return"
    /\ res.eof = "broken" => res.kind = "stream" /\ pc \in {"streaming", "closeBody", "done"}

AllWhole == \A k \in DOMAIN replies : replies[k].whole

\* The answer at k is to an earlier request, or a stray one to the current one.
BehindStray(k) ==
    replies[k].req < req.n \/ (replies[k].req = req.n /\ replies[k].stray)

\* Places before the answer to the current request.
Unanswered == {"refuse", "admit", "serve", "await", "announce"}

\* The answers so far, and which of them may be the current request's: a stray
\* 101 before the real one.
Answers ==
    /\ AnswersInOrder
    /\ open => \A k \in DOMAIN replies : replies[k].req <= req.n
    /\ open /\ pc \in {"detect", "top", "parse"} => AllWhole /\ (req.n = 0 => replies = <<>>)
    /\ open /\ pc \in Unanswered =>
          AllWhole /\ \A k \in DOMAIN replies : replies[k].req < req.n
    /\ open /\ pc = "answer" =>
          AllWhole /\ \A k \in DOMAIN replies : BehindStray(k)
    /\ open /\ pc = "closeBody" /\ res.after \in {"loop", "keepAlive"} => AllWhole
    /\ pc = "streaming" => replies # <<>>
    /\ pc = "streaming" \/ (res.eof = "broken" /\ replies # <<>>) =>
          ~replies[Len(replies)].whole

LoopInv ==
    /\ ConnTypeOK /\ Tagged /\ Spelled /\ Placed /\ ReaderOf /\ Inspected /\ Phases
    /\ Answers
-----------------------------------------------------------------------------
(* The data of the loop.                                                   *)

\* The body that the sender of an accepted head means is the one it is read as.
LEMMA AcceptedBody ==
    ASSUME NEW h \in Heads, ParseHeader(h).status = 200
    PROVE  LET L == ParseHeader(h).length
           IN  \/ L = Chunked /\ h.te # <<>> /\ Bodies(h) = ChunkedBodies
               \/ L \in Nat /\ Bodies(h) = {DataSymbols(L)}
<1> DEFINE codings == FlattenSeq(h.te)
           lengths == {h.cl[i] : i \in DOMAIN h.cl} \ {Unparsable}
           byLength == {DataSymbols(n) : n \in lengths}
           byCoding == IF \E i \in DOMAIN codings : codings[i] = "chunked"
                       THEN ChunkedBodies ELSE {}
<1>1. Bodies(h) = IF byLength \cup byCoding = {} THEN {<<>>} ELSE byLength \cup byCoding
  BY DEF Bodies
<1>2. h.fault = "none" /\ ~(h.te # <<>> /\ h.cl # <<>>)
  BY DEF ParseHeader, Rejected
<1>3. h.cl \in Seq(Nat \cup {Unparsable}) /\ (h.te = <<>> <=> DOMAIN codings = {})
  BY ConnLoopAssumption DEF ConnLoopAssumption
<1>4. CASE h.te # <<>>
  <2>1. ParseHeader(h) = TransferCoding(h.te) /\ h.cl = <<>>
    BY <1>2, <1>4 DEF ParseHeader
  <2>2. \A i \in DOMAIN codings : codings[i] = "chunked"
    <3>1. Rejected(400).status # 200 /\ Rejected(501).status # 200
      BY DEF Rejected
    <3>2. ParseHeader(h) = IF \E i \in DOMAIN codings : codings[i] = "" THEN Rejected(400)
                           ELSE IF \E i \in DOMAIN codings : codings[i] # "chunked"
                           THEN Rejected(501)
                           ELSE IF Len(codings) > 1 THEN Rejected(400) ELSE Accepted(Chunked)
      BY <2>1 DEF TransferCoding
    <3> HIDE DEF codings
    <3>3. ~\E i \in DOMAIN codings : codings[i] # "chunked"
      BY <3>1, <3>2, Zenon
    <3> QED BY <3>3, Zenon
  <2>3. ParseHeader(h).length = Chunked
    <3>1. Rejected(400).status # 200 /\ Rejected(501).status # 200
          /\ Accepted(Chunked).length = Chunked
      BY DEF Rejected, Accepted
    <3> QED BY <2>1, <3>1, Zenon DEF TransferCoding
  <2>4. byCoding = ChunkedBodies /\ byLength = {}
    BY <1>3, <1>4, <2>1, <2>2
  <2>5. ChunkedBodies # {}
    BY FramingAssumption DEF FramingAssumption
  <2> HIDE DEF byLength, byCoding
  <2> QED BY <1>1, <1>4, <2>3, <2>4, <2>5
<1>5. CASE h.te = <<>> /\ h.cl # <<>>
  <2>1. ParseHeader(h) = ContentLength(h.cl)
    BY <1>2, <1>5 DEF ParseHeader
  <2>2. \A i, j \in DOMAIN h.cl : h.cl[i] # Unparsable /\ h.cl[i] = h.cl[j]
    BY <2>1 DEF ContentLength, Rejected
  <2>3. ParseHeader(h).length = h.cl[1]
    BY <2>1 DEF ContentLength, Rejected, Accepted
  <2>4. 1 \in DOMAIN h.cl
    BY <1>3, <1>5
  <2>5. h.cl[1] \in Nat
    BY <1>3, <2>2, <2>4
  <2>6. lengths = {h.cl[1]}
    BY <2>2, <2>4
  <2>7. byCoding = {}
    BY <1>3, <1>5
  <2>8. byLength = {DataSymbols(h.cl[1])}
    BY <2>6
  <2> HIDE DEF byLength, byCoding
  <2> QED BY <1>1, <2>3, <2>5, <2>7, <2>8
<1>6. CASE h.te = <<>> /\ h.cl = <<>>
  <2>1. ParseHeader(h).length = 0
    BY <1>2, <1>6 DEF ParseHeader, Accepted
  <2>2. byCoding = {} /\ byLength = {}
    BY <1>3, <1>6
  <2>3. DataSymbols(0) = <<>>
    BY DEF DataSymbols
  <2> QED BY <1>1, <2>1, <2>2, <2>3
<1> QED BY <1>4, <1>5, <1>6

\* Every body is a sequence of body symbols.
LEMMA DataSymbolsSeq ==
    ASSUME NEW n \in Nat
    PROVE  DataSymbols(n) \in Seq(BodySymbols) /\ Len(DataSymbols(n)) = n
BY DEF DataSymbols, BodySymbols

\* In a chunked body a size line is followed by data, and the blank line is last.
LEMMA ChunkedBodyShape ==
    ASSUME NEW b \in ChunkedBodies
    PROVE  /\ b \in Seq(BodySymbols) /\ b # <<>>
           /\ \A i \in 1..Len(b) : b[i] = "size" => i + 1 <= Len(b) /\ b[i + 1] = "data"
           /\ \A i \in 1..Len(b) : b[i] = "blank" => i = Len(b)
BY FramingAssumption DEF FramingAssumption

LEMMA BodiesSeq ==
    ASSUME NEW h \in Heads, NEW b \in Bodies(h)
    PROVE  b \in Seq(BodySymbols)
<1> DEFINE codings == FlattenSeq(h.te)
           lengths == {h.cl[i] : i \in DOMAIN h.cl} \ {Unparsable}
           byLength == {DataSymbols(n) : n \in lengths}
           byCoding == IF \E i \in DOMAIN codings : codings[i] = "chunked"
                       THEN ChunkedBodies ELSE {}
<1>1. b \in {<<>>} \/ b \in byLength \/ b \in byCoding
  BY DEF Bodies
<1>2. lengths \in SUBSET Nat
  BY ConnLoopAssumption DEF ConnLoopAssumption
<1>3. CASE b \in byLength
  BY <1>2, <1>3, DataSymbolsSeq
<1>4. CASE b \in byCoding
  BY <1>4, ChunkedBodyShape
<1>5. CASE b = <<>>
  BY <1>5
<1> QED BY <1>1, <1>3, <1>4, <1>5

\* The fields of the loop's records.
LEMMA BufferFields ==
    ASSUME NEW x \in Buffers
    PROVE  x.pfx \in Nat /\ x.cb \in Nat /\ x.lo \in Nat /\ x.hi \in Nat
BY DEF Buffers

LEMMA ClientFields ==
    ASSUME NEW x \in Client
    PROVE  x.heads \in Seq(Heads) /\ x.todo \in Seq(BodySymbols)
BY DEF Client

LEMMA CurrentFields ==
    ASSUME NEW x \in Current
    PROVE  x.n \in 0..MaxRequests /\ x.length \in Int /\ x.close \in BOOLEAN
BY DEF Current

LEMMA ReaderFields ==
    ASSUME NEW x \in BodyReader
    PROVE  /\ x.state \in ChunkStates \cup {"none", "length"}
           /\ x.total \in Nat /\ x.drained \in Nat /\ x.type \in {"own", "multi"}
BY DEF BodyReader

LEMMA ResponseFields ==
    ASSUME NEW x \in Response
    PROVE  /\ x.kind \in {"buffer", "stream", "upgrade"} /\ x.status \in Nat
           /\ x.close \in BOOLEAN /\ x.raw \in BOOLEAN /\ x.eof \in {"none", "clean", "broken"}
           /\ x.pieces \in 0..MaxPieces
           /\ x.after \in {"none", "loop", "return", "sever", "keepAlive"}
BY DEF Response

LEMMA AnswerFields ==
    ASSUME NEW x \in Answer
    PROVE  x.req \in 0..MaxRequests /\ x.whole \in BOOLEAN /\ x.stray \in BOOLEAN
BY DEF Answer

LEMMA ItemFields ==
    ASSUME NEW x \in Item
    PROVE  x.req \in 1..MaxRequests /\ x.sym \in {"head"} \cup BodySymbols
BY DEF Item

\* Readers of a body.
LEMMA NoReader ==
    /\ NoBody \in BodyReader
    /\ NoBody.state = "none" /\ NoBody.total = 0 /\ NoBody.drained = 0
    /\ NoBody.type = "own"
BY DEF NoBody, BodyReader

LEMMA ReaderSet ==
    ASSUME NEW x \in BodyReader, NEW s \in ChunkStates \cup {"none", "length"}
    PROVE  LET y == [x EXCEPT !.state = s]
           IN  /\ y \in BodyReader /\ y.state = s
               /\ y.total = x.total /\ y.drained = x.drained /\ y.type = x.type
BY DEF BodyReader

LEMMA ReaderCounts ==
    ASSUME NEW x \in BodyReader
    PROVE  LET y == [x EXCEPT !.total = @ + 1]
           IN  /\ y \in BodyReader /\ y.state = x.state
               /\ y.total = x.total + 1 /\ y.drained = x.drained /\ y.type = x.type
BY DEF BodyReader

LEMMA ReaderDrains ==
    ASSUME NEW x \in BodyReader, NEW n \in Nat
    PROVE  LET y == [x EXCEPT !.drained = n]
           IN  /\ y \in BodyReader /\ y.state = x.state /\ y.total = x.total
               /\ y.type = x.type
BY DEF BodyReader

LEMMA ReaderInspected ==
    ASSUME NEW x \in BodyReader
    PROVE  LET y == [x EXCEPT !.type = "multi"]
           IN  /\ y \in BodyReader /\ y.state = x.state /\ y.total = x.total
               /\ y.drained = x.drained /\ y.type = "multi"
BY DEF BodyReader

\* One symbol of a chunked body.
LEMMA Decoded ==
    ASSUME NEW x \in BodyReader, NEW sym \in {"head"} \cup BodySymbols,
           x.state \in ChunkStates \ {"done", "failed"}
    PROVE  LET y == Decode(x, sym)
           IN  /\ y \in BodyReader /\ y.state \in ChunkStates /\ y.type = x.type
               /\ y.total = IF x.state = "data" THEN x.total + 1 ELSE x.total
               /\ x.state = "size" => y.state = parseChunkSizeLine(sym)
               /\ x.state = "data" => y.state = "crlf"
               /\ x.state = "crlf" => y.state = IF sym = "crlf" THEN "size" ELSE "failed"
               /\ x.state = "trailer" => y.state = parseTrailers(sym)
<1> DEFINE y == Decode(x, sym)
<1>0. /\ ChunkStates = {"size", "data", "crlf", "trailer", "done", "failed"}
      /\ parseChunkSizeLine(sym) \in ChunkStates /\ parseTrailers(sym) \in ChunkStates
  BY DEF ChunkStates, parseChunkSizeLine, parseTrailers
<1>1. CASE x.state = "size"
  <2> DEFINE t == parseChunkSizeLine(sym)
  <2>1. y = [x EXCEPT !.state = t]
    BY <1>1 DEF Decode
  <2>2. t \in ChunkStates
    BY <1>0
  <2> HIDE DEF t
  <2>3. y \in BodyReader /\ y.state = t /\ y.total = x.total /\ y.type = x.type
    BY <2>1, <2>2, ReaderSet
  <2> QED BY <1>1, <2>2, <2>3 DEF t
<1>2. CASE x.state = "data"
  <2> DEFINE z == [x EXCEPT !.state = "crlf"]
  <2>1. y = [z EXCEPT !.total = @ + 1]
    BY <1>2 DEF Decode
  <2>2. z \in BodyReader /\ z.state = "crlf" /\ z.total = x.total /\ z.type = x.type
    BY <1>0, ReaderSet
  <2> HIDE DEF z
  <2>3. /\ y \in BodyReader /\ y.state = "crlf" /\ y.total = x.total + 1
        /\ y.type = x.type
    BY <2>1, <2>2, ReaderCounts
  <2> QED BY <1>0, <1>2, <2>3
<1>3. CASE x.state = "crlf"
  <2> DEFINE t == IF sym = "crlf" THEN "size" ELSE "failed"
  <2>1. y = [x EXCEPT !.state = t]
    BY <1>3 DEF Decode
  <2>2. t \in ChunkStates
    BY <1>0
  <2> HIDE DEF t
  <2>3. y \in BodyReader /\ y.state = t /\ y.total = x.total /\ y.type = x.type
    BY <2>1, <2>2, ReaderSet
  <2> QED BY <1>3, <2>2, <2>3 DEF t
<1>4. CASE x.state = "trailer"
  <2> DEFINE t == parseTrailers(sym)
  <2>1. y = [x EXCEPT !.state = t]
    BY <1>4 DEF Decode
  <2>2. t \in ChunkStates
    BY <1>0
  <2> HIDE DEF t
  <2>3. y \in BodyReader /\ y.state = t /\ y.total = x.total /\ y.type = x.type
    BY <2>1, <2>2, ReaderSet
  <2> QED BY <1>4, <2>2, <2>3 DEF t
<1> QED BY <1>0, <1>1, <1>2, <1>3, <1>4

\* Responses.
LEMMA FreshResponse ==
    /\ NoRes \in Response
    /\ NoRes.kind = "buffer" /\ NoRes.eof = "none" /\ NoRes.after = "none"
<1>1. 200 \in Nat /\ 0 \in 0..MaxPieces
  BY ConnLoopAssumption DEF ConnLoopAssumption
<1> DEFINE n == 200
           z == 0
<1>2. NoRes = [kind |-> "buffer", status |-> n, close |-> FALSE, raw |-> FALSE,
               eof |-> "none", pieces |-> z, after |-> "none"]
  BY DEF NoRes
<1> HIDE DEF n, z
<1> QED BY <1>1, <1>2, Zenon DEF Response, n, z

LEMMA BufferedResponse ==
    ASSUME NEW status \in Nat, NEW close \in BOOLEAN
    PROVE  LET r == [NoRes EXCEPT !.status = status, !.close = close]
           IN  /\ r \in Response /\ r.kind = "buffer" /\ r.eof = "none" /\ r.after = "none"
BY FreshResponse, Zenon DEF Response

LEMMA StreamedResponse ==
    ASSUME NEW raw \in BOOLEAN, NEW close \in BOOLEAN
    PROVE  LET r == [NoRes EXCEPT !.kind = "stream", !.raw = raw, !.close = close]
           IN  r \in Response /\ r.kind = "stream" /\ r.eof = "none" /\ r.after = "none"
BY FreshResponse, Zenon DEF Response

LEMMA UpgradeResponse ==
    ASSUME NEW status \in Nat
    PROVE  LET r == [NoRes EXCEPT !.kind = "upgrade", !.status = status]
           IN  r \in Response /\ r.kind = "upgrade" /\ r.eof = "none" /\ r.after = "none"
BY FreshResponse, Zenon DEF Response

LEMMA ResponseThen ==
    ASSUME NEW r \in Response, NEW a \in {"none", "loop", "return", "sever", "keepAlive"}
    PROVE  LET q == [r EXCEPT !.after = a]
           IN  q \in Response /\ q.kind = r.kind /\ q.eof = r.eof /\ q.after = a
BY Zenon DEF Response

LEMMA ResponseEnds ==
    ASSUME NEW r \in Response, NEW e \in {"none", "clean", "broken"}
    PROVE  LET q == [r EXCEPT !.eof = e]
           IN  q \in Response /\ q.kind = r.kind /\ q.eof = e /\ q.after = r.after
BY Zenon DEF Response

LEMMA ResponseGrows ==
    ASSUME NEW r \in Response, NEW p \in 0..MaxPieces
    PROVE  LET q == [r EXCEPT !.pieces = p]
           IN  q \in Response /\ q.kind = r.kind /\ q.eof = r.eof /\ q.after = r.after
BY Zenon DEF Response

LEMMA RefusingSets ==
    ASSUME NEW status \in Nat, Refusing(status)
    PROVE  /\ pc' = "refuse" /\ res' \in Response
           /\ res'.kind = "buffer" /\ res'.eof = "none" /\ res'.after = "none"
BY BufferedResponse DEF Refusing

LEMMA CloseBodyThenSets ==
    ASSUME NEW a \in {"none", "loop", "return", "sever", "keepAlive"}, res \in Response,
           CloseBodyThen(a)
    PROVE  /\ pc' = "closeBody" /\ res' \in Response
           /\ res'.kind = res.kind /\ res'.eof = res.eof /\ res'.after = a
BY ResponseThen DEF CloseBodyThen

\* What the parser decides has a status and a length.
LEMMA ParsedType ==
    ASSUME NEW h \in Heads
    PROVE  ParseHeader(h).status \in Nat /\ ParseHeader(h).length \in Int
<1>1. /\ \A n \in Nat : Rejected(n).status \in Nat /\ Rejected(n).length \in Int
      /\ \A n \in Int : Accepted(n).status \in Nat /\ Accepted(n).length = n
  BY DEF Rejected, Accepted
<1>2. CASE ParseHeader(h).status = 200
  BY <1>2, AcceptedBody DEF Chunked
<1>3. ASSUME NEW te
      PROVE  \/ \E n \in Nat : TransferCoding(te) = Rejected(n)
             \/ TransferCoding(te) = Accepted(Chunked)
  <2>1. TransferCoding(te) = Rejected(400) \/ TransferCoding(te) = Rejected(501)
        \/ TransferCoding(te) = Accepted(Chunked)
    BY DEF TransferCoding
  <2> QED BY <2>1
<1>4. ASSUME NEW cl
      PROVE  (\E n \in Nat : ContentLength(cl) = Rejected(n)) \/ ContentLength(cl).status = 200
  BY DEF ContentLength, Accepted
<1>5. \/ \E n \in Nat : ParseHeader(h) = Rejected(n)
      \/ ParseHeader(h) = TransferCoding(h.te)
      \/ ParseHeader(h) = ContentLength(h.cl)
      \/ ParseHeader(h) = Accepted(0)
  BY DEF ParseHeader
<1>6. Chunked \in Int
  BY DEF Chunked
<1>7. CASE ParseHeader(h) = TransferCoding(h.te)
  BY <1>1, <1>3, <1>6, <1>7
<1>8. CASE ParseHeader(h) = ContentLength(h.cl)
  BY <1>1, <1>2, <1>4, <1>8
<1> QED BY <1>1, <1>5, <1>7, <1>8

LEMMA SymbolsSeq ==
    ASSUME NEW n \in 1..MaxRequests, NEW syms \in Seq({"head"} \cup BodySymbols)
    PROVE  /\ Symbols(n, syms) \in Seq(Item) /\ Len(Symbols(n, syms)) = Len(syms)
           /\ \A i \in 1..Len(syms) :
                 Symbols(n, syms)[i].req = n /\ Symbols(n, syms)[i].sym = syms[i]
<1>1. \A i \in 1..Len(syms) : [req |-> n, sym |-> syms[i]] \in Item
  BY DEF Item
<1>2. Symbols(n, syms) = [i \in 1..Len(syms) |-> [req |-> n, sym |-> syms[i]]]
  BY DEF Symbols
<1> QED BY <1>1, <1>2

\* A read of the connection.
LEMMA TakesFromConn ==
    ASSUME ConnTypeOK, ~NoInput, TakeFromConn
    PROVE  /\ buf.lo < Len(stream) /\ buf' \in Buffers
           /\ buf'.lo = buf.lo + 1 /\ buf'.cb = buf.lo + 1 /\ buf'.pfx = buf.pfx
           /\ buf'.lo <= buf'.hi /\ buf'.hi <= Len(stream)
<1>1. /\ buf.pfx \in Nat /\ buf.cb \in Nat /\ buf.lo \in Nat /\ buf.hi \in Nat
      /\ Len(stream) \in Nat
      /\ buf.cb <= buf.lo /\ buf.lo <= buf.hi /\ buf.hi <= Len(stream)
      /\ buf.pfx <= Len(stream)
  BY BufferFields DEF ConnTypeOK
<1>2. buf.lo < Len(stream)
  BY <1>1 DEF NoInput
<1> DEFINE hi == IF buf.lo < buf.hi THEN buf.hi ELSE Arrived
<1>3. hi \in Nat /\ buf.lo + 1 <= hi /\ hi <= Len(stream)
  BY <1>1, <1>2 DEF Arrived
<1>4. buf' = [buf EXCEPT !.lo = buf.lo + 1, !.cb = buf.lo + 1, !.hi = hi]
  BY DEF TakeFromConn, ConnTypeOK, Buffers
<1> DEFINE lo == buf.lo + 1
<1> HIDE DEF hi
<1>5. /\ buf' \in Buffers /\ buf'.lo = buf.lo + 1 /\ buf'.cb = buf.lo + 1
      /\ buf'.pfx = buf.pfx /\ buf'.hi = hi
  <2>1. lo \in Nat /\ hi \in Nat /\ buf \in Buffers
    BY <1>1, <1>3 DEF ConnTypeOK
  <2>2. buf' = [buf EXCEPT !.lo = lo, !.cb = lo, !.hi = hi]
    BY <1>4
  <2> HIDE DEF lo
  <2>3. /\ buf' \in Buffers /\ buf'.lo = lo /\ buf'.cb = lo
        /\ buf'.pfx = buf.pfx /\ buf'.hi = hi
    BY <2>1, <2>2 DEF Buffers
  <2> QED BY <2>3 DEF lo
<1> QED BY <1>2, <1>3, <1>5

\* A read of chunkedBufr, which may take more from br than it hands out.
LEMMA TakesFromChunkedBufr ==
    ASSUME ConnTypeOK, buf.cb < Len(stream), TakeFromChunkedBufr
    PROVE  /\ buf' \in Buffers /\ buf'.cb = buf.cb + 1 /\ buf'.pfx = buf.pfx
           /\ buf'.cb <= buf'.lo /\ buf'.lo <= buf'.hi /\ buf'.hi <= Len(stream)
<1>1. /\ buf.pfx \in Nat /\ buf.cb \in Nat /\ buf.lo \in Nat /\ buf.hi \in Nat
      /\ Len(stream) \in Nat
      /\ buf.cb <= buf.lo /\ buf.lo <= buf.hi /\ buf.hi <= Len(stream)
      /\ buf.pfx <= Len(stream)
  BY BufferFields DEF ConnTypeOK
<1> DEFINE top == IF buf.cb < buf.lo THEN buf.lo
                  ELSE IF buf.lo < buf.hi THEN buf.hi ELSE Arrived
           hi == IF buf.hi < top THEN top ELSE buf.hi
<1>3. /\ top \in Nat /\ hi \in Nat
      /\ buf.cb + 1 <= top /\ top <= hi /\ hi <= Len(stream)
  BY <1>1 DEF Arrived
<1>4. buf' = [buf EXCEPT !.cb = buf.cb + 1, !.lo = top, !.hi = hi]
  BY DEF TakeFromChunkedBufr, ConnTypeOK, Buffers
<1> DEFINE cb == buf.cb + 1
<1> HIDE DEF top, hi
<1>5. /\ buf' \in Buffers /\ buf'.cb = buf.cb + 1 /\ buf'.lo = top
      /\ buf'.pfx = buf.pfx /\ buf'.hi = hi
  <2>1. cb \in Nat /\ top \in Nat /\ hi \in Nat /\ buf \in Buffers
    BY <1>1, <1>3 DEF ConnTypeOK
  <2>2. buf' = [buf EXCEPT !.cb = cb, !.lo = top, !.hi = hi]
    BY <1>4
  <2> HIDE DEF cb
  <2>3. /\ buf' \in Buffers /\ buf'.cb = cb /\ buf'.lo = top
        /\ buf'.pfx = buf.pfx /\ buf'.hi = hi
    BY <2>1, <2>2 DEF Buffers
  <2> QED BY <2>3 DEF cb
<1> QED BY <1>3, <1>5

\* The head that a symbol of the client belongs to.
LEMMA HeadOf ==
    ASSUME ConnTypeOK, Tagged, NEW k \in DOMAIN stream
    PROVE  /\ Tag(k) \in 1..Begun /\ Tag(k) \in 1..MaxRequests
           /\ client.heads[Tag(k)] \in Heads
<1>1. stream[k] \in Item /\ client.heads \in Seq(Heads) /\ Begun \in Nat
  BY ClientFields DEF ConnTypeOK, Begun
<1>2. Tag(k) \in 1..MaxRequests /\ Tag(k) <= Begun
  BY <1>1, ItemFields DEF Tagged, Tag
<1>3. Tag(k) \in 1..Begun
  BY <1>1, <1>2
<1> QED BY <1>1, <1>2, <1>3 DEF Begun
-----------------------------------------------------------------------------
(* Types.                                                                  *)

LEMMA ConnInitType == ConnInit => ConnTypeOK
<1> SUFFICES ASSUME ConnInit PROVE ConnTypeOK
  OBVIOUS
<1>1. client \in Client /\ Len(client.heads) <= MaxRequests
  BY ConnLoopAssumption DEF ConnInit, Client, ConnLoopAssumption
<1>2. /\ buf \in Buffers /\ buf.cb <= buf.lo /\ buf.lo <= buf.hi /\ buf.hi <= Len(stream)
      /\ buf.pfx <= Len(stream)
  BY DEF ConnInit, Buffers
<1>3. req \in Current
  <2> DEFINE z == 0
  <2>1. z \in 0..MaxRequests /\ z \in Int
    BY ConnLoopAssumption DEF ConnLoopAssumption
  <2>2. req = [n |-> z, length |-> z, close |-> FALSE]
    BY DEF ConnInit
  <2> HIDE DEF z
  <2> QED BY <2>1, <2>2, Zenon DEF Current
<1>4. stream \in Seq(Item) /\ replies \in Seq(Answer) /\ body \in BodyReader /\ res \in Response
  BY NoReader, FreshResponse DEF ConnInit
<1>5. /\ speaks \in {"h1", "h2"} /\ pc \in PCs /\ up \in {"none", "open", "closed"}
      /\ held \in BOOLEAN /\ live \in BOOLEAN /\ open \in BOOLEAN
  BY DEF ConnInit, PCs
<1> QED BY <1>1, <1>2, <1>3, <1>4, <1>5 DEF ConnTypeOK

\* The answer to the current request.
LEMMA ReplyType ==
    ASSUME ConnTypeOK, NEW whole \in BOOLEAN, NEW stray \in BOOLEAN
    PROVE  /\ [req |-> req.n, whole |-> whole, stray |-> stray] \in Answer
           /\ Append(replies, [req |-> req.n, whole |-> whole, stray |-> stray])
                 \in Seq(Answer)
<1>1. req.n \in 0..MaxRequests
  BY CurrentFields DEF ConnTypeOK
<1>2. [req |-> req.n, whole |-> whole, stray |-> stray] \in Answer
  BY <1>1, Zenon DEF Answer
<1> QED BY <1>2 DEF ConnTypeOK

\* The last answer is marked as whole, the others are left alone.
LEMMA MarkedWhole ==
    ASSUME ConnTypeOK, replies # <<>>, MarkWhole
    PROVE  /\ replies' \in Seq(Answer) /\ Len(replies') = Len(replies)
           /\ \A k \in 1..Len(replies) : /\ replies'[k].req = replies[k].req
                                          /\ replies'[k].stray = replies[k].stray
           /\ \A k \in 1..Len(replies) : k # Len(replies) => replies'[k] = replies[k]
           /\ replies'[Len(replies)].whole
<1> DEFINE n == Len(replies)
           last == [replies[n] EXCEPT !.whole = TRUE]
<1>1. n \in 1..n /\ replies[n] \in Answer /\ replies \in Seq(Answer)
  BY DEF ConnTypeOK
<1>2. last \in Answer /\ last.req = replies[n].req /\ last.stray = replies[n].stray
      /\ last.whole
  BY <1>1, Zenon DEF Answer
<1>3. replies' = [replies EXCEPT ![n] = last]
  BY <1>1 DEF MarkWhole
<1> HIDE DEF last
<1> QED BY <1>1, <1>2, <1>3

\* The reader that a request is admitted with.
LEMMA AdmitSets ==
    ASSUME Admit
    PROVE  /\ body' \in BodyReader /\ body'.total = 0 /\ body'.type = "own"
           /\ body'.state = IF req.length = Chunked THEN "size"
                            ELSE IF req.length > 0 THEN "length" ELSE "none"
<1> DEFINE s == IF req.length = Chunked THEN "size"
                ELSE IF req.length > 0 THEN "length" ELSE "none"
<1>1. body' = [NoBody EXCEPT !.state = s] /\ s \in ChunkStates \cup {"none", "length"}
  BY DEF Admit, ChunkStates
<1> HIDE DEF s
<1>2. body' \in BodyReader /\ body'.total = 0 /\ body'.type = "own" /\ body'.state = s
  BY <1>1, ReaderSet, NoReader
<1> QED BY <1>2 DEF s

\* The reader after a symbol of a chunked body.
LEMMA ReadChunkedSets ==
    ASSUME ConnTypeOK, ReadChunked
    PROVE  /\ buf.cb + 1 \in DOMAIN stream /\ body' \in BodyReader
           /\ body'.type = body.type
           /\ LET x == Decode(body, stream[buf.cb + 1].sym)
              IN  body'.state = x.state /\ body'.total = x.total
           /\ open' = (open /\ body'.state # "failed")
<1> DEFINE b == Decode(body, stream[buf.cb + 1].sym)
           n == IF pc = "closeBody" THEN b.drained + (b.total - body.total) ELSE b.drained
<1>1. buf.cb + 1 \in DOMAIN stream
  BY BufferFields DEF ReadChunked, ConnTypeOK
<1>2. stream[buf.cb + 1].sym \in {"head"} \cup BodySymbols /\ body \in BodyReader
  BY <1>1, ItemFields DEF ConnTypeOK
<1>3. /\ b \in BodyReader /\ b.type = body.type
      /\ b.total = IF body.state = "data" THEN body.total + 1 ELSE body.total
  BY <1>2, Decoded DEF ReadChunked, Decoding
<1>4. open' = (open /\ b.state # "failed")
  BY DEF ReadChunked
<1> HIDE DEF b
<1>5. n \in Nat
  <2>1. b.drained \in Nat /\ b.total \in Nat /\ body.total \in Nat
    BY <1>2, <1>3, ReaderFields
  <2> QED BY <1>3, <2>1
<1>6. body' = [b EXCEPT !.drained = n]
  BY <1>3 DEF ReadChunked, b, BodyReader
<1> HIDE DEF n
<1>7. /\ body' \in BodyReader /\ body'.state = b.state /\ body'.total = b.total
      /\ body'.type = b.type
  BY <1>3, <1>5, <1>6, ReaderDrains
<1> QED BY <1>1, <1>3, <1>4, <1>7 DEF b

\* What the handler leaves in the response.
LEMMA HandlerAnswersSets ==
    ASSUME HandlerAnswers
    PROVE  /\ res' \in Response
           /\ res'.kind = "buffer" /\ res'.eof = "none" /\ res'.after = "none"
<1>1. PICK code \in {200, 400}, close \in BOOLEAN :
         res' = [NoRes EXCEPT !.status = code, !.close = close \/ req.close]
  BY DEF HandlerAnswers
<1>2. PICK status \in Nat : status = code
  OBVIOUS
<1>3. PICK c \in BOOLEAN : c = (close \/ req.close)
  BY Zenon
<1> DEFINE r == [NoRes EXCEPT !.status = status, !.close = c]
<1>4. res' = r
  BY <1>1, <1>2, <1>3
<1>5. r \in Response /\ r.kind = "buffer" /\ r.eof = "none" /\ r.after = "none"
  BY FreshResponse, Zenon DEF Response
<1> HIDE DEF r
<1> QED BY <1>4, <1>5

LEMMA HandlerStreamsSets ==
    ASSUME HandlerStreams
    PROVE  /\ res' \in Response
           /\ res'.kind = "stream" /\ res'.eof = "none" /\ res'.after = "none"
<1>1. PICK raw \in BOOLEAN, close \in BOOLEAN :
         res' = [NoRes EXCEPT !.kind = "stream", !.raw = raw, !.close = close \/ req.close]
  BY DEF HandlerStreams
<1> DEFINE c == close \/ req.close
<1>2. /\ c \in BOOLEAN
      /\ res' = [NoRes EXCEPT !.kind = "stream", !.raw = raw, !.close = c]
  BY <1>1
<1> HIDE DEF c
<1> QED BY <1>2, StreamedResponse, Zenon

LEMMA HandlerUpgradesSets ==
    ASSUME ConnTypeOK, HandlerUpgrades
    PROVE  /\ res' \in Response /\ res'.eof = "none" /\ res'.after = "none"
           /\ \/ res'.kind = "upgrade" /\ up' = "open"
              \/ res'.kind = "buffer" /\ up' = up
<1>1. req.close \in BOOLEAN /\ 101 \in Nat /\ 502 \in Nat
  BY CurrentFields DEF ConnTypeOK
<1>2. \/ res' = [NoRes EXCEPT !.kind = "upgrade", !.status = 101] /\ up' = "open"
      \/ res' = [NoRes EXCEPT !.status = 502, !.close = req.close] /\ up' = up
  BY DEF HandlerUpgrades
<1>3. CASE res' = [NoRes EXCEPT !.kind = "upgrade", !.status = 101] /\ up' = "open"
  BY <1>1, <1>3, UpgradeResponse, Zenon
<1>4. CASE res' = [NoRes EXCEPT !.status = 502, !.close = req.close] /\ up' = up
  <2> DEFINE r == [NoRes EXCEPT !.status = 502, !.close = req.close]
  <2>1. r \in Response /\ r.kind = "buffer" /\ r.eof = "none" /\ r.after = "none"
    BY <1>1, BufferedResponse
  <2>2. res' = r
    BY <1>4
  <2> HIDE DEF r
  <2> QED BY <1>4, <2>1, <2>2
<1> QED BY <1>2, <1>3, <1>4

LEMMA UpstreamStraysSets ==
    ASSUME ConnTypeOK, UpstreamStrays
    PROVE  /\ res' \in Response /\ res'.status = 101 /\ res'.eof = "none"
           /\ res'.after = "none"
           /\ \/ res'.kind = "buffer" /\ up' = up
              \/ res'.kind = "stream" /\ up' = "open" /\ MayStream
<1> DEFINE code == 101
<1>0. code \in Nat /\ code = 101
  OBVIOUS
<1>1. CASE /\ UNCHANGED up
           /\ \E close \in BOOLEAN :
                 res' = [NoRes EXCEPT !.status = code, !.close = close \/ req.close]
  <2>1. PICK close \in BOOLEAN :
           res' = [NoRes EXCEPT !.status = code, !.close = close \/ req.close]
    BY <1>1
  <2>2. PICK c \in BOOLEAN : c = (close \/ req.close)
    BY Zenon
  <2> HIDE DEF code
  <2> DEFINE r == [NoRes EXCEPT !.status = code, !.close = c]
  <2>3. res' = r
    BY <2>1, <2>2
  <2>4. /\ r \in Response /\ r.kind = "buffer" /\ r.status = code /\ r.eof = "none"
        /\ r.after = "none"
    BY <1>0, FreshResponse, Zenon DEF Response
  <2> HIDE DEF r
  <2> QED BY <1>0, <1>1, <2>3, <2>4
<1>2. CASE /\ MayStream /\ up' = "open"
           /\ \E raw, close \in BOOLEAN :
                 res' = [NoRes EXCEPT !.kind = "stream", !.status = code, !.raw = raw,
                                      !.close = close \/ req.close]
  <2>1. PICK raw \in BOOLEAN, close \in BOOLEAN :
           res' = [NoRes EXCEPT !.kind = "stream", !.status = code, !.raw = raw,
                                !.close = close \/ req.close]
    BY <1>2
  <2>2. PICK c \in BOOLEAN : c = (close \/ req.close)
    BY Zenon
  <2> HIDE DEF code
  <2> DEFINE r == [NoRes EXCEPT !.kind = "stream", !.status = code, !.raw = raw, !.close = c]
  <2>3. res' = r
    BY <2>1, <2>2
  <2>4. /\ r \in Response /\ r.kind = "stream" /\ r.status = code /\ r.eof = "none"
        /\ r.after = "none"
    BY <1>0, FreshResponse, Zenon DEF Response
  <2> HIDE DEF r
  <2> QED BY <1>0, <1>2, <2>3, <2>4
<1> QED BY <1>1, <1>2 DEF UpstreamStrays

LEMMA StreamGoesOn ==
    ASSUME ConnTypeOK, StreamPiece \/ StreamEnds
    PROVE  /\ res' \in Response /\ res'.kind = res.kind /\ res'.after = res.after
           /\ res'.eof \in {res.eof, "clean", "broken"}
<1>1. CASE StreamPiece
  <2>1. res.pieces + 1 \in 0..MaxPieces /\ res' = [res EXCEPT !.pieces = res.pieces + 1]
    BY <1>1, ResponseFields, ConnLoopAssumption
       DEF StreamPiece, ConnTypeOK, ConnLoopAssumption
  <2> QED BY <2>1, ResponseGrows DEF ConnTypeOK
<1>2. CASE StreamEnds
  <2>1. PICK e \in {"clean", "broken"} : res' = [res EXCEPT !.eof = e]
    BY <1>2 DEF StreamEnds
  <2>2. e \in {"none", "clean", "broken"}
    OBVIOUS
  <2> QED BY <2>1, <2>2, ResponseEnds DEF ConnTypeOK
<1> QED BY <1>1, <1>2

LEMMA StreamTerminatesSets ==
    ASSUME ConnTypeOK, StreamTerminates
    PROVE  /\ pc' = "closeBody" /\ res' \in Response /\ res'.kind = res.kind
           /\ res'.eof = "clean" /\ res'.after \in {"return", "keepAlive"}
<1>1. res.eof = "clean" /\ (CloseBodyThen("return") \/ CloseBodyThen("keepAlive"))
  BY DEF StreamTerminates
<1> QED BY <1>1, CloseBodyThenSets DEF ConnTypeOK

LEMMA ServerStepType ==
    ASSUME ConnTypeOK, Tagged, ServerStep, pc = "streaming" => replies # <<>>
    PROVE  ConnTypeOK'
<1>1. CASE Detect
  <2>1. PICK n \in 0..Len(stream) : buf' = [buf EXCEPT !.pfx = n]
    BY <1>1 DEF Detect
  <2>2. /\ buf' \in Buffers /\ buf'.pfx = n /\ buf'.cb = buf.cb /\ buf'.lo = buf.lo
        /\ buf'.hi = buf.hi
    BY <2>1 DEF ConnTypeOK, Buffers
  <2> QED BY <1>1, <2>2 DEF Detect, srvVars, ConnTypeOK, PCs
<1>2. CASE DetectH2 \/ LoopTop
  BY <1>2 DEF DetectH2, LoopTop, srvVars, ConnTypeOK, PCs
<1>3. CASE ParseNext
  <2>1. /\ buf.lo < Len(stream) /\ buf' \in Buffers
        /\ buf'.lo = buf.lo + 1 /\ buf'.cb = buf.lo + 1 /\ buf'.pfx = buf.pfx
        /\ buf'.lo <= buf'.hi /\ buf'.hi <= Len(stream)
    BY <1>3, TakesFromConn DEF ParseNext
  <2>2. buf.lo + 1 \in DOMAIN stream
    BY <2>1, BufferFields DEF ConnTypeOK
  <2> DEFINE h == client.heads[Tag(buf.lo + 1)]
             parsed == ParseHeader(h)
             new == [n |-> Tag(buf.lo + 1), length |-> parsed.length, close |-> h.close]
  <2>3. /\ Tag(buf.lo + 1) \in 0..MaxRequests
        /\ parsed.length \in Int /\ parsed.status \in Nat /\ h.close \in BOOLEAN
    BY <2>2, HeadOf, ParsedType, ConnLoopAssumption DEF ConnLoopAssumption
  <2>4. new \in Current
    <3> HIDE DEF parsed, h
    <3> QED BY <2>3, Zenon DEF Current
  <2>5. /\ req' \in {req, new}
        /\ (pc' = "admit" /\ res' = res) \/ Refusing(400) \/ Refusing(parsed.status)
    BY <1>3 DEF ParseNext, Tag
  <2> HIDE DEF parsed, h, new
  <2>6. pc' \in PCs /\ res' \in Response
    BY <2>3, <2>5, RefusingSets DEF ConnTypeOK, PCs
  <2>7. req' \in Current
    BY <2>4, <2>5 DEF ConnTypeOK
  <2>8. UNCHANGED <<speaks, client, stream, body, held, live, up, open, replies>>
    BY <1>3 DEF ParseNext
  <2>9. buf.lo + 1 <= buf.lo + 1
    BY BufferFields DEF ConnTypeOK
  <2> QED BY <2>1, <2>6, <2>7, <2>8, <2>9 DEF ConnTypeOK
<1>4. CASE ParseFails \/ RejectChunked \/ DeclaredTooLarge \/ GateRefuses
  <2>1. \/ Refusing(400) \/ Refusing(501) \/ Refusing(413) \/ Refusing(503)
        \/ pc' = "done" /\ UNCHANGED res
    BY <1>4 DEF ParseFails, RejectChunked, DeclaredTooLarge, GateRefuses
  <2>2. pc' \in PCs /\ res' \in Response
    BY <2>1, RefusingSets DEF ConnTypeOK, PCs
  <2>3. UNCHANGED <<speaks, client, stream, buf, req, body, held, live, up, open, replies>>
    BY <1>4 DEF ParseFails, RejectChunked, DeclaredTooLarge, GateRefuses
  <2> QED BY <2>2, <2>3 DEF ConnTypeOK
<1>5. CASE Admit
  BY <1>5, AdmitSets, FreshResponse DEF Admit, ConnTypeOK, PCs
<1>6. CASE Refuse
  <2>1. replies' \in Seq(Answer)
    BY <1>6, ReplyType DEF Refuse, ConnTypeOK
  <2> QED BY <1>6, <2>1 DEF Refuse, ConnTypeOK, PCs
<1>7. CASE ReadLength
  <2>1. body' \in BodyReader
    BY <1>7, ReaderCounts DEF ReadLength, ConnTypeOK
  <2>2. /\ buf' \in Buffers
        /\ buf'.lo = buf.lo + 1 /\ buf'.cb = buf.lo + 1 /\ buf'.pfx = buf.pfx
        /\ buf'.lo <= buf'.hi /\ buf'.hi <= Len(stream)
    BY <1>7, TakesFromConn DEF ReadLength
  <2>3. buf.lo + 1 <= buf.lo + 1
    BY BufferFields DEF ConnTypeOK
  <2> QED BY <1>7, <2>1, <2>2, <2>3 DEF ReadLength, ConnTypeOK
<1>8. CASE LengthTimeout \/ ChunkedFails
  <2>1. body' \in BodyReader
    BY <1>8, ReaderSet DEF LengthTimeout, ChunkedFails, ConnTypeOK, ChunkStates
  <2> QED BY <1>8, <2>1 DEF LengthTimeout, ChunkedFails, ConnTypeOK
<1>9. CASE ReadChunked
  <2>1. /\ buf' \in Buffers /\ buf'.pfx = buf.pfx
        /\ buf'.cb <= buf'.lo /\ buf'.lo <= buf'.hi /\ buf'.hi <= Len(stream)
    BY <1>9, TakesFromChunkedBufr DEF ReadChunked
  <2>2. body' \in BodyReader /\ open' \in BOOLEAN
    BY <1>9, ReadChunkedSets DEF ReadChunked, ConnTypeOK
  <2> QED BY <1>9, <2>1, <2>2 DEF ReadChunked, ConnTypeOK
<1>24. CASE InspectBody
  <2>1. body' \in BodyReader
    BY <1>24, ReaderInspected DEF InspectBody, ConnTypeOK
  <2> QED BY <1>24, <2>1 DEF InspectBody, ConnTypeOK
<1>25. CASE AwaitUpstream
  BY <1>25 DEF AwaitUpstream, srvVars, ConnTypeOK, PCs
<1>26. CASE UpstreamStrays
  <2>1. up' \in {"none", "open", "closed"} /\ res' \in Response
    BY <1>26, UpstreamStraysSets DEF ConnTypeOK
  <2> QED BY <1>26, <2>1 DEF UpstreamStrays, ConnTypeOK, PCs
<1>27. CASE Announce
  <2>1. replies' \in Seq(Answer)
    BY <1>27, ReplyType DEF Announce
  <2> QED BY <1>27, <2>1 DEF Announce, ConnTypeOK, PCs
<1>28. CASE AnnounceFails
  BY <1>28 DEF AnnounceFails, ConnTypeOK, PCs
<1>10. CASE HandlerAnswers
  BY <1>10, HandlerAnswersSets DEF HandlerAnswers, ConnTypeOK, PCs
<1>11. CASE HandlerStreams
  BY <1>11, HandlerStreamsSets DEF HandlerStreams, ConnTypeOK, PCs
<1>12. CASE HandlerUpgrades
  <2>1. up' \in {"none", "open", "closed"}
    BY <1>12 DEF HandlerUpgrades, ConnTypeOK
  <2> QED BY <1>12, <2>1, HandlerUpgradesSets DEF HandlerUpgrades, ConnTypeOK, PCs
<1>13. CASE SwitchProtocols \/ StreamHead
  <2>1. replies' \in Seq(Answer)
    BY <1>13, ReplyType DEF SwitchProtocols, StreamHead, Reply
  <2> QED BY <1>13, <2>1 DEF SwitchProtocols, StreamHead, ConnTypeOK, PCs
<1>14. CASE RelayBegins
  <2>1. client' \in Client /\ Len(client'.heads) <= MaxRequests
    BY <1>14, ConnLoopAssumption DEF RelayBegins, Client, ConnLoopAssumption
  <2>2. /\ buf' \in Buffers /\ buf'.cb <= buf'.lo /\ buf'.lo <= buf'.hi
        /\ buf'.hi <= Len(stream') /\ buf'.pfx <= Len(stream')
    BY <1>14 DEF RelayBegins, Buffers
  <2>3. req' \in Current
    <3> DEFINE z == 0
    <3>1. z \in 0..MaxRequests /\ z \in Int
      BY ConnLoopAssumption DEF ConnLoopAssumption
    <3>2. req' = [n |-> z, length |-> z, close |-> FALSE]
      BY <1>14 DEF RelayBegins
    <3> HIDE DEF z
    <3> QED BY <3>1, <3>2, Zenon DEF Current
  <2> QED BY <1>14, <2>1, <2>2, <2>3, NoReader DEF RelayBegins, ConnTypeOK, PCs
<1>15. CASE SwitchFails
  BY <1>15 DEF SwitchFails, ConnTypeOK, PCs
<1>16. CASE SeverUnread \/ RespondFails
  <2>1. pc' = "closeBody" /\ res' \in Response
    BY <1>16, CloseBodyThenSets DEF SeverUnread, RespondFails, ConnTypeOK
  <2> QED BY <1>16, <2>1 DEF SeverUnread, RespondFails, ConnTypeOK, PCs
<1>17. CASE Respond
  <2>1. pc' = "closeBody" /\ res' \in Response
    BY <1>17, CloseBodyThenSets DEF Respond, ConnTypeOK
  <2>2. replies' \in Seq(Answer)
    BY <1>17, ReplyType DEF Respond, Reply
  <2> QED BY <1>17, <2>1, <2>2 DEF Respond, ConnTypeOK, PCs
<1>18. CASE StreamHeadFails
  <2>1. pc' = "closeBody" /\ res' \in Response
    BY <1>18, CloseBodyThenSets DEF StreamHeadFails, ConnTypeOK
  <2> QED BY <1>18, <2>1 DEF StreamHeadFails, ConnTypeOK, PCs
<1>19. CASE StreamPiece \/ StreamEnds
  BY <1>19, StreamGoesOn DEF StreamPiece, StreamEnds, ConnTypeOK
<1>20. CASE StreamTerminates
  <2>1. replies' \in Seq(Answer)
    BY <1>20, MarkedWhole DEF StreamTerminates
  <2> QED BY <1>20, <2>1, StreamTerminatesSets DEF StreamTerminates, ConnTypeOK, PCs
<1>22. CASE StreamSevered
  <2>1. pc' = "closeBody" /\ res' \in Response
    BY <1>22, CloseBodyThenSets DEF StreamSevered, ConnTypeOK
  <2> QED BY <1>22, <2>1 DEF StreamSevered, ConnTypeOK, PCs
<1>23. CASE Cleanup
  <2>1. /\ buf' \in Buffers /\ buf'.cb = buf.lo /\ buf'.lo = buf.lo /\ buf'.hi = buf.hi
        /\ buf'.pfx = buf.pfx
    BY <1>23 DEF Cleanup, ConnTypeOK, Buffers
  <2>2. pc' \in PCs /\ open' \in BOOLEAN /\ buf.lo <= buf.lo
    BY <1>23, BufferFields DEF Cleanup, PCs, ConnTypeOK
  <2> QED BY <1>23, <2>1, <2>2, NoReader DEF Cleanup, ConnTypeOK
<1> QED
  BY <1>1, <1>2, <1>3, <1>4, <1>5, <1>6, <1>7, <1>8, <1>9, <1>10, <1>11, <1>12, <1>13,
     <1>14, <1>15, <1>16, <1>17, <1>18, <1>19, <1>20, <1>22, <1>23, <1>24, <1>25, <1>26,
     <1>27, <1>28 DEF ServerStep
-----------------------------------------------------------------------------
(* What is held, and what the response is.                                 *)

\* Where a refusal of any kind leads.
LEMMA RefusalSets ==
    ASSUME ConnTypeOK, Tagged,
           ParseNext \/ ParseFails \/ RejectChunked \/ DeclaredTooLarge \/ GateRefuses
    PROVE  /\ pc \in {"parse", "admit"} /\ UNCHANGED <<held, live, up, body, open, replies>>
           /\ \/ pc' = "refuse" /\ res'.eof = "none"
              \/ pc' \in {"admit", "done"} /\ res' = res
<1>1. ASSUME NEW status, Refusing(status) PROVE pc' = "refuse" /\ res'.eof = "none"
  BY <1>1 DEF Refusing, NoRes
<1>2. CASE ParseNext
  <2> DEFINE p == ParseHeader(client.heads[stream[buf.lo + 1].req])
  <2>1. (pc' = "admit" /\ res' = res) \/ Refusing(400) \/ Refusing(p.status)
    BY <1>2 DEF ParseNext
  <2>2. pc = "parse" /\ UNCHANGED <<held, live, up, body, open, replies>>
    BY <1>2 DEF ParseNext
  <2> QED BY <1>1, <2>1, <2>2
<1>3. CASE ParseFails \/ RejectChunked \/ DeclaredTooLarge \/ GateRefuses
  <2>1. \/ Refusing(400) \/ Refusing(501) \/ Refusing(413) \/ Refusing(503)
        \/ pc' = "done" /\ UNCHANGED res
    BY <1>3 DEF ParseFails, RejectChunked, DeclaredTooLarge, GateRefuses
  <2>2. pc \in {"parse", "admit"} /\ UNCHANGED <<held, live, up, body, open, replies>>
    BY <1>3 DEF ParseFails, RejectChunked, DeclaredTooLarge, GateRefuses
  <2> QED BY <1>1, <2>1, <2>2
<1> QED BY <1>2, <1>3

LEMMA UnheldKept ==
    ASSUME ConnTypeOK, Tagged, Unheld, ServerStep
    PROVE  Unheld'
<1>1. CASE Detect \/ DetectH2 \/ LoopTop
  BY <1>1 DEF Detect, DetectH2, LoopTop, srvVars, Unheld, Free, Apart
<1>2. CASE ParseNext \/ ParseFails \/ RejectChunked \/ DeclaredTooLarge \/ GateRefuses
  BY <1>2, RefusalSets DEF Unheld, Free, Apart
<1>3. CASE Admit \/ Refuse
  <2>1. \/ pc = "admit" /\ pc' = "serve" /\ up' = up
        \/ pc = "refuse" /\ pc' = "done" /\ UNCHANGED <<held, live, up>>
    BY <1>3 DEF Admit, Refuse
  <2> QED BY <2>1 DEF Unheld, Free, Apart
<1>4. CASE ReadLength \/ LengthTimeout \/ ReadChunked \/ ChunkedFails \/ InspectBody
  <2>1. UNCHANGED <<pc, res, held, live, up>>
    BY <1>4 DEF ReadLength, LengthTimeout, ReadChunked, ChunkedFails, InspectBody
  <2> QED BY <2>1 DEF Unheld
<1>5. CASE AwaitUpstream
  BY <1>5 DEF AwaitUpstream, srvVars, Unheld, Free, Apart
<1>6. CASE HandlerAnswers
  BY <1>6 DEF HandlerAnswers, Unheld, Free, Apart
<1>7. CASE HandlerStreams
  BY <1>7, HandlerStreamsSets DEF HandlerStreams, Unheld, Free, Apart
<1>8. CASE HandlerUpgrades
  BY <1>8, HandlerUpgradesSets DEF HandlerUpgrades, Unheld, Free, Apart
<1>9. CASE UpstreamStrays
  <2>1. pc = "await" /\ pc' = "announce" /\ UNCHANGED <<held, live>>
    BY <1>9 DEF UpstreamStrays
  <2> QED BY <1>9, <2>1, UpstreamStraysSets DEF Unheld, Free, Apart
<1>10. CASE Announce
  BY <1>10 DEF Announce, Unheld, Free, Apart
<1>11. CASE AnnounceFails
  <2>1. res.kind \in {"buffer", "stream", "upgrade"}
    BY ResponseFields DEF ConnTypeOK
  <2> QED BY <1>11, <2>1 DEF AnnounceFails, Unheld, Free, Apart
<1>12. CASE SwitchProtocols \/ SwitchFails \/ RelayBegins \/ StreamHead
  BY <1>12 DEF SwitchProtocols, SwitchFails, RelayBegins, StreamHead, Unheld, Free, Apart
<1>13. CASE SeverUnread \/ Respond \/ RespondFails
  <2>1. pc' = "closeBody" /\ pc = "answer" /\ res.kind = "buffer" /\ up' = up
    BY <1>13 DEF SeverUnread, Respond, RespondFails, CloseBodyThen
  <2> QED BY <2>1 DEF Unheld, Free, Apart
<1>14. CASE StreamHeadFails \/ StreamTerminates \/ StreamSevered
  <2>1. pc' = "closeBody" /\ up' = "closed"
    BY <1>14 DEF StreamHeadFails, StreamTerminates, StreamSevered, CloseBodyThen
  <2> QED BY <2>1 DEF Unheld, Free, Apart
<1>15. CASE StreamPiece \/ StreamEnds
  BY <1>15 DEF StreamPiece, StreamEnds, Unheld, Free, Apart
<1>16. CASE Cleanup
  BY <1>16 DEF Cleanup, Unheld, Free, Apart
<1> QED
  BY <1>1, <1>2, <1>3, <1>4, <1>5, <1>6, <1>7, <1>8, <1>9, <1>10, <1>11, <1>12, <1>13,
     <1>14, <1>15, <1>16 DEF ServerStep

LEMMA PhasesKept ==
    ASSUME ConnTypeOK, Tagged, ReaderOf, Phases, ServerStep, ~EarlyStream
    PROVE  Phases'
<1>0. req.length \in Int /\ Chunked = -1
  BY CurrentFields DEF ConnTypeOK, Chunked
<1>19. Unheld'
  BY UnheldKept DEF Phases
<1>1. CASE Detect \/ DetectH2 \/ LoopTop
  BY <1>19, <1>1 DEF Detect, DetectH2, LoopTop, srvVars, Phases
<1>2. CASE ParseNext \/ ParseFails \/ RejectChunked \/ DeclaredTooLarge \/ GateRefuses
  BY <1>2, <1>19, RefusalSets DEF Phases
<1>4. CASE Admit
  BY <1>19, <1>4, FreshResponse DEF Admit, Phases
<1>5. CASE Refuse
  BY <1>19, <1>5 DEF Refuse, Phases
<1>6. CASE ReadLength \/ LengthTimeout
  BY <1>19, <1>6 DEF ReadLength, LengthTimeout, Phases
<1>7. CASE ReadChunked \/ ChunkedFails
  <2>1. /\ pc \in {"serve", "closeBody"} /\ Decoding
        /\ UNCHANGED <<pc, req, res, held, live, up>>
    BY <1>7 DEF ReadChunked, ChunkedFails, Reading
  <2>2. req.length = Chunked
    BY <2>1 DEF ReaderOf, Busy, Decoding, ChunkStates
  <2> QED BY <1>19, <1>0, <2>1, <2>2 DEF Phases
<1>8. CASE HandlerAnswers
  BY <1>19, <1>8, HandlerAnswersSets DEF HandlerAnswers, Phases
<1>9. CASE HandlerStreams
  <2>1. req.length > 0 => body.total = req.length
    BY <1>0, <1>9 DEF HandlerStreams, MayStream, BodyRead, Chunked
  <2> QED BY <1>19, <1>9, <2>1, HandlerStreamsSets DEF HandlerStreams, Phases
<1>10. CASE HandlerUpgrades
  BY <1>19, <1>10, HandlerUpgradesSets DEF HandlerUpgrades, Phases
<1>20. CASE InspectBody
  <2>1. /\ UNCHANGED <<pc, req, res, open>> /\ pc = "serve"
    BY <1>20 DEF InspectBody
  <2> QED BY <1>19, <2>1 DEF Phases
<1>21. CASE AwaitUpstream
  BY <1>19, <1>21 DEF AwaitUpstream, srvVars, Phases
<1>22. CASE UpstreamStrays
  <2>1. /\ UNCHANGED <<req, body, open>> /\ pc = "await" /\ pc' = "announce"
    BY <1>22 DEF UpstreamStrays
  <2>2. /\ res'.eof = "none"
        /\ res'.kind = "stream" => (req.length > 0 => body.total = req.length)
    BY <1>0, <1>22, UpstreamStraysSets DEF MayStream, BodyRead, Chunked
  <2> QED BY <1>19, <2>1, <2>2 DEF Phases
<1>23. CASE Announce \/ AnnounceFails
  <2>1. /\ UNCHANGED <<req, body, res, open>> /\ pc = "announce" /\ pc' \in {"answer", "done"}
    BY <1>23 DEF Announce, AnnounceFails
  <2>2. res.kind # "upgrade"
    BY <2>1 DEF Phases, Unheld
  <2> QED BY <1>19, <2>1, <2>2 DEF Phases
<1>11. CASE SwitchProtocols \/ SwitchFails
  BY <1>19, <1>11 DEF SwitchProtocols, SwitchFails, Phases
<1>12. CASE RelayBegins
  BY <1>19, <1>12 DEF RelayBegins, Phases
<1>13. CASE SeverUnread \/ Respond \/ RespondFails
  <2>1. \E a \in {"sever", "loop", "return"} : CloseBodyThen(a)
    BY <1>13 DEF SeverUnread, Respond, RespondFails
  <2>2. pc' = "closeBody" /\ res'.kind = res.kind /\ res'.eof = res.eof
        /\ res'.after \in {"sever", "loop", "return"}
    BY <2>1, CloseBodyThenSets DEF ConnTypeOK
  <2>3. /\ pc = "answer" /\ res.kind = "buffer"
        /\ UNCHANGED <<req, body, held, live, up, open>>
    BY <1>13 DEF SeverUnread, Respond, RespondFails
  <2> QED BY <1>19, <2>2, <2>3 DEF Phases
<1>14. CASE StreamHead
  BY <1>19, <1>14 DEF StreamHead, Phases
<1>15. CASE StreamHeadFails \/ StreamSevered
  <2>1. CloseBodyThen("return") /\ up' = "closed" /\ UNCHANGED <<req, body, held, live>>
    BY <1>15 DEF StreamHeadFails, StreamSevered
  <2>2. pc' = "closeBody" /\ res'.kind = res.kind /\ res'.eof = res.eof
        /\ res'.after = "return"
    BY <2>1, CloseBodyThenSets DEF ConnTypeOK
  <2>3. pc \in {"answer", "streaming"} /\ res.kind = "stream"
    BY <1>15 DEF StreamHeadFails, StreamSevered, Phases
  <2> QED BY <1>19, <2>1, <2>2, <2>3 DEF Phases
<1>16. CASE StreamPiece \/ StreamEnds
  BY <1>19, <1>16, StreamGoesOn DEF StreamPiece, StreamEnds, Phases
<1>17. CASE StreamTerminates
  BY <1>19, <1>17, StreamTerminatesSets DEF StreamTerminates, Phases
<1>18. CASE Cleanup
  BY <1>19, <1>18 DEF Cleanup, Phases
<1> QED
  BY <1>1, <1>2, <1>4, <1>5, <1>6, <1>7, <1>8, <1>9, <1>10, <1>11, <1>12, <1>13, <1>14,
     <1>15, <1>16, <1>17, <1>18, <1>20, <1>21, <1>22, <1>23 DEF ServerStep

\* The reader of a body is made by Admit and dropped by Cleanup.
LEMMA ReaderKept ==
    ASSUME ConnTypeOK, Tagged, ReaderOf, Phases, ServerStep
    PROVE  ReaderOf'
<1>0. req.length \in Int /\ Chunked = -1
  BY CurrentFields DEF ConnTypeOK, Chunked
<1>1. CASE Detect \/ DetectH2 \/ LoopTop
  BY <1>1 DEF Detect, DetectH2, LoopTop, srvVars, ReaderOf, Busy
<1>2. CASE ParseNext
  <2>1. pc = "parse" /\ UNCHANGED <<body, open>>
    BY <1>2 DEF ParseNext
  <2>2. buf.lo + 1 \in DOMAIN stream
    BY <1>2, TakesFromConn, BufferFields DEF ParseNext, ConnTypeOK
  <2> DEFINE h == client.heads[Tag(buf.lo + 1)]
             p == ParseHeader(h)
  <2>3. h \in Heads /\ p.status \in Nat
    BY <2>2, HeadOf, ParsedType
  <2>4. \/ pc' = "refuse" 
        \/ pc' = "admit" /\ p.status = 200 /\ req'.length = p.length
    <3> HIDE DEF p
    <3> QED BY <1>2, <2>3, RefusingSets DEF ParseNext, Tag, p
  <2>5. pc' = "admit" => req'.length >= Chunked
    <3> HIDE DEF h
    <3> QED BY <1>0, <2>3, <2>4, AcceptedBody
  <2> QED BY <2>1, <2>4, <2>5 DEF ReaderOf, Busy
<1>3. CASE ParseFails \/ RejectChunked \/ DeclaredTooLarge \/ GateRefuses
  <2>1. \/ Refusing(400) \/ Refusing(501) \/ Refusing(413) \/ Refusing(503)
        \/ pc' = "done" /\ UNCHANGED res
    BY <1>3 DEF ParseFails, RejectChunked, DeclaredTooLarge, GateRefuses
  <2>2. pc' \in {"refuse", "done"}
    BY <2>1, RefusingSets
  <2>3. pc \in {"parse", "admit"} /\ UNCHANGED <<body, open>>
    BY <1>3 DEF ParseFails, RejectChunked, DeclaredTooLarge, GateRefuses
  <2> QED BY <2>2, <2>3 DEF ReaderOf, Busy
<1>4. CASE Admit
  <2>1. pc = "admit" /\ pc' = "serve" /\ UNCHANGED <<req, open>>
    BY <1>4 DEF Admit
  <2>2. req.length >= Chunked
    BY <2>1 DEF ReaderOf
  <2> QED BY <1>0, <1>4, <2>1, <2>2, AdmitSets DEF ReaderOf, Busy, ChunkStates
<1>5. CASE Refuse
  BY <1>5 DEF Refuse, ReaderOf, Busy
<1>6. CASE ReadLength
  <2>1. body'.state = body.state /\ body'.total \in Nat /\ body.state = "length"
    BY <1>6, ReaderCounts, ReaderFields DEF ReadLength, ConnTypeOK
  <2>2. pc = "serve" /\ UNCHANGED <<pc, req, open>>
    BY <1>6 DEF ReadLength
  <2> QED BY <2>1, <2>2 DEF ReaderOf, Busy, ChunkStates
<1>7. CASE LengthTimeout \/ ChunkedFails
  <2>1. body'.state = "failed" /\ open' = FALSE /\ UNCHANGED <<pc, req>>
    BY <1>7, ReaderSet DEF LengthTimeout, ChunkedFails, ConnTypeOK, ChunkStates
  <2>2. /\ pc \in {"serve", "closeBody"} 
        /\ body.state = "length" \/ body.state \in ChunkStates \ {"done", "failed"}
    BY <1>7 DEF LengthTimeout, ChunkedFails, Reading, Decoding
  <2> QED BY <2>1, <2>2 DEF ReaderOf, Busy, ChunkStates
<1>8. CASE ReadChunked
  <2>1. /\ pc \in {"serve", "closeBody"} /\ Decoding /\ UNCHANGED <<pc, req>>
    BY <1>8 DEF ReadChunked, Reading
  <2>2. stream[buf.cb + 1].sym \in {"head"} \cup BodySymbols
    BY <1>8, ReadChunkedSets, ItemFields DEF ConnTypeOK
  <2>3. body'.state \in ChunkStates /\ (body'.state = "failed" => ~open')
    BY <1>8, <2>1, <2>2, ReadChunkedSets, Decoded DEF ConnTypeOK, Decoding
  <2> QED BY <2>1, <2>3 DEF ReaderOf, Busy, Decoding, ChunkStates
<1>9. ASSUME req' = req, body' = body, open' => open, pc \in Busy \ {"admit"},
             pc' \in (Busy \ {"admit"}) \cup {"done"}
      PROVE  ReaderOf'
  <2>1. body'.state = "failed" => ~open'
    BY <1>9 DEF ReaderOf
  <2>2. \/ req.length = Chunked /\ body.state \in ChunkStates
        \/ req.length = 0 /\ body.state = "none" /\ body.total = 0
        \/ req.length > 0 /\ body.state \in {"length", "failed"}
    BY <1>9 DEF ReaderOf
  <2> QED BY <1>9, <2>1, <2>2 DEF ReaderOf, Busy
<1>10. CASE \/ AwaitUpstream \/ HandlerAnswers \/ HandlerStreams \/ HandlerUpgrades
            \/ UpstreamStrays \/ Announce \/ AnnounceFails
            \/ SwitchProtocols \/ SwitchFails \/ StreamHead
  <2>1. /\ req' = req /\ body' = body /\ open' = open
        /\ pc \in {"serve", "await", "announce", "answer"}
        /\ pc' \in {"await", "announce", "answer", "switched", "streaming", "done"}
    BY <1>10 DEF AwaitUpstream, HandlerAnswers, HandlerStreams, HandlerUpgrades,
                 UpstreamStrays, Announce, AnnounceFails, SwitchProtocols, SwitchFails,
                 StreamHead, srvVars
  <2> QED BY <1>9, <2>1 DEF Busy
<1>14. CASE InspectBody
  <2>1. body'.state = body.state /\ body'.total = body.total
    BY <1>14, ReaderInspected DEF InspectBody, ConnTypeOK
  <2>2. pc = "serve" /\ UNCHANGED <<pc, req, open>>
    BY <1>14 DEF InspectBody
  <2> QED BY <2>1, <2>2 DEF ReaderOf, Busy
<1>11. CASE RelayBegins
  BY <1>11, NoReader DEF RelayBegins, ReaderOf, Busy
<1>12. CASE \/ SeverUnread \/ Respond \/ RespondFails \/ StreamHeadFails
            \/ StreamTerminates \/ StreamSevered
  <2>1. /\ req' = req /\ body' = body /\ (open' = open \/ open' = FALSE)
        /\ pc \in {"answer", "streaming"} /\ pc' = "closeBody"
    BY <1>12 DEF SeverUnread, Respond, RespondFails, StreamHeadFails, StreamTerminates,
                 StreamSevered, CloseBodyThen
  <2> QED BY <1>9, <2>1 DEF Busy
<1>13. CASE StreamPiece \/ StreamEnds
  BY <1>13 DEF StreamPiece, StreamEnds, ReaderOf
<1>15. CASE Cleanup
  BY <1>15, NoReader DEF Cleanup, ReaderOf, Busy
<1> QED
  BY <1>1, <1>2, <1>3, <1>4, <1>5, <1>6, <1>7, <1>8, <1>10, <1>11, <1>12, <1>13, <1>14,
     <1>15 DEF ServerStep

\* With a limit above that of bodies the WAF replaces only what is read to its end.
LEMMA InspectedKept ==
    ASSUME ConnTypeOK, Tagged, ReaderOf, Inspected, ServerStep, MaxInspect > MaxBody
    PROVE  Inspected'
<1>0. /\ req.length \in Int /\ Chunked = -1 /\ body.total \in Nat
      /\ MaxBody \in Nat \ {0} /\ MaxInspect \in Nat
  BY CurrentFields, ReaderFields, LimitAssumption, ConnLoopAssumption
     DEF ConnTypeOK, Chunked, LimitAssumption, ConnLoopAssumption
<1>1. ASSUME body' = NoBody, pc' \notin Busy \ {"admit"} PROVE Inspected'
  BY <1>0, <1>1, NoReader DEF Inspected
<1>2. ASSUME UNCHANGED <<req, body>>,
             pc' \in Busy \ {"admit"} => pc \in Busy \ {"admit"}
      PROVE  Inspected'
  BY <1>2 DEF Inspected, BodyRead
<1>3. CASE Detect \/ DetectH2 \/ LoopTop
  <2>1. UNCHANGED <<req, body>> /\ pc' \in {"top", "h2", "parse", "done"}
    BY <1>3 DEF Detect, DetectH2, LoopTop, srvVars
  <2> QED BY <1>2, <2>1 DEF Busy
<1>4. CASE ParseNext \/ ParseFails \/ RejectChunked \/ DeclaredTooLarge \/ GateRefuses
  <2>1. body' = NoBody /\ pc' \in {"refuse", "admit", "done"}
    BY <1>4, RefusalSets DEF ReaderOf
  <2> QED BY <1>1, <2>1 DEF Busy
<1>5. CASE Admit
  <2>1. body'.total = 0 /\ body'.type = "own" /\ req' = req /\ req.length <= MaxBody
    BY <1>5, AdmitSets DEF Admit
  <2> QED BY <1>0, <2>1 DEF Inspected
<1>6. CASE Refuse
  BY <1>2, <1>6 DEF Refuse, Busy
<1>7. CASE ReadLength
  <2>1. /\ pc = "serve" /\ pc' = pc /\ req' = req /\ body.state = "length"
        /\ body.total < req.length /\ body'.total = body.total + 1
        /\ body'.type = body.type
    BY <1>7, ReaderCounts DEF ReadLength, ConnTypeOK
  <2>2. req.length <= MaxBody /\ req.length > 0 /\ body.type # "multi"
    BY <1>0, <2>1 DEF Inspected, Busy, BodyRead
  <2> QED BY <1>0, <2>1, <2>2 DEF Inspected
<1>8. CASE LengthTimeout
  <2>1. /\ pc = "serve" /\ pc' = pc /\ req' = req /\ body.total < req.length
        /\ body'.total = body.total /\ body'.type = body.type
    BY <1>8, ReaderSet DEF LengthTimeout, ConnTypeOK, ChunkStates
  <2>2. body.type # "multi"
    BY <1>0, <2>1 DEF Inspected, BodyRead
  <2> QED BY <2>1, <2>2 DEF Inspected
<1>9. CASE ReadChunked \/ ChunkedFails
  <2>1. /\ pc \in {"serve", "closeBody"} /\ Decoding /\ pc' = pc /\ req' = req
    BY <1>9 DEF ReadChunked, ChunkedFails, Reading
  <2>2. req.length = Chunked
    BY <2>1 DEF ReaderOf, Busy, Decoding, ChunkStates
  <2>3. body.type # "multi"
    BY <1>0, <2>1, <2>2 DEF Inspected, BodyRead, Decoding
  <2>4. body'.type = body.type /\ body'.total <= MaxBody
    <3>1. CASE ChunkedFails
      BY <3>1, ReaderSet DEF ChunkedFails, ConnTypeOK, ChunkStates, Inspected
    <3>2. CASE ReadChunked
      <4>1. stream[buf.cb + 1].sym \in {"head"} \cup BodySymbols
        BY <3>2, ReadChunkedSets, ItemFields DEF ConnTypeOK
      <4>2. body'.total = IF body.state = "data" THEN body.total + 1 ELSE body.total
        BY <2>1, <3>2, <4>1, ReadChunkedSets, Decoded DEF ConnTypeOK, Decoding
      <4>3. body.state = "data" => body.total < MaxBody
        BY <1>0, <3>2 DEF ReadChunked, OverCeiling
      <4>4. body'.type = body.type
        BY <3>2, ReadChunkedSets
      <4> QED BY <1>0, <4>2, <4>3, <4>4 DEF Inspected
    <3> QED BY <1>9, <3>1, <3>2
  <2> QED BY <2>1, <2>3, <2>4 DEF Inspected
<1>10. CASE InspectBody
  <2>1. /\ UNCHANGED <<pc, req>> /\ body'.state = body.state /\ body'.total = body.total
        /\ body.total = MaxInspect \/ BodyRead
    BY <1>10, ReaderInspected DEF InspectBody, ConnTypeOK
  <2>2. BodyRead
    BY <1>0, <2>1 DEF Inspected
  <2> QED BY <2>1, <2>2 DEF Inspected, BodyRead
<1>11. CASE \/ AwaitUpstream \/ HandlerAnswers \/ HandlerStreams \/ HandlerUpgrades
            \/ UpstreamStrays \/ Announce \/ AnnounceFails
            \/ SwitchProtocols \/ SwitchFails \/ StreamHead
  <2>1. /\ req' = req /\ body' = body /\ pc \in {"serve", "await", "announce", "answer"}
    BY <1>11 DEF AwaitUpstream, HandlerAnswers, HandlerStreams, HandlerUpgrades,
                 UpstreamStrays, Announce, AnnounceFails, SwitchProtocols, SwitchFails,
                 StreamHead, srvVars
  <2> QED BY <1>2, <2>1 DEF Busy
<1>12. CASE RelayBegins
  BY <1>1, <1>12 DEF RelayBegins, Busy
<1>13. CASE \/ SeverUnread \/ Respond \/ RespondFails \/ StreamHeadFails
            \/ StreamTerminates \/ StreamSevered \/ StreamPiece \/ StreamEnds
  <2>1. req' = req /\ body' = body /\ pc \in {"answer", "streaming"}
    BY <1>13 DEF SeverUnread, Respond, RespondFails, StreamHeadFails, StreamTerminates,
                 StreamSevered, StreamPiece, StreamEnds
  <2> QED BY <1>2, <2>1 DEF Busy
<1>14. CASE Cleanup
  BY <1>1, <1>14 DEF Cleanup, Busy
<1> QED
  BY <1>3, <1>4, <1>5, <1>6, <1>7, <1>8, <1>9, <1>10, <1>11, <1>12, <1>13, <1>14
     DEF ServerStep
-----------------------------------------------------------------------------
(* What the client has sent.                                               *)

\* A step of the server that parses at most a request that was sent.
LEMMA SentKept ==
    ASSUME Tagged, Spelled, client' = client, stream' = stream, req'.n <= Begun
    PROVE  Tagged' /\ Spelled'
<1>1. Begun' = Begun
  BY DEF Begun
<1>2. Tagged'
  BY <1>1 DEF Tagged, Tag, IsHead
<1>3. ASSUME NEW k, NEW b PROVE Spells(k, b)' <=> Spells(k, b)
  BY <1>1 DEF Spells, Tag
<1>4. Spelled'
  BY <1>1, <1>3 DEF Spelled, Tag, IsHead
<1> QED BY <1>2, <1>4

\* The head and the first symbols of the body b that ClientBegins sends.
LEMMA ClientBeginsSends ==
    ASSUME ConnTypeOK, NEW h \in Heads, ClientBegins(h)
    PROVE  \E b \in Bodies(h) : \E n \in 0..Len(b) :
              /\ b \in Seq(BodySymbols)
              /\ client' \in Client /\ client'.heads = Append(client.heads, h)
              /\ client'.todo \in Seq(BodySymbols) /\ Len(client'.todo) = Len(b) - n
              /\ \A j \in 1..Len(client'.todo) : client'.todo[j] = b[n + j]
              /\ stream' \in Seq(Item) /\ Len(stream') = Len(stream) + 1 + n
              /\ \A k \in 1..Len(stream) : stream'[k] = stream[k]
              /\ stream'[Len(stream) + 1].req = Begun + 1
              /\ stream'[Len(stream) + 1].sym = "head"
              /\ \A j \in 1..n : /\ stream'[Len(stream) + 1 + j].req = Begun + 1
                                 /\ stream'[Len(stream) + 1 + j].sym = b[j]
<1>0. PICK b \in Bodies(h) : \E n \in {0, Len(b) \div 2, Len(b)} :
         /\ client' = [heads |-> Append(client.heads, h), todo |-> SubSeq(b, n + 1, Len(b))]
         /\ stream' = stream \o Symbols(Begun + 1, <<"head">> \o SubSeq(b, 1, n))
  BY DEF ClientBegins
<1>1. PICK n \in {0, Len(b) \div 2, Len(b)} :
         /\ client' = [heads |-> Append(client.heads, h), todo |-> SubSeq(b, n + 1, Len(b))]
         /\ stream' = stream \o Symbols(Begun + 1, <<"head">> \o SubSeq(b, 1, n))
  BY <1>0
<1>2. b \in Seq(BodySymbols)
  BY BodiesSeq
<1>3. n \in 0..Len(b)
  BY <1>2
<1> DEFINE rest == SubSeq(b, n + 1, Len(b))
           first == SubSeq(b, 1, n)
           new == <<"head">> \o first
           syms == Symbols(Begun + 1, new)
<1>4. /\ rest \in Seq(BodySymbols) /\ Len(rest) = Len(b) - n
      /\ \A j \in 1..Len(rest) : rest[j] = b[n + j]
  BY <1>2, <1>3
<1>5. /\ first \in Seq(BodySymbols) /\ Len(first) = n
      /\ \A j \in 1..n : first[j] = b[j]
  BY <1>2, <1>3
<1> HIDE DEF rest, first
<1>6. /\ new \in Seq({"head"} \cup BodySymbols) /\ Len(new) = n + 1 /\ new[1] = "head"
      /\ \A j \in 1..n : new[j + 1] = first[j]
  BY <1>3, <1>5
<1> HIDE DEF new
<1>7. Begun + 1 \in 1..MaxRequests
  BY ClientFields, ConnLoopAssumption
     DEF ClientBegins, ConnTypeOK, Begun, ConnLoopAssumption
<1>8. /\ syms \in Seq(Item) /\ Len(syms) = n + 1
      /\ \A j \in 1..(n + 1) : syms[j].req = Begun + 1 /\ syms[j].sym = new[j]
  <2>1. /\ syms \in Seq(Item) /\ Len(syms) = Len(new)
        /\ \A j \in 1..Len(new) : syms[j].req = Begun + 1 /\ syms[j].sym = new[j]
    BY <1>6, <1>7, SymbolsSeq
  <2> HIDE DEF syms
  <2> QED BY <1>6, <2>1
<1>9. stream \in Seq(Item) /\ stream' = stream \o syms
  BY <1>1 DEF ConnTypeOK, new, first
<1> HIDE DEF syms
<1>10. /\ stream' \in Seq(Item) /\ Len(stream') = Len(stream) + 1 + n
       /\ \A k \in 1..Len(stream) : stream'[k] = stream[k]
       /\ \A j \in 1..(n + 1) : stream'[Len(stream) + j] = syms[j]
  <2>1. /\ stream' \in Seq(Item) /\ Len(stream') = Len(stream) + Len(syms)
        /\ \A k \in 1..Len(stream) : stream'[k] = stream[k]
        /\ \A j \in 1..Len(syms) : stream'[Len(stream) + j] = syms[j]
    <3> DEFINE t == stream \o syms
    <3>1. /\ t \in Seq(Item) /\ Len(t) = Len(stream) + Len(syms)
          /\ \A k \in 1..Len(stream) : t[k] = stream[k]
          /\ \A j \in 1..Len(syms) : t[Len(stream) + j] = syms[j]
      <4>1. stream \in Seq(Item) /\ syms \in Seq(Item)
        BY <1>8, <1>9
      <4> QED BY <4>1
    <3>2. stream' = t
      BY <1>9
    <3> HIDE DEF t
    <3> QED BY <3>1, <3>2
  <2> QED BY <1>3, <1>8, <1>9, <2>1
<1>11. stream'[Len(stream) + 1].req = Begun + 1 /\ stream'[Len(stream) + 1].sym = "head"
  BY <1>3, <1>6, <1>8, <1>10
<1>12. ASSUME NEW j \in 1..n
       PROVE  /\ stream'[Len(stream) + 1 + j].req = Begun + 1
              /\ stream'[Len(stream) + 1 + j].sym = b[j]
  <2>1. j + 1 \in 1..(n + 1) /\ Len(stream) + 1 + j = Len(stream) + (j + 1)
    BY <1>3, <1>9
  <2>2. stream'[Len(stream) + 1 + j] = syms[j + 1]
    BY <1>10, <2>1
  <2>3. syms[j + 1].req = Begun + 1 /\ syms[j + 1].sym = new[j + 1]
    BY <1>8, <2>1
  <2> QED BY <1>5, <1>6, <2>2, <2>3
<1>13. client'.heads = Append(client.heads, h) /\ client'.todo = rest /\ client' \in Client
  <2>1. client' = [heads |-> Append(client.heads, h), todo |-> rest]
    BY <1>1 DEF rest
  <2>2. Append(client.heads, h) \in Seq(Heads)
    BY ClientFields DEF ConnTypeOK
  <2> QED BY <1>4, <2>1, <2>2 DEF Client
<1> QED BY <1>2, <1>3, <1>4, <1>10, <1>11, <1>12, <1>13

\* The rest of the last body, that ClientContinues sends.
LEMMA ClientContinuesSends ==
    ASSUME ConnTypeOK, Tagged, Spelled, ClientContinues
    PROVE  /\ Begun \in 1..MaxRequests
           /\ client' \in Client /\ client'.heads = client.heads /\ client'.todo = <<>>
           /\ stream' \in Seq(Item) /\ Len(stream') = Len(stream) + Len(client.todo)
           /\ \A k \in 1..Len(stream) : stream'[k] = stream[k]
           /\ \A j \in 1..Len(client.todo) :
                 /\ stream'[Len(stream) + j].req = Begun
                 /\ stream'[Len(stream) + j].sym = client.todo[j]
<1>1. /\ client.heads \in Seq(Heads) /\ client.todo \in Seq(BodySymbols)
      /\ stream \in Seq(Item) /\ Len(client.heads) <= MaxRequests /\ client \in Client
  BY ClientFields DEF ConnTypeOK
<1>2. Begun \in 1..MaxRequests
  BY <1>1, ConnLoopAssumption DEF ClientContinues, Spelled, Begun, ConnLoopAssumption
<1>3. client' \in Client /\ client'.heads = client.heads /\ client'.todo = <<>>
  <2>1. client' = [client EXCEPT !.todo = <<>>] /\ <<>> \in Seq(BodySymbols)
    BY DEF ClientContinues
  <2> QED BY <1>1, <2>1 DEF Client
<1> DEFINE syms == Symbols(Begun, client.todo)
<1>4. client.todo \in Seq({"head"} \cup BodySymbols)
  BY <1>1
<1>5. /\ syms \in Seq(Item) /\ Len(syms) = Len(client.todo)
      /\ \A j \in 1..Len(client.todo) : syms[j].req = Begun /\ syms[j].sym = client.todo[j]
  BY <1>2, <1>4, SymbolsSeq
<1>6. stream' = stream \o syms
  BY DEF ClientContinues
<1> HIDE DEF syms
<1>7. /\ stream' \in Seq(Item) /\ Len(stream') = Len(stream) + Len(syms)
      /\ \A k \in 1..Len(stream) : stream'[k] = stream[k]
      /\ \A j \in 1..Len(syms) : stream'[Len(stream) + j] = syms[j]
  <2> DEFINE t == stream \o syms
  <2>1. /\ t \in Seq(Item) /\ Len(t) = Len(stream) + Len(syms)
        /\ \A k \in 1..Len(stream) : t[k] = stream[k]
        /\ \A j \in 1..Len(syms) : t[Len(stream) + j] = syms[j]
    <3>1. stream \in Seq(Item) /\ syms \in Seq(Item)
      BY <1>1, <1>5
    <3> QED BY <3>1
  <2>2. stream' = t
    BY <1>6
  <2> HIDE DEF t
  <2> QED BY <2>1, <2>2
<1>8. /\ Len(stream') = Len(stream) + Len(client.todo)
      /\ \A j \in 1..Len(client.todo) :
            /\ stream'[Len(stream) + j].req = Begun
            /\ stream'[Len(stream) + j].sym = client.todo[j]
  BY <1>5, <1>7
<1> QED BY <1>2, <1>3, <1>7, <1>8

\* A body that was sent ends before the symbols that follow it.
LEMMA SpelledEnds ==
    ASSUME ConnTypeOK, Tagged, NEW k \in DOMAIN stream, NEW b \in Seq(BodySymbols),
           Spells(k, b), Tag(k) # Begun \/ client.todo = <<>>
    PROVE  k + Len(b) <= Len(stream)
<1>1. /\ stream \in Seq(Item) /\ Len(stream) \in Nat /\ k \in 1..Len(stream)
      /\ Len(b) \in Nat /\ Begun \in Nat
  BY ClientFields DEF ConnTypeOK, Begun
<1>2. Tag(k) \in 1..Begun
  BY HeadOf
<1>3. CASE Tag(k) = Begun
  BY <1>1, <1>3 DEF Spells
<1>4. CASE Tag(k) # Begun
  <2>1. Tag(k) < Begun /\ Tag(Len(stream)) = Begun /\ Len(stream) \in DOMAIN stream
    BY <1>1, <1>2, <1>4 DEF Tagged
  <2>2. ~(Len(stream) <= k + Len(b))
    BY <1>1, <1>2, <2>1 DEF Spells
  <2> QED BY <1>1, <2>2
<1> QED BY <1>3, <1>4

\* ClientBegins.
LEMMA BeginsKept ==
    ASSUME ConnTypeOK, Tagged, Spelled, NEW h \in Heads, ClientBegins(h)
    PROVE  /\ Tagged' /\ Spelled' /\ ConnTypeOK' /\ Begun' = Begun + 1
           /\ client'.heads = Append(client.heads, h)
           /\ Len(stream') > Len(stream)
           /\ \A k \in 1..Len(stream) : stream'[k] = stream[k]
           /\ \A k \in 1..Len(stream') : k > Len(stream) => stream'[k].req = Begun + 1
           /\ \A k \in DOMAIN stream, b \in Seq(BodySymbols) :
                 Spells(k, b) => Spells(k, b)'
<1>1. PICK b \in Bodies(h) : \E n \in 0..Len(b) :
              /\ b \in Seq(BodySymbols)
              /\ client' \in Client /\ client'.heads = Append(client.heads, h)
              /\ client'.todo \in Seq(BodySymbols) /\ Len(client'.todo) = Len(b) - n
              /\ \A j \in 1..Len(client'.todo) : client'.todo[j] = b[n + j]
              /\ stream' \in Seq(Item) /\ Len(stream') = Len(stream) + 1 + n
              /\ \A k \in 1..Len(stream) : stream'[k] = stream[k]
              /\ stream'[Len(stream) + 1].req = Begun + 1
              /\ stream'[Len(stream) + 1].sym = "head"
              /\ \A j \in 1..n : /\ stream'[Len(stream) + 1 + j].req = Begun + 1
                                 /\ stream'[Len(stream) + 1 + j].sym = b[j]
  BY ClientBeginsSends
<1>2. PICK n \in 0..Len(b) :
              /\ b \in Seq(BodySymbols)
              /\ client' \in Client /\ client'.heads = Append(client.heads, h)
              /\ client'.todo \in Seq(BodySymbols) /\ Len(client'.todo) = Len(b) - n
              /\ \A j \in 1..Len(client'.todo) : client'.todo[j] = b[n + j]
              /\ stream' \in Seq(Item) /\ Len(stream') = Len(stream) + 1 + n
              /\ \A k \in 1..Len(stream) : stream'[k] = stream[k]
              /\ stream'[Len(stream) + 1].req = Begun + 1
              /\ stream'[Len(stream) + 1].sym = "head"
              /\ \A j \in 1..n : /\ stream'[Len(stream) + 1 + j].req = Begun + 1
                                 /\ stream'[Len(stream) + 1 + j].sym = b[j]
  BY <1>1
<1> DEFINE L == Len(stream)
           N == Len(stream')
<1>3. /\ L \in Nat /\ N \in Nat /\ n \in Nat /\ N = L + 1 + n
      /\ DOMAIN stream = 1..L /\ DOMAIN stream' = 1..N /\ Len(b) \in Nat
      /\ client.heads \in Seq(Heads) /\ Begun \in Nat /\ Begun < MaxRequests
      /\ client.todo = <<>> /\ req' = req /\ req.n \in Nat /\ MaxRequests \in Nat
  <2>1. stream \in Seq(Item) /\ client.heads \in Seq(Heads) /\ req.n \in 0..MaxRequests
    BY ClientFields, CurrentFields DEF ConnTypeOK
  <2>2. client.todo = <<>> /\ req' = req /\ Begun < MaxRequests /\ MaxRequests \in Nat
    BY ConnLoopAssumption DEF ClientBegins, srvVars, ConnLoopAssumption
  <2> QED BY <1>2, <2>1, <2>2 DEF Begun
<1>4. Begun' = Begun + 1
  BY <1>2, <1>3 DEF Begun
<1>5. \A k \in 1..L : stream'[k] = stream[k]
  BY <1>2
<1>6. ASSUME NEW k \in 1..N, k > L
      PROVE  stream'[k].req = Begun + 1 /\ (stream'[k].sym = "head" <=> k = L + 1)
  <2>1. CASE k = L + 1
    BY <1>2, <2>1
  <2>2. CASE k # L + 1
    <3>1. k - (L + 1) \in 1..n /\ k = L + 1 + (k - (L + 1))
      BY <1>3, <1>6, <2>2
    <3>2. stream'[k].req = Begun + 1 /\ stream'[k].sym = b[k - (L + 1)]
      BY <1>2, <3>1
    <3>3. b[k - (L + 1)] \in BodySymbols
      BY <1>2, <1>3, <3>1
    <3> QED BY <2>2, <3>2, <3>3 DEF BodySymbols
  <2> QED BY <2>1, <2>2
<1>7. \A k \in 1..L : stream[k].req \in 1..Begun
  BY <1>3, HeadOf DEF Tag
<1> HIDE DEF N
<1>8. Tagged'
  <2>1. req'.n <= Begun'
    BY <1>3, <1>4 DEF Tagged
  <2>2. stream' # <<>> /\ stream'[N].req = Begun'
    BY <1>2, <1>3, <1>4, <1>6 DEF N
  <2>3. \A k \in 1..N : stream'[k].req <= Begun'
    <3> SUFFICES ASSUME NEW k \in 1..N PROVE stream'[k].req <= Begun'
      OBVIOUS
    <3>1. CASE k <= L
      <4>1. k \in 1..L
        BY <1>3, <3>1
      <4>2. stream'[k] = stream[k] /\ stream[k].req \in 1..Begun
        BY <1>5, <1>7, <4>1
      <4> QED BY <1>3, <1>4, <4>2
    <3>2. CASE ~(k <= L)
      BY <1>3, <1>4, <1>6, <3>2
    <3> QED BY <3>1, <3>2
  <2>4. ASSUME NEW j \in 1..N, NEW k \in 1..N, j <= k PROVE stream'[j].req <= stream'[k].req
    <3>1. CASE k <= L
      <4>1. j \in 1..L /\ k \in 1..L
        BY <1>3, <2>4, <3>1
      <4>2. stream[j].req <= stream[k].req
        BY <1>3, <2>4, <4>1 DEF Tagged, Tag
      <4> QED BY <1>5, <4>1, <4>2
    <3>2. CASE ~(k <= L)
      <4>1. stream'[k].req = Begun'
        BY <1>3, <1>4, <1>6, <3>2
      <4> QED BY <2>3, <4>1
    <3> QED BY <3>1, <3>2
  <2>5. ASSUME NEW k \in 1..N
        PROVE  stream'[k].sym = "head" <=>
                 \A j \in 1..N : j < k => stream'[j].req < stream'[k].req
    <3>1. CASE k <= L
      <4>1. k \in 1..L /\ \A j \in 1..N : j < k => j \in 1..L
        BY <1>3, <3>1
      <4>2. stream[k].sym = "head" <=> \A j \in 1..L : j < k => stream[j].req < stream[k].req
        BY <1>3, <4>1 DEF Tagged, Tag, IsHead
      <4> QED BY <1>3, <1>5, <4>1, <4>2
    <3>2. CASE k = L + 1
      <4>1. stream'[k].sym = "head" /\ stream'[k].req = Begun + 1
        BY <1>3, <1>6, <3>2
      <4>2. \A j \in 1..N : j < k => stream'[j].req \in 1..Begun
        BY <1>3, <1>5, <1>7, <3>2
      <4> QED BY <1>3, <4>1, <4>2
    <3>3. CASE k > L + 1
      <4>1. stream'[k].sym # "head" /\ stream'[k].req = Begun + 1
        BY <1>3, <1>6, <3>3
      <4>2. L + 1 \in 1..N /\ L + 1 < k /\ stream'[L + 1].req = Begun + 1
        BY <1>3, <1>6, <3>3
      <4> QED BY <1>3, <4>1, <4>2
    <3> QED BY <1>3, <3>1, <3>2, <3>3
  <2> QED BY <1>3, <1>4, <2>1, <2>2, <2>3, <2>4, <2>5 DEF Tagged, Tag, IsHead, N
<1>9. ASSUME NEW k \in DOMAIN stream, NEW c \in Seq(BodySymbols), Spells(k, c)
      PROVE  Spells(k, c)'
  <2>1. k + Len(c) <= L /\ k \in 1..L /\ Len(c) \in Nat /\ Tag(k) \in 1..Begun
    BY <1>3, <1>9, SpelledEnds, HeadOf
  <2>2. stream'[k].req = Tag(k)
    BY <1>5, <2>1 DEF Tag
  <2>3. ASSUME NEW j \in 1..N PROVE j <= k + Len(c) <=> stream'[j].req <= stream'[k].req
    <3>1. CASE j <= L
      <4>1. j \in DOMAIN stream /\ stream'[j] = stream[j]
        BY <1>3, <1>5, <3>1
      <4>2. j <= k + Len(c) <=> Tag(j) <= Tag(k)
        BY <1>9, <4>1 DEF Spells
      <4> QED BY <2>2, <4>1, <4>2 DEF Tag
    <3>2. CASE ~(j <= L)
      <4>1. stream'[j].req = Begun + 1
        BY <1>3, <1>6, <3>2
      <4> QED BY <1>3, <2>1, <2>2, <3>2, <4>1
    <3> QED BY <3>1, <3>2
  <2>4. ASSUME NEW j \in DOMAIN c, k + j <= N PROVE stream'[k + j].sym = c[j]
    <3>1. k + j \in 1..L
      BY <1>3, <2>1
    <3> QED BY <1>3, <1>5, <1>9, <3>1 DEF Spells
  <2>5. stream'[k].req # Begun'
    BY <1>3, <1>4, <2>1, <2>2
  <2> QED BY <1>3, <2>3, <2>4, <2>5 DEF Spells, Tag, N
<1>10. Spelled'
  <2>1. Begun' # 0
    BY <1>3, <1>4
  <2>2. ASSUME NEW k \in 1..N, stream'[k].sym = "head"
        PROVE  \E c \in Bodies(client'.heads[stream'[k].req]) : Spells(k, c)'
    <3>1. CASE k <= L
      <4>1. k \in DOMAIN stream /\ IsHead(k) /\ stream'[k].req = Tag(k)
        BY <1>3, <1>5, <2>2, <3>1 DEF IsHead, Tag
      <4>2. client'.heads[Tag(k)] = client.heads[Tag(k)] /\ client.heads[Tag(k)] \in Heads
        <5>1. Tag(k) \in 1..Len(client.heads) /\ client.heads[Tag(k)] \in Heads
          BY <4>1, HeadOf DEF Begun
        <5> QED BY <1>2, <1>3, <5>1
      <4>3. PICK c \in Bodies(client.heads[Tag(k)]) : Spells(k, c)
        BY <4>1 DEF Spelled
      <4>4. c \in Seq(BodySymbols)
        BY <4>2, BodiesSeq
      <4>5. Spells(k, c)'
        BY <1>9, <4>1, <4>3, <4>4
      <4> QED BY <4>1, <4>2, <4>3, <4>5
    <3>2. CASE ~(k <= L)
      <4>1. k = L + 1 /\ stream'[k].req = Begun + 1
        BY <1>3, <1>6, <2>2, <3>2
      <4>2. client'.heads[Begun + 1] = h
        BY <1>2, <1>3 DEF Begun
      <4>3. ASSUME NEW j \in 1..N PROVE j <= k + Len(b) <=> stream'[j].req <= stream'[k].req
        <5>1. CASE j <= L
          <6>1. stream'[j].req \in 1..Begun
            BY <1>3, <1>5, <1>7, <5>1
          <6> QED BY <1>3, <4>1, <5>1, <6>1
        <5>2. CASE ~(j <= L)
          <6>1. stream'[j].req = Begun + 1
            BY <1>3, <1>6, <5>2
          <6> QED BY <1>3, <4>1, <6>1
        <5> QED BY <5>1, <5>2
      <4>4. ASSUME NEW j \in DOMAIN b, k + j <= N PROVE stream'[k + j].sym = b[j]
        <5>1. j \in 1..n
          BY <1>2, <1>3, <4>1, <4>4
        <5> QED BY <1>2, <4>1, <5>1
      <4>5. N + Len(client'.todo) = k + Len(b)
        BY <1>2, <1>3, <4>1
      <4>6. \A j \in DOMAIN client'.todo : client'.todo[j] = b[N - k + j]
        <5>1. \A j \in 1..Len(client'.todo) : N - k + j = n + j
          BY <1>3, <4>1
        <5>2. DOMAIN client'.todo = 1..Len(client'.todo)
          BY <1>2
        <5>3. \A j \in 1..Len(client'.todo) : client'.todo[j] = b[n + j]
          BY <1>2
        <5> QED BY <5>1, <5>2, <5>3
      <4>7. Spells(k, b)'
        BY <1>3, <4>3, <4>4, <4>5, <4>6 DEF Spells, Tag, N
      <4> QED BY <4>1, <4>2, <4>7
    <3> QED BY <3>1, <3>2
  <2> QED BY <1>3, <2>1, <2>2 DEF Spelled, IsHead, Tag
<1>11. ConnTypeOK'
  <2>1. Len(client'.heads) <= MaxRequests
    BY <1>3, <1>4 DEF Begun
  <2>2. L <= N
    BY <1>3
  <2>3. /\ buf.hi \in Nat /\ buf.pfx \in Nat /\ buf.hi <= L /\ buf.pfx <= L
    BY BufferFields DEF ConnTypeOK
  <2>4. buf.hi <= N /\ buf.pfx <= N
    BY <1>3, <2>2, <2>3
  <2>5. UNCHANGED <<speaks, buf, pc, req, body, res, held, live, up, open, replies>>
    BY DEF ClientBegins, srvVars
  <2> QED BY <1>2, <2>1, <2>4, <2>5 DEF ConnTypeOK, N
<1>12. N > L /\ \A k \in 1..N : k > L => stream'[k].req = Begun + 1
  BY <1>3, <1>6
<1> QED BY <1>2, <1>4, <1>5, <1>8, <1>9, <1>10, <1>11, <1>12 DEF N

\* ClientContinues.
LEMMA ContinuesKept ==
    ASSUME ConnTypeOK, Tagged, Spelled, ClientContinues
    PROVE  /\ Tagged' /\ Spelled' /\ ConnTypeOK' /\ Begun' = Begun
           /\ client'.heads = client.heads
           /\ Len(stream') >= Len(stream)
           /\ \A k \in 1..Len(stream) : stream'[k] = stream[k]
           /\ \A k \in 1..Len(stream') : k > Len(stream) => stream'[k].req = Begun
           /\ \A k \in DOMAIN stream, b \in Seq(BodySymbols) :
                 Spells(k, b) => Spells(k, b)'
<1> DEFINE L == Len(stream)
           N == Len(stream')
           m == Len(client.todo)
<1>1. /\ Begun \in 1..MaxRequests
      /\ client' \in Client /\ client'.heads = client.heads /\ client'.todo = <<>>
      /\ stream' \in Seq(Item) /\ N = L + m
      /\ \A k \in 1..L : stream'[k] = stream[k]
      /\ \A j \in 1..m : stream'[L + j].req = Begun /\ stream'[L + j].sym = client.todo[j]
  BY ClientContinuesSends
<1>2. stream \in Seq(Item) /\ client.todo \in Seq(BodySymbols) /\ MaxRequests \in Nat
  BY ClientFields, ConnLoopAssumption DEF ConnTypeOK, ConnLoopAssumption
<1>3. /\ L \in Nat /\ m \in Nat /\ N \in Nat /\ Begun \in Nat /\ Begun > 0
      /\ DOMAIN stream = 1..L /\ DOMAIN stream' = 1..N
      /\ DOMAIN client.todo = 1..m
  BY <1>1, <1>2
<1>4. Begun' = Begun
  BY <1>1 DEF Begun
<1>5. \A k \in 1..L : stream'[k] = stream[k]
  BY <1>1
<1>6. L \in 1..L /\ stream[L].req = Begun
  BY <1>2, <1>3 DEF Tagged, Tag
<1>7. ASSUME NEW k \in 1..N, k > L
      PROVE  /\ stream'[k].req = Begun /\ stream'[k].sym # "head"
             /\ k - L \in 1..m /\ stream'[k].sym = client.todo[k - L]
  <2>1. k - L \in 1..m /\ k = L + (k - L)
    BY <1>1, <1>3, <1>7
  <2>2. stream'[k].req = Begun /\ stream'[k].sym = client.todo[k - L]
    BY <1>1, <2>1
  <2>3. client.todo[k - L] \in BodySymbols
    BY <1>2, <2>1
  <2> QED BY <2>1, <2>2, <2>3 DEF BodySymbols
<1>8. \A k \in 1..L : stream[k].req \in 1..Begun
  BY <1>3, HeadOf DEF Tag
<1>9. N = L + m
  BY <1>1
<1> HIDE DEF N, m
<1>10. Tagged'
  <2>1. req'.n <= Begun'
    BY <1>4 DEF Tagged, ClientContinues, srvVars
  <2>2. stream' # <<>> /\ stream'[N].req = Begun'
    <3>1. CASE N = L
      BY <1>1, <1>4, <1>5, <1>6, <3>1 DEF N
    <3>2. CASE N # L
      <4>0. L \in Nat /\ m \in Nat /\ N = L + m
        BY <1>3, <1>9
      <4> HIDE DEF L
      <4>1. N \in 1..N /\ N > L
        BY <3>2, <4>0
      <4>2. stream'[N].req = Begun
        BY <1>7, <4>1
      <4>3. stream' # <<>>
        BY <1>3, <4>1 DEF N
      <4> QED BY <1>4, <4>2, <4>3
    <3> QED BY <3>1, <3>2
  <2>3. \A k \in 1..N : stream'[k].req <= Begun'
    BY <1>3, <1>4, <1>5, <1>7, <1>8
  <2>4. ASSUME NEW j \in 1..N, NEW k \in 1..N, j <= k PROVE stream'[j].req <= stream'[k].req
    <3>1. CASE k <= L
      <4>1. j \in 1..L /\ k \in 1..L
        BY <1>3, <2>4, <3>1
      <4>2. stream[j].req <= stream[k].req
        BY <1>3, <2>4, <4>1 DEF Tagged, Tag
      <4> QED BY <1>5, <4>1, <4>2
    <3>2. CASE ~(k <= L)
      <4>1. stream'[k].req = Begun'
        BY <1>3, <1>4, <1>7, <3>2
      <4> QED BY <2>3, <4>1
    <3> QED BY <3>1, <3>2
  <2>5. ASSUME NEW k \in 1..N
        PROVE  stream'[k].sym = "head" <=>
                 \A j \in 1..N : j < k => stream'[j].req < stream'[k].req
    <3>1. CASE k <= L
      <4>1. k \in 1..L /\ (\A j \in 1..N : j < k => j \in 1..L) /\ \A j \in 1..L : j \in 1..N
        BY <1>3, <1>9, <3>1
      <4>2. stream[k].sym = "head" <=> \A j \in 1..L : j < k => stream[j].req < stream[k].req
        BY <1>3, <4>1 DEF Tagged, Tag, IsHead
      <4> QED BY <1>3, <1>5, <4>1, <4>2
    <3>2. CASE ~(k <= L)
      <4>1. stream'[k].sym # "head" /\ stream'[k].req = Begun
        BY <1>3, <1>7, <3>2
      <4>2. L \in 1..N /\ L < k /\ stream'[L].req = Begun
        BY <1>3, <1>5, <1>6, <1>9, <3>2
      <4> QED BY <1>3, <4>1, <4>2
    <3> QED BY <3>1, <3>2
  <2> QED BY <1>3, <2>1, <2>2, <2>3, <2>4, <2>5 DEF Tagged, Tag, IsHead, N
<1>11. ASSUME NEW k \in DOMAIN stream, NEW c \in Seq(BodySymbols), Spells(k, c)
      PROVE  Spells(k, c)'
  <2>1. k \in 1..L /\ Len(c) \in Nat /\ DOMAIN c = 1..Len(c) /\ Tag(k) \in 1..Begun
    BY <1>3, HeadOf
  <2>2. stream'[k].req = Tag(k)
    BY <1>5, <2>1 DEF Tag
  <2>3. CASE Tag(k) # Begun
    <3>1. k + Len(c) <= L
      BY <1>11, <2>3, SpelledEnds
    <3>2. ASSUME NEW j \in 1..N PROVE j <= k + Len(c) <=> stream'[j].req <= stream'[k].req
      <4>1. CASE j <= L
        <5>1. j \in DOMAIN stream /\ stream'[j] = stream[j]
          BY <1>3, <1>5, <4>1
        <5>2. j <= k + Len(c) <=> Tag(j) <= Tag(k)
          BY <1>11, <5>1 DEF Spells
        <5> QED BY <2>2, <5>1, <5>2 DEF Tag
      <4>2. CASE ~(j <= L)
        <5>1. stream'[j].req = Begun
          BY <1>3, <1>7, <4>2
        <5> QED BY <1>3, <2>1, <2>2, <2>3, <3>1, <4>2, <5>1
      <4> QED BY <4>1, <4>2
    <3>3. ASSUME NEW j \in DOMAIN c, k + j <= N PROVE stream'[k + j].sym = c[j]
      <4>1. k + j \in 1..L
        BY <1>3, <2>1, <3>1
      <4> QED BY <1>3, <1>5, <1>11, <4>1 DEF Spells
    <3> QED BY <1>3, <1>4, <2>2, <2>3, <3>2, <3>3 DEF Spells, Tag, N
  <2>4. CASE Tag(k) = Begun
    <3>1. L + m = k + Len(c) /\ \A j \in 1..m : client.todo[j] = c[L - k + j]
      BY <1>3, <1>11, <2>4 DEF Spells, m
    <3>2. ASSUME NEW j \in 1..N PROVE j <= k + Len(c) <=> stream'[j].req <= stream'[k].req
      <4>1. j <= k + Len(c)
        BY <1>3, <1>9, <2>1, <3>1
      <4>2. stream'[j].req <= Begun
        BY <1>3, <1>5, <1>7, <1>8
      <4> QED BY <2>2, <2>4, <4>1, <4>2
    <3>3. ASSUME NEW j \in DOMAIN c, k + j <= N PROVE stream'[k + j].sym = c[j]
      <4>1. CASE k + j <= L
        <5>1. k + j \in 1..L
          BY <1>3, <2>1, <4>1
        <5> QED BY <1>3, <1>5, <1>11, <5>1 DEF Spells
      <4>2. CASE ~(k + j <= L)
        <5>1. k + j \in 1..N /\ k + j > L /\ L - k + (k + j - L) = j
          BY <1>3, <2>1, <3>3, <4>2
        <5>2. k + j - L \in 1..m /\ stream'[k + j].sym = client.todo[k + j - L]
          BY <1>7, <5>1
        <5>3. client.todo[k + j - L] = c[L - k + (k + j - L)]
          BY <3>1, <5>2
        <5> QED BY <5>1, <5>2, <5>3
      <4> QED BY <4>1, <4>2
    <3>4. N + Len(client'.todo) = k + Len(c)
      BY <1>1, <1>3, <1>9, <3>1
    <3>5. DOMAIN client'.todo = {}
      BY <1>1
    <3> QED BY <1>3, <3>2, <3>3, <3>4, <3>5 DEF Spells, Tag, N
  <2> QED BY <2>3, <2>4
<1>12. Spelled'
  <2>1. ASSUME NEW k \in 1..N, stream'[k].sym = "head"
        PROVE  \E c \in Bodies(client'.heads[stream'[k].req]) : Spells(k, c)'
    <3>1. k \in 1..L
      BY <1>3, <1>7, <2>1
    <3>2. k \in DOMAIN stream /\ IsHead(k) /\ stream'[k].req = Tag(k)
      BY <1>3, <1>5, <2>1, <3>1 DEF IsHead, Tag
    <3>3. client.heads[Tag(k)] \in Heads
      BY <3>2, HeadOf
    <3>4. PICK c \in Bodies(client.heads[Tag(k)]) : Spells(k, c)
      BY <3>2 DEF Spelled
    <3>5. c \in Seq(BodySymbols)
      BY <3>3, BodiesSeq
    <3>6. Spells(k, c)'
      BY <1>11, <3>2, <3>4, <3>5
    <3> QED BY <1>1, <3>2, <3>4, <3>6
  <2> QED BY <1>1, <1>3, <2>1 DEF Spelled, IsHead, Tag
<1>13. ConnTypeOK'
  <2>1. buf.hi \in Nat /\ buf.pfx \in Nat /\ buf.hi <= L /\ buf.pfx <= L
    BY BufferFields DEF ConnTypeOK
  <2>2. buf.hi <= N /\ buf.pfx <= N
    BY <1>3, <1>9, <2>1
  <2>3. UNCHANGED <<speaks, buf, pc, req, body, res, held, live, up, open, replies>>
    BY DEF ClientContinues, srvVars
  <2> QED BY <1>1, <2>2, <2>3 DEF ConnTypeOK, N
<1>14. N >= L /\ \A k \in 1..N : k > L => stream'[k].req = Begun
  BY <1>3, <1>7, <1>9
<1> QED BY <1>1, <1>4, <1>5, <1>10, <1>11, <1>12, <1>13, <1>14 DEF N
-----------------------------------------------------------------------------
(* Where the loop stands in what the client has sent.                      *)

LEMMA SpellsSame ==
    ASSUME client' = client, stream' = stream, NEW k, NEW b
    PROVE  Spells(k, b)' <=> Spells(k, b)
BY DEF Spells, Tag, Begun

LEMMA PoliteKept ==
    ASSUME Polite, client' = client, req'.n \in Nat, req.n \in Nat, req'.n >= req.n,
           client.heads \in Seq(Heads)
    PROVE  Polite'
BY DEF Polite, Begun

\* A position is kept by a step that reads nothing.
LEMMA PositionedKept ==
    ASSUME Positioned, client' = client, stream' = stream, buf' = buf, req' = req,
           body' = body, pc' # "admit"
    PROVE  Positioned'
<1>1. PICK k \in DOMAIN stream :
         /\ IsHead(k) /\ Tag(k) = req.n
         /\ AtLength(k) \/ \E b \in ChunkedBodies : AtChunk(k, b)
  BY DEF Positioned
<1>2. AtLength(k) => AtLength(k)'
  BY SpellsSame DEF AtLength
<1>3. ASSUME NEW b \in ChunkedBodies, AtChunk(k, b) PROVE AtChunk(k, b)'
  BY <1>3, SpellsSame DEF AtChunk, Begun
<1> QED BY <1>1, <1>2, <1>3 DEF Positioned, IsHead, Tag

LEMMA PlacedStays ==
    ASSUME Placed, ConnTypeOK, client' = client, stream' = stream, buf' = buf, req' = req,
           body' = body, open' => open,
           pc' \in {"detect", "top", "parse"} => pc \in {"detect", "top", "parse"},
           pc' \in Busy => pc \in Busy /\ pc' # "admit"
    PROVE  Placed'
<1> SUFFICES ASSUME open' PROVE Placed'
  BY DEF Placed
<1>1. Polite'
  BY PoliteKept, ClientFields, CurrentFields DEF Placed, ConnTypeOK
<1>2. pc' \in {"detect", "top", "parse"} => InSync'
  BY DEF Placed, InSync, Tag, Begun
<1>3. pc' \in Busy => Positioned'
  BY PositionedKept DEF Placed
<1> QED BY <1>1, <1>2, <1>3 DEF Placed

\* ClientBegins: nothing is sent behind a chunked body that is not yet read.
LEMMA PlacedBegins ==
    ASSUME ConnTypeOK, Tagged, Spelled, Placed, NEW h \in Heads, ClientBegins(h),
           ~EagerAfterChunked
    PROVE  Placed'
<1> SUFFICES ASSUME open' PROVE Placed'
  BY DEF Placed
<1>1. /\ Begun' = Begun + 1 /\ client'.heads = Append(client.heads, h)
      /\ Len(stream') > Len(stream)
      /\ \A k \in 1..Len(stream) : stream'[k] = stream[k]
      /\ \A k \in 1..Len(stream') : k > Len(stream) => stream'[k].req = Begun + 1
      /\ \A k \in DOMAIN stream, b \in Seq(BodySymbols) : Spells(k, b) => Spells(k, b)'
      /\ ConnTypeOK'
  BY BeginsKept
<1>2. /\ open /\ buf' = buf /\ pc' = pc /\ req' = req /\ body' = body
      /\ MaySendNext
  BY DEF ClientBegins, srvVars
<1>3. /\ stream \in Seq(Item) /\ stream' \in Seq(Item) /\ client.heads \in Seq(Heads)
      /\ Begun \in Nat /\ req.n \in Nat /\ buf.lo \in Nat /\ buf.lo <= Len(stream)
      /\ req.n <= Begun /\ Len(stream) \in Nat /\ Len(stream') \in Nat
      /\ DOMAIN stream = 1..Len(stream) /\ DOMAIN stream' = 1..Len(stream')
  <2>1. stream' \in Seq(Item)
    BY <1>1 DEF ConnTypeOK
  <2>2. /\ stream \in Seq(Item) /\ client.heads \in Seq(Heads) /\ req.n \in 0..MaxRequests
        /\ buf.lo \in Nat /\ buf.lo <= buf.hi /\ buf.hi \in Nat /\ buf.hi <= Len(stream)
    BY ClientFields, CurrentFields, BufferFields DEF ConnTypeOK
  <2> QED BY <2>1, <2>2 DEF Begun, Tagged
<1>4. Polite'
  <2>1. ASSUME NEW n \in DOMAIN client'.heads, n < Begun', client'.heads[n].te # <<>>
        PROVE  req.n >= n
    <3>1. n \in DOMAIN client.heads /\ n \in Nat /\ n <= Begun /\ client'.heads[n] = client.heads[n]
      BY <1>1, <1>3, <2>1 DEF Begun
    <3>2. CASE n = Begun
      BY <1>2, <1>3, <2>1, <3>1, <3>2 DEF MaySendNext, SentChunked
    <3>3. CASE n # Begun
      BY <1>2, <1>3, <2>1, <3>1, <3>3 DEF Placed, Polite
    <3> QED BY <3>2, <3>3
  <2> QED BY <1>2, <2>1 DEF Polite
<1>5. ASSUME pc \in {"detect", "top", "parse"} PROVE InSync'
  <2>1. InSync
    BY <1>2, <1>5 DEF Placed
  <2>2. ASSUME NEW k \in 1..Len(stream') PROVE k <= buf.lo <=> stream'[k].req <= req.n
    <3>1. CASE k <= Len(stream)
      BY <1>1, <1>3, <2>1, <3>1 DEF InSync, Tag
    <3>2. CASE ~(k <= Len(stream))
      <4>1. stream'[k].req = Begun + 1
        BY <1>1, <1>3, <3>2
      <4> QED BY <1>3, <3>2, <4>1
    <3> QED BY <3>1, <3>2
  <2>3. req.n # Begun'
    BY <1>1, <1>3
  <2> QED BY <1>2, <1>3, <2>2, <2>3 DEF InSync, Tag
<1>6. ASSUME pc \in Busy PROVE Positioned'
  <2>1. PICK k \in DOMAIN stream :
           /\ IsHead(k) /\ Tag(k) = req.n
           /\ AtLength(k) \/ \E b \in ChunkedBodies : AtChunk(k, b)
    BY <1>2, <1>6 DEF Placed, Positioned
  <2>2. k \in DOMAIN stream' /\ stream'[k] = stream[k] /\ Tag(k) \in 1..Begun
    BY <1>1, <1>3, HeadOf
  <2>3. ASSUME NEW b \in ChunkedBodies, AtChunk(k, b) PROVE FALSE
    BY <1>2, <1>3, <1>6, <2>1, <2>2, <2>3 DEF AtChunk, MaySendNext, SentChunked, Busy
  <2>4. AtLength(k)
    BY <2>1, <2>3
  <2>5. req.length \in Nat
    BY <2>4, CurrentFields DEF AtLength, ConnTypeOK
  <2>6. AtLength(k)'
    BY <1>1, <1>2, <2>4, <2>5, DataSymbolsSeq DEF AtLength
  <2> QED BY <1>2, <2>1, <2>2, <2>6 DEF Positioned, IsHead, Tag
<1> QED BY <1>2, <1>4, <1>5, <1>6 DEF Placed

\* ClientContinues: the loop does not wait for a head while a body is missing.
LEMMA PlacedContinues ==
    ASSUME ConnTypeOK, Tagged, Spelled, Placed, ClientContinues
    PROVE  Placed'
<1> SUFFICES ASSUME open' PROVE Placed'
  BY DEF Placed
<1>1. /\ Begun' = Begun /\ client'.heads = client.heads
      /\ Len(stream') >= Len(stream)
      /\ \A k \in 1..Len(stream) : stream'[k] = stream[k]
      /\ \A k \in 1..Len(stream') : k > Len(stream) => stream'[k].req = Begun
      /\ \A k \in DOMAIN stream, b \in Seq(BodySymbols) : Spells(k, b) => Spells(k, b)'
      /\ ConnTypeOK'
  BY ContinuesKept
<1>2. open /\ buf' = buf /\ pc' = pc /\ req' = req /\ body' = body /\ client.todo # <<>>
  BY DEF ClientContinues, srvVars
<1>3. /\ Begun \in Nat /\ req.n \in Nat /\ buf.lo \in Nat /\ buf.lo <= Len(stream)
      /\ req.n <= Begun /\ Len(stream) \in Nat /\ Len(stream') \in Nat
      /\ DOMAIN stream = 1..Len(stream) /\ DOMAIN stream' = 1..Len(stream')
  <2>1. stream' \in Seq(Item)
    BY <1>1 DEF ConnTypeOK
  <2>2. /\ stream \in Seq(Item) /\ client.heads \in Seq(Heads) /\ req.n \in 0..MaxRequests
        /\ buf.lo \in Nat /\ buf.lo <= buf.hi /\ buf.hi \in Nat /\ buf.hi <= Len(stream)
    BY ClientFields, CurrentFields, BufferFields DEF ConnTypeOK
  <2> QED BY <2>1, <2>2 DEF Begun, Tagged
<1>4. Polite'
  BY <1>1, <1>2 DEF Placed, Polite
<1>5. ASSUME pc \in {"detect", "top", "parse"} PROVE InSync'
  <2>1. InSync /\ req.n < Begun
    <3>1. InSync
      BY <1>2, <1>5 DEF Placed
    <3> QED BY <1>2, <1>3, <3>1 DEF InSync
  <2>2. ASSUME NEW k \in 1..Len(stream') PROVE k <= buf.lo <=> stream'[k].req <= req.n
    <3>1. CASE k <= Len(stream)
      BY <1>1, <1>3, <2>1, <3>1 DEF InSync, Tag
    <3>2. CASE ~(k <= Len(stream))
      <4>1. stream'[k].req = Begun
        BY <1>1, <1>3, <3>2
      <4> QED BY <1>3, <2>1, <3>2, <4>1
    <3> QED BY <3>1, <3>2
  <2> QED BY <1>1, <1>2, <1>3, <2>1, <2>2 DEF InSync, Tag
<1>6. ASSUME pc \in Busy PROVE Positioned'
  <2>1. PICK k \in DOMAIN stream :
           /\ IsHead(k) /\ Tag(k) = req.n
           /\ AtLength(k) \/ \E b \in ChunkedBodies : AtChunk(k, b)
    BY <1>2, <1>6 DEF Placed, Positioned
  <2>2. k \in DOMAIN stream' /\ stream'[k] = stream[k]
    BY <1>1, <1>3
  <2>3. ASSUME NEW b \in ChunkedBodies, AtChunk(k, b) PROVE AtChunk(k, b)'
    <3>1. b \in Seq(BodySymbols)
      BY ChunkedBodyShape
    <3> QED BY <1>1, <1>2, <2>3, <3>1 DEF AtChunk
  <2>4. ASSUME AtLength(k) PROVE AtLength(k)'
    <3>1. req.length \in Nat
      BY <2>4, CurrentFields DEF AtLength, ConnTypeOK
    <3> QED BY <1>1, <1>2, <2>4, <3>1, DataSymbolsSeq DEF AtLength
  <2> QED BY <1>2, <2>1, <2>2, <2>3, <2>4 DEF Positioned, IsHead, Tag
<1> QED BY <1>2, <1>4, <1>5, <1>6 DEF Placed

\* ParseNext: the first symbol behind the requests parsed so far is the head of
\* the next one, and its length is that of the body that follows.
LEMMA ParsesInSync ==
    ASSUME ConnTypeOK, Tagged, Spelled, Placed, ReaderOf, ParseNext, open
    PROVE  /\ buf.lo + 1 \in DOMAIN stream /\ IsHead(buf.lo + 1)
           /\ req'.n = Tag(buf.lo + 1) /\ req'.n \in 1..Begun /\ req'.n > req.n
           /\ \/ pc' = "refuse"
              \/ /\ pc' = "admit" /\ req'.length = ParseHeader(client.heads[req'.n]).length
                 /\ ParseHeader(client.heads[req'.n]).status = 200
<1> DEFINE p == buf.lo + 1
           h == client.heads[Tag(p)]
<1>1. p \in DOMAIN stream /\ buf.lo \in Nat /\ stream \in Seq(Item)
  BY TakesFromConn, BufferFields DEF ParseNext, ConnTypeOK
<1>2. InSync
  BY DEF Placed, ParseNext
<1>3. req.n \in Nat /\ Tag(p) \in 1..Begun /\ h \in Heads /\ Begun \in Nat
  BY <1>1, HeadOf, CurrentFields, ClientFields DEF ConnTypeOK, Begun
<1>4. ~(p <= buf.lo) /\ Tag(p) > req.n
  BY <1>1, <1>2, <1>3 DEF InSync
<1>5. \A j \in DOMAIN stream : j < p => Tag(j) <= req.n /\ Tag(j) \in Nat
  BY <1>1, <1>2, HeadOf DEF InSync
<1>6. IsHead(p)
  BY <1>1, <1>3, <1>4, <1>5 DEF Tagged
<1>7. ParseHeader(h).status \in Nat
  BY <1>3, ParsedType
<1> DEFINE parsed == ParseHeader(h)
<1>8. /\ req' = [n |-> Tag(p), length |-> parsed.length, close |-> h.close]
      /\ (parsed.status = 200 /\ pc' = "admit") \/ Refusing(parsed.status)
  BY <1>6 DEF ParseNext, IsHead, Tag
<1> HIDE DEF parsed
<1>9. req'.n = Tag(p) /\ req'.length = parsed.length
  BY <1>8
<1>10. pc' = "refuse" \/ (parsed.status = 200 /\ pc' = "admit")
  BY <1>8 DEF Refusing
<1> QED BY <1>1, <1>3, <1>4, <1>6, <1>9, <1>10 DEF parsed

LEMMA PlacedParseNext ==
    ASSUME ConnTypeOK, Tagged, Spelled, Placed, ReaderOf, ParseNext
    PROVE  Placed'
<1> SUFFICES ASSUME open' PROVE Placed'
  BY DEF Placed
<1>1. open /\ client' = client /\ stream' = stream /\ body' = body /\ body = NoBody
  BY DEF ParseNext, ReaderOf
<1>0. PICK p \in Nat : p = buf.lo + 1
  BY BufferFields DEF ConnTypeOK
<1>2. /\ p \in DOMAIN stream /\ IsHead(p)
      /\ req'.n = Tag(p) /\ req'.n \in 1..Begun /\ req'.n > req.n
      /\ \/ pc' = "refuse"
         \/ /\ pc' = "admit" /\ req'.length = ParseHeader(client.heads[req'.n]).length
            /\ ParseHeader(client.heads[req'.n]).status = 200
  BY <1>0, <1>1, ParsesInSync
<1>3. /\ req.n \in Nat /\ req'.n \in Nat /\ client.heads \in Seq(Heads) /\ Begun \in Nat
      /\ p \in Nat
  BY <1>2, CurrentFields, ClientFields, BufferFields DEF ConnTypeOK, Begun
<1>4. Polite'
  BY <1>1, <1>2, <1>3, PoliteKept DEF Placed
<1>5. ASSUME pc' = "admit" PROVE Positioned'
  <2> DEFINE h == client.heads[Tag(p)]
             n == ParseHeader(h).length
  <2>1. h \in Heads /\ ParseHeader(h).status = 200 /\ req'.length = n
    BY <1>2, <1>5, HeadOf
  <2>2. PICK b \in Bodies(h) : Spells(p, b)
    BY <1>2 DEF Spelled
  <2>3. Spells(p, b)'
    BY <1>1, <2>2, SpellsSame
  <2>4. /\ buf'.lo = p /\ buf'.cb = p
    BY <1>0, TakesFromConn DEF ParseNext
  <2>5. body'.state = "none" /\ body'.total = 0
    BY <1>1, NoReader
  <2>6. \/ n = Chunked /\ h.te # <<>> /\ Bodies(h) = ChunkedBodies
        \/ n \in Nat /\ Bodies(h) = {DataSymbols(n)}
    BY <2>1, AcceptedBody
  <2>7. ASSUME n = Chunked, h.te # <<>>, Bodies(h) = ChunkedBodies PROVE AtChunk(p, b)'
    <3>1. req'.n = Begun'
      <4>1. ~(req'.n < Begun)
        BY <1>1, <1>2, <1>3, <2>7 DEF Placed, Polite, Begun
      <4> QED BY <1>1, <1>2, <1>3, <4>1 DEF Begun
    <3>2. b \in Seq(BodySymbols) /\ p <= p + Len(b)
      BY <1>3, <2>7, ChunkedBodyShape
    <3>3. client'.heads[req'.n].te # <<>>
      BY <1>1, <1>2, <2>7
    <3> QED BY <2>1, <2>3, <2>4, <2>5, <2>7, <3>1, <3>2, <3>3 DEF AtChunk
  <2>8. ASSUME n \in Nat, Bodies(h) = {DataSymbols(n)} PROVE AtLength(p)'
    <3>1. b = DataSymbols(n)
      BY <2>8
    <3> HIDE DEF n
    <3> QED BY <1>3, <2>1, <2>3, <2>4, <2>5, <2>8, <3>1 DEF AtLength
  <2>9. IsHead(p)' /\ Tag(p)' = req'.n /\ p \in DOMAIN stream'
    BY <1>1, <1>2 DEF IsHead, Tag
  <2> HIDE DEF h, n
  <2> QED BY <2>6, <2>7, <2>8, <2>9 DEF Positioned
<1> QED BY <1>2, <1>4, <1>5 DEF Placed, Busy

LEMMA PlacedAdmit ==
    ASSUME ConnTypeOK, Placed, ReaderOf, Admit
    PROVE  Placed'
<1> SUFFICES ASSUME open' PROVE Placed'
  BY DEF Placed
<1>1. /\ open /\ client' = client /\ stream' = stream /\ buf' = buf /\ req' = req
      /\ body = NoBody /\ pc = "admit" /\ pc' = "serve"
  BY DEF Admit, ReaderOf
<1>2. PICK k \in DOMAIN stream :
         /\ IsHead(k) /\ Tag(k) = req.n
         /\ AtLength(k) \/ \E b \in ChunkedBodies : AtChunk(k, b)
  BY <1>1 DEF Placed, Positioned, Busy
<1>3. body.total = 0 /\ body'.total = 0
  BY <1>1, NoReader, AdmitSets
<1>4. AtLength(k) => AtLength(k)'
  BY <1>1, <1>3, SpellsSame DEF AtLength
<1>5. ASSUME NEW b \in ChunkedBodies, AtChunk(k, b) PROVE AtChunk(k, b)'
  <2>1. buf.cb = k /\ req.length = Chunked
    BY <1>1, <1>5 DEF AtChunk
  <2>2. body'.state = "size"
    BY <2>1, AdmitSets
  <2> QED BY <1>1, <1>5, <2>1, <2>2, SpellsSame DEF AtChunk, Begun
<1>6. Positioned'
  BY <1>1, <1>2, <1>4, <1>5 DEF Positioned, IsHead, Tag
<1>7. Polite'
  BY <1>1 DEF Placed, Polite, Begun
<1> QED BY <1>1, <1>6, <1>7 DEF Placed

LEMMA PlacedReadLength ==
    ASSUME ConnTypeOK, Placed, ReaderOf, ReadLength
    PROVE  Placed'
<1> SUFFICES ASSUME open' PROVE Placed'
  BY DEF Placed
<1>1. /\ open /\ client' = client /\ stream' = stream /\ req' = req /\ pc' = pc
      /\ pc = "serve" /\ body.state = "length" /\ body.total < req.length
  BY DEF ReadLength
<1>2. PICK k \in DOMAIN stream :
         /\ IsHead(k) /\ Tag(k) = req.n
         /\ AtLength(k) \/ \E b \in ChunkedBodies : AtChunk(k, b)
  BY <1>1 DEF Placed, Positioned, Busy
<1>3. req.length > 0 /\ req.length \in Int /\ body.total \in Nat /\ buf.lo \in Nat /\ k \in Nat
  BY <1>1, CurrentFields, ReaderFields, BufferFields DEF ReaderOf, Busy, ConnTypeOK, ChunkStates
<1>4. AtLength(k)
  BY <1>2, <1>3 DEF AtChunk, Chunked
<1>5. buf'.lo = buf.lo + 1 /\ body'.total = body.total + 1
  BY TakesFromConn, ReaderCounts DEF ReadLength, ConnTypeOK
<1>6. AtLength(k)'
  <2>1. Spells(k, DataSymbols(req.length))'
    BY <1>1, <1>4, SpellsSame DEF AtLength
  <2>2. req.length >= 0 /\ buf.lo = k + body.total
    BY <1>4 DEF AtLength
  <2>3. buf'.lo = k + body'.total /\ body'.total <= req.length
    BY <1>1, <1>3, <1>5, <2>2
  <2> QED BY <1>1, <2>1, <2>2, <2>3 DEF AtLength
<1>7. Positioned'
  BY <1>1, <1>2, <1>6 DEF Positioned, IsHead, Tag
<1>8. Polite'
  BY <1>1 DEF Placed, Polite, Begun
<1> QED BY <1>1, <1>7, <1>8 DEF Placed

\* The decoder and the body agree on the next symbol.
LEMMA DecodesNext ==
    ASSUME NEW b \in ChunkedBodies, NEW x \in BodyReader, NEW i \in 0..Len(b), i < Len(b),
           x.state \in ChunkStates \ {"done", "failed"},
           i = 0 => x.state = "size", i # 0 => x.state = StateBehind(b[i]),
           Decode(x, b[i + 1]).state # "failed"
    PROVE  Decode(x, b[i + 1]).state = StateBehind(b[i + 1])
<1>1. b \in Seq(BodySymbols) /\ Len(b) \in Nat
  BY ChunkedBodyShape
<1>2. b[i + 1] \in BodySymbols
  BY <1>1
<1> DEFINE sym == b[i + 1]
           y == Decode(x, sym)
<1>3. /\ x.state = "size" => y.state = parseChunkSizeLine(sym)
      /\ x.state = "data" => y.state = "crlf"
      /\ x.state = "crlf" => y.state = IF sym = "crlf" THEN "size" ELSE "failed"
      /\ x.state = "trailer" => y.state = parseTrailers(sym)
  BY <1>2, Decoded
<1>4. x.state = "data" => sym = "data"
  <2> SUFFICES ASSUME x.state = "data" PROVE sym = "data"
    OBVIOUS
  <2>1. i \in 1..Len(b) /\ b[i] = "size"
    BY <1>1 DEF StateBehind
  <2> QED BY <2>1, ChunkedBodyShape
<1>5. y.state # "failed"
  OBVIOUS
<1> HIDE DEF y, sym
<1>6. y.state = StateBehind(sym)
  BY <1>3, <1>4, <1>5 DEF StateBehind, parseChunkSizeLine, parseTrailers, ChunkStates
<1> QED BY <1>6 DEF y, sym

\* ReadChunked: the symbols the decoder takes are those of the current body.
LEMMA PlacedReadChunked ==
    ASSUME ConnTypeOK, Tagged, Placed, ReaderOf, ReadChunked
    PROVE  Placed'
<1> SUFFICES ASSUME open' PROVE Placed'
  BY DEF Placed
<1>1. /\ client' = client /\ stream' = stream /\ req' = req /\ pc' = pc
      /\ pc \in {"serve", "closeBody"} /\ Decoding /\ buf.cb < Len(stream)
  BY DEF ReadChunked, Reading
<1>2. /\ buf.cb + 1 \in DOMAIN stream /\ body' \in BodyReader
      /\ body'.state = Decode(body, stream[buf.cb + 1].sym).state
      /\ body'.total = Decode(body, stream[buf.cb + 1].sym).total
      /\ open /\ body'.state # "failed"
  BY ReadChunkedSets
<1>3. PICK k \in DOMAIN stream :
         /\ IsHead(k) /\ Tag(k) = req.n
         /\ AtLength(k) \/ \E b \in ChunkedBodies : AtChunk(k, b)
  BY <1>1, <1>2 DEF Placed, Positioned, Busy
<1>4. req.length = Chunked
  BY <1>1 DEF ReaderOf, Busy, Decoding, ChunkStates
<1>5. PICK b \in ChunkedBodies : AtChunk(k, b)
  BY <1>3, <1>4 DEF AtLength, Chunked
<1>6. /\ b \in Seq(BodySymbols) /\ Len(b) \in Nat /\ k \in Nat /\ buf.cb \in Nat
      /\ Len(stream) \in Nat /\ client.todo \in Seq(BodySymbols) /\ Len(client.todo) \in Nat
      /\ body \in BodyReader /\ body.total \in Nat
  BY ChunkedBodyShape, BufferFields, ClientFields, ReaderFields DEF ConnTypeOK
<1>7. /\ Spells(k, b) /\ k <= buf.cb
      /\ buf.cb = k => body.state \in {"none", "size"}
      /\ buf.cb # k => body.state = StateBehind(b[buf.cb - k])
      /\ body.state = "crlf" => body.total > 0
  BY <1>5 DEF AtChunk
<1>8. Len(stream) + Len(client.todo) = k + Len(b)
  BY <1>3, <1>5 DEF AtChunk, Spells
<1>9. PICK i \in Nat : i = buf.cb - k
  BY <1>6, <1>7
<1>10. i \in 0..Len(b) /\ i < Len(b) /\ buf.cb + 1 = k + (i + 1) /\ i + 1 \in DOMAIN b
       /\ k + (i + 1) <= Len(stream)
  <2>1. buf.cb < Len(stream) /\ k <= buf.cb /\ i = buf.cb - k /\ i \in Nat
    BY <1>1, <1>7, <1>9
  <2>2. buf.cb = k + i /\ i < Len(b) /\ k + (i + 1) <= Len(stream)
    BY <1>6, <1>8, <2>1
  <2>3. i \in 0..Len(b) /\ i + 1 \in 1..Len(b) /\ buf.cb + 1 = k + (i + 1)
    BY <1>6, <2>1, <2>2
  <2>4. DOMAIN b = 1..Len(b)
    BY <1>6
  <2> QED BY <2>2, <2>3, <2>4
<1>11. stream[buf.cb + 1].sym = b[i + 1]
  BY <1>7, <1>10 DEF Spells
<1>12. /\ i = 0 => body.state = "size"
       /\ i # 0 => body.state = StateBehind(b[i])
  BY <1>1, <1>6, <1>7, <1>9 DEF Decoding, ChunkStates
<1>13. body'.state = StateBehind(b[i + 1])
  BY <1>1, <1>2, <1>6, <1>10, <1>11, <1>12, DecodesNext DEF Decoding
<1>14. b[i + 1] \in BodySymbols
  BY <1>6, <1>10
<1>15. /\ body'.total = IF body.state = "data" THEN body.total + 1 ELSE body.total
       /\ body.state = "size" => body'.state = parseChunkSizeLine(b[i + 1])
       /\ body.state = "crlf" => body'.state = IF b[i + 1] = "crlf" THEN "size" ELSE "failed"
       /\ body.state = "trailer" => body'.state = parseTrailers(b[i + 1])
       /\ body.state = "data" => body'.state = "crlf"
  <2> DEFINE y == Decode(body, b[i + 1])
  <2>1. /\ y.total = IF body.state = "data" THEN body.total + 1 ELSE body.total
        /\ body.state = "size" => y.state = parseChunkSizeLine(b[i + 1])
        /\ body.state = "crlf" => y.state = IF b[i + 1] = "crlf" THEN "size" ELSE "failed"
        /\ body.state = "trailer" => y.state = parseTrailers(b[i + 1])
        /\ body.state = "data" => y.state = "crlf"
    BY <1>1, <1>6, <1>14, Decoded DEF Decoding
  <2>2. body'.state = y.state /\ body'.total = y.total
    BY <1>2, <1>11
  <2> HIDE DEF y
  <2> QED BY <2>1, <2>2
<1>16. body'.state \in {"crlf", "size"} => body'.total > 0
  BY <1>1, <1>6, <1>7, <1>15
     DEF Decoding, ChunkStates, parseChunkSizeLine, parseTrailers
<1>17. buf'.cb = buf.cb + 1
  BY TakesFromChunkedBufr DEF ReadChunked
<1>18. buf'.cb # k /\ k <= buf'.cb /\ buf'.cb <= k + Len(b) /\ buf'.cb - k = i + 1
  <2>1. buf'.cb = k + (i + 1) /\ i + 1 <= Len(b) /\ i \in Nat
    BY <1>6, <1>10, <1>17
  <2> QED BY <1>6, <2>1
<1>19. AtChunk(k, b)'
  <2>1. Spells(k, b)'
    BY <1>1, <1>7, SpellsSame
  <2>2. req'.length = Chunked /\ req'.n = Begun' /\ client'.heads[req'.n].te # <<>>
    BY <1>1, <1>5 DEF AtChunk, Begun
  <2>3. pc' # "admit"
    BY <1>1
  <2> QED BY <1>13, <1>16, <1>18, <2>1, <2>2, <2>3 DEF AtChunk
<1>20. Positioned'
  BY <1>1, <1>3, <1>19 DEF Positioned, IsHead, Tag
<1>21. Polite'
  BY <1>1, <1>2 DEF Placed, Polite, Begun
<1> QED BY <1>1, <1>20, <1>21 DEF Placed

\* Cleanup: the loop goes on only behind the whole body.
LEMMA PlacedCleanup ==
    ASSUME ConnTypeOK, Tagged, Placed, ReaderOf, Inspected, Phases, Cleanup
    PROVE  Placed'
<1> SUFFICES ASSUME open' PROVE Placed'
  BY DEF Placed
<1>1. /\ client' = client /\ stream' = stream /\ req' = req /\ pc = "closeBody"
      /\ open /\ ~Undrained
      /\ \/ pc' = "done"
         \/ pc' = "top" /\ (BodyRead \/ res.after = "keepAlive")
  <2>1. ~SeenUnread => BodyRead
    BY ReaderFields DEF SeenUnread, Inspected, ConnTypeOK
  <2> QED BY <2>1 DEF Cleanup
<1>2. Polite'
  BY <1>1 DEF Placed, Polite, Begun
<1>3. ASSUME pc' = "top" PROVE InSync'
  <2>1. PICK k \in DOMAIN stream :
           /\ IsHead(k) /\ Tag(k) = req.n
           /\ AtLength(k) \/ \E b \in ChunkedBodies : AtChunk(k, b)
    BY <1>1 DEF Placed, Positioned, Busy
  <2>2. buf'.lo = buf.lo
    BY DEF Cleanup, ConnTypeOK, Buffers
  <2>3. /\ k \in Nat /\ buf.cb \in Nat /\ buf.lo \in Nat /\ buf.cb <= buf.lo
        /\ buf.lo <= Len(stream) /\ Len(stream) \in Nat
        /\ client.todo \in Seq(BodySymbols) /\ Len(client.todo) \in Nat
    <3>1. buf.hi \in Nat /\ buf.lo <= buf.hi /\ buf.hi <= Len(stream)
      BY BufferFields DEF ConnTypeOK
    <3> QED BY <3>1, BufferFields, ClientFields DEF ConnTypeOK
  <2>4. ASSUME NEW b \in Seq(BodySymbols), Spells(k, b), buf.lo >= k + Len(b),
               buf.lo = k + Len(b) \/ req.n = Begun
        PROVE  InSync'
    <3>1. Len(b) \in Nat
      OBVIOUS
    <3>2. req.n = Begun => Len(stream) + Len(client.todo) = k + Len(b)
      BY <2>1, <2>4 DEF Spells
    <3>3. buf.lo = k + Len(b)
      <4>1. CASE req.n = Begun
        <5>1. Len(stream) + Len(client.todo) = k + Len(b) /\ buf.lo >= k + Len(b)
          BY <2>4, <3>2, <4>1
        <5>2. PICK l \in Nat, t \in Nat, c \in Nat :
                 l = Len(stream) /\ t = Len(client.todo) /\ c = k + Len(b)
          BY <2>3, <3>1
        <5>3. buf.lo \in Nat /\ buf.lo <= l /\ l + t = c /\ buf.lo >= c
          BY <2>3, <5>1, <5>2
        <5> QED BY <5>2, <5>3
      <4> QED BY <2>4, <4>1
    <3>4. req.n = Begun => client.todo = <<>>
      BY <2>3, <3>1, <3>2, <3>3
    <3>5. \A j \in DOMAIN stream : j <= buf.lo <=> Tag(j) <= req.n
      BY <2>1, <2>4, <3>3 DEF Spells
    <3> QED BY <1>1, <2>2, <3>4, <3>5 DEF InSync, Tag, Begun
  <2>5. ASSUME AtLength(k) PROVE InSync'
    <3>1. /\ req.length \in Nat /\ Spells(k, DataSymbols(req.length)) /\ body.total \in Nat
          /\ body.total <= req.length /\ buf.lo = k + body.total
      BY <2>5, CurrentFields, ReaderFields DEF AtLength, ConnTypeOK
    <3>2. body.total = req.length
      <4>1. CASE BodyRead
        BY <3>1, <4>1 DEF BodyRead, Chunked
      <4>2. CASE res.after = "keepAlive"
        <5>1. req.length > 0 => body.total = req.length
          BY <1>1, <4>2 DEF Phases
        <5> QED BY <3>1, <5>1
      <4> QED BY <1>1, <1>3, <4>1, <4>2
    <3>3. DataSymbols(req.length) \in Seq(BodySymbols) /\ Len(DataSymbols(req.length)) = req.length
      BY <3>1, DataSymbolsSeq
    <3> QED BY <2>3, <2>4, <3>1, <3>2, <3>3
  <2>6. ASSUME NEW b \in ChunkedBodies, AtChunk(k, b) PROVE InSync'
    <3>1. req.length = Chunked /\ req.n = Begun /\ Spells(k, b) /\ buf.cb <= k + Len(b)
          /\ k <= buf.cb
      BY <2>6 DEF AtChunk
    <3>2. body.state = "done"
      <4>1. body.state \in ChunkStates
        BY <1>1, <3>1 DEF ReaderOf, Busy, Chunked
      <4>2. body.type = "own" \/ BodyRead
        BY ReaderFields DEF Inspected, ConnTypeOK
      <4> QED BY <1>1, <3>1, <4>1, <4>2 DEF Undrained, BodyRead, Chunked
    <3>3. buf.cb # k /\ StateBehind(b[buf.cb - k]) = "done"
      BY <2>6, <3>2 DEF AtChunk
    <3>4. b[buf.cb - k] = "blank"
      BY <3>3 DEF StateBehind
    <3>5. b \in Seq(BodySymbols) /\ Len(b) \in Nat
      BY ChunkedBodyShape
    <3>6. buf.cb - k \in 1..Len(b)
      BY <2>3, <3>1, <3>3, <3>5
    <3>7. buf.cb - k = Len(b)
      BY <3>4, <3>6, ChunkedBodyShape
    <3> QED BY <2>3, <2>4, <3>1, <3>5, <3>7
  <2> QED BY <2>1, <2>5, <2>6
<1> QED BY <1>1, <1>2, <1>3 DEF Placed, Busy

LEMMA SentByServer ==
    ASSUME ConnTypeOK, Tagged, Spelled, ServerStep
    PROVE  Tagged' /\ Spelled'
<1>0. req.n <= Begun
  BY DEF Tagged
<1>1. CASE ParseNext
  <2>1. client' = client /\ stream' = stream
    BY <1>1 DEF ParseNext
  <2>2. buf.lo + 1 \in DOMAIN stream
    BY <1>1, TakesFromConn, BufferFields DEF ParseNext, ConnTypeOK
  <2>3. Tag(buf.lo + 1) <= Begun
    BY <2>2 DEF Tagged
  <2>4. req' = req \/ req'.n = Tag(buf.lo + 1)
    BY <1>1 DEF ParseNext, Tag
  <2> QED BY <1>0, <2>1, <2>3, <2>4, SentKept
<1>2. CASE RelayBegins
  <2>1. stream' = <<>> /\ client'.heads = <<>> /\ client'.todo = <<>> /\ req'.n = 0
    BY <1>2 DEF RelayBegins
  <2>2. Begun' = 0 /\ DOMAIN stream' = {}
    BY <2>1 DEF Begun
  <2> QED BY <2>1, <2>2 DEF Tagged, Spelled
<1>3. CASE ~ParseNext /\ ~RelayBegins
  <2>1. client' = client /\ stream' = stream /\ req' = req
    BY <1>3 DEF ServerStep, Detect, DetectH2, LoopTop, ParseFails, RejectChunked,
                DeclaredTooLarge, GateRefuses, Admit, Refuse, ReadLength, LengthTimeout,
                ReadChunked, ChunkedFails, InspectBody, AwaitUpstream, HandlerAnswers,
                HandlerStreams, HandlerUpgrades, UpstreamStrays, Announce, AnnounceFails,
                SwitchProtocols, SwitchFails, SeverUnread, Respond, RespondFails,
                StreamHead, StreamHeadFails, StreamPiece, StreamEnds, StreamTerminates,
                StreamSevered, Cleanup, srvVars
  <2> QED BY <1>0, <2>1, SentKept
<1> QED BY <1>1, <1>2, <1>3

LEMMA PlacedKept ==
    ASSUME ConnTypeOK, Tagged, Spelled, Placed, ReaderOf, Inspected, Phases, ServerStep
    PROVE  Placed'
<1>1. CASE Detect
  <2>1. /\ client' = client /\ stream' = stream /\ req' = req /\ open' = open
        /\ buf'.lo = buf.lo /\ pc = "detect" /\ pc' = "top"
    BY <1>1 DEF Detect, srvVars, ConnTypeOK, Buffers
  <2> QED BY <2>1 DEF Placed, Polite, InSync, Tag, Begun, Busy
<1>2. CASE DetectH2 \/ LoopTop
  <2>1. /\ client' = client /\ stream' = stream /\ buf' = buf /\ req' = req /\ body' = body
        /\ open' = open /\ pc' \in {"h2", "parse", "done"} /\ pc \in {"detect", "top"}
    BY <1>2 DEF DetectH2, LoopTop, srvVars
  <2> QED BY <2>1, PlacedStays DEF Busy
<1>3. CASE ParseNext
  BY <1>3, PlacedParseNext
<1>4. CASE ParseFails \/ RejectChunked \/ DeclaredTooLarge \/ GateRefuses \/ Refuse
  <2>1. /\ client' = client /\ stream' = stream /\ buf' = buf /\ req' = req /\ body' = body
        /\ open' = open /\ pc' \in {"refuse", "done"}
    BY <1>4 DEF ParseFails, RejectChunked, DeclaredTooLarge, GateRefuses, Refuse, Refusing
  <2> QED BY <2>1, PlacedStays DEF Busy
<1>5. CASE Admit
  BY <1>5, PlacedAdmit
<1>6. CASE ReadLength
  BY <1>6, PlacedReadLength
<1>7. CASE LengthTimeout \/ ChunkedFails
  BY <1>7 DEF LengthTimeout, ChunkedFails, Placed
<1>8. CASE ReadChunked
  BY <1>8, PlacedReadChunked
<1>9. CASE \/ AwaitUpstream \/ HandlerAnswers \/ HandlerStreams \/ HandlerUpgrades
           \/ UpstreamStrays \/ Announce \/ AnnounceFails
  <2>1. /\ client' = client /\ stream' = stream /\ buf' = buf /\ req' = req /\ body' = body
        /\ open' = open /\ pc \in {"serve", "await", "announce"}
        /\ pc' \in {"await", "announce", "answer", "done"}
    BY <1>9 DEF AwaitUpstream, HandlerAnswers, HandlerStreams, HandlerUpgrades,
                UpstreamStrays, Announce, AnnounceFails, srvVars
  <2> QED BY <2>1, PlacedStays DEF Busy
<1>10. CASE SwitchProtocols \/ SwitchFails \/ StreamHead
  <2>1. /\ client' = client /\ stream' = stream /\ buf' = buf /\ req' = req /\ body' = body
        /\ open' = open /\ pc = "answer" /\ pc' \in {"switched", "done", "streaming"}
    BY <1>10 DEF SwitchProtocols, SwitchFails, StreamHead
  <2> QED BY <2>1, PlacedStays DEF Busy
<1>11. CASE RelayBegins
  <2>1. client'.heads = <<>> /\ pc' = "relay"
    BY <1>11 DEF RelayBegins
  <2>2. DOMAIN client'.heads = {}
    BY <2>1
  <2> QED BY <2>1, <2>2 DEF Placed, Polite, Busy
<1>12. CASE SeverUnread \/ Respond \/ RespondFails \/ StreamHeadFails \/ StreamTerminates
  <2>1. /\ client' = client /\ stream' = stream /\ buf' = buf /\ req' = req /\ body' = body
        /\ open' = open /\ pc \in {"answer", "streaming"} /\ pc' = "closeBody"
    BY <1>12 DEF SeverUnread, Respond, RespondFails, StreamHeadFails, StreamTerminates,
                 CloseBodyThen
  <2> QED BY <2>1, PlacedStays DEF Busy
<1>13. CASE StreamPiece \/ StreamEnds
  <2>1. /\ client' = client /\ stream' = stream /\ buf' = buf /\ req' = req /\ body' = body
        /\ open' = open /\ pc = "streaming" /\ pc' = "streaming"
    BY <1>13 DEF StreamPiece, StreamEnds
  <2> QED BY <2>1, PlacedStays DEF Busy
<1>14. CASE StreamSevered
  BY <1>14 DEF StreamSevered, Placed
<1>15. CASE Cleanup
  BY <1>15, PlacedCleanup
<1>16. CASE InspectBody
  <2>1. /\ client' = client /\ stream' = stream /\ buf' = buf /\ req' = req
        /\ open' = open /\ pc = "serve" /\ pc' = "serve"
    BY <1>16 DEF InspectBody
  <2>2. body'.state = body.state /\ body'.total = body.total
    BY <1>16, ReaderInspected DEF InspectBody, ConnTypeOK
  <2> SUFFICES ASSUME open' PROVE Placed'
    BY DEF Placed
  <2>3. PICK k \in DOMAIN stream :
           /\ IsHead(k) /\ Tag(k) = req.n
           /\ AtLength(k) \/ \E b \in ChunkedBodies : AtChunk(k, b)
    BY <2>1 DEF Placed, Positioned, Busy
  <2>4. AtLength(k) => AtLength(k)'
    BY <2>1, <2>2, SpellsSame DEF AtLength
  <2>5. ASSUME NEW b \in ChunkedBodies, AtChunk(k, b) PROVE AtChunk(k, b)'
    BY <2>1, <2>2, <2>5, SpellsSame DEF AtChunk, Begun
  <2>6. Positioned'
    BY <2>1, <2>3, <2>4, <2>5 DEF Positioned, IsHead, Tag
  <2>7. Polite'
    BY <2>1 DEF Placed, Polite, Begun
  <2> QED BY <2>1, <2>6, <2>7 DEF Placed
<1> QED
  BY <1>1, <1>2, <1>3, <1>4, <1>5, <1>6, <1>7, <1>8, <1>9, <1>10, <1>11, <1>12, <1>13,
     <1>14, <1>15, <1>16 DEF ServerStep
-----------------------------------------------------------------------------
(* The answers.                                                            *)

\* Answers are kept by a step that neither answers nor parses.
LEMMA AnswersStay ==
    ASSUME Answers, replies' = replies, req'.n = req.n, open' => open,
           pc' = "streaming" => pc = "streaming",
           pc' \in {"detect", "top", "parse"} => pc \in {"detect", "top", "parse"},
           pc' \in Unanswered => pc \in Unanswered \/ (pc = "parse" /\ req.n = 0),
           pc' = "answer" => pc \in Unanswered \cup {"answer"},
           pc' = "closeBody" => \/ res'.after \notin {"loop", "keepAlive"}
                                \/ pc = "closeBody" /\ res'.after = res.after,
           res'.eof = "broken" => res.eof = "broken" \/ pc = "streaming"
    PROVE  Answers'
<1>1. DOMAIN replies = {} \/ replies # <<>>
  OBVIOUS
<1>2. AnswersInOrder'
  BY DEF Answers, AnswersInOrder
<1>3. AllWhole' <=> AllWhole
  BY DEF AllWhole
<1>4. (pc' = "streaming" => replies' # <<>>) /\
      (pc' = "streaming" \/ (res'.eof = "broken" /\ replies' # <<>>) =>
          ~replies'[Len(replies')].whole)
  BY DEF Answers
<1>5. open' => \A k \in DOMAIN replies' : replies'[k].req <= req'.n
  BY DEF Answers
<1>6. open' /\ pc' \in {"detect", "top", "parse"} =>
         AllWhole' /\ (req'.n = 0 => replies' = <<>>)
  BY <1>3 DEF Answers
<1>7. open' /\ pc' \in Unanswered =>
         AllWhole' /\ \A k \in DOMAIN replies' : replies'[k].req < req'.n
  <2> SUFFICES ASSUME open', pc' \in Unanswered
               PROVE  AllWhole /\ \A k \in DOMAIN replies : replies[k].req < req.n
    BY <1>3
  <2>1. CASE pc \in Unanswered
    BY <2>1 DEF Answers
  <2>2. CASE pc = "parse" /\ req.n = 0
    <3>1. replies = <<>>
      BY <2>2 DEF Answers
    <3> QED BY <3>1 DEF AllWhole
  <2> QED BY <2>1, <2>2
<1>8. open' /\ pc' = "closeBody" /\ res'.after \in {"loop", "keepAlive"} => AllWhole'
  BY <1>3 DEF Answers
<1>9. open' /\ pc' = "answer" =>
         AllWhole' /\ \A k \in DOMAIN replies' : BehindStray(k)'
  BY <1>3 DEF Answers, BehindStray
<1> QED BY <1>2, <1>4, <1>5, <1>6, <1>7, <1>8, <1>9 DEF Answers

\* An answer to the current request comes behind those to the earlier ones, and
\* behind a stray one.
LEMMA Answered ==
    ASSUME ConnTypeOK, AnswersInOrder, AllWhole, NEW whole \in BOOLEAN, NEW stray \in BOOLEAN,
           \A k \in DOMAIN replies : \/ replies[k].req < req.n
                                     \/ ~stray /\ BehindStray(k),
           replies' = Append(replies, [req |-> req.n, whole |-> whole, stray |-> stray])
    PROVE  /\ AnswersInOrder' /\ replies' # <<>> /\ replies'[Len(replies')].whole = whole
           /\ \A k \in DOMAIN replies' : replies'[k].req <= req.n
           /\ \A k \in DOMAIN replies' : replies'[k].whole \/ replies'[k].whole = whole
           /\ stray => \A k \in DOMAIN replies' :
                          \/ replies'[k].req < req.n
                          \/ replies'[k].req = req.n /\ replies'[k].stray
<1> DEFINE a == [req |-> req.n, whole |-> whole, stray |-> stray]
           m == Len(replies)
<1>1. a \in Answer /\ replies \in Seq(Answer) /\ req.n \in Nat
  BY ReplyType, CurrentFields DEF ConnTypeOK
<1>2. a.req = req.n /\ a.whole = whole /\ a.stray = stray
  BY Zenon
<1>3. replies' = Append(replies, a)
  OBVIOUS
<1> HIDE DEF a
<1>4. /\ Len(replies') = m + 1 /\ m \in Nat /\ DOMAIN replies' = 1..(m + 1)
      /\ DOMAIN replies = 1..m
      /\ \A k \in 1..m : replies'[k] = replies[k]
      /\ replies'[m + 1] = a
  BY <1>1, <1>3
<1>5. \A k \in 1..m :
         /\ replies[k].whole /\ replies[k].req \in Nat
         /\ \/ replies[k].req < req.n
            \/ ~stray /\ replies[k].req = req.n /\ replies[k].stray
  BY <1>1, <1>4, AnswerFields DEF AllWhole, BehindStray
<1>6. AnswersInOrder'
  <2>1. ASSUME NEW k \in 1..(m + 1), NEW l \in 1..(m + 1), k < l
        PROVE  /\ replies'[k].whole
               /\ \/ replies'[k].req < replies'[l].req
                  \/ replies'[k].req = replies'[l].req /\ replies'[k].stray /\ ~replies'[l].stray
    <3>1. k \in 1..m
      BY <1>4, <2>1
    <3>2. CASE l = m + 1
      BY <1>2, <1>4, <1>5, <3>1, <3>2
    <3>3. CASE l # m + 1
      <4>1. l \in 1..m
        BY <1>4, <3>3
      <4>2. \A i, j \in 1..m :
               i < j => \/ replies[i].req < replies[j].req
                        \/ replies[i].req = replies[j].req /\ replies[i].stray /\ ~replies[j].stray
        BY <1>4 DEF AnswersInOrder
      <4> QED BY <1>4, <1>5, <2>1, <3>1, <4>1, <4>2
    <3> QED BY <3>2, <3>3
  <2> QED BY <1>4, <2>1 DEF AnswersInOrder
<1>7. \A k \in 1..(m + 1) : replies'[k].req <= req.n
  BY <1>1, <1>2, <1>4, <1>5
<1>8. \A k \in 1..(m + 1) : replies'[k].whole \/ replies'[k].whole = whole
  BY <1>2, <1>4, <1>5
<1>9. replies' # <<>> /\ replies'[Len(replies')].whole = whole
  BY <1>2, <1>4
<1>10. stray => \A k \in 1..(m + 1) :
                  \/ replies'[k].req < req.n
                  \/ replies'[k].req = req.n /\ replies'[k].stray
  BY <1>2, <1>4, <1>5
<1> QED BY <1>4, <1>6, <1>7, <1>8, <1>9, <1>10

LEMMA AnswersKept ==
    ASSUME ConnTypeOK, Tagged, Spelled, Placed, ReaderOf, Phases, Answers, ServerStep
    PROVE  Answers'
<1>0. AnswersInOrder
  BY DEF Answers
<1>1. CASE Detect \/ DetectH2 \/ LoopTop
  <2>1. /\ replies' = replies /\ req' = req /\ open' = open /\ res' = res
        /\ pc \in {"detect", "top"} /\ pc' \in {"top", "h2", "parse", "done"}
    BY <1>1 DEF Detect, DetectH2, LoopTop, srvVars
  <2> QED BY <2>1, AnswersStay DEF Unanswered
<1>2. CASE ParseNext
  <2>1. replies' = replies /\ open' = open /\ pc = "parse"
    BY <1>2 DEF ParseNext
  <2>2. pc' \in {"admit", "refuse"} /\ res'.eof # "broken"
    <3>1. \/ pc' = "admit" /\ res' = res
          \/ pc' = "refuse" /\ res'.eof = "none"
      <4> DEFINE p == ParseHeader(client.heads[stream[buf.lo + 1].req])
      <4>1. (pc' = "admit" /\ res' = res) \/ Refusing(400) \/ Refusing(p.status)
        BY <1>2 DEF ParseNext
      <4>2. ASSUME NEW status, Refusing(status) PROVE pc' = "refuse" /\ res'.eof = "none"
        BY <4>2 DEF Refusing, NoRes
      <4> QED BY <4>1, <4>2
    <3> QED BY <2>1, <3>1 DEF Phases
  <2>3. AnswersInOrder' /\ (AllWhole' <=> AllWhole)
    BY <1>0, <2>1 DEF AnswersInOrder, AllWhole
  <2>4. ASSUME open PROVE AllWhole' /\ \A k \in DOMAIN replies : replies[k].req < req'.n
    <3>1. req'.n > req.n /\ req.n \in Nat /\ req'.n \in Nat /\ AllWhole
      BY <1>2, <2>1, <2>4, ParsesInSync, CurrentFields DEF Answers, ConnTypeOK
    <3>2. ASSUME NEW k \in DOMAIN replies
          PROVE  replies[k].req <= req.n /\ replies[k].req \in Nat
      BY <2>4, AnswerFields DEF Answers, ConnTypeOK
    <3> QED BY <2>3, <3>1, <3>2
  <2>5. open => \A k \in DOMAIN replies : replies[k].req <= req'.n
    <3> SUFFICES ASSUME open, NEW k \in DOMAIN replies PROVE replies[k].req <= req'.n
      OBVIOUS
    <3>1. req'.n \in Nat /\ replies[k].req \in Nat /\ replies[k].req < req'.n
      BY <1>2, <2>4, ParsesInSync, AnswerFields DEF ConnTypeOK
    <3> QED BY <3>1
  <2> QED BY <2>1, <2>2, <2>3, <2>4, <2>5 DEF Answers, Unanswered
<1>3. CASE ParseFails \/ RejectChunked \/ DeclaredTooLarge \/ GateRefuses
  <2>1. \/ Refusing(400) \/ Refusing(501) \/ Refusing(413) \/ Refusing(503)
        \/ pc' = "done" /\ UNCHANGED res
    BY <1>3 DEF ParseFails, RejectChunked, DeclaredTooLarge, GateRefuses
  <2>2. (pc' = "refuse" /\ res'.eof = "none") \/ (pc' = "done" /\ res' = res)
    <3>1. ASSUME NEW status, Refusing(status) PROVE pc' = "refuse" /\ res'.eof = "none"
      BY <3>1 DEF Refusing, NoRes
    <3> QED BY <2>1, <3>1
  <2>3. /\ replies' = replies /\ req' = req /\ open' = open
        /\ pc \in {"parse", "admit"} /\ (pc = "parse" => req.n = 0 \/ pc' = "done")
    BY <1>3 DEF ParseFails, RejectChunked, DeclaredTooLarge, GateRefuses
  <2> QED BY <2>2, <2>3, AnswersStay DEF Unanswered
<1>4. CASE Admit
  <2>1. replies' = replies /\ req' = req /\ open' = open /\ res'.eof = "none"
        /\ pc = "admit" /\ pc' = "serve"
    BY <1>4, FreshResponse DEF Admit
  <2> QED BY <2>1, AnswersStay DEF Unanswered
<1>5. CASE Refuse
  <2>1. req' = req /\ open' = open /\ res' = res /\ pc = "refuse" /\ pc' = "done"
    BY <1>5 DEF Refuse
  <2>2. CASE replies' = replies
    BY <2>1, <2>2, AnswersStay DEF Unanswered
  <2>3. CASE open /\ Reply(TRUE)
    <3>1. AllWhole /\ \A k \in DOMAIN replies : replies[k].req < req.n
      BY <2>1, <2>3 DEF Answers, Unanswered
    <3>2. AnswersInOrder' /\ \A k \in DOMAIN replies' : replies'[k].req <= req.n
      BY <1>0, <2>3, <3>1, Answered DEF Reply
    <3>3. res'.eof # "broken"
      BY <2>1 DEF Phases
    <3> QED BY <2>1, <3>2, <3>3 DEF Answers, Unanswered
  <2> QED BY <1>5, <2>2, <2>3 DEF Refuse, Reply
<1>6. CASE ReadLength \/ LengthTimeout \/ InspectBody
  <2>1. replies' = replies /\ req' = req /\ (open' = open \/ open' = FALSE) /\ res' = res
        /\ pc' = pc
    BY <1>6 DEF ReadLength, LengthTimeout, InspectBody
  <2> QED BY <2>1, AnswersStay DEF Unanswered
<1>7. CASE ReadChunked \/ ChunkedFails
  <2>1. replies' = replies /\ req' = req /\ res' = res /\ pc' = pc
    BY <1>7 DEF ReadChunked, ChunkedFails
  <2>2. open' => open
    BY <1>7, ReadChunkedSets DEF ChunkedFails
  <2> QED BY <2>1, <2>2, AnswersStay DEF Unanswered
<1>8. CASE \/ AwaitUpstream \/ HandlerAnswers \/ HandlerStreams \/ HandlerUpgrades
           \/ UpstreamStrays
  <2>1. /\ replies' = replies /\ req' = req /\ open' = open /\ pc \in {"serve", "await"}
        /\ pc' \in {"await", "announce", "answer"}
    BY <1>8 DEF AwaitUpstream, HandlerAnswers, HandlerStreams, HandlerUpgrades,
                UpstreamStrays, srvVars
  <2>2. res'.eof = "none" \/ res' = res
    BY <1>8, HandlerAnswersSets, HandlerStreamsSets, HandlerUpgradesSets, UpstreamStraysSets
       DEF AwaitUpstream, srvVars
  <2> QED BY <2>1, <2>2, AnswersStay DEF Unanswered
<1>9. CASE SwitchFails \/ AnnounceFails
  <2>1. /\ replies' = replies /\ req' = req /\ open' = open /\ res' = res
        /\ pc' = "done"
    BY <1>9 DEF SwitchFails, AnnounceFails
  <2> QED BY <2>1, AnswersStay DEF Unanswered
<1>16. CASE Announce
  <2>1. /\ pc = "announce" /\ open /\ open' = open /\ req' = req /\ res' = res
        /\ pc' = "answer"
        /\ replies' = Append(replies, [req |-> req.n, whole |-> TRUE, stray |-> TRUE])
    BY <1>16 DEF Announce
  <2>2. AllWhole /\ \A k \in DOMAIN replies : replies[k].req < req.n
    BY <2>1 DEF Answers, Unanswered
  <2>3. res'.eof # "broken"
    BY <2>1 DEF Phases
  <2>4. /\ AnswersInOrder' /\ \A k \in DOMAIN replies' : replies'[k].req <= req.n
        /\ \A k \in DOMAIN replies' : replies'[k].whole
        /\ \A k \in DOMAIN replies' :
              \/ replies'[k].req < req.n
              \/ replies'[k].req = req.n /\ replies'[k].stray
    BY <1>0, <2>1, <2>2, Answered
  <2> QED BY <2>1, <2>3, <2>4 DEF Answers, AllWhole, BehindStray, Unanswered
<1>10. CASE SeverUnread \/ RespondFails \/ StreamHeadFails \/ StreamSevered
  <2>1. /\ replies' = replies /\ req' = req /\ (open' = open \/ open' = FALSE)
        /\ pc' = "closeBody" /\ (CloseBodyThen("sever") \/ CloseBodyThen("return"))
    BY <1>10 DEF SeverUnread, RespondFails, StreamHeadFails, StreamSevered, CloseBodyThen
  <2>2. res'.eof = res.eof /\ res'.after \notin {"loop", "keepAlive"}
    BY <2>1, CloseBodyThenSets DEF ConnTypeOK
  <2> QED BY <2>1, <2>2, AnswersStay DEF Unanswered
<1>11. CASE StreamPiece \/ StreamEnds
  <2>1. replies' = replies /\ req' = req /\ open' = open /\ pc = "streaming" /\ pc' = pc
    BY <1>11 DEF StreamPiece, StreamEnds
  <2> QED BY <2>1, AnswersStay DEF Unanswered
<1>12. CASE RelayBegins
  <2>1. replies' = <<>> /\ req'.n = 0 /\ pc' = "relay"
    BY <1>12 DEF RelayBegins
  <2>2. DOMAIN replies' = {}
    BY <2>1
  <2> QED BY <2>1, <2>2 DEF Answers, AnswersInOrder, AllWhole, Unanswered
<1>13. CASE SwitchProtocols \/ Respond \/ StreamHead
  <2>1. /\ pc = "answer" /\ open /\ open' = open /\ req' = req
        /\ \/ Reply(TRUE) /\ pc' \in {"switched", "closeBody"}
           \/ Reply(FALSE) /\ pc' = "streaming"
    BY <1>13 DEF SwitchProtocols, Respond, StreamHead, CloseBodyThen
  <2>2. AllWhole /\ \A k \in DOMAIN replies : BehindStray(k)
    BY <2>1 DEF Answers
  <2>3. res'.eof # "broken"
    <3>1. res.eof # "broken"
      BY <2>1 DEF Phases
    <3>2. res' = res \/ CloseBodyThen("loop")
      BY <1>13 DEF SwitchProtocols, Respond, StreamHead
    <3> QED BY <3>1, <3>2, CloseBodyThenSets DEF ConnTypeOK
  <2>4. CASE Reply(TRUE) /\ pc' \in {"switched", "closeBody"}
    <3>1. /\ AnswersInOrder' /\ \A k \in DOMAIN replies' : replies'[k].req <= req.n
          /\ \A k \in DOMAIN replies' : replies'[k].whole
      BY <1>0, <2>2, <2>4, Answered DEF Reply
    <3> QED BY <2>1, <2>3, <2>4, <3>1 DEF Answers, AllWhole, Unanswered
  <2>5. CASE Reply(FALSE) /\ pc' = "streaming"
    <3>1. /\ AnswersInOrder' /\ \A k \in DOMAIN replies' : replies'[k].req <= req.n
          /\ replies' # <<>> /\ ~replies'[Len(replies')].whole
      BY <1>0, <2>2, <2>5, Answered DEF Reply
    <3> QED BY <2>1, <2>3, <2>5, <3>1 DEF Answers, Unanswered
  <2> QED BY <2>1, <2>4, <2>5
<1>14. CASE StreamTerminates
  <2>1. /\ pc = "streaming" /\ pc' = "closeBody" /\ req' = req /\ open' = open
        /\ res'.eof = "clean" /\ open
    BY <1>14, StreamTerminatesSets DEF StreamTerminates, Phases
  <2>2. replies # <<>> /\ replies \in Seq(Answer)
    BY <2>1 DEF Answers, ConnTypeOK
  <2>3. /\ replies' \in Seq(Answer) /\ Len(replies') = Len(replies)
        /\ \A k \in 1..Len(replies) : /\ replies'[k].req = replies[k].req
                                       /\ replies'[k].stray = replies[k].stray
        /\ \A k \in 1..Len(replies) : k # Len(replies) => replies'[k] = replies[k]
        /\ replies'[Len(replies)].whole
    BY <1>14, <2>2, MarkedWhole DEF StreamTerminates
  <2>4. \A k, l \in 1..Len(replies) :
           k < l => /\ replies[k].whole
                    /\ \/ replies[k].req < replies[l].req
                       \/ replies[k].req = replies[l].req /\ replies[k].stray /\ ~replies[l].stray
    BY <1>0, <2>2 DEF AnswersInOrder
  <2>5. \A k \in 1..Len(replies) : replies'[k].whole
    <3> SUFFICES ASSUME NEW k \in 1..Len(replies) PROVE replies'[k].whole
      OBVIOUS
    <3>1. CASE k = Len(replies)
      BY <2>3, <3>1
    <3>2. CASE k # Len(replies)
      <4>1. k < Len(replies) /\ Len(replies) \in 1..Len(replies)
        BY <2>2, <3>2
      <4> QED BY <2>3, <2>4, <3>2, <4>1
    <3> QED BY <3>1, <3>2
  <2>6. DOMAIN replies' = 1..Len(replies) /\ DOMAIN replies = 1..Len(replies)
    BY <2>2, <2>3
  <2>7. AnswersInOrder' /\ AllWhole'
    BY <2>3, <2>4, <2>5, <2>6 DEF AnswersInOrder, AllWhole
  <2>8. \A k \in DOMAIN replies' : replies'[k].req <= req'.n
    BY <2>1, <2>3, <2>6 DEF Answers
  <2> QED BY <2>1, <2>7, <2>8 DEF Answers, Unanswered
<1>15. CASE Cleanup
  <2>1. /\ replies' = replies /\ req' = req /\ res' = res /\ pc = "closeBody"
        /\ (open' => open) /\ pc' \in {"top", "done"}
        /\ pc' = "top" => res.after \in {"loop", "keepAlive"}
    BY <1>15 DEF Cleanup
  <2>2. CASE pc' = "done" \/ ~open'
    <3>1. AnswersInOrder'
      BY <1>0, <2>1 DEF AnswersInOrder
    <3> QED BY <2>1, <2>2, <3>1 DEF Answers, Unanswered
  <2>3. CASE pc' = "top" /\ open'
    <3>1. AllWhole' /\ AnswersInOrder'
      BY <1>0, <2>1, <2>3 DEF Answers, AllWhole, AnswersInOrder
    <3>2. req.n # 0
      <4>1. PICK k \in DOMAIN stream : Tag(k) = req.n
        BY <2>1, <2>3 DEF Placed, Positioned, Busy
      <4> QED BY <4>1, HeadOf
    <3> QED BY <2>1, <2>3, <3>1, <3>2 DEF Answers, Unanswered
  <2> QED BY <2>1, <2>2, <2>3
<1> QED
  BY <1>1, <1>2, <1>3, <1>4, <1>5, <1>6, <1>7, <1>8, <1>9, <1>10, <1>11, <1>12, <1>13,
     <1>14, <1>15, <1>16 DEF ServerStep
-----------------------------------------------------------------------------
(* The connection.                                                         *)

LEMMA LoopInit == ConnInit => LoopInv
<1> SUFFICES ASSUME ConnInit PROVE LoopInv
  OBVIOUS
<1>1. ConnTypeOK
  BY ConnInitType
<1>2. /\ stream = <<>> /\ client.heads = <<>> /\ client.todo = <<>> /\ req.n = 0
      /\ pc = "detect" /\ replies = <<>> /\ body = NoBody /\ res = NoRes
      /\ ~held /\ ~live /\ up = "none"
  BY DEF ConnInit
<1>3. Begun = 0 /\ DOMAIN stream = {} /\ DOMAIN client.heads = {} /\ DOMAIN replies = {}
  BY <1>2 DEF Begun
<1>4. Tagged /\ Spelled /\ Placed
  BY <1>2, <1>3 DEF Tagged, Spelled, Placed, Polite, InSync, Busy
<1>5. res.eof = "none" /\ body.state = "none"
  BY <1>2 DEF NoRes, NoBody
<1>6. ReaderOf /\ Phases
  BY <1>2, <1>5 DEF ReaderOf, Phases, Unheld, Free, Apart, Busy
<1>7. Answers
  BY <1>2, <1>3, <1>5 DEF Answers, AnswersInOrder, AllWhole, Unanswered
<1>8. Inspected
  <2>1. body.total = 0 /\ body.type = "own" /\ pc \notin Busy
    BY <1>2, NoReader DEF Busy
  <2> QED BY <2>1, LimitAssumption DEF Inspected, LimitAssumption
<1> QED BY <1>1, <1>4, <1>6, <1>7, <1>8 DEF LoopInv

LEMMA LoopServerStep ==
    ASSUME LoopInv, ServerStep, ~EarlyStream, MaxInspect > MaxBody
    PROVE  LoopInv'
<1>1. /\ ConnTypeOK /\ Tagged /\ Spelled /\ Placed /\ ReaderOf /\ Inspected /\ Phases
      /\ Answers
  BY DEF LoopInv
<1>2. ConnTypeOK'
  BY <1>1, ServerStepType DEF Answers
<1>3. Tagged' /\ Spelled'
  BY <1>1, SentByServer
<1>4. Placed' /\ ReaderOf' /\ Inspected' /\ Phases' /\ Answers'
  BY <1>1, PlacedKept, ReaderKept, InspectedKept, PhasesKept, AnswersKept
<1> QED BY <1>2, <1>3, <1>4 DEF LoopInv

\* A step of the client only appends to the stream.
LEMMA LoopClientStep ==
    ASSUME LoopInv, ClientStep, ~EagerAfterChunked
    PROVE  LoopInv'
<1>1. /\ ConnTypeOK /\ Tagged /\ Spelled /\ Placed /\ ReaderOf /\ Inspected /\ Phases
      /\ Answers
  BY DEF LoopInv
<1>2. /\ pc' = pc /\ req' = req /\ body' = body /\ res' = res /\ held' = held
      /\ live' = live /\ up' = up /\ open' = open /\ replies' = replies
  BY DEF ClientStep, ClientBegins, ClientContinues, srvVars
<1>3. ReaderOf' /\ Inspected' /\ Phases'
  BY <1>1, <1>2 DEF ReaderOf, Inspected, BodyRead, Phases, Unheld
<1>4. Answers'
  BY <1>1, <1>2 DEF Answers, AnswersInOrder, AllWhole, BehindStray
<1>5. ASSUME NEW h \in Heads, ClientBegins(h)
      PROVE  ConnTypeOK' /\ Tagged' /\ Spelled' /\ Placed'
  BY <1>1, <1>5, BeginsKept, PlacedBegins
<1>6. ASSUME ClientContinues
      PROVE  ConnTypeOK' /\ Tagged' /\ Spelled' /\ Placed'
  BY <1>1, <1>6, ContinuesKept, PlacedContinues
<1> QED BY <1>3, <1>4, <1>5, <1>6 DEF LoopInv, ClientStep

\* The relay or http2.Server has returned, and with it handleConn.
LEMMA LoopReturns ==
    ASSUME LoopInv, RelayReturns \/ H2Returns
    PROVE  LoopInv'
<1>1. /\ ConnTypeOK /\ Tagged /\ Spelled /\ Placed /\ ReaderOf /\ Inspected /\ Phases
      /\ Answers
  BY DEF LoopInv
<1>2. /\ speaks' = speaks /\ client' = client /\ stream' = stream /\ buf' = buf
      /\ req' = req /\ body' = body /\ res' = res /\ open' = open /\ replies' = replies
      /\ pc \in {"relay", "h2"} /\ pc' = "done"
  BY DEF RelayReturns, H2Returns, srvVars
<1>3. /\ held' \in BOOLEAN /\ live' \in BOOLEAN /\ up' \in {"none", "open", "closed"}
      /\ ~held' /\ ~live' /\ up' # "open"
  <2>1. CASE RelayReturns
    BY <2>1 DEF RelayReturns
  <2>2. CASE H2Returns
    BY <1>1, <2>2 DEF H2Returns, srvVars, Phases, Unheld, Free, Apart, ConnTypeOK
  <2> QED BY <2>1, <2>2
<1>4. ConnTypeOK'
  BY <1>1, <1>2, <1>3 DEF ConnTypeOK, PCs
<1>5. Tagged' /\ Spelled'
  BY <1>1, <1>2, SentKept DEF Tagged
<1>6. Placed'
  BY <1>1, <1>2, PlacedStays DEF Busy
<1>7. ReaderOf'
  BY <1>1, <1>2 DEF ReaderOf, Busy
<1>8. Phases'
  <2>1. Unheld'
    BY <1>2, <1>3 DEF Unheld, Apart
  <2> QED BY <1>1, <1>2, <2>1 DEF Phases
<1>9. Answers'
  BY <1>1, <1>2, AnswersStay DEF Unanswered
<1>10. Inspected'
  BY <1>1, <1>2 DEF Inspected, BodyRead, Busy
<1> QED BY <1>4, <1>5, <1>6, <1>7, <1>8, <1>9, <1>10 DEF LoopInv

LEMMA LoopUnchanged ==
    ASSUME LoopInv, UNCHANGED connVars
    PROVE  LoopInv'
<1>1. /\ speaks' = speaks /\ client' = client /\ stream' = stream /\ buf' = buf /\ pc' = pc
      /\ req' = req /\ body' = body /\ res' = res /\ held' = held /\ live' = live
      /\ up' = up /\ open' = open /\ replies' = replies
  BY DEF connVars, srvVars
<1>2. ConnTypeOK' /\ Tagged' /\ Spelled' /\ ReaderOf' /\ Inspected' /\ Phases' /\ Answers'
  <2>1. ConnTypeOK'
    BY <1>1 DEF LoopInv, ConnTypeOK
  <2>2. Tagged' /\ Spelled'
    BY <1>1, SentKept DEF LoopInv, Tagged
  <2>3. ReaderOf' /\ Inspected' /\ Phases'
    BY <1>1 DEF LoopInv, ReaderOf, Inspected, BodyRead, Phases, Unheld
  <2>4. Answers'
    BY <1>1 DEF LoopInv, Answers, AnswersInOrder, AllWhole, BehindStray
  <2> QED BY <2>1, <2>2, <2>3, <2>4
<1>3. Placed'
  <2> SUFFICES ASSUME open' PROVE Placed'
    BY DEF Placed
  <2>1. open /\ Placed
    BY <1>1 DEF LoopInv
  <2>2. Polite'
    BY <1>1, <2>1 DEF Placed, Polite, Begun
  <2>3. pc' \in {"detect", "top", "parse"} => InSync'
    BY <1>1, <2>1 DEF Placed, InSync, Begun, Tag
  <2>4. ASSUME pc' \in Busy PROVE Positioned'
    <3>1. PICK k \in DOMAIN stream :
             /\ IsHead(k) /\ Tag(k) = req.n
             /\ AtLength(k) \/ \E b \in ChunkedBodies : AtChunk(k, b)
      BY <1>1, <2>1, <2>4 DEF Placed, Positioned
    <3>2. AtLength(k) => AtLength(k)'
      BY <1>1, SpellsSame DEF AtLength
    <3>3. ASSUME NEW b \in ChunkedBodies, AtChunk(k, b) PROVE AtChunk(k, b)'
      BY <1>1, <3>3, SpellsSame DEF AtChunk, Begun
    <3> QED BY <1>1, <3>1, <3>2, <3>3 DEF Positioned, IsHead, Tag
  <2> QED BY <2>2, <2>3, <2>4 DEF Placed
<1> QED BY <1>2, <1>3 DEF LoopInv

\* The relay moves only by its own steps, once the connection is upgraded.
LEMMA RelayInductive ==
    ASSUME RelayInv, [Next]_vars
    PROVE  RelayInv'
<1>1. RelayStep \/ UNCHANGED relayVars
  BY DEF Next, SystemStep, EnvironmentStep, RelayReturns, H2Returns, vars
<1>2. CASE UNCHANGED relayVars
  BY <1>2 DEF RelayInv, RelayTypeOK, ReadsGuarded, relayVars
<1> QED BY <1>1, <1>2, RelayStepInv

LEMMA H2Inductive ==
    ASSUME H2Inv, [Next]_vars
    PROVE  H2Inv'
<1>1. H2Step \/ ClientResets \/ UNCHANGED h2Vars
  BY DEF Next, SystemStep, EnvironmentStep, RelayReturns, H2Returns, vars
<1>2. CASE UNCHANGED h2Vars
  BY <1>2 DEF H2Inv, H2Safe, H2TypeOK, H2Stages, h2Vars
<1> QED BY <1>1, <1>2, H2StepInv

LEMMA LoopInductive ==
    ASSUME LoopInv, [Next]_vars, ~EagerAfterChunked, ~EarlyStream, MaxInspect > MaxBody
    PROVE  LoopInv'
<1>1. ServerStep \/ ClientStep \/ RelayReturns \/ H2Returns \/ UNCHANGED connVars
  BY DEF Next, SystemStep, EnvironmentStep, vars
<1> QED
  BY <1>1, LoopServerStep, LoopClientStep, LoopReturns, LoopUnchanged

\* At the head of the loop, and when it becomes a relay, the next symbol is the
\* first one behind what the requests so far have consumed.
LEMMA LoopInSync ==
    ASSUME LoopInv
    PROVE  RequestsInSync
<1>1. ASSUME pc \in {"top", "parse"}, open
      PROVE  \A k \in DOMAIN stream : k <= buf.lo <=> stream[k].req <= req.n
  BY <1>1 DEF LoopInv, Placed, InSync, Tag
<1>2. ASSUME pc = "switched", body.type = "own"
      PROVE  \A j \in DOMAIN stream :
                j <= buf.lo <=> \/ stream[j].req < req.n
                                \/ stream[j].req = req.n /\ stream[j].sym = "head"
  <2>1. open /\ body.total = 0 /\ body.state \in {"none", "length", "size"}
    BY <1>2 DEF LoopInv, Phases
  <2>2. PICK k \in DOMAIN stream :
           /\ IsHead(k) /\ Tag(k) = req.n
           /\ AtLength(k) \/ \E b \in ChunkedBodies : AtChunk(k, b)
    BY <1>2, <2>1 DEF LoopInv, Placed, Positioned, Busy
  <2>3. buf.lo = k
    <3>0. stream \in Seq(Item) /\ k \in Nat
      BY DEF LoopInv, ConnTypeOK
    <3>1. CASE AtLength(k)
      BY <2>1, <3>0, <3>1 DEF AtLength
    <3>2. ASSUME NEW b \in ChunkedBodies, AtChunk(k, b) PROVE buf.lo = k
      BY <2>1, <3>2 DEF AtChunk, StateBehind
    <3> QED BY <2>2, <3>1, <3>2
  <2>4. ASSUME NEW j \in DOMAIN stream
        PROVE  /\ j \in Nat /\ k \in Nat /\ Tag(j) \in Nat /\ Tag(k) \in Nat
               /\ j < k => Tag(j) < Tag(k)
               /\ k < j => Tag(k) <= Tag(j)
               /\ k < j /\ IsHead(j) => Tag(k) < Tag(j)
    <3>1. stream \in Seq(Item) /\ Tagged
      BY DEF LoopInv, ConnTypeOK
    <3>2. stream[j] \in Item /\ stream[k] \in Item /\ j \in Nat /\ k \in Nat
      BY <3>1
    <3>3. Tag(j) \in Nat /\ Tag(k) \in Nat
      BY <3>2, ItemFields, ConnLoopAssumption DEF Tag
    <3> QED BY <2>2, <3>1, <3>2, <3>3 DEF Tagged
  <2>5. ASSUME NEW j \in DOMAIN stream
        PROVE  j <= k <=> Tag(j) < Tag(k) \/ (Tag(j) = Tag(k) /\ IsHead(j))
    BY <2>2, <2>4
  <2> QED BY <2>2, <2>3, <2>5 DEF Tag, IsHead
<1> QED BY <1>1, <1>2 DEF RequestsInSync

LEMMA LoopSafe ==
    ASSUME LoopInv
    PROVE  ExchangeSafe
<1>1. NothingHeldBetweenRequests
  BY DEF LoopInv, Phases, Unheld, Free, Apart, NothingHeldBetweenRequests
<1>2. FailClosed
  BY DEF LoopInv, Phases, Answers, FailClosed
<1> QED BY <1>1, <1>2 DEF LoopInv, Answers, ExchangeSafe
-----------------------------------------------------------------------------
(* What needs none of the conditions: whatever a client pipelines, however *)
(* early an upstream answers and however little the WAF reads, nothing     *)
(* outlives its request but what the loop forgets with a stray 101.        *)

\* What is held, and that an unfinished stream is not marked as whole.
Released ==
    /\ Unheld
    /\ pc = "streaming" => res.kind = "stream" /\ replies # <<>>
    /\ pc = "closeBody" /\ res.eof = "broken" => res.after = "return"
    /\ res.eof = "broken" => res.kind = "stream" /\ pc \in {"streaming", "closeBody", "done"}
    /\ pc = "streaming" \/ (res.eof = "broken" /\ replies # <<>>) =>
          ~replies[Len(replies)].whole

ReleaseInv == ConnTypeOK /\ Tagged /\ Spelled /\ Released

LEMMA ReleasedKept ==
    ASSUME ConnTypeOK, Tagged, Released, ServerStep
    PROVE  Released'
<1>0. Unheld'
  BY UnheldKept DEF Released
<1>1. CASE Detect \/ DetectH2 \/ LoopTop
  BY <1>0, <1>1 DEF Detect, DetectH2, LoopTop, srvVars, Released
<1>2. CASE ParseNext \/ ParseFails \/ RejectChunked \/ DeclaredTooLarge \/ GateRefuses
  BY <1>0, <1>2, RefusalSets DEF Released
<1>3. CASE Admit
  BY <1>0, <1>3, FreshResponse DEF Admit, Released
<1>4. CASE Refuse
  BY <1>0, <1>4 DEF Refuse, Released
<1>5. CASE ReadLength \/ LengthTimeout \/ ReadChunked \/ ChunkedFails \/ InspectBody
  BY <1>0, <1>5 DEF ReadLength, LengthTimeout, ReadChunked, ChunkedFails, InspectBody, Released
<1>6. CASE \/ AwaitUpstream \/ HandlerAnswers \/ HandlerStreams \/ HandlerUpgrades
           \/ UpstreamStrays
  <2>1. /\ pc \in {"serve", "await"} /\ pc' \in {"await", "announce", "answer"}
        /\ res'.eof = "none" \/ res' = res
    BY <1>6, HandlerAnswersSets, HandlerStreamsSets, HandlerUpgradesSets, UpstreamStraysSets
       DEF AwaitUpstream, HandlerAnswers, HandlerStreams, HandlerUpgrades, UpstreamStrays,
           srvVars
  <2> QED BY <1>0, <2>1 DEF Released
<1>7. CASE Announce \/ AnnounceFails \/ SwitchProtocols \/ SwitchFails \/ RelayBegins
  <2>1. /\ pc \in {"announce", "answer", "switched"} /\ res' = res
        /\ pc' \in {"answer", "switched", "relay", "done"}
    BY <1>7 DEF Announce, AnnounceFails, SwitchProtocols, SwitchFails, RelayBegins
  <2> QED BY <1>0, <2>1 DEF Released
<1>8. CASE SeverUnread \/ Respond \/ RespondFails
  <2>1. \E a \in {"sever", "loop", "return"} : CloseBodyThen(a)
    BY <1>8 DEF SeverUnread, Respond, RespondFails
  <2>2. pc' = "closeBody" /\ res'.kind = res.kind /\ res'.eof = res.eof
    BY <2>1, CloseBodyThenSets DEF ConnTypeOK
  <2>3. pc = "answer" /\ res.kind = "buffer"
    BY <1>8 DEF SeverUnread, Respond, RespondFails
  <2> QED BY <1>0, <2>2, <2>3 DEF Released
<1>9. CASE StreamHead
  <2>1. /\ pc = "answer" /\ res.kind = "stream" /\ pc' = "streaming" /\ res' = res
        /\ replies' = Append(replies, [req |-> req.n, whole |-> FALSE, stray |-> FALSE])
    BY <1>9 DEF StreamHead, Reply
  <2>2. PICK a \in Answer : ~a.whole /\ replies' = Append(replies, a)
    <3>1. [req |-> req.n, whole |-> FALSE, stray |-> FALSE] \in Answer
      BY ReplyType
    <3>2. ~[req |-> req.n, whole |-> FALSE, stray |-> FALSE].whole
      BY Zenon
    <3> QED BY <2>1, <3>1, <3>2
  <2>3. replies' # <<>> /\ ~replies'[Len(replies')].whole
    BY <2>2 DEF ConnTypeOK
  <2> QED BY <1>0, <2>1, <2>3 DEF Released
<1>10. CASE StreamHeadFails \/ StreamSevered
  <2>1. CloseBodyThen("return") /\ UNCHANGED replies
    BY <1>10 DEF StreamHeadFails, StreamSevered
  <2>2. pc' = "closeBody" /\ res'.kind = res.kind /\ res'.eof = res.eof
        /\ res'.after = "return"
    BY <2>1, CloseBodyThenSets DEF ConnTypeOK
  <2>3. pc \in {"answer", "streaming"} /\ res.kind = "stream"
    BY <1>10 DEF StreamHeadFails, StreamSevered, Released
  <2> QED BY <1>0, <2>1, <2>2, <2>3 DEF Released
<1>11. CASE StreamPiece \/ StreamEnds
  BY <1>0, <1>11, StreamGoesOn DEF StreamPiece, StreamEnds, Released
<1>12. CASE StreamTerminates
  BY <1>0, <1>12, StreamTerminatesSets DEF StreamTerminates, Released
<1>13. CASE Cleanup
  BY <1>0, <1>13 DEF Cleanup, Released
<1> QED
  BY <1>1, <1>2, <1>3, <1>4, <1>5, <1>6, <1>7, <1>8, <1>9, <1>10, <1>11, <1>12, <1>13
     DEF ServerStep

LEMMA ReleaseInductive ==
    ASSUME ReleaseInv, [Next]_vars
    PROVE  ReleaseInv'
<1>1. ConnTypeOK /\ Tagged /\ Spelled /\ Released
  BY DEF ReleaseInv
<1>2. CASE ServerStep
  BY <1>1, <1>2, ServerStepType, SentByServer, ReleasedKept DEF Released, ReleaseInv
<1>3. CASE ClientStep
  <2>1. ConnTypeOK' /\ Tagged' /\ Spelled'
    BY <1>1, <1>3, BeginsKept, ContinuesKept DEF ClientStep
  <2>2. UNCHANGED <<pc, res, held, live, up, replies>>
    BY <1>3 DEF ClientStep, ClientBegins, ClientContinues, srvVars
  <2> QED BY <1>1, <2>1, <2>2 DEF Released, Unheld, Free, Apart, ReleaseInv
<1>4. CASE RelayReturns \/ H2Returns \/ UNCHANGED connVars
  <2>1. UNCHANGED <<speaks, client, stream, buf, req, body, res, open, replies>>
    BY <1>4 DEF RelayReturns, H2Returns, connVars, srvVars
  <2>2. Tagged' /\ Spelled'
    BY <1>1, <2>1, SentKept DEF Tagged
  <2>3. CASE RelayReturns
    <3>1. pc = "relay" /\ pc' = "done" /\ up' = "closed" /\ held' = FALSE /\ live' = FALSE
      BY <2>3 DEF RelayReturns
    <3>2. ConnTypeOK'
      BY <1>1, <2>1, <3>1 DEF ConnTypeOK, PCs
    <3> QED BY <1>1, <2>1, <2>2, <3>1, <3>2 DEF Released, Unheld, Free, Apart, ReleaseInv
  <2>4. CASE H2Returns \/ UNCHANGED connVars
    <3>1. /\ UNCHANGED <<held, live, up>>
          /\ (pc = "h2" /\ pc' = "done") \/ pc' = pc
      BY <2>4 DEF H2Returns, connVars, srvVars
    <3>2. ConnTypeOK'
      BY <1>1, <2>1, <3>1 DEF ConnTypeOK, PCs
    <3> QED BY <1>1, <2>1, <2>2, <3>1, <3>2 DEF Released, Unheld, Free, Apart, ReleaseInv
  <2> QED BY <1>4, <2>3, <2>4
<1>5. ServerStep \/ ClientStep \/ RelayReturns \/ H2Returns \/ UNCHANGED connVars
  BY DEF Next, SystemStep, EnvironmentStep, vars
<1> QED BY <1>2, <1>3, <1>4, <1>5
-----------------------------------------------------------------------------
(* The theorems.                                                           *)

\* The type of the relay's state, and that a direction waits in Read only with
\* a deadline that more than half of the timeout had been given to.
THEOREM RelayInvariant == Spec => []RelayInv
<1>1. Init => RelayInv
  BY RelayInitInv DEF Init
<1> QED BY <1>1, RelayInductive, PTL DEF Spec

\* A relay is closed for inactivity only after more than half of the idle
\* timeout has passed without a byte from either side: relayUpgradedStreams
\* refreshes the deadlines of the silent side on every read of the other one.
THEOREM RelayIdle == Spec => IdleRelayOnly
<1>1. ASSUME RelayInv, [Next]_vars
      PROVE  [\A s \in Ends : RelayTimeout(s) => 2 * quiet > UpgradeIdle]_relayVars
  <2> SUFFICES ASSUME NEW s \in Ends, RelayTimeout(s) PROVE 2 * quiet > UpgradeIdle
    OBVIOUS
  <2>1. copy[s] = "read" /\ deadline[s].read = 0
    BY DEF RelayTimeout
  <2>2. quiet \in Nat /\ 2 * (deadline[s].read + quiet) > UpgradeIdle
    BY <1>1, <2>1 DEF RelayInv, RelayTypeOK, ReadsGuarded
  <2> QED BY <2>1, <2>2
<1> QED BY <1>1, RelayInvariant, PTL DEF Spec, IdleRelayOnly

\* The handler of an HTTP/2 stream leaves nothing behind when it returns, and
\* what it served had the length it declared.
THEOREM H2StreamSafe == Spec => []H2Safe
<1>1. Init => H2Inv
  BY H2InitInv DEF Init
<1>2. H2Inv => H2Safe
  BY DEF H2Inv
<1> QED BY <1>1, <1>2, H2Inductive, PTL DEF Spec

\* Without any condition on the client, the upstream or the WAF, also where
\* pipelining behind a chunked body or a body half read by the WAF puts the loop
\* out of step: between two requests and when handleConn has returned no slot is
\* held, no context is live, nothing from the upstream is open (but a body that
\* came with a stray 101 which could not be written), and a stream its upstream
\* did not finish is never ended as if it were whole.
THEOREM AlwaysReleased == Spec => [](NothingHeldBetweenRequests /\ FailClosed)
<1>1. Init => ReleaseInv
  <2> SUFFICES ASSUME Init PROVE ReleaseInv
    OBVIOUS
  <2>1. LoopInv
    BY LoopInit DEF Init
  <2>2. Released
    BY <2>1 DEF LoopInv, Phases, Answers, Released
  <2> QED BY <2>1, <2>2 DEF LoopInv, ReleaseInv
<1>2. ReleaseInv => NothingHeldBetweenRequests /\ FailClosed
  BY DEF ReleaseInv, Released, Unheld, Free, Apart, NothingHeldBetweenRequests, FailClosed
<1> QED BY <1>1, <1>2, ReleaseInductive, PTL DEF Spec

\* The inductive invariant of handleConn holds when the client waits for the
\* answer to a chunked request, the upstream reads a body of known length before
\* it streams its answer, and the WAF may read more than any body that is
\* admitted (or does not inspect bodies at all).
THEOREM LoopInvariant ==
    ASSUME ~EagerAfterChunked, ~EarlyStream, MaxInspect > MaxBody
    PROVE  Spec => []LoopInv
<1>1. Init => LoopInv
  BY LoopInit DEF Init
<1>2. LoopInv /\ [Next]_vars => LoopInv'
  BY LoopInductive
<1> QED BY <1>1, <1>2, PTL DEF Spec

\* Under the same three conditions handleConn never takes a byte of a body for a
\* head and never loses one of the next request: at the head of the loop, and
\* when an upgraded connection becomes a relay whose body the WAF has not read,
\* the next byte is the right one.
THEOREM LoopRequestsInSync ==
    ASSUME ~EagerAfterChunked, ~EarlyStream, MaxInspect > MaxBody
    PROVE  Spec => []RequestsInSync
<1>1. LoopInv => RequestsInSync
  BY LoopInSync
<1> QED BY <1>1, LoopInvariant, PTL

\* Under the same three conditions the exchange on a connection is clean: answers
\* come in the order of the requests, one for each (and the stray 101 an upstream
\* may send before it), and none follows one that is cut off; a broken stream is
\* never ended as whole, and no slot, context or upstream connection outlives its
\* request in the loop, the relay or an HTTP/2 stream.
THEOREM ConnectionStaysSafe ==
    ASSUME ~EagerAfterChunked, ~EarlyStream, MaxInspect > MaxBody
    PROVE  Spec => []ConnectionSafe
<1>1. LoopInv /\ RelayInv /\ H2Safe => ConnectionSafe
  BY LoopSafe DEF RelayInv, ConnectionSafe
<1> QED BY <1>1, LoopInvariant, RelayInvariant, H2StreamSafe, PTL
=============================================================================
