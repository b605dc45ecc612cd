------------------------------- MODULE Framing -------------------------------
(***************************************************************************)
(* pkg/httpparser: how the length of a request's body is decided           *)
(* (parser.go, ParseHeader), and the chunked decoder (chunked.go) as the   *)
(* function from its state and the next piece of input to its next state.  *)
(*                                                                         *)
(* A head is what ParseHeader looks at: whether its lines parse, the       *)
(* values of its Content-Length fields, the lists of codings of its        *)
(* Transfer-Encoding fields, and "Connection: close".  Values that are not *)
(* a natural number are Unparsable; "" is an empty coding or value.        *)
(***************************************************************************)
EXTENDS Integers, Sequences, SequencesExt

CONSTANTS
    MaxBody,       \* effectiveMaxBody: the limit of the route or of the server
    DrainLimit,    \* MaxDrainBytes
    ChunkedBodies  \* what may follow a head as its chunked body, see below

ASSUME LimitAssumption == MaxBody \in Nat \ {0} /\ DrainLimit \in Nat \ {0}

Unparsable == -2
Chunked == -1   \* req.ContentLength of a chunked request

\* The request line and the header lines, and the lengths readLineBounded sees.
LineFaults == {"none", "malformed", "protocol", "tooLong"}

Rejected(status) == [status |-> status, length |-> 0]
Accepted(length) == [status |-> 200, length |-> length]

\* A list of codings is refused when one is empty or chunked is applied twice
\* (400), and when one is not chunked, the final one included (501).
TransferCoding(te) ==
    LET codings == FlattenSeq(te)
    IN  IF \E i \in DOMAIN codings : codings[i] = ""
        THEN Rejected(400)
        ELSE IF \E i \in DOMAIN codings : codings[i] # "chunked"
        THEN Rejected(501)
        ELSE IF Len(codings) > 1 THEN Rejected(400) ELSE Accepted(Chunked)

\* Every value must be a number, and all of them the same one.
ContentLength(cl) ==
    IF \E i, j \in DOMAIN cl : cl[i] = Unparsable \/ cl[i] # cl[j]
    THEN Rejected(400)
    ELSE Accepted(cl[1])

ParseHeader(h) ==
    IF h.fault # "none" THEN Rejected(IF h.fault = "tooLong" THEN 431 ELSE 400)
    ELSE IF h.te # <<>> /\ h.cl # <<>> THEN Rejected(400)
    ELSE IF h.te # <<>> THEN TransferCoding(h.te)
    ELSE IF h.cl # <<>> THEN ContentLength(h.cl)
    ELSE Accepted(0)

-----------------------------------------------------------------------------
(* ChunkedBodyReader.  Input comes in symbols: a size line "size" (of a    *)
(* chunk with one byte) or "zero", a "data" byte, a "crlf", a "trailer"    *)
(* line, the "blank" line that ends the trailers, or something "bad".      *)

BodySymbols == {"size", "zero", "data", "crlf", "trailer", "blank", "bad"}

ChunkStates == {"size", "data", "crlf", "trailer", "done", "failed"}

\* parseChunkSizeLine: the states the size line leads to; anything that is not
\* a size line fails.
parseChunkSizeLine(sym) ==
    IF sym = "size" THEN "data" ELSE IF sym = "zero" THEN "trailer" ELSE "failed"

\* parseTrailers: a permitted trailer line, or the blank line.
parseTrailers(sym) ==
    IF sym = "blank" THEN "done" ELSE IF sym = "trailer" THEN "trailer" ELSE "failed"

\* One piece of input.  In a chunk's data every byte is data, unless the body
\* has reached its ceiling before the byte is read.
Decode(b, sym) ==
    LET to(s) == [b EXCEPT !.state = s]
    IN  CASE b.state = "size"    -> to(parseChunkSizeLine(sym))
          [] b.state = "data"    -> [to("crlf") EXCEPT !.total = @ + 1]
          [] b.state = "crlf"    -> to(IF sym = "crlf" THEN "size" ELSE "failed")
          [] b.state = "trailer" -> to(parseTrailers(sym))

\* The reader is in the middle of a chunk that would exceed the ceiling.
OverCeiling(b) == b.state = "data" /\ b.total >= MaxBody

-----------------------------------------------------------------------------
(* What the sender of a head may mean by it: the bodies that follow a head *)
(* when it is read by one of its length fields.                            *)

DataSymbols(n) == [i \in 1..n |-> "data"]

\* Any sequences of symbols, well formed or not.  Symbols are named by where
\* they stand: whatever follows a size line is data, and a blank line is one
\* that ends the body.
ASSUME FramingAssumption ==
    /\ ChunkedBodies # {}
    /\ \A b \in ChunkedBodies :
          /\ b \in Seq(BodySymbols) /\ b # <<>>
          /\ \A i \in 1..Len(b) : b[i] = "size" => i + 1 <= Len(b) /\ b[i + 1] = "data"
          /\ \A i \in 1..Len(b) : b[i] = "blank" => i = Len(b)

Bodies(h) ==
    LET lengths == {h.cl[i] : i \in DOMAIN h.cl} \ {Unparsable}
        byLength == {DataSymbols(n) : n \in lengths}
        codings == FlattenSeq(h.te)
        byCoding == IF \E i \in DOMAIN codings : codings[i] = "chunked"
                    THEN ChunkedBodies ELSE {}
    IN  IF byLength \cup byCoding = {} THEN {<<>>} ELSE byLength \cup byCoding
=============================================================================
