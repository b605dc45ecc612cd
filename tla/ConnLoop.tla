------------------------------ MODULE ConnLoop ------------------------------
(***************************************************************************)
(* pkg/server/server.go, handleConn: one HTTP/1.1 connection.  The loop    *)
(* parses a head, decides whether to admit the request, gives the router a *)
(* reader of the body, writes the answer, releases what the request held   *)
(* and goes on with the next one, or returns; the reactor then closes the  *)
(* connection.                                                             *)
(*                                                                         *)
(* The client's bytes are a sequence of symbols, each tagged with the      *)
(* request it was sent for.  bufio readers take all that has arrived, so   *)
(* the buffers are intervals of the sequence:                              *)
(*    (buf.cb, buf.lo]       chunkedBufr, the reader of a chunked body     *)
(*    (buf.lo, buf.hi]       br, the reader of the connection              *)
(*    (buf.hi, Len(stream)]  not read yet; up to buf.pfx it is the prefix  *)
(*                           kept by prefixConn                            *)
(***************************************************************************)
EXTENDS Framing, FiniteSets

CONSTANTS
    Heads,              \* the heads a client may send
    MaxRequests,        \* bound: requests of the client
    MaxPieces,          \* bound: pieces of a streamed response
    EagerAfterChunked,  \* the client may send its next request before the
                        \* server waits for it, also behind a chunked body
    EarlyStream,        \* the upstream may answer with a stream before the
                        \* body of known length has been read
    MaxInspect          \* MaxInspectBodySize: what the WAF reads of a body

ASSUME ConnLoopAssumption ==
    /\ MaxRequests \in Nat \ {0} /\ MaxPieces \in Nat
    /\ EagerAfterChunked \in BOOLEAN /\ EarlyStream \in BOOLEAN
    /\ MaxInspect \in Nat \ {0}
    /\ \A h \in Heads :
          /\ h.fault \in LineFaults /\ h.close \in BOOLEAN
          /\ h.cl \in Seq(Nat \cup {Unparsable})
          \* Splitting the value of a field gives one element at least.
          /\ h.te = <<>> <=> DOMAIN FlattenSeq(h.te) = {}

VARIABLES
    speaks,     \* the client's protocol, "h1" or "h2"
    client,     \* heads sent, and what is left of the last request
    stream,     \* every symbol the client has sent
    buf,        \* the buffers, see above
    pc,         \* where handleConn is
    req,        \* number, length and Connection field of the current request
    body,       \* the reader of its body, and the type of req.Body
    res,        \* the handler's response
    held,       \* slotRelease # nil
    live,       \* reqCtx is not cancelled
    up,         \* res.UpgradedConn or res.StreamBody
    open,       \* conn has not been closed by the server
    replies     \* responses the client gets, whole or cut off

srvVars == <<req, body, res, held, live, up, open, replies>>
connVars == <<speaks, client, stream, buf, pc, srvVars>>

\* type: req.Body is the loop's "own" reader or a "multi" reader of the WAF's.
NoBody == [state |-> "none", total |-> 0, drained |-> 0, type |-> "own"]
NoRes == [kind |-> "buffer", status |-> 200, close |-> FALSE, raw |-> FALSE,
          eof |-> "none", pieces |-> 0, after |-> "none"]

PCs == {"detect", "h2", "top", "parse", "refuse", "admit", "serve", "await",
        "announce", "answer", "streaming", "closeBody", "switched", "relay",
        "done"}

\* A symbol of the client, and the values of the server's variables.
Client == [heads : Seq(Heads), todo : Seq(BodySymbols)]
Item == [req : 1..MaxRequests, sym : {"head"} \cup BodySymbols]
Buffers == [pfx : Nat, cb : Nat, lo : Nat, hi : Nat]
Current == [n : 0..MaxRequests, length : Int, close : BOOLEAN]
BodyReader == [state : ChunkStates \cup {"none", "length"}, total : Nat, drained : Nat,
               type : {"own", "multi"}]
Response == [kind : {"buffer", "stream", "upgrade"}, status : Nat, close : BOOLEAN,
             raw : BOOLEAN, eof : {"none", "clean", "broken"}, pieces : 0..MaxPieces,
             after : {"none", "loop", "return", "sever", "keepAlive"}]
\* stray: a 101 to a request that asked for no upgrade, before its real answer.
Answer == [req : 0..MaxRequests, whole : BOOLEAN, stray : BOOLEAN]

ConnTypeOK ==
    /\ speaks \in {"h1", "h2"}
    /\ client \in Client
    /\ Len(client.heads) <= MaxRequests
    /\ stream \in Seq(Item)
    /\ buf \in Buffers
    /\ buf.cb <= buf.lo /\ buf.lo <= buf.hi /\ buf.hi <= Len(stream)
    /\ buf.pfx <= Len(stream)
    /\ pc \in PCs
    /\ req \in Current /\ body \in BodyReader /\ res \in Response
    /\ held \in BOOLEAN /\ live \in BOOLEAN /\ open \in BOOLEAN
    /\ up \in {"none", "open", "closed"}
    /\ replies \in Seq(Answer)

ConnInit ==
    /\ speaks \in {"h1", "h2"}
    /\ client = [heads |-> <<>>, todo |-> <<>>]
    /\ stream = <<>>
    /\ buf = [pfx |-> 0, cb |-> 0, lo |-> 0, hi |-> 0]
    /\ pc = "detect"
    /\ req = [n |-> 0, length |-> 0, close |-> FALSE]
    /\ body = NoBody /\ res = NoRes
    /\ held = FALSE /\ live = FALSE /\ up = "none" /\ open = TRUE
    /\ replies = <<>>

-----------------------------------------------------------------------------
(* The client.                                                             *)

Begun == Len(client.heads)

SentChunked == Begun > 0 /\ client.heads[Begun].te # <<>>

MaySendNext ==
    \/ EagerAfterChunked \/ ~SentChunked
    \/ (pc = "parse" /\ req.n = Begun)

Symbols(n, syms) == [i \in DOMAIN syms |-> [req |-> n, sym |-> syms[i]]]

\* A head and none, half or all of its body, then the rest of it, or never.
ClientBegins(h) ==
    /\ speaks = "h1" /\ pc \notin {"switched", "relay", "done"}
    /\ client.todo = <<>> /\ Begun < MaxRequests /\ MaySendNext
    /\ \E b \in Bodies(h) : \E k \in {0, Len(b) \div 2, Len(b)} :
          /\ client' = [heads |-> Append(client.heads, h),
                        todo |-> SubSeq(b, k + 1, Len(b))]
          /\ stream' = stream \o Symbols(Begun + 1, <<"head">> \o SubSeq(b, 1, k))
    /\ UNCHANGED <<speaks, buf, pc, srvVars>>

ClientContinues ==
    /\ client.todo # <<>> /\ pc \notin {"switched", "relay", "done"}
    /\ client' = [client EXCEPT !.todo = <<>>]
    /\ stream' = stream \o Symbols(Begun, client.todo)
    /\ UNCHANGED <<speaks, buf, pc, srvVars>>

-----------------------------------------------------------------------------
(* Reading.                                                                *)

\* A closed connection gives nothing, its buffer still does.
NoInput == buf.lo = IF open THEN Len(stream) ELSE buf.hi

\* Where one read of the connection ends: the prefix comes on its own.
Arrived == IF buf.hi < buf.pfx THEN buf.pfx ELSE Len(stream)

\* A symbol taken from br, which reads the connection when it is empty.
TakeFromConn ==
    buf' = [buf EXCEPT !.lo = @ + 1, !.cb = buf.lo + 1,
                       !.hi = IF buf.lo < @ THEN @ ELSE Arrived]

\* A symbol taken from chunkedBufr.  When that is empty it takes all that br
\* holds, or reads past br when br is empty.
TakeFromChunkedBufr ==
    LET top == IF buf.cb < buf.lo THEN buf.lo
               ELSE IF buf.lo < buf.hi THEN buf.hi ELSE Arrived
    IN  buf' = [buf EXCEPT !.cb = @ + 1, !.lo = top,
                           !.hi = IF @ < top THEN top ELSE @]

\* Protocol detection reads as many bytes as the HTTP/2 preface has, or fewer
\* when the read fails, and keeps what it has read as the prefix; nothing when
\* HTTP2Enabled is not set.
Detect ==
    /\ pc = "detect" /\ speaks = "h1"
    /\ \E n \in 0..Len(stream) :
          buf' = [buf EXCEPT !.pfx = n]
    /\ pc' = "top"
    /\ UNCHANGED <<speaks, client, stream, srvVars>>

\* The preface, or h2 negotiated by ALPN: http2.Server takes the connection.
DetectH2 ==
    /\ pc = "detect" /\ speaks = "h2"
    /\ pc' = "h2"
    /\ UNCHANGED <<speaks, client, stream, buf, srvVars>>

-----------------------------------------------------------------------------
(* The head of a request.                                                  *)

\* The server may have begun to shut down (ctx is done) at any time.
LoopTop ==
    /\ pc = "top"
    /\ pc' \in {"parse", "done"}
    /\ UNCHANGED <<speaks, client, stream, buf, srvVars>>

\* Go to the reply that refuses the request and ends the connection.
Refusing(status) ==
    /\ pc' = "refuse"
    /\ res' = [NoRes EXCEPT !.status = status, !.close = TRUE]

ParseNext ==
    /\ pc = "parse" /\ ~NoInput
    /\ TakeFromConn
    /\ IF stream[buf.lo + 1].sym # "head"
       THEN Refusing(400) /\ UNCHANGED req
       ELSE LET h == client.heads[stream[buf.lo + 1].req]
                parsed == ParseHeader(h)
            IN  /\ req' = [n |-> stream[buf.lo + 1].req, length |-> parsed.length,
                           close |-> h.close]
                /\ IF parsed.status = 200 THEN pc' = "admit" /\ UNCHANGED res
                                          ELSE Refusing(parsed.status)
    /\ UNCHANGED <<speaks, client, stream, body, held, live, up, open, replies>>

\* EOF, also within a head, and a read deadline: only the first request of a
\* connection gets an answer when it does not come in time.
ParseFails ==
    /\ pc = "parse" /\ NoInput
    /\ \/ open /\ req.n = 0 /\ Refusing(400)
       \/ pc' = "done" /\ UNCHANGED res
    /\ UNCHANGED <<speaks, client, stream, buf, req, body, held, live, up, open,
                   replies>>

-----------------------------------------------------------------------------
(* Admission.                                                              *)

\* InboundChunkedMode may be "reject".
RejectChunked ==
    /\ pc = "admit" /\ req.length = Chunked
    /\ Refusing(501)
    /\ UNCHANGED <<speaks, client, stream, buf, req, body, held, live, up, open,
                   replies>>

DeclaredTooLarge ==
    /\ pc = "admit" /\ req.length > MaxBody
    /\ Refusing(413)
    /\ UNCHANGED <<speaks, client, stream, buf, req, body, held, live, up, open,
                   replies>>

GateRefuses ==
    /\ pc = "admit" /\ req.length <= MaxBody
    /\ Refusing(503)
    /\ UNCHANGED <<speaks, client, stream, buf, req, body, held, live, up, open,
                   replies>>

\* A slot is taken when the route has a limit.  The body's reader is attached
\* and the request gets its context.
Admit ==
    /\ pc = "admit" /\ req.length <= MaxBody
    /\ held' \in BOOLEAN
    /\ body' = [NoBody EXCEPT !.state = IF req.length = Chunked THEN "size"
                                        ELSE IF req.length > 0 THEN "length"
                                        ELSE "none"]
    /\ live' = TRUE
    /\ res' = NoRes
    /\ pc' = "serve"
    /\ UNCHANGED <<speaks, client, stream, buf, req, up, open, replies>>

\* The answer of a refusal may get through or not; handleConn returns.
Refuse ==
    /\ pc = "refuse"
    /\ \E written \in IF open THEN BOOLEAN ELSE {FALSE} :
          replies' = IF written
                     THEN Append(replies, [req |-> req.n, whole |-> TRUE, stray |-> FALSE])
                     ELSE replies
    /\ pc' = "done"
    /\ UNCHANGED <<speaks, client, stream, buf, req, body, res, held, live, up,
                   open>>
-----------------------------------------------------------------------------
(* The handler (Router.ServeHTTP) and the reader of the body.  The same    *)
(* reader is drained by CloseBody.                                         *)

\* CloseBody of a reader that is no io.Closer does nothing.
Reading ==
    \/ pc = "serve"
    \/ pc = "closeBody" /\ body.type = "own" /\ body.drained < DrainLimit

\* StreamingBodyReader.Read: no more than the declared length.
ReadLength ==
    /\ pc = "serve" /\ body.state = "length" /\ body.total < req.length /\ ~NoInput
    /\ TakeFromConn
    /\ body' = [body EXCEPT !.total = @ + 1]
    /\ UNCHANGED <<speaks, client, stream, pc, req, res, held, live, up, open,
                   replies>>

\* A read deadline (or too slow a drip) in the middle of a body of known
\* length closes the connection; an early end of the client's bytes does not.
LengthTimeout ==
    /\ pc = "serve" /\ body.state = "length" /\ body.total < req.length
    /\ NoInput
    /\ body' = [body EXCEPT !.state = "failed"]
    /\ open' = FALSE
    /\ UNCHANGED <<speaks, client, stream, buf, pc, req, res, held, live, up,
                   replies>>

Decoding == body.state \in ChunkStates \ {"done", "failed"}

\* ChunkedBodyReader.Read: one symbol; whatever is wrong closes the connection.
ReadChunked ==
    /\ Reading /\ Decoding /\ ~OverCeiling(body) /\ buf.cb < Len(stream)
    /\ TakeFromChunkedBufr
    /\ LET b == Decode(body, stream[buf.cb + 1].sym)
           data == b.total - body.total
       IN  /\ body' = [b EXCEPT !.drained = IF pc = "closeBody" THEN @ + data ELSE @]
           /\ open' = (open /\ b.state # "failed")
    /\ UNCHANGED <<speaks, client, stream, pc, req, res, held, live, up, replies>>

\* The ceiling, an early end of the client's bytes, a deadline.
ChunkedFails ==
    /\ Reading /\ Decoding /\ (OverCeiling(body) \/ buf.cb = Len(stream))
    /\ body' = [body EXCEPT !.state = "failed"]
    /\ open' = FALSE
    /\ UNCHANGED <<speaks, client, stream, buf, pc, req, res, held, live, up,
                   replies>>

\* The handler is not inside a call of Read, which goes on until it has data.
BetweenReads ==
    \/ body.state \in {"none", "length", "crlf", "done", "failed"}
    \/ (body.state = "size" /\ body.total = 0)

BodyRead ==
    CASE req.length = Chunked -> body.state = "done"
      [] req.length > 0 -> body.total = req.length
      [] OTHER -> TRUE

\* The WAF's inspection of a body (of a POST, PUT or PATCH) reads to the end of
\* it or to its own limit, and puts what it has read in front of the rest:
\* req.Body is an io.MultiReader from then on.
InspectBody ==
    /\ pc = "serve" /\ BetweenReads
    /\ body.type = "own" /\ body.state \notin {"none", "failed"}
    /\ body.total = MaxInspect \/ (BodyRead /\ body.total < MaxInspect)
    /\ body' = [body EXCEPT !.type = "multi"]
    /\ UNCHANGED <<speaks, client, stream, buf, pc, req, res, held, live, up, open,
                   replies>>

\* The checks for what is left of a body assert the type of req.Body, and fail
\* on a reader of the WAF's.
SeenUnread == body.type = "own" /\ ~BodyRead

\* The proxy has passed the request on and waits for the upstream.
AwaitUpstream ==
    /\ pc = "serve" /\ BetweenReads
    /\ pc' = "await"
    /\ UNCHANGED <<speaks, client, stream, buf, srvVars>>

\* An answer in res.Body, from any handler, middleware or the redirect, or from
\* an upstream.
HandlerAnswers ==
    /\ pc \in {"serve", "await"} /\ BetweenReads
    /\ \E status \in {200, 400}, close \in BOOLEAN :
          res' = [NoRes EXCEPT !.status = status, !.close = close \/ req.close]
    /\ pc' = "answer"
    /\ UNCHANGED <<speaks, client, stream, buf, req, body, held, live, up, open,
                   replies>>

MayStream == req.length > 0 /\ ~EarlyStream => BodyRead

\* An answer streamed from the upstream (res.StreamBody); raw when it is an
\* event stream or the client speaks HTTP/1.0.
HandlerStreams ==
    /\ pc = "await" /\ MayStream
    /\ \E raw, close \in BOOLEAN :
          res' = [NoRes EXCEPT !.kind = "stream", !.raw = raw,
                               !.close = close \/ req.close]
    /\ up' = "open"
    /\ pc' = "answer"
    /\ UNCHANGED <<speaks, client, stream, buf, req, body, held, live, open,
                   replies>>

\* The upstream's status is copied whatever it is: 101 without an upgrade.
UpstreamStrays ==
    /\ pc = "await"
    /\ \/ UNCHANGED up
          /\ \E close \in BOOLEAN :
                res' = [NoRes EXCEPT !.status = 101, !.close = close \/ req.close]
       \/ MayStream /\ up' = "open"
          /\ \E raw, close \in BOOLEAN :
                res' = [NoRes EXCEPT !.kind = "stream", !.status = 101, !.raw = raw,
                                     !.close = close \/ req.close]
    /\ pc' = "announce"
    /\ UNCHANGED <<speaks, client, stream, buf, req, body, held, live, open,
                   replies>>

\* serveWebSocketProxy: the handshake with the upstream forwards the head and
\* leaves the body, or what the WAF has not read of it, to the relay.  A refusal
\* of any kind is a 502.
HandlerUpgrades ==
    /\ pc = "await"
    /\ \/ body.total = 0 /\ body.state \in {"none", "length", "size"}
       \/ body.type = "multi"
    /\ \E accepted \in BOOLEAN :
          /\ res' = IF accepted THEN [NoRes EXCEPT !.kind = "upgrade", !.status = 101]
                    ELSE [NoRes EXCEPT !.status = 502, !.close = req.close]
          /\ up' = IF accepted THEN "open" ELSE up
    /\ pc' = "answer"
    /\ UNCHANGED <<speaks, client, stream, buf, req, body, held, live, open,
                   replies>>

-----------------------------------------------------------------------------
(* The answer.                                                             *)

Reply(whole) ==
    replies' = Append(replies, [req |-> req.n, whole |-> whole, stray |-> FALSE])

\* Every 101 is written as an upgrade would be; without a connection to relay
\* it is then written again as an answer like any other.
Announce ==
    /\ pc = "announce" /\ open
    /\ replies' = Append(replies, [req |-> req.n, whole |-> TRUE, stray |-> TRUE])
    /\ pc' = "answer"
    /\ UNCHANGED <<speaks, client, stream, buf, req, body, res, held, live, up,
                   open>>

\* A streamed body is not closed on this way out.
AnnounceFails ==
    /\ pc = "announce"
    /\ held' = FALSE /\ live' = FALSE
    /\ pc' = "done"
    /\ UNCHANGED <<speaks, client, stream, buf, req, body, res, up, open, replies>>

\* An upgrade is relayed from what br has not handed out yet.
SwitchProtocols ==
    /\ pc = "answer" /\ res.kind = "upgrade" /\ open
    /\ Reply(TRUE)
    /\ pc' = "switched"
    /\ UNCHANGED <<speaks, client, stream, buf, req, body, res, held, live, up,
                   open>>

\* From here on the client's bytes are the relay's and mean nothing here.
RelayBegins ==
    /\ pc = "switched"
    /\ client' = [heads |-> <<>>, todo |-> <<>>] /\ stream' = <<>>
    /\ buf' = [pfx |-> 0, cb |-> 0, lo |-> 0, hi |-> 0]
    /\ req' = [n |-> 0, length |-> 0, close |-> FALSE]
    /\ body' = NoBody /\ replies' = <<>>
    /\ pc' = "relay"
    /\ UNCHANGED <<speaks, res, held, live, up, open>>

SwitchFails ==
    /\ pc = "answer" /\ res.kind = "upgrade"
    /\ up' = "closed"
    /\ held' = FALSE /\ live' = FALSE
    /\ pc' = "done"
    /\ UNCHANGED <<speaks, client, stream, buf, req, body, res, open, replies>>

CloseBodyThen(after) ==
    /\ pc' = "closeBody"
    /\ res' = [res EXCEPT !.after = after]

\* A successful answer to a request whose body was not read is not sent: the
\* connection is severed.
SeverUnread ==
    /\ pc = "answer" /\ res.kind = "buffer" /\ SeenUnread /\ res.status < 400
    /\ CloseBodyThen("sever")
    /\ UNCHANGED <<speaks, client, stream, buf, req, body, held, live, up, open,
                   replies>>

Respond ==
    /\ pc = "answer" /\ res.kind = "buffer" /\ (~SeenUnread \/ res.status >= 400)
    /\ open
    /\ Reply(TRUE)
    /\ CloseBodyThen("loop")
    /\ UNCHANGED <<speaks, client, stream, buf, req, body, held, live, up, open>>

\* The client does not read in time, has gone, or the connection is closed.
RespondFails ==
    /\ pc = "answer" /\ res.kind = "buffer" /\ (~SeenUnread \/ res.status >= 400)
    /\ CloseBodyThen("return")
    /\ UNCHANGED <<speaks, client, stream, buf, req, body, held, live, up, open,
                   replies>>

(* relayStreamBody.                                                        *)

StreamHead ==
    /\ pc = "answer" /\ res.kind = "stream" /\ open
    /\ Reply(FALSE)
    /\ pc' = "streaming"
    /\ UNCHANGED <<speaks, client, stream, buf, req, body, res, held, live, up,
                   open>>

StreamHeadFails ==
    /\ pc = "answer" /\ res.kind = "stream"
    /\ up' = "closed"
    /\ CloseBodyThen("return")
    /\ UNCHANGED <<speaks, client, stream, buf, req, body, held, live, open,
                   replies>>

StreamPiece ==
    /\ pc = "streaming" /\ res.eof = "none" /\ res.pieces < MaxPieces
    /\ res' = [res EXCEPT !.pieces = @ + 1]
    /\ UNCHANGED <<speaks, client, stream, buf, pc, req, body, held, live, up,
                   open, replies>>

\* The upstream's body ends, with or without an error.
StreamEnds ==
    /\ pc = "streaming" /\ res.eof = "none"
    /\ \E eof \in {"clean", "broken"} : res' = [res EXCEPT !.eof = eof]
    /\ UNCHANGED <<speaks, client, stream, buf, pc, req, body, held, live, up,
                   open, replies>>

MarkWhole == replies' = [replies EXCEPT ![Len(replies)].whole = TRUE]

\* After a clean end the last chunk is written (a raw stream is ended by the
\* connection), and a chunked response may keep the connection.
\* Mutant: the last chunk is written whatever ended the stream.
StreamTerminates_Always ==
    /\ pc = "streaming" /\ res.eof # "none"
    /\ MarkWhole
    /\ up' = "closed"
    /\ CloseBodyThen(IF res.raw \/ res.close THEN "return" ELSE "keepAlive")
    /\ UNCHANGED <<speaks, client, stream, buf, req, body, held, live, open>>

StreamTerminates ==
    /\ pc = "streaming" /\ res.eof = "clean"
    /\ MarkWhole
    /\ up' = "closed"
    /\ CloseBodyThen(IF res.raw \/ res.close THEN "return" ELSE "keepAlive")
    /\ UNCHANGED <<speaks, client, stream, buf, req, body, held, live, open>>

\* A broken upstream, or a failed write of a piece or of the last chunk.
StreamSevered ==
    /\ pc = "streaming" /\ ~(res.eof = "clean" /\ res.raw)
    /\ open' = FALSE
    /\ up' = "closed"
    /\ CloseBodyThen("return")
    /\ UNCHANGED <<speaks, client, stream, buf, req, body, held, live, replies>>

-----------------------------------------------------------------------------
(* Cleanup.  CloseBody drains what is left of a chunked body, up to a      *)
(* bound, with ReadChunked and ChunkedFails; the reader is then dropped,   *)
(* with what chunkedBufr still holds.                                      *)

BodyClosed == ~Decoding \/ body.type = "multi" \/ body.drained >= DrainLimit

Undrained == body.type = "own" /\ body.state \in ChunkStates \ {"done"}

\* The slot is released and the context cancelled on every way out.  The loop
\* goes on only when no unread body is seen and neither side asked to close.
\* Mutant: the loop goes on although the body was not read.
Cleanup_Unread ==
    /\ pc = "closeBody" /\ BodyClosed
    /\ held' = FALSE /\ live' = FALSE
    /\ body' = NoBody
    /\ buf' = [buf EXCEPT !.cb = buf.lo]
    /\ open' = (open /\ ~Undrained /\ res.after # "sever")
    /\ pc' = IF \/ res.after = "loop" /\ ~res.close
                \/ res.after = "keepAlive"
             THEN "top" ELSE "done"
    /\ UNCHANGED <<speaks, client, stream, req, res, up, replies>>

Cleanup ==
    /\ pc = "closeBody" /\ BodyClosed
    /\ held' = FALSE /\ live' = FALSE
    /\ body' = NoBody
    /\ buf' = [buf EXCEPT !.cb = buf.lo]
    /\ open' = (open /\ ~Undrained /\ res.after # "sever")
    /\ pc' = IF \/ res.after = "loop" /\ ~SeenUnread /\ ~res.close
                \/ res.after = "keepAlive"
             THEN "top" ELSE "done"
    /\ UNCHANGED <<speaks, client, stream, req, res, up, replies>>

-----------------------------------------------------------------------------
ClientStep ==
    \/ \E h \in Heads : ClientBegins(h)
    \/ ClientContinues

ServerStep ==
    \/ Detect \/ DetectH2
    \/ LoopTop \/ ParseNext \/ ParseFails
    \/ RejectChunked \/ DeclaredTooLarge \/ GateRefuses \/ Admit \/ Refuse
    \/ ReadLength \/ LengthTimeout \/ ReadChunked \/ ChunkedFails
    \/ InspectBody \/ AwaitUpstream
    \/ HandlerAnswers \/ HandlerStreams \/ HandlerUpgrades
    \/ UpstreamStrays \/ Announce \/ AnnounceFails
    \/ SwitchProtocols \/ RelayBegins \/ SwitchFails
    \/ SeverUnread \/ Respond \/ RespondFails
    \/ StreamHead \/ StreamHeadFails \/ StreamPiece \/ StreamEnds
    \/ StreamTerminates \/ StreamSevered
    \/ Cleanup

-----------------------------------------------------------------------------
\* Whenever the loop looks for the next request, the first byte it will read
\* is the first byte of the request after the last one it has parsed: no byte
\* of a body is taken for a head, and no byte of the next request was consumed
\* with the body before it, whatever was pipelined, refused, cut off, drained
\* or left unread.  A relay starts with the first byte behind the head, unless
\* the WAF has read on.
RequestsInSync ==
    /\ pc \in {"top", "parse"} /\ open =>
          \A k \in DOMAIN stream : k <= buf.lo <=> stream[k].req <= req.n
    /\ pc = "switched" /\ body.type = "own" =>
          \A k \in DOMAIN stream :
             k <= buf.lo <=> \/ stream[k].req < req.n
                             \/ stream[k].req = req.n /\ stream[k].sym = "head"

\* What a request acquires ends with it on every path: between two requests,
\* and when handleConn has returned, no slot is held, no request context is
\* live and neither an upgraded connection nor a streamed body is open.  (The
\* one that came with a stray 101 that could not be written is.)
NothingHeldBetweenRequests ==
    pc \in {"top", "parse", "refuse", "done"} =>
       /\ ~held /\ ~live
       /\ up = "open" => pc = "done" /\ res.kind = "stream" /\ res.status = 101

\* Responses come in the order of the requests, at most one for each (one more
\* where an upstream sends a stray 101), and nothing follows one that is cut
\* off.
AnswersInOrder ==
    \A k, l \in DOMAIN replies :
       k < l => /\ replies[k].whole
                /\ \/ replies[k].req < replies[l].req
                   \/ /\ replies[k].req = replies[l].req
                      /\ replies[k].stray /\ ~replies[l].stray

\* A streamed response that its upstream did not finish is never ended as if
\* it were whole, and the connection does not live on.
FailClosed ==
    res.kind = "stream" /\ res.eof = "broken" /\ replies # <<>> =>
       ~replies[Len(replies)].whole /\ pc \in {"streaming", "closeBody", "done"}

\* The exchange of one connection is clean: answers in order, streams ended
\* only when they are whole, nothing held when a request is over.
ExchangeSafe ==
    /\ ConnTypeOK
    /\ NothingHeldBetweenRequests
    /\ AnswersInOrder
    /\ FailClosed
=============================================================================
