---------------------------- MODULE MCServerConn ----------------------------
(* Two requests with heads of every kind of framing, a body limit of one   *)
(* byte and a drain limit of one byte.                                     *)
EXTENDS ServerConn

WithFields(cl, te) == [fault |-> "none", cl |-> cl, te |-> te, close |-> FALSE]

MCHeads ==
    { WithFields(<<>>, <<>>),
      [WithFields(<<>>, <<>>) EXCEPT !.close = TRUE],
      [WithFields(<<>>, <<>>) EXCEPT !.fault = "tooLong"],
      WithFields(<<1>>, <<>>), WithFields(<<2>>, <<>>), WithFields(<<1, 0>>, <<>>),
      WithFields(<<>>, <<<<"chunked">>>>),
      WithFields(<<>>, <<<<"gzip">>>>),
      WithFields(<<1>>, <<<<"chunked">>>>) }

\* One chunk at most is within the body limit; one body is malformed.
MCChunkedBodies ==
    { <<"zero", "blank">>,
      <<"size", "data", "crlf", "zero", "trailer", "blank">>,
      <<"size", "data", "crlf", "size", "data", "crlf", "zero", "blank">>,
      <<"size", "data", "bad", "blank">> }
=============================================================================
