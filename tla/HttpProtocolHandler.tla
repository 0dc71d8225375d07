------------------------ MODULE HttpProtocolHandler -------------------------
(***************************************************************************)
(* The HTTP side of one connection: ProtocolDetectorHandler in front,      *)
(* which chooses the handler by the first bytes, and HttpProtocolHandler   *)
(* with HttpParser.                                                        *)
(*                                                                         *)
(* The kinds of requests:                                                  *)
(*   "short"  answered with one response: PUT up to kStreamingThreshold,   *)
(*            DELETE, GET /, an unsupported method                         *)
(*   "get"    GET of an object                                             *)
(*   "large"  PUT above kStreamingThreshold                                *)
(*   "bad"    input on which the parser reports Error                      *)
(* A request has the method and the blank behind it in its first           *)
(* kMethodLength bytes.                                                    *)
(*                                                                         *)
(* A call is a step, as in RespProtocolHandler.  leftoverBody is a view    *)
(* into m_incomingBuffer that outlives clear(): view says where data       *)
(* starts in that buffer's storage.  client.faults says what may fail:     *)
(* "write" a writeChunk, "finish" the end of an upload.                    *)
(***************************************************************************)
EXTENDS Connection

CONSTANT kMethodLength

\* A request begins with its method.  Nothing follows a body.
ASSUME HttpAssumption ==
    /\ kMethodLength \in Nat \ {0}
    /\ \A c \in Clients : \A i \in DOMAIN c.script :
           /\ c.script[i].kind \in {"short", "get", "large", "bad"}
           /\ c.script[i].head >= kMethodLength
           /\ c.script[i].tail = 0

VARIABLES
    m_delegate,             \* the detector has chosen HTTP
    m_state,
    m_bodyBytesRemaining,
    dropped,                \* history: bytes the detector has not passed on
    unreported,             \* history: uploads whose finish answered FailedToWrite
    garbled,                \* history: a copy within the buffer overlapped
    finished                \* history: the last upload that was finished, or None

history == <<dropped, unreported, garbled, finished>>
httpVars == <<m_delegate, m_state, m_bodyBytesRemaining, history>>
vars == <<client, incoming, call, m_incomingBuffer, m_activeSession, output,
          httpVars>>

Receive == Receives /\ UNCHANGED httpVars

-----------------------------------------------------------------------------
(* ProtocolDetectorHandler *)

detecting == turn = "callback" /\ ~m_delegate

\* isHttp on the first bytes of a connection.  No ending of a method name is
\* the beginning of one, so that bytes from further on never match.
isHttp(d) ==
    IF ~atRequest(d) THEN "NoMatch"
    ELSE IF Len(d) >= kMethodLength THEN "Match" ELSE "NeedMoreData"

Match ==
    /\ detecting /\ isHttp(data) = "Match"
    /\ m_delegate' = TRUE
    /\ UNCHANGED <<client, incoming, call, m_incomingBuffer, m_activeSession, output,
                   m_state, m_bodyBytesRemaining, history>>

NeedMoreData ==
    /\ detecting /\ isHttp(data) = "NeedMoreData"
    /\ dropped' = dropped \o data
    /\ Returns(TRUE)
    /\ UNCHANGED <<client, incoming, m_incomingBuffer, m_activeSession, output,
                   m_delegate, m_state, m_bodyBytesRemaining, unreported, garbled,
                   finished>>

\* Slip: what matches nothing goes to the HTTP handler.
NoMatchDelegates ==
    /\ detecting /\ isHttp(data) = "NoMatch"
    /\ m_delegate' = TRUE
    /\ UNCHANGED <<client, incoming, call, m_incomingBuffer, m_activeSession, output,
                   m_state, m_bodyBytesRemaining, history>>

NoMatch ==
    /\ detecting /\ isHttp(data) = "NoMatch"
    /\ Returns(FALSE)
    /\ UNCHANGED <<client, incoming, m_incomingBuffer, m_activeSession, output, httpVars>>

-----------------------------------------------------------------------------
(* Headers *)

\* m_incomingBuffer.append(data).  Where data is a view into the storage of
\* that same, cleared buffer and longer than the distance it is moved by, the
\* copy overlaps its source, which std::string does not allow.
AppendToBuffer ==
    LET overlaps == view > 0 /\ Len(data) > view
    IN  /\ turn = "callback" /\ m_delegate /\ m_state = "ParsingHeaders"
        /\ \/ m_incomingBuffer' = m_incomingBuffer \o data /\ UNCHANGED garbled
           \/ /\ overlaps
              /\ m_incomingBuffer' = [p \in DOMAIN data |-> [data[p] EXCEPT !.off = 0]]
              /\ garbled' = TRUE
        /\ turn' = "parse" /\ data' = <<>> /\ view' = 0
        /\ UNCHANGED <<client, incoming, keepGoing, m_activeSession, output, m_delegate,
                       m_state, m_bodyBytesRemaining, dropped, unreported, finished>>

parsing == turn = "parse"
buf == m_incomingBuffer

\* What HttpParser::parse makes of a buffer: the set of its possible results,
\* with the bytes consumed.
parse(b) ==
    LET incomplete == [result |-> "Incomplete", consumed |-> 0]
        error == [result |-> "Error", consumed |-> 0]
        complete(k) == [result |-> "Complete", consumed |-> k]
    IN  IF ~atRequest(b)
        THEN {incomplete, error} \cup {complete(k) : k \in 1 .. Len(b)}
        ELSE IF Len(b) < first(b).head THEN {incomplete}
        ELSE IF first(b).kind = "bad" THEN {error}
        ELSE {complete(first(b).head)}

\* A response that is ready at once.
handleRequest ==
    queueResponse(item(buf[1].req, "reply", 0)) /\ UNCHANGED m_activeReadSession

\* GET of an object that is found: its header, and the object to follow.
handleGetPath ==
    LET i == buf[1].req
    IN  /\ first(buf).kind = "get"
        /\ \E n \in 0 .. MaxChunks :
               /\ queueResponse(item(i, "header", n))
               /\ m_activeReadSession' = [req |-> i, chunks |-> n]

processRequest == handleRequest \/ handleGetPath

\* Slip: the whole buffer is cleared with the request.
RequestClearsAll ==
    /\ parsing /\ ~holdsLargeHead(buf)
    /\ \E outcome \in parse(buf) :
           /\ outcome.result = "Complete"
           /\ processRequest
    /\ m_incomingBuffer' = <<>>
    /\ Returns(TRUE)
    /\ UNCHANGED <<client, incoming, m_activeSession, wire, httpVars>>

\* One request of the buffer is executed; the others wait for more bytes.
Request ==
    /\ parsing /\ ~holdsLargeHead(buf)
    /\ \E outcome \in parse(buf) :
           /\ outcome.result = "Complete"
           /\ processRequest
           /\ m_incomingBuffer' = drop(buf, outcome.consumed)
    /\ Returns(TRUE)
    /\ UNCHANGED <<client, incoming, m_activeSession, wire, httpVars>>

\* Slip: an incomplete request is forgotten.
NeedsMoreForgets ==
    /\ parsing /\ ~holdsLargeHead(buf)
    /\ \E outcome \in parse(buf) : outcome.result = "Incomplete"
    /\ m_incomingBuffer' = <<>>
    /\ Returns(TRUE)
    /\ UNCHANGED <<client, incoming, m_activeSession, output, httpVars>>

NeedsMore ==
    /\ parsing /\ ~holdsLargeHead(buf)
    /\ \E outcome \in parse(buf) : outcome.result = "Incomplete"
    /\ Returns(TRUE)
    /\ UNCHANGED <<client, incoming, m_incomingBuffer, m_activeSession, output, httpVars>>

\* A response is queued; result says whether the connection goes on.
Answers(result) ==
    /\ queueResponse(item(buf[1].req, "reply", 0))
    /\ m_incomingBuffer' = <<>>
    /\ Returns(result)
    /\ UNCHANGED <<client, incoming, m_activeSession, m_activeReadSession, wire, httpVars>>

\* Slip: the 400 is sent and the connection stays open.
MalformedKept ==
    /\ parsing /\ ~holdsLargeHead(buf)
    /\ \E outcome \in parse(buf) : outcome.result = "Error"
    /\ Answers(TRUE)

\* 400, and the connection is given up.
Malformed ==
    /\ parsing /\ ~holdsLargeHead(buf)
    /\ \E outcome \in parse(buf) : outcome.result = "Error"
    /\ Answers(FALSE)

-----------------------------------------------------------------------------
(* Large bodies *)

\* Slip: the connection stays open with the body still to come.
BeginRefusedKept == parsing /\ holdsLargeHead(buf) /\ Answers(TRUE)

\* beginPut does not answer Ok: the body is not discarded, the connection ends.
BeginRefused == parsing /\ holdsLargeHead(buf) /\ Answers(FALSE)

BeginUpload ==
    /\ parsing /\ holdsLargeHead(buf)
    /\ m_activeSession' = [req |-> buf[1].req, bytes |-> <<>>]
    /\ m_bodyBytesRemaining' = first(buf).value
    /\ m_state' = "StreamingBody"
    /\ m_incomingBuffer' = <<>>
    /\ PassesOn(drop(buf, first(buf).head), first(buf).head)
    /\ UNCHANGED <<client, incoming, output, m_delegate, history>>

\* Slip: writeChunk is given all of the data.
wholeChunk == data

\* What of the data goes to writeChunk.
chunk == SubSeq(data, 1, least(Len(data), m_bodyBytesRemaining))

\* Part of the body goes to writeChunk, and it is not the last one.
ContinueStreamingBody ==
    /\ turn = "callback" /\ m_state = "StreamingBody"
    /\ Len(data) < m_bodyBytesRemaining
    /\ m_bodyBytesRemaining' = m_bodyBytesRemaining - Len(data)
    /\ m_activeSession' = [m_activeSession EXCEPT !.bytes = @ \o chunk]
    /\ Returns(TRUE)
    /\ UNCHANGED <<client, incoming, m_incomingBuffer, output, m_delegate, m_state,
                   history>>

\* Slip: the counter is not brought to zero.
FinishStreamingBodyKeepsCount ==
    /\ turn = "callback" /\ m_state = "StreamingBody"
    /\ Len(data) >= m_bodyBytesRemaining
    /\ m_bodyBytesRemaining' = m_bodyBytesRemaining - Len(data)
    /\ finished' = [m_activeSession EXCEPT !.bytes = @ \o chunk]
    /\ m_activeSession' = None
    /\ m_state' = "ParsingHeaders"
    /\ queueResponse(item(m_activeSession.req, "reply", 0)) /\ UNCHANGED unreported
    /\ PassesOn(drop(data, m_bodyBytesRemaining), view)
    /\ UNCHANGED <<client, incoming, m_incomingBuffer, m_activeReadSession, wire,
                   m_delegate, dropped, garbled>>

\* Slip: the bytes behind the body are lost.
FinishStreamingBodyDropsRest ==
    /\ turn = "callback" /\ m_state = "StreamingBody"
    /\ Len(data) >= m_bodyBytesRemaining
    /\ m_bodyBytesRemaining' = 0
    /\ finished' = [m_activeSession EXCEPT !.bytes = @ \o chunk]
    /\ m_activeSession' = None
    /\ m_state' = "ParsingHeaders"
    /\ queueResponse(item(m_activeSession.req, "reply", 0)) /\ UNCHANGED unreported
    /\ Returns(TRUE)
    /\ UNCHANGED <<client, incoming, m_incomingBuffer, m_activeReadSession, wire,
                   m_delegate, dropped, garbled>>

\* The last part of the body goes to writeChunk and the upload is finished.
\* finishStreamingBody has no case for FailedToWrite: no response is queued.
\* What follows the body goes to onBytesReceived.
FinishStreamingBody ==
    /\ turn = "callback" /\ m_state = "StreamingBody"
    /\ Len(data) >= m_bodyBytesRemaining
    /\ m_bodyBytesRemaining' = 0
    /\ finished' = [m_activeSession EXCEPT !.bytes = @ \o chunk]
    /\ m_activeSession' = None
    /\ m_state' = "ParsingHeaders"
    /\ \/ queueResponse(item(m_activeSession.req, "reply", 0)) /\ UNCHANGED unreported
       \/ /\ "finish" \in client.faults
          /\ unreported' = unreported \cup {m_activeSession.req}
          /\ UNCHANGED m_outgoingBuffer
    /\ PassesOn(drop(data, m_bodyBytesRemaining),
                IF view > 0 THEN view + m_bodyBytesRemaining ELSE 0)
    /\ UNCHANGED <<client, incoming, m_incomingBuffer, m_activeReadSession, wire,
                   m_delegate, dropped, garbled>>

\* writeChunk fails: abort, 500, and the connection is given up.
WriteFails ==
    /\ turn = "callback" /\ m_state = "StreamingBody"
    /\ "write" \in client.faults
    /\ m_activeSession' = None
    /\ m_state' = "ParsingHeaders"
    /\ queueResponse(item(m_activeSession.req, "reply", 0))
    /\ Returns(FALSE)
    /\ UNCHANGED <<client, incoming, m_incomingBuffer, m_activeReadSession, wire,
                   m_delegate, m_bodyBytesRemaining, history>>

-----------------------------------------------------------------------------
(* Output *)

\* takeOutgoingBytes, and the write of what it returns: what is queued, or
\* else the next chunk of the download, if there is one.
TakeOutgoingBytes ==
    LET r == m_activeReadSession
    IN  /\ turn = "write"
        /\ \/ /\ m_outgoingBuffer # <<>>
              /\ wire' = wire \o m_outgoingBuffer
              /\ UNCHANGED m_activeReadSession
           \/ /\ m_outgoingBuffer = <<>> /\ r # None /\ r.chunks > 0
              /\ wire' = Append(wire, item(r.req, "chunk", r.chunks - 1))
              /\ m_activeReadSession' = [r EXCEPT !.chunks = @ - 1]
           \/ /\ m_outgoingBuffer = <<>> /\ r # None /\ r.chunks = 0
              /\ m_activeReadSession' = None
              /\ UNCHANGED wire
        /\ m_outgoingBuffer' = <<>>
        /\ UNCHANGED <<client, incoming, call, m_incomingBuffer, m_activeSession,
                       httpVars>>

Written == ReadsOn /\ UNCHANGED httpVars

-----------------------------------------------------------------------------
Init ==
    /\ ConnectionInit
    /\ m_delegate = FALSE /\ m_state = "ParsingHeaders" /\ m_bodyBytesRemaining = 0
    /\ dropped = <<>> /\ unreported = {} /\ garbled = FALSE /\ finished = None

Handler == \/ Match \/ NeedMoreData \/ NoMatch
           \/ AppendToBuffer \/ Request \/ NeedsMore \/ Malformed
           \/ BeginRefused \/ BeginUpload \/ ContinueStreamingBody
           \/ FinishStreamingBody \/ WriteFails
           \/ TakeOutgoingBytes \/ Written

Next == Receive \/ Handler

\* io_context::run finishes callbacks and writes; the client sends its script
\* as far as it may.
Spec == Init /\ [][Next]_vars /\ WF_vars(Handler) /\ WF_vars(Receive)

-----------------------------------------------------------------------------
(* Properties *)

TypeOK ==
    /\ ConnectionTypeOK
    /\ m_delegate \in BOOLEAN /\ garbled \in BOOLEAN
    /\ m_state \in {"ParsingHeaders", "StreamingBody"}
    /\ m_bodyBytesRemaining \in Nat
    /\ dropped \in Seq(Byte) /\ unreported \subseteq DOMAIN script
    /\ finished \in [req : Nat, bytes : Seq(Byte)] \cup {None}

\* The handler never loses its place in the client's stream, however it is
\* cut: while it parses headers the next byte is the first of a request, also
\* when that request was moved within the buffer that held the body before
\* it, and while a body is streamed the counter says how many of its bytes
\* are to come.  Left out are bytes the detector let go, and what follows an
\* append that overlapped its own source.
FramingKept ==
    unconsumed # <<>> /\ turn # "closed" /\ keepGoing /\ dropped = <<>> /\ ~garbled =>
        LET next == unconsumed[1]
        IN  IF m_state = "ParsingHeaders" THEN next.off = 1
            ELSE /\ next.req = m_activeSession.req
                 /\ lengthOf(script[next.req]) - next.off + 1 = m_bodyBytesRemaining

\* Requests are answered once and in the order they were sent; only an upload
\* whose finish failed is passed over.
RepliesInOrder ==
    ~garbled =>
        /\ inOrder(sent, FALSE)
        /\ m_state = "ParsingHeaders" /\ unconsumed # <<>> /\ keepGoing =>
               answered = (1 .. (unconsumed[1].req - 1)) \ unreported

\* An upload is given the bytes of its own body and nothing else: not those
\* of the header or of the next request, none twice and none left out, though
\* the first of them are read from a buffer that has been cleared.  When it is
\* finished it has been given the whole body, the last chunk cut where the
\* body ends.
UploadIsValue ==
    /\ m_activeSession # None =>
           m_activeSession.bytes = valueUpTo(m_activeSession.req, m_bodyBytesRemaining)
    /\ givenAll(finished)

\* When the detector has let bytes go while it waited for more, nothing of
\* this connection is executed: what follows is not mistaken for a request.
NothingFromTheMiddle == dropped # <<>> => ~m_delegate /\ sent = <<>>

\* A client that waits for each response gets one to every request, unless
\* the connection is closed or the server could not finish an upload.
AllAnswered ==
    ~client.pipelining =>
        <>(turn = "closed" \/ unreported # {} \/ answered = DOMAIN script)

\* A connection that has delivered malformed input is closed, if the client
\* waited for its responses.
MalformedRejected ==
    (/\ ~client.pipelining
     /\ \E i \in DOMAIN script :
            /\ script[i].kind = "bad"
            /\ \A p \in DOMAIN incoming : incoming[p].req # i) ~> (turn = "closed")
=============================================================================
