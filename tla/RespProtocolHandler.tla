------------------------ MODULE RespProtocolHandler -------------------------
(***************************************************************************)
(* The RESP side of one connection: RespProtocolHandler with RespParser.   *)
(*                                                                         *)
(* The kinds of requests:                                                  *)
(*   "short"  a command answered with one reply, or an unknown command     *)
(*   "get"    GET                                                          *)
(*   "empty"  an array of no elements                                      *)
(*   "large"  SET or SETNX of a value above kStreamingThreshold            *)
(*   "bad"    input on which the parser reports Error                      *)
(*   "stuck"  malformed input that the parser takes for Incomplete: a bulk *)
(*            length that is no number or is below -1                      *)
(*                                                                         *)
(* onBytesReceived and the functions it calls recurse on the rest of the   *)
(* buffer; a call is a step, and data is what its callees still get.  view *)
(* is not 0 below tryBeginStreamingSetValue.  The storage's answers are    *)
(* free: BoundedObjectStorage models them.  client.faults says where       *)
(* writeChunk may fail: "first", from tryBeginStreamingSetValue, "later".  *)
(***************************************************************************)
EXTENDS Connection

VARIABLES
    m_state,
    m_valueBytesRemaining,
    m_trailingCrlfRemaining,
    m_discardBytesRemaining,
    finished                    \* history: the last upload that was finished,
                                \* or None

upload == <<m_activeSession, m_valueBytesRemaining, m_trailingCrlfRemaining, finished>>
respVars == <<m_state, m_valueBytesRemaining, m_trailingCrlfRemaining,
              m_discardBytesRemaining, finished>>
vars == <<client, incoming, call, m_incomingBuffer, m_activeSession, output,
          respVars>>

kCrlf == 2

ASSUME RespAssumption ==
    \A c \in Clients : \A i \in DOMAIN c.script :
        /\ c.script[i].kind \in {"short", "get", "empty", "large", "bad", "stuck"}
        /\ c.script[i].kind = "large" => c.script[i].tail = kCrlf

\* false out of tryBeginStreamingSetValue means to onBytesReceived that no
\* upload was begun: it parses its buffer, which is empty, and returns true.
Fails == Returns(view > 0)

Receive == Receives /\ UNCHANGED respVars

-----------------------------------------------------------------------------
(* Large values *)

buffered == m_incomingBuffer \o data

parsing == turn = "callback" /\ m_state = "ParsingCommands"

\* Slip: the CRLF behind the value is not discarded.
BeginRefusedShort ==
    LET i == buffered[1].req
    IN  /\ parsing /\ holdsLargeHead(buffered)
        /\ queueResponse(item(i, "reply", 0))
        /\ m_incomingBuffer' = <<>>
        /\ m_discardBytesRemaining' = script[i].value
        /\ m_state' = "DiscardingRejectedValue"
        /\ PassesOn(drop(buffered, script[i].head), script[i].head)
        /\ UNCHANGED <<client, incoming, upload, m_activeReadSession, wire>>

\* SETNX of an object that exists, or beginPut does not answer Ok: the reply
\* is queued at once and the value is skipped.
BeginRefused ==
    LET i == buffered[1].req
    IN  /\ parsing /\ holdsLargeHead(buffered)
        /\ queueResponse(item(i, "reply", 0))
        /\ m_incomingBuffer' = <<>>
        /\ m_discardBytesRemaining' = script[i].value + kCrlf
        /\ m_state' = "DiscardingRejectedValue"
        /\ PassesOn(drop(buffered, script[i].head), script[i].head)
        /\ UNCHANGED <<client, incoming, upload, m_activeReadSession, wire>>

BeginUpload ==
    LET i == buffered[1].req
    IN  /\ parsing /\ holdsLargeHead(buffered)
        /\ m_activeSession' = [req |-> i, bytes |-> <<>>]
        /\ m_valueBytesRemaining' = script[i].value
        /\ m_trailingCrlfRemaining' = kCrlf
        /\ m_state' = "StreamingValue"
        /\ m_incomingBuffer' = <<>>
        /\ PassesOn(drop(buffered, script[i].head), script[i].head)
        /\ UNCHANGED <<client, incoming, m_discardBytesRemaining, finished, output>>

\* Slip: writeChunk is given all of the data.
wholeChunk == data

\* What of the data goes to writeChunk.
chunk == SubSeq(data, 1, least(Len(data), m_valueBytesRemaining))

\* The value goes to writeChunk, the CRLF behind it is skipped, and when both
\* are through finishStreamingValue replies, whatever finish answers.
ContinueStreamingValue ==
    LET toConsume == least(Len(data), m_valueBytesRemaining)
        skipped == least(Len(data) - toConsume, m_trailingCrlfRemaining)
        rest == drop(data, toConsume + skipped)
        given == [m_activeSession EXCEPT !.bytes = @ \o chunk]
    IN  /\ turn = "callback" /\ m_state = "StreamingValue"
        /\ m_valueBytesRemaining' = m_valueBytesRemaining - toConsume
        /\ m_trailingCrlfRemaining' = m_trailingCrlfRemaining - skipped
        /\ IF m_valueBytesRemaining' + m_trailingCrlfRemaining' > 0
           THEN /\ m_activeSession' = given
                /\ Returns(TRUE)
                /\ UNCHANGED <<m_state, m_outgoingBuffer, finished>>
           ELSE /\ m_activeSession' = None
                /\ finished' = given
                /\ queueResponse(item(m_activeSession.req, "reply", 0))
                /\ m_state' = "ParsingCommands"
                /\ PassesOn(rest, view)
        /\ UNCHANGED <<client, incoming, m_incomingBuffer, m_discardBytesRemaining,
                       m_activeReadSession, wire>>

\* writeChunk fails: abort, and the rest of the buffer is dropped.
WriteFails ==
    /\ turn = "callback" /\ m_state = "StreamingValue"
    /\ m_valueBytesRemaining > 0
    /\ (IF view > 0 THEN "first" ELSE "later") \in client.faults
    /\ m_activeSession' = None
    /\ queueResponse(item(m_activeSession.req, "reply", 0))
    /\ m_state' = "ParsingCommands"
    /\ Fails
    /\ UNCHANGED <<client, incoming, m_incomingBuffer, m_valueBytesRemaining,
                   m_trailingCrlfRemaining, m_discardBytesRemaining, finished,
                   m_activeReadSession, wire>>

\* Slip: more is subtracted than was left to discard.
ContinueDiscardingUnderflows ==
    /\ turn = "callback" /\ m_state = "DiscardingRejectedValue"
    /\ m_discardBytesRemaining' = m_discardBytesRemaining - Len(data)
    /\ m_state' = IF m_discardBytesRemaining' > 0 THEN m_state ELSE "ParsingCommands"
    /\ PassesOn(drop(data, least(Len(data), m_discardBytesRemaining)), view)
    /\ UNCHANGED <<client, incoming, m_incomingBuffer, upload, output>>

\* Slip: what follows the discarded value in the same buffer is lost.
ContinueDiscardingDropsRest ==
    LET toDiscard == least(Len(data), m_discardBytesRemaining)
    IN  /\ turn = "callback" /\ m_state = "DiscardingRejectedValue"
        /\ m_discardBytesRemaining' = m_discardBytesRemaining - toDiscard
        /\ m_state' = IF m_discardBytesRemaining' > 0 THEN m_state
                                                      ELSE "ParsingCommands"
        /\ Returns(TRUE)
        /\ UNCHANGED <<client, incoming, m_incomingBuffer, upload, output>>

ContinueDiscardingValue ==
    LET toDiscard == least(Len(data), m_discardBytesRemaining)
    IN  /\ turn = "callback" /\ m_state = "DiscardingRejectedValue"
        /\ m_discardBytesRemaining' = m_discardBytesRemaining - toDiscard
        /\ m_state' = IF m_discardBytesRemaining' > 0 THEN m_state
                                                      ELSE "ParsingCommands"
        /\ PassesOn(drop(data, toDiscard), view)
        /\ UNCHANGED <<client, incoming, m_incomingBuffer, upload, output>>

-----------------------------------------------------------------------------
(* Whole commands *)

\* What RespParser::parse makes of a buffer: the set of its possible results,
\* with the bytes consumed.  Bytes that are not at the start of a request are
\* part of a value, and can be anything but the header of another upload.
parse(buf) ==
    LET incomplete == [result |-> "Incomplete", consumed |-> 0]
        error == [result |-> "Error", consumed |-> 0]
        complete(k) == [result |-> "Complete", consumed |-> k]
    IN  IF ~atRequest(buf)
        THEN {incomplete, error} \cup {complete(k) : k \in 1 .. Len(buf)}
        ELSE IF Len(buf) < first(buf).head \/ first(buf).kind = "stuck"
        THEN {incomplete}
        ELSE IF first(buf).kind = "bad" THEN {error}
        ELSE {complete(first(buf).head)}

\* The command at the front of the buffer.  KEYS, PING, SET, SETNX, DEL and
\* unknown commands are answered at once, GET of an object that is found
\* starts a download behind its header, and no elements get no reply.
processCommands(buf) ==
    LET i == buf[1].req
        kinds == IF atRequest(buf) THEN {first(buf).kind} ELSE {"short", "get", "empty"}
    IN  \/ /\ "empty" \in kinds
           /\ UNCHANGED <<m_outgoingBuffer, m_activeReadSession>>
        \/ /\ kinds # {"empty"}
           /\ queueResponse(item(i, "reply", 0))
           /\ UNCHANGED m_activeReadSession
        \/ /\ "get" \in kinds
           /\ \E n \in 0 .. MaxChunks :
                  /\ queueResponse(item(i, "header", n + 1))
                  /\ m_activeReadSession' = [req |-> i, chunks |-> n]

\* Slip: the command is not erased from the buffer.
CommandNotErased ==
    /\ parsing /\ ~holdsLargeHead(buffered)
    /\ \E outcome \in parse(buffered) :
           /\ outcome.result = "Complete"
           /\ processCommands(buffered)
    /\ m_incomingBuffer' = buffered
    /\ Returns(TRUE)
    /\ UNCHANGED <<client, incoming, m_state, upload, m_discardBytesRemaining, wire>>

\* One command of the buffer is executed; the others wait for more bytes.
Command ==
    /\ parsing /\ ~holdsLargeHead(buffered)
    /\ \E outcome \in parse(buffered) :
           /\ outcome.result = "Complete"
           /\ processCommands(buffered)
           /\ m_incomingBuffer' = drop(buffered, outcome.consumed)
    /\ Returns(TRUE)
    /\ UNCHANGED <<client, incoming, m_state, upload, m_discardBytesRemaining, wire>>

NeedsMore ==
    /\ parsing /\ ~holdsLargeHead(buffered)
    /\ \E outcome \in parse(buffered) : outcome.result = "Incomplete"
    /\ m_incomingBuffer' = buffered
    /\ Returns(TRUE)
    /\ UNCHANGED <<client, incoming, m_state, upload, m_discardBytesRemaining, output>>

\* Slip: malformed input is skipped and the connection stays open.
MalformedIgnored ==
    /\ parsing /\ ~holdsLargeHead(buffered)
    /\ \E outcome \in parse(buffered) : outcome.result = "Error"
    /\ m_incomingBuffer' = <<>>
    /\ Returns(TRUE)
    /\ UNCHANGED <<client, incoming, m_state, upload, m_discardBytesRemaining, output>>

Malformed ==
    /\ parsing /\ ~holdsLargeHead(buffered)
    /\ \E outcome \in parse(buffered) : outcome.result = "Error"
    /\ m_incomingBuffer' = <<>>
    /\ Fails
    /\ UNCHANGED <<client, incoming, m_state, upload, m_discardBytesRemaining, output>>

-----------------------------------------------------------------------------
(* Output *)

\* takeOutgoingBytes, and the write of what it returns: what is queued, or
\* else the next chunk of the download, or its final CRLF.
TakeOutgoingBytes ==
    LET r == m_activeReadSession
    IN  /\ turn = "write"
        /\ \/ /\ m_outgoingBuffer # <<>>
              /\ wire' = wire \o m_outgoingBuffer
              /\ UNCHANGED m_activeReadSession
           \/ /\ m_outgoingBuffer = <<>> /\ r # None /\ r.chunks > 0
              /\ wire' = Append(wire, item(r.req, "chunk", r.chunks))
              /\ m_activeReadSession' = [r EXCEPT !.chunks = @ - 1]
           \/ /\ m_outgoingBuffer = <<>> /\ r # None /\ r.chunks = 0
              /\ wire' = Append(wire, item(r.req, "end", 0))
              /\ m_activeReadSession' = None
        /\ m_outgoingBuffer' = <<>>
        /\ UNCHANGED <<client, incoming, call, m_incomingBuffer, m_activeSession,
                       respVars>>

Written == ReadsOn /\ UNCHANGED respVars

-----------------------------------------------------------------------------
Init ==
    /\ ConnectionInit
    /\ m_state = "ParsingCommands"
    /\ m_valueBytesRemaining = 0 /\ m_trailingCrlfRemaining = 0
    /\ m_discardBytesRemaining = 0 /\ finished = None

Handler == \/ BeginRefused \/ BeginUpload \/ ContinueStreamingValue \/ WriteFails
           \/ ContinueDiscardingValue \/ Command \/ NeedsMore \/ Malformed
           \/ TakeOutgoingBytes \/ Written

Next == Receive \/ Handler

\* io_context::run finishes callbacks and writes; the client sends its script
\* as far as it may.
Spec == Init /\ [][Next]_vars /\ WF_vars(Handler) /\ WF_vars(Receive)

-----------------------------------------------------------------------------
(* Properties *)

TypeOK ==
    /\ ConnectionTypeOK
    /\ m_state \in {"ParsingCommands", "StreamingValue", "DiscardingRejectedValue"}
    /\ {m_valueBytesRemaining, m_trailingCrlfRemaining, m_discardBytesRemaining}
           \subseteq Nat
    /\ finished \in [req : Nat, bytes : Seq(Byte)] \cup {None}

\* Where false out of tryBeginStreamingSetValue is taken for "no upload": a
\* first chunk that cannot be written, and malformed input in one buffer with
\* a whole large value before it.  The connection goes on behind the bytes
\* that were dropped.
mayLosePlace ==
    \/ "first" \in client.faults
    \/ /\ client.pipelining
       /\ \E i, j \in DOMAIN script :
              /\ i < j /\ j < Len(script)
              /\ script[i].kind = "large" /\ script[j].kind = "bad"

\* Otherwise the handler never loses its place in the client's stream, however
\* it is cut into buffers: while it parses commands the next byte is the first
\* of a request, and while it streams or discards a value the three counters
\* say exactly how many bytes are left until the next request.
FramingKept ==
    /\ unconsumed # <<>> /\ turn # "closed" /\ keepGoing
    /\ ~mayLosePlace
    =>  LET next == unconsumed[1]
            left == lengthOf(script[next.req]) - next.off + 1
        IN  CASE m_state = "ParsingCommands" -> next.off = 1
              [] m_state = "StreamingValue" ->
                     /\ next.req = m_activeSession.req
                     /\ left = m_valueBytesRemaining + m_trailingCrlfRemaining
              [] m_state = "DiscardingRejectedValue" ->
                     left = m_discardBytesRemaining

\* Requests are answered in the order they were sent, each once: the replies
\* queued so far are those of a prefix of the script, up to the request being
\* read.  What follows input the parser is stuck on is never executed.  Once
\* the place is lost the rest of a value is read as commands, which may give
\* one request several replies, but never one out of order.
RepliesInOrder ==
    /\ inOrder(sent, mayLosePlace)
    /\ m_state = "ParsingCommands" /\ unconsumed # <<>> /\ keepGoing /\ ~mayLosePlace =>
           answered = {i \in 1 .. (unconsumed[1].req - 1) : script[i].kind # "empty"}

\* An upload is given the bytes of its own value and nothing else: no byte of
\* the header, of the CRLF behind it or of the next request, none twice and
\* none left out, even after an earlier upload failed half way.  When it is
\* finished it has been given the whole value.
UploadIsValue ==
    /\ m_activeSession # None =>
           m_activeSession.bytes = valueUpTo(m_activeSession.req, m_valueBytesRemaining)
    /\ givenAll(finished)

\* All of request i has arrived.
delivered(i) == \A p \in DOMAIN incoming : incoming[p].req # i

\* A client that waits for each answer gets one to every request, unless the
\* connection is closed or the client has sent input the parser is stuck on.
AllAnswered ==
    ~client.pipelining =>
        <>(\/ turn = "closed"
           \/ answered = {i \in DOMAIN script : script[i].kind # "empty"}
           \/ \E i \in DOMAIN script : script[i].kind = "stuck" /\ delivered(i))

\* Input on which RespParser reports Error closes its connection, whatever came
\* before it, if the client waited for its answers.
ErrorsClose ==
    (~client.pipelining /\ \E i \in DOMAIN script : script[i].kind = "bad" /\ delivered(i))
        ~> (turn = "closed")

\* Malformed input leaves no connection hung: one that has delivered such input,
\* whatever the parser makes of it, is closed or answered.
MalformedRejected ==
    LET malformed(i) == script[i].kind \in {"bad", "stuck"}
    IN  (\E i \in DOMAIN script : malformed(i) /\ delivered(i))
            ~> (turn = "closed" \/ \E i \in DOMAIN script : malformed(i) /\ i \in answered)
=============================================================================
