----------------------------- MODULE RespProofs -----------------------------
(***************************************************************************)
(* Proofs about the RESP side of a connection, for every script a client   *)
(* may send, every way its bytes are cut into buffers of any size, and     *)
(* whatever the storage answers.                                           *)
(***************************************************************************)
EXTENDS RespProtocolHandler, ConnectionProofs

-----------------------------------------------------------------------------
(* The inductive invariant *)

\* The types, what belongs to each state of the handler, and that what it has
\* not consumed is one piece of the client's stream.  Outside ParsingCommands
\* nothing is buffered.
ShapeInv ==
    /\ TypeOK
    /\ contiguous(script, unconsumed)
    /\ turn # "parse"
    /\ ~keepGoing => turn \in {"write", "closed"}
    /\ m_state # "StreamingValue" => m_activeSession = None
    /\ m_state # "ParsingCommands" => m_incomingBuffer = <<>>
    /\ view > 0 => turn = "callback"

\* While a value is streamed, the counters place the next byte in it and the
\* session has been given all of the value before that byte.
StreamingInv ==
    m_state = "StreamingValue" =>
        LET i == m_activeSession.req
            r == script[i]
            v == m_valueBytesRemaining
            t == m_trailingCrlfRemaining
        IN  /\ m_activeSession \in [req : Nat, bytes : Seq(Byte)]
            /\ i \in 1 .. Len(script) /\ r.kind = "large"
            /\ v <= r.value /\ t <= kCrlf /\ v + t > 0
            /\ v > 0 => t = kCrlf
            /\ m_activeSession.bytes = valuePart(script, i, v)
            /\ unconsumed # <<>> =>
                   unconsumed[1] =
                       [req |-> i, off |-> r.head + (r.value - v) + (kCrlf - t) + 1]

\* While a value is discarded, the counter is what is left of its request.
DiscardingInv ==
    m_state = "DiscardingRejectedValue" =>
        /\ m_discardBytesRemaining > 0
        /\ unconsumed # <<>> =>
               /\ unconsumed[1].off > 0
               /\ script[unconsumed[1].req].kind = "large"
               /\ leftFrom(script, unconsumed[1]) = m_discardBytesRemaining

\* Commands are parsed from the start of a request.
ParsingInv ==
    m_state = "ParsingCommands" /\ unconsumed # <<>> /\ keepGoing /\ ~mayLosePlace =>
        unconsumed[1].off = 1

\* The first n requests, but for those that get no reply.
haveReplies(n) == {j \in 1 .. n : script[j].kind # "empty"}

\* The last request that may have its reply: the one before the next byte's,
\* or the next byte's when it is of a large value that is being discarded.
lastReplied ==
    IF m_state = "DiscardingRejectedValue" THEN unconsumed[1].req
                                           ELSE unconsumed[1].req - 1

\* Replies are in order, and the requests up to that one have theirs.
RepliesInv ==
    /\ inOrder(sent, mayLosePlace)
    /\ unconsumed # <<>> /\ keepGoing =>
           /\ mayLosePlace => \A j \in answered : j <= unconsumed[1].req
           /\ ~mayLosePlace => answered = haveReplies(lastReplied)

\* A client that waits for its answers has sent nothing behind a request that
\* has none.
DeliveredInv ==
    ~client.pipelining =>
        \A p \in 1 .. Len(buffered) : \A j \in 1 .. (buffered[p].req - 1) :
            script[j].kind = "empty" \/ j \in answered

\* Below tryBeginStreamingSetValue a large value has been begun: nothing else
\* is in the buffer unless the client sends ahead.
ViewInv ==
    view > 0 /\ ~mayLosePlace =>
        IF client.pipelining
        THEN m_state = "ParsingCommands" =>
                 \E i \in 1 .. (unconsumed[1].req - 1) : script[i].kind = "large"
        ELSE /\ m_state # "ParsingCommands"
             /\ \A p \in 1 .. Len(data) : data[p].req = data[1].req

\* The last item sent is the one before the next part of the object being
\* sent, and nothing is handled before the object's end.
ObjectsInv ==
    LET r == m_activeReadSession
        last == sent[Len(sent)]
    IN  /\ ObjectsUnbroken
        /\ r # None => turn = "write" /\ sent # <<>>
        /\ r # None => last.req = r.req /\ last.left = r.chunks + 1
        /\ r = None /\ sent # <<>> => last.left = 0

\* PlaceInv is inductive by itself, the other two with its help.
PlaceInv == ShapeInv /\ StreamingInv /\ DiscardingInv
OrderInv == ParsingInv /\ RepliesInv /\ DeliveredInv /\ ViewInv

-----------------------------------------------------------------------------
(* The script and the buffers *)

\* What a client sends is a script of RESP requests.
LEMMA ClientScript ==
    ASSUME NEW c \in Clients
    PROVE  /\ c.script \in Script /\ Len(c.script) \in Nat
           /\ DOMAIN c.script = 1 .. Len(c.script)
           /\ \A i \in 1 .. Len(c.script) :
                  LET r == c.script[i]
                  IN  /\ r.head \in Nat \ {0} /\ r.value \in Nat /\ r.tail \in Nat
                      /\ lengthOf(r) \in Nat \ {0}
                      /\ r.kind \in {"short", "get", "empty", "large", "bad", "stuck"}
                      /\ r.kind = "large" => r.value > 0 /\ r.tail = kCrlf
                      /\ r.kind # "large" => lengthOf(r) = r.head
<1>1. c.script \in Script
  BY ConnectionAssumption DEF Script
<1>2. Len(c.script) \in Nat /\ DOMAIN c.script = 1 .. Len(c.script)
  BY <1>1, LenProperties DEF Script
<1>3. ASSUME NEW i \in 1 .. Len(c.script)
      PROVE  LET r == c.script[i]
             IN  /\ r.head \in Nat \ {0} /\ r.value \in Nat /\ r.tail \in Nat
                 /\ lengthOf(r) \in Nat \ {0}
                 /\ r.kind \in {"short", "get", "empty", "large", "bad", "stuck"}
                 /\ r.kind = "large" => r.value > 0 /\ r.tail = kCrlf
                 /\ r.kind # "large" => lengthOf(r) = r.head
  <2> DEFINE r == c.script[i]
  <2>1. /\ r \in [kind : STRING, head : Nat \ {0}, value : Nat, tail : Nat]
        /\ lengthOf(r) \in Nat \ {0}
    BY <1>1, LengthPositive
  <2>2. i \in DOMAIN c.script
    BY <1>2
  <2>3. /\ r.kind \in {"short", "get", "empty", "large", "bad", "stuck"}
        /\ r.kind = "large" => r.tail = kCrlf
    BY <2>2, RespAssumption
  <2>4. /\ r.kind = "large" => r.value > BufferSize
        /\ r.kind # "large" => r.value = 0 /\ r.tail = 0
    BY <2>2, ConnectionAssumption
  <2>5. BufferSize \in Nat
    BY ConnectionAssumption
  <2> HIDE DEF r
  <2>6. r.head \in Nat \ {0} /\ r.value \in Nat /\ r.tail \in Nat
    BY <2>1
  <2>7. r.kind = "large" => r.value > 0
    BY <2>4, <2>5, <2>6
  <2>8. r.kind # "large" => lengthOf(r) = r.head
    BY <2>4, <2>6 DEF lengthOf
  <2> QED
    BY <2>1, <2>3, <2>6, <2>7, <2>8 DEF r
<1> QED
  BY <1>1, <1>2, <1>3

\* The buffers of a state.
LEMMA Buffers ==
    ASSUME ShapeInv
    PROVE  /\ client \in Clients /\ script \in Script /\ Len(script) \in Nat
           /\ m_incomingBuffer \in Seq(Byte) /\ data \in Seq(Byte) /\ incoming \in Seq(Byte)
           /\ buffered \in Seq(Byte) /\ unconsumed \in Seq(Byte)
           /\ unconsumed = buffered \o incoming
           /\ Len(buffered) = Len(m_incomingBuffer) + Len(data)
           /\ Len(unconsumed) = Len(buffered) + Len(incoming)
           /\ \A p \in 1 .. Len(buffered) : unconsumed[p] = buffered[p]
           /\ m_incomingBuffer = <<>> => buffered = data
           /\ turn = "callback" => data # <<>> /\ buffered # <<>> /\ unconsumed # <<>>
           /\ turn # "callback" => data = <<>> /\ buffered = m_incomingBuffer
<1>1. /\ client \in Clients
      /\ m_incomingBuffer \in Seq(Byte) /\ data \in Seq(Byte) /\ incoming \in Seq(Byte)
      /\ turn = "callback" <=> data # <<>>
  BY DEF ShapeInv, TypeOK, ConnectionTypeOK
<1>2. /\ buffered \in Seq(Byte) /\ Len(buffered) = Len(m_incomingBuffer) + Len(data)
  BY <1>1, ConcatProperties DEF buffered
<1>3. unconsumed = buffered \o incoming
  BY DEF unconsumed, buffered
<1>4. /\ unconsumed \in Seq(Byte) /\ Len(unconsumed) = Len(buffered) + Len(incoming)
      /\ \A p \in 1 .. (Len(buffered) + Len(incoming)) : unconsumed[p] =
             IF p <= Len(buffered) THEN buffered[p] ELSE incoming[p - Len(buffered)]
  <2>1. /\ buffered \o incoming \in Seq(Byte)
        /\ Len(buffered \o incoming) = Len(buffered) + Len(incoming)
        /\ \A p \in 1 .. (Len(buffered) + Len(incoming)) : (buffered \o incoming)[p] =
               IF p <= Len(buffered) THEN buffered[p] ELSE incoming[p - Len(buffered)]
    <3>1. buffered \in Seq(Byte) /\ incoming \in Seq(Byte)
      BY <1>1, <1>2
    <3> QED
      BY <3>1, ConcatProperties, Zenon
  <2> QED
    BY <1>3, <2>1, Zenon
<1>5. m_incomingBuffer = <<>> => buffered = data
  BY <1>1, ConcatEmptySeq DEF buffered
<1>6. turn # "callback" => data = <<>> /\ buffered = m_incomingBuffer
  BY <1>1, ConcatEmptySeq DEF buffered
<1>7. Len(buffered) \in Nat /\ Len(incoming) \in Nat /\ Len(m_incomingBuffer) \in Nat
  BY <1>1, <1>2, LenProperties
<1>8. turn = "callback" => data # <<>> /\ buffered # <<>> /\ unconsumed # <<>>
  <2> SUFFICES ASSUME turn = "callback"
               PROVE  data # <<>> /\ buffered # <<>> /\ unconsumed # <<>>
    OBVIOUS
  <2>1. data # <<>> /\ Len(data) \in Nat \ {0}
    BY <1>1, EmptySeq
  <2>2. Len(buffered) # 0 /\ Len(unconsumed) # 0
    BY <1>2, <1>4, <1>7, <2>1
  <2> QED
    BY <2>1, <2>2, EmptySeq
<1>9. \A p \in 1 .. Len(buffered) : unconsumed[p] = buffered[p]
  BY <1>4, <1>7
<1>10. script \in Script /\ Len(script) \in Nat
  BY <1>1, ClientScript DEF script
<1> QED
  BY <1>1, <1>2, <1>3, <1>4, <1>5, <1>6, <1>8, <1>9, <1>10

\* The first byte of what a handler has.
LEMMA FirstByte ==
    ASSUME ShapeInv, unconsumed # <<>>
    PROVE  LET b == unconsumed[1]
           IN  /\ b \in Byte /\ b.req \in Nat /\ b.off \in Nat
               /\ b.req \in 1 .. Len(script) /\ b.off <= lengthOf(script[b.req])
               /\ leftFrom(script, b) = lengthOf(script[b.req]) - b.off + 1
               /\ leftFrom(script, b) \in Nat \ {0}
<1>1. unconsumed \in Seq(Byte) /\ contiguous(script, unconsumed) /\ script \in Script
  BY Buffers DEF ShapeInv
<1>2. 1 \in 1 .. Len(unconsumed)
  BY <1>1, EmptySeq
<1>3. /\ unconsumed[1].req \in 1 .. Len(script)
      /\ unconsumed[1].off <= lengthOf(script[unconsumed[1].req])
  BY <1>1, <1>2 DEF contiguous
<1>4. unconsumed[1] \in Byte
  BY <1>1, <1>2, ElementOfSeq
<1>5. unconsumed[1].req \in Nat /\ unconsumed[1].off \in Nat
  BY <1>4 DEF Byte
<1>6. lengthOf(script[unconsumed[1].req]) \in Nat
  BY <1>1, <1>3, LengthPositive
<1>7. leftFrom(script, unconsumed[1]) =
          lengthOf(script[unconsumed[1].req]) - unconsumed[1].off + 1
  BY DEF leftFrom
<1>8. leftFrom(script, unconsumed[1]) \in Nat \ {0}
  BY <1>3, <1>5, <1>6, <1>7
<1> QED
  BY <1>3, <1>4, <1>5, <1>7, <1>8

-----------------------------------------------------------------------------
(* The handler's place in the stream *)

\* The part of PlaceInv that is about the input.
InputOK ==
    /\ client \in Clients
    /\ {incoming, data, m_incomingBuffer} \subseteq Seq(Byte)
    /\ view \in Nat /\ keepGoing \in BOOLEAN
    /\ turn \in {"read", "callback", "write", "closed"}
    /\ turn = "callback" <=> data # <<>>
    /\ contiguous(script, unconsumed)
    /\ ~keepGoing => turn \in {"write", "closed"}
    /\ view > 0 => turn = "callback"

\* The part that is about the state of the handler.
StateOK ==
    /\ m_state \in {"ParsingCommands", "StreamingValue", "DiscardingRejectedValue"}
    /\ {m_valueBytesRemaining, m_trailingCrlfRemaining, m_discardBytesRemaining}
           \subseteq Nat
    /\ m_activeSession \in [req : Nat, bytes : Seq(Byte)] \cup {None}
    /\ finished \in [req : Nat, bytes : Seq(Byte)] \cup {None}
    /\ m_state # "StreamingValue" => m_activeSession = None
    /\ m_state # "ParsingCommands" => m_incomingBuffer = <<>>
    /\ StreamingInv /\ DiscardingInv

LEMMA PlaceParts == PlaceInv <=> InputOK /\ StateOK /\ OutputOK
  BY DEF PlaceInv, ShapeInv, TypeOK, ConnectionTypeOK, InputOK, StateOK, OutputOK

\* Bytes arrive: nothing is consumed.
LEMMA ReceiveConsumes ==
    ASSUME ShapeInv, Receive
    PROVE  /\ unconsumed' = unconsumed /\ data' # <<>>
           /\ data' \in Seq(Byte) /\ incoming' \in Seq(Byte)
<1>1. PICK k \in 1 .. least(BufferSize, Len(incoming)) :
          data' = SubSeq(incoming, 1, k) /\ incoming' = drop(incoming, k)
  BY DEF Receive, Receives
<1>2. /\ incoming \in Seq(Byte) /\ m_incomingBuffer \in Seq(Byte) /\ Len(incoming) \in Nat
  BY Buffers, LenProperties
<1>3. k \in 0 .. Len(incoming) /\ k > 0
  BY <1>1, <1>2, ConnectionAssumption DEF least
<1>4. SubSeq(incoming, 1, k) \in Seq(Byte) /\ Len(SubSeq(incoming, 1, k)) = k
  BY <1>2, <1>3, SplitSeq
<1>5. data' \in Seq(Byte) /\ Len(data') = k
  BY <1>1, <1>4
<1>6. incoming' \in Seq(Byte)
  BY <1>1, <1>2, <1>3, DropProperties
<1>7. data' # <<>>
  BY <1>3, <1>5, EmptySeq
<1>8. (m_incomingBuffer \o data') \o incoming' = m_incomingBuffer \o incoming
  BY <1>1, <1>2, <1>3, Deliver
<1>9. m_incomingBuffer' = m_incomingBuffer
  BY DEF Receive, Receives
<1>10. unconsumed = m_incomingBuffer \o incoming
  BY Buffers DEF Receive, Receives
<1> QED
  BY <1>5, <1>6, <1>7, <1>8, <1>9, <1>10 DEF unconsumed

LEMMA ReceivePlace == PlaceInv /\ Receive => PlaceInv'
<1> SUFFICES ASSUME PlaceInv, Receive PROVE PlaceInv'
  OBVIOUS
<1>1. InputOK /\ StateOK /\ OutputOK /\ ShapeInv
  BY PlaceParts DEF PlaceInv
<1>2. /\ unconsumed' = unconsumed /\ data' # <<>>
      /\ data' \in Seq(Byte) /\ incoming' \in Seq(Byte)
  BY <1>1, ReceiveConsumes
<1>3. /\ turn = "read" /\ turn' = "callback" /\ view' = 0
      /\ UNCHANGED <<client, keepGoing, m_incomingBuffer, m_activeSession, output, respVars>>
  BY DEF Receive, Receives
<1>4. InputOK'
  BY <1>1, <1>2, <1>3 DEF InputOK, script
<1>5. StateOK'
  BY <1>1, <1>2, <1>3 DEF StateOK, StreamingInv, DiscardingInv, respVars, script
<1>6. OutputOK'
  BY <1>1, <1>3 DEF OutputOK, output
<1> QED
  BY <1>4, <1>5, <1>6, PlaceParts, PTL

\* An incomplete command stays in the buffer.
LEMMA NeedsMoreConsumes ==
    ASSUME ShapeInv, NeedsMore
    PROVE  unconsumed' = unconsumed /\ m_incomingBuffer' \in Seq(Byte)
<1>1. m_incomingBuffer' = buffered /\ data' = <<>> /\ incoming' = incoming
  BY DEF NeedsMore, Returns
<1>2. buffered \in Seq(Byte) /\ unconsumed = buffered \o incoming
  BY Buffers
<1>3. buffered \o <<>> = buffered
  BY <1>2, ConcatEmptySeq
<1> QED
  BY <1>1, <1>2, <1>3 DEF unconsumed

LEMMA NeedsMorePlace == PlaceInv /\ NeedsMore => PlaceInv'
<1> SUFFICES ASSUME PlaceInv, NeedsMore PROVE PlaceInv'
  OBVIOUS
<1>1. InputOK /\ StateOK /\ OutputOK /\ ShapeInv
  BY PlaceParts DEF PlaceInv
<1>2. unconsumed' = unconsumed /\ m_incomingBuffer' \in Seq(Byte)
  BY <1>1, NeedsMoreConsumes
<1>3. /\ m_state = "ParsingCommands" /\ turn' = "write" /\ view' = 0 /\ data' = <<>>
      /\ UNCHANGED <<client, incoming, m_state, upload, m_discardBytesRemaining, output>>
  BY DEF NeedsMore, parsing, Returns
<1>4. keepGoing' \in BOOLEAN /\ keepGoing'
  BY DEF NeedsMore, Returns
<1>5. <<>> \in Seq(Byte)
  BY EmptySeq
<1>6. InputOK'
  BY <1>1, <1>2, <1>3, <1>4, <1>5 DEF InputOK, script
<1>7. StateOK'
  BY <1>1, <1>3 DEF StateOK, StreamingInv, DiscardingInv, upload
<1>8. OutputOK'
  BY <1>1, <1>3 DEF OutputOK, output
<1> QED
  BY <1>6, <1>7, <1>8, PlaceParts, PTL

\* A step that drops all that is in the buffer.
LEMMA DropsBuffer ==
    ASSUME ShapeInv, m_incomingBuffer' = <<>>, data' = <<>>, incoming' = incoming
    PROVE  /\ unconsumed' = drop(unconsumed, Len(buffered))
           /\ Len(buffered) \in 0 .. Len(unconsumed)
           /\ contiguous(script, unconsumed')
<1>1. buffered \in Seq(Byte) /\ incoming \in Seq(Byte) /\ unconsumed = buffered \o incoming
  BY Buffers
<1>2. /\ (<<>> \o <<>>) \o incoming = drop(buffered \o incoming, Len(buffered))
      /\ Len(buffered) \in 0 .. Len(buffered \o incoming)
  BY <1>1, ConsumeAll
<1>3. unconsumed' = drop(unconsumed, Len(buffered)) /\ Len(buffered) \in 0 .. Len(unconsumed)
  BY <1>1, <1>2 DEF unconsumed
<1> QED
  BY <1>3, Advance DEF ShapeInv

LEMMA MalformedPlace == PlaceInv /\ Malformed => PlaceInv'
<1> SUFFICES ASSUME PlaceInv, Malformed PROVE PlaceInv'
  OBVIOUS
<1>1. InputOK /\ StateOK /\ OutputOK /\ ShapeInv
  BY PlaceParts DEF PlaceInv
<1>2. /\ m_state = "ParsingCommands" /\ turn' = "write" /\ view' = 0 /\ data' = <<>>
      /\ m_incomingBuffer' = <<>>
      /\ UNCHANGED <<client, incoming, m_state, upload, m_discardBytesRemaining, output>>
  BY DEF Malformed, parsing, Fails, Returns
<1>3. keepGoing' \in BOOLEAN
  BY DEF Malformed, Fails, Returns
<1>4. contiguous(script, unconsumed')
  BY <1>1, <1>2, DropsBuffer
<1>5. <<>> \in Seq(Byte)
  BY EmptySeq
<1>6. InputOK'
  BY <1>1, <1>2, <1>3, <1>4, <1>5 DEF InputOK, script
<1>7. StateOK'
  BY <1>1, <1>2 DEF StateOK, StreamingInv, DiscardingInv, upload
<1>8. OutputOK'
  BY <1>1, <1>2 DEF OutputOK, output
<1> QED
  BY <1>6, <1>7, <1>8, PlaceParts, PTL

\* Writing touches the output only.
LEMMA WrittenPlace == PlaceInv /\ Written => PlaceInv'
<1> SUFFICES ASSUME PlaceInv, Written PROVE PlaceInv'
  OBVIOUS
<1>1. InputOK /\ StateOK /\ OutputOK /\ ShapeInv
  BY PlaceParts DEF PlaceInv
<1>2. /\ turn = "write" /\ turn' = IF keepGoing THEN "read" ELSE "closed"
      /\ UNCHANGED <<client, incoming, data, view, keepGoing, m_incomingBuffer,
                     m_activeSession, output, respVars>>
  BY DEF Written, ReadsOn
<1>3. unconsumed' = unconsumed
  BY <1>2 DEF unconsumed
<1>4. InputOK'
  BY <1>1, <1>2, <1>3 DEF InputOK, script
<1>5. StateOK'
  BY <1>1, <1>2, <1>3 DEF StateOK, StreamingInv, DiscardingInv, respVars, script
<1>6. OutputOK'
  BY <1>1, <1>2 DEF OutputOK, output
<1> QED
  BY <1>4, <1>5, <1>6, PlaceParts, PTL

\* What takeOutgoingBytes does to what is sent.
LEMMA TakeOutgoing ==
    ASSUME OutputOK, TakeOutgoingBytes
    PROVE  /\ OutputOK'
           /\ LET r == m_activeReadSession
              IN  \/ sent' = sent /\ UNCHANGED m_activeReadSession
                  \/ /\ r \in [req : Nat, chunks : 0 .. MaxChunks] /\ r # None
                     /\ r.chunks > 0
                     /\ sent' = Append(sent, item(r.req, "chunk", r.chunks))
                     /\ m_activeReadSession' = [req |-> r.req, chunks |-> r.chunks - 1]
                  \/ /\ r \in [req : Nat, chunks : 0 .. MaxChunks] /\ r # None
                     /\ r.chunks = 0
                     /\ sent' = Append(sent, item(r.req, "end", 0))
                     /\ m_activeReadSession' = None
<1> DEFINE r == m_activeReadSession
<1>1. /\ m_outgoingBuffer \in Seq(Items) /\ wire \in Seq(Items)
      /\ r \in [req : Nat, chunks : 0 .. MaxChunks] \cup {None}
      /\ <<>> \in Seq(Items) /\ m_outgoingBuffer' = <<>> /\ MaxChunks \in Nat
  BY EmptySeq, ConnectionAssumption DEF OutputOK, TakeOutgoingBytes
<1>2. CASE wire' = wire \o m_outgoingBuffer /\ UNCHANGED m_activeReadSession
  <2>1. wire' \in Seq(Items)
    BY <1>1, <1>2, ConcatProperties
  <2>2. wire' \o <<>> = wire'
    BY <2>1, ConcatEmptySeq
  <2>3. sent' = sent
    BY <1>1, <1>2, <2>2 DEF sent
  <2> QED
    BY <1>1, <1>2, <2>1, <2>3 DEF OutputOK
<1>3. CASE /\ m_outgoingBuffer = <<>> /\ r # None /\ r.chunks > 0
           /\ wire' = Append(wire, item(r.req, "chunk", r.chunks))
           /\ m_activeReadSession' = [r EXCEPT !.chunks = @ - 1]
  <2>1. r \in [req : Nat, chunks : 0 .. MaxChunks] /\ r.req \in Nat /\ r.chunks \in 0 .. MaxChunks
    BY <1>1, <1>3
  <2>2. item(r.req, "chunk", r.chunks) \in Items
    BY <1>1, <2>1, ItemType
  <2>3. m_activeReadSession' = [req |-> r.req, chunks |-> r.chunks - 1]
    BY <1>3, <2>1
  <2>4. r.chunks - 1 \in 0 .. MaxChunks
    BY <1>1, <1>3, <2>1
  <2>5. wire' \in Seq(Items)
    BY <1>1, <1>3, <2>2, AppendProperties
  <2>6. sent' = Append(sent, item(r.req, "chunk", r.chunks))
    BY <1>1, <1>3, <2>2, SentGrows DEF sent
  <2> QED
    BY <1>1, <1>3, <2>1, <2>3, <2>4, <2>5, <2>6 DEF OutputOK
<1>4. CASE /\ m_outgoingBuffer = <<>> /\ r # None /\ r.chunks = 0
           /\ wire' = Append(wire, item(r.req, "end", 0))
           /\ m_activeReadSession' = None
  <2>1. r \in [req : Nat, chunks : 0 .. MaxChunks] /\ r.req \in Nat
    BY <1>1, <1>4
  <2>2. item(r.req, "end", 0) \in Items
    BY <2>1, ItemType
  <2>3. wire' \in Seq(Items)
    BY <1>1, <1>4, <2>2, AppendProperties
  <2>4. sent' = Append(sent, item(r.req, "end", 0))
    BY <1>1, <1>4, <2>2, SentGrows DEF sent
  <2> QED
    BY <1>1, <1>4, <2>1, <2>3, <2>4 DEF OutputOK
<1> QED
  BY <1>2, <1>3, <1>4 DEF TakeOutgoingBytes

LEMMA TakeOutgoingPlace == PlaceInv /\ TakeOutgoingBytes => PlaceInv'
<1> SUFFICES ASSUME PlaceInv, TakeOutgoingBytes PROVE PlaceInv'
  OBVIOUS
<1>1. InputOK /\ StateOK /\ OutputOK
  BY PlaceParts
<1>2. UNCHANGED <<client, incoming, call, m_incomingBuffer, m_activeSession, respVars>>
  BY DEF TakeOutgoingBytes
<1>3. unconsumed' = unconsumed
  BY <1>2 DEF unconsumed, call
<1>4. InputOK'
  BY <1>1, <1>2, <1>3 DEF InputOK, script, call
<1>5. StateOK'
  BY <1>1, <1>2, <1>3 DEF StateOK, StreamingInv, DiscardingInv, respVars, script
<1>6. OutputOK'
  BY <1>1, TakeOutgoing
<1> QED
  BY <1>4, <1>5, <1>6, PlaceParts, PTL

\* The request at the front of the buffer, which is the next one.
LEMMA AtFront ==
    ASSUME ShapeInv, turn = "callback"
    PROVE  LET i == buffered[1].req
           IN  /\ buffered[1] = unconsumed[1] /\ unconsumed # <<>>
               /\ i \in Nat /\ i \in 1 .. Len(script) /\ first(buffered) = script[i]
               /\ atRequest(buffered) <=> unconsumed[1].off = 1
               /\ script[i].head \in Nat \ {0} /\ script[i].value \in Nat
               /\ lengthOf(script[i]) \in Nat \ {0}
               /\ script[i].kind \in {"short", "get", "empty", "large", "bad", "stuck"}
               /\ script[i].kind = "large" =>
                      script[i].value > 0 /\ script[i].tail = kCrlf
               /\ script[i].kind # "large" => lengthOf(script[i]) = script[i].head
               /\ atRequest(buffered) =>
                      leftFrom(script, unconsumed[1]) = lengthOf(script[i])
<1>1. /\ buffered \in Seq(Byte) /\ buffered # <<>> /\ unconsumed # <<>>
      /\ \A p \in 1 .. Len(buffered) : unconsumed[p] = buffered[p]
      /\ client \in Clients
  BY Buffers
<1>2. 1 \in 1 .. Len(buffered)
  BY <1>1, EmptySeq
<1>3. buffered[1] = unconsumed[1]
  BY <1>1, <1>2
<1>4. /\ unconsumed[1].req \in Nat /\ unconsumed[1].req \in 1 .. Len(script)
      /\ leftFrom(script, unconsumed[1]) =
             lengthOf(script[unconsumed[1].req]) - unconsumed[1].off + 1
  BY <1>1, FirstByte
<1>5. LET r == script[unconsumed[1].req]
      IN  /\ r.head \in Nat \ {0} /\ r.value \in Nat
          /\ lengthOf(r) \in Nat \ {0}
          /\ r.kind \in {"short", "get", "empty", "large", "bad", "stuck"}
          /\ r.kind = "large" => r.value > 0 /\ r.tail = kCrlf
          /\ r.kind # "large" => lengthOf(r) = r.head
  BY <1>1, <1>4, ClientScript DEF script
<1>6. atRequest(buffered) <=> unconsumed[1].off = 1
  BY <1>3 DEF atRequest
<1>7. first(buffered) = script[unconsumed[1].req]
  BY <1>3 DEF first
<1>8. atRequest(buffered) =>
          leftFrom(script, unconsumed[1]) = lengthOf(script[unconsumed[1].req])
  BY <1>4, <1>5, <1>6
<1> QED
  BY <1>1, <1>3, <1>4, <1>5, <1>6, <1>7, <1>8

\* Where an upload begins or is refused, the request is consumed up to its
\* value.
LEMMA BeginConsumes ==
    ASSUME ShapeInv, turn = "callback", holdsLargeHead(buffered)
    PROVE  LET i == buffered[1].req
               rest == drop(buffered, script[i].head)
           IN  /\ rest \in Seq(Byte)
               /\ (<<>> \o rest) \o incoming = drop(unconsumed, script[i].head)
               /\ script[i].head \in 0 .. Len(unconsumed)
               /\ contiguous(script, drop(unconsumed, script[i].head))
               /\ script[i].kind = "large" /\ unconsumed[1].off = 1
               /\ lengthOf(script[i]) = script[i].head + script[i].value + kCrlf
               /\ drop(unconsumed, script[i].head) # <<>> =>
                      drop(unconsumed, script[i].head)[1] =
                          [req |-> i, off |-> script[i].head + 1]
<1> DEFINE i == buffered[1].req
           k == script[i].head
           rest == drop(buffered, k)
<1>1. /\ buffered[1] = unconsumed[1] /\ i \in 1 .. Len(script)
      /\ k \in Nat \ {0} /\ script[i].value \in Nat \ {0} /\ script[i].tail = kCrlf
      /\ script[i].kind = "large" /\ unconsumed[1].off = 1
      /\ leftFrom(script, unconsumed[1]) = lengthOf(script[i])
      /\ k <= Len(buffered)
  BY AtFront DEF holdsLargeHead
<1>2. /\ buffered \in Seq(Byte) /\ incoming \in Seq(Byte) /\ Len(buffered) \in Nat
      /\ unconsumed = buffered \o incoming /\ unconsumed # <<>>
  BY Buffers, LenProperties
<1>3. lengthOf(script[i]) = k + script[i].value + kCrlf
  BY <1>1 DEF lengthOf
<1> HIDE DEF k
<1>4. k \in 0 .. Len(buffered)
  BY <1>1, <1>2
<1>5. /\ rest \in Seq(Byte) /\ <<>> \o rest = rest
      /\ rest \o incoming = drop(unconsumed, k)
      /\ k \in 0 .. Len(unconsumed)
  BY <1>2, <1>4, Consume
<1> HIDE DEF rest
<1>6. contiguous(script, unconsumed)
  BY DEF ShapeInv
<1>7. k < leftFrom(script, unconsumed[1]) /\ unconsumed[1].off > 0
  BY <1>1, <1>3 DEF kCrlf
<1>8. /\ contiguous(script, drop(unconsumed, k))
      /\ drop(unconsumed, k) # <<>> =>
             /\ drop(unconsumed, k)[1] = unconsumed[k + 1]
             /\ unconsumed[k + 1] = [req |-> unconsumed[1].req, off |-> unconsumed[1].off + k]
  BY <1>5, <1>6, <1>7, Advance
<1>9. unconsumed[1].off + k = k + 1 /\ unconsumed[1].req = i
  BY <1>1
<1> HIDE DEF i
<1>10. drop(unconsumed, k) # <<>> => drop(unconsumed, k)[1] = [req |-> i, off |-> k + 1]
  BY <1>8, <1>9
<1> QED
  BY <1>1, <1>3, <1>5, <1>8, <1>10 DEF i, k, rest

LEMMA BeginRefusedPlace == PlaceInv /\ BeginRefused => PlaceInv'
<1> SUFFICES ASSUME PlaceInv, BeginRefused PROVE PlaceInv'
  OBVIOUS
<1> DEFINE i == buffered[1].req
           k == script[i].head
           rest == drop(buffered, k)
           u == drop(unconsumed, k)
<1>1. InputOK /\ StateOK /\ OutputOK /\ ShapeInv
  BY PlaceParts DEF PlaceInv
<1>2. turn = "callback" /\ holdsLargeHead(buffered) /\ m_state = "ParsingCommands"
  BY DEF BeginRefused, parsing
<1>3. /\ rest \in Seq(Byte) /\ (<<>> \o rest) \o incoming = u /\ contiguous(script, u)
      /\ script[i].kind = "large" /\ lengthOf(script[i]) = k + script[i].value + kCrlf
      /\ u # <<>> => u[1] = [req |-> i, off |-> k + 1]
  BY <1>1, <1>2, BeginConsumes
<1>4. i \in Nat /\ i \in 1 .. Len(script) /\ k \in Nat \ {0} /\ script[i].value \in Nat
  BY <1>1, <1>2, AtFront
<1>5. /\ m_outgoingBuffer' = Append(m_outgoingBuffer, item(i, "reply", 0))
      /\ m_incomingBuffer' = <<>>
      /\ m_discardBytesRemaining' = script[i].value + kCrlf
      /\ m_state' = "DiscardingRejectedValue"
      /\ PassesOn(rest, k)
      /\ UNCHANGED <<client, incoming, upload, m_activeReadSession, wire>>
  BY DEF BeginRefused, queueResponse
<1> HIDE DEF k, rest, u, i
<1>6. /\ data' = rest /\ view' \in Nat /\ turn' \in {"callback", "write"}
      /\ turn' = "callback" <=> rest # <<>>
      /\ view' > 0 => turn' = "callback"
  BY <1>4, <1>5 DEF PassesOn, Returns
<1>7. keepGoing' \in BOOLEAN /\ keepGoing'
  BY <1>1, <1>2, <1>5 DEF PassesOn, Returns, InputOK
<1>8. unconsumed' = u
  BY <1>3, <1>5, <1>6 DEF unconsumed
<1>9. <<>> \in Seq(Byte)
  BY EmptySeq
<1>10. InputOK'
  BY <1>1, <1>3, <1>5, <1>6, <1>7, <1>8, <1>9 DEF InputOK, script
<1>11. StateOK'
  <2>1. m_discardBytesRemaining' \in Nat \ {0}
    BY <1>4, <1>5 DEF kCrlf
  <2>2. script' = script
    BY <1>5 DEF script
  <2>3. u # <<>> => /\ u[1].off > 0 /\ script[u[1].req].kind = "large"
                    /\ leftFrom(script, u[1]) = script[i].value + kCrlf
    BY <1>3, <1>4 DEF leftFrom, kCrlf
  <2>4. DiscardingInv'
    BY <1>5, <1>8, <2>1, <2>2, <2>3 DEF DiscardingInv
  <2> QED
    BY <1>1, <1>2, <1>5, <2>1, <2>4 DEF StateOK, StreamingInv, upload
<1>12. OutputOK'
  BY <1>1, <1>4, <1>5, ReplyQueued
<1> QED
  BY <1>10, <1>11, <1>12, PlaceParts, PTL

LEMMA BeginUploadPlace == PlaceInv /\ BeginUpload => PlaceInv'
<1> SUFFICES ASSUME PlaceInv, BeginUpload PROVE PlaceInv'
  OBVIOUS
<1> DEFINE i == buffered[1].req
           k == script[i].head
           rest == drop(buffered, k)
           u == drop(unconsumed, k)
<1>1. InputOK /\ StateOK /\ OutputOK /\ ShapeInv
  BY PlaceParts DEF PlaceInv
<1>2. turn = "callback" /\ holdsLargeHead(buffered) /\ m_state = "ParsingCommands"
  BY DEF BeginUpload, parsing
<1>3. /\ rest \in Seq(Byte) /\ (<<>> \o rest) \o incoming = u /\ contiguous(script, u)
      /\ script[i].kind = "large" /\ lengthOf(script[i]) = k + script[i].value + kCrlf
      /\ u # <<>> => u[1] = [req |-> i, off |-> k + 1]
  BY <1>1, <1>2, BeginConsumes
<1>4. i \in Nat /\ i \in 1 .. Len(script) /\ k \in Nat \ {0} /\ script[i].value \in Nat
  BY <1>1, <1>2, AtFront
<1>5. /\ m_activeSession' = [req |-> i, bytes |-> <<>>]
      /\ m_incomingBuffer' = <<>>
      /\ m_valueBytesRemaining' = script[i].value
      /\ m_trailingCrlfRemaining' = kCrlf
      /\ m_state' = "StreamingValue"
      /\ PassesOn(rest, k)
      /\ UNCHANGED <<client, incoming, m_discardBytesRemaining, finished, output>>
  BY DEF BeginUpload
<1>K. k = script[i].head
  OBVIOUS
<1> HIDE DEF k, rest, u, i
<1>6. /\ data' = rest /\ view' \in Nat /\ turn' \in {"callback", "write"}
      /\ turn' = "callback" <=> rest # <<>>
      /\ view' > 0 => turn' = "callback"
  BY <1>4, <1>5 DEF PassesOn, Returns
<1>7. keepGoing' \in BOOLEAN /\ keepGoing'
  BY <1>1, <1>2, <1>5 DEF PassesOn, Returns, InputOK
<1>8. unconsumed' = u
  BY <1>3, <1>5, <1>6 DEF unconsumed
<1>9. <<>> \in Seq(Byte)
  BY EmptySeq
<1>10. InputOK'
  BY <1>1, <1>3, <1>5, <1>6, <1>7, <1>8, <1>9 DEF InputOK, script
<1>11. StateOK'
  <2>1. script' = script
    BY <1>5 DEF script
  <2>2. valuePart(script, i, script[i].value) = <<>>
    BY <1>4, ValuePartNone
  <2>3. k + 1 = k + (script[i].value - script[i].value) + (kCrlf - kCrlf) + 1
    BY <1>4 DEF kCrlf
  <2>4. StreamingInv'
    BY <1>3, <1>4, <1>5, <1>8, <1>9, <1>K, <2>1, <2>2, <2>3 DEF StreamingInv, kCrlf
  <2> QED
    BY <1>1, <1>4, <1>5, <1>9, <2>4 DEF StateOK, DiscardingInv, kCrlf
<1>12. OutputOK'
  BY <1>1, <1>5 DEF OutputOK, output
<1> QED
  BY <1>10, <1>11, <1>12, PlaceParts, PTL

\* The counters of continueStreamingValue: n bytes against v of the value and t
\* of the CRLF.
LEMMA StreamingCounts ==
    ASSUME NEW n \in Nat, NEW v \in Nat, NEW t \in Nat,
           t <= kCrlf, v + t > 0, v > 0 => t = kCrlf
    PROVE  LET c == least(n, v)
               k == least(n - c, t)
           IN  /\ c \in 0 .. n /\ c <= v /\ k \in Nat /\ k <= t
               /\ c + k \in 0 .. n /\ v - c \in Nat /\ t - k \in Nat
               /\ (v - c) + (t - k) > 0 => c + k = n /\ c + k < v + t
               /\ ~((v - c) + (t - k) > 0) => c + k = v + t
               /\ v - c > 0 => t - k = kCrlf
  BY DEF least, kCrlf

\* While a value is streamed the next byte is in it or in its CRLF, at the
\* place the counters say.
LEMMA StreamingNext ==
    ASSUME PlaceInv, m_state = "StreamingValue", unconsumed # <<>>
    PROVE  LET i == m_activeSession.req
               v == m_valueBytesRemaining
               t == m_trailingCrlfRemaining
           IN  /\ i \in Nat /\ i \in 1 .. Len(script) /\ script[i].kind = "large"
               /\ script[i].head \in Nat /\ script[i].value \in Nat
               /\ lengthOf(script[i]) = script[i].head + script[i].value + kCrlf
               /\ v \in 0 .. script[i].value /\ t \in Nat /\ t <= kCrlf /\ v + t > 0
               /\ v > 0 => t = kCrlf
               /\ unconsumed[1] = [req |-> i, off |-> script[i].head
                                       + (script[i].value - v) + (kCrlf - t) + 1]
               /\ unconsumed[1].req = i /\ unconsumed[1].off > 0
               /\ leftFrom(script, unconsumed[1]) = v + t
<1> DEFINE i == m_activeSession.req
           v == m_valueBytesRemaining
           t == m_trailingCrlfRemaining
           h == script[i].head
           x == script[i].value
<1>1. ShapeInv /\ StateOK /\ StreamingInv
  BY PlaceParts DEF PlaceInv
<1>2. client \in Clients
  BY <1>1, Buffers
<1>4. /\ m_activeSession \in [req : Nat, bytes : Seq(Byte)]
      /\ i \in 1 .. Len(script) /\ script[i].kind = "large"
      /\ v <= x /\ t <= kCrlf /\ v + t > 0
      /\ v > 0 => t = kCrlf
      /\ unconsumed[1] = [req |-> i, off |-> h + (x - v) + (kCrlf - t) + 1]
  BY <1>1 DEF StreamingInv
<1>5. i \in Nat /\ v \in Nat /\ t \in Nat
  BY <1>1, <1>4 DEF StateOK
<1>6. h \in Nat /\ x \in Nat /\ script[i].tail = kCrlf
  BY <1>2, <1>4, ClientScript DEF script
<1>7. lengthOf(script[i]) = h + x + kCrlf
  BY <1>6 DEF lengthOf
<1> DEFINE off0 == h + (x - v) + (kCrlf - t) + 1
<1>8. unconsumed[1].req = i /\ unconsumed[1].off = off0
  BY <1>4
<1>9. off0 \in Nat \ {0} /\ leftFrom(script, unconsumed[1]) = v + t
  <2>1. leftFrom(script, unconsumed[1]) = (h + x + kCrlf) - off0 + 1
    <3>1. leftFrom(script, unconsumed[1]) =
              lengthOf(script[unconsumed[1].req]) - unconsumed[1].off + 1
      BY DEF leftFrom
    <3> HIDE DEF h, x, i, off0
    <3> QED
      BY <1>7, <1>8, <3>1
  <2>2. /\ h \in Nat /\ x \in Nat /\ v \in Nat /\ t \in Nat
        /\ v <= x /\ t <= 2
    BY <1>4, <1>5, <1>6 DEF kCrlf
  <2> HIDE DEF h, x, v, t, i
  <2>3. off0 \in Nat \ {0} /\ (h + x + kCrlf) - off0 + 1 = v + t
    BY <2>2 DEF kCrlf
  <2> QED
    BY <2>1, <2>3
<1>10. unconsumed[1].off > 0
  BY <1>8, <1>9
<1> QED
  BY <1>4, <1>5, <1>6, <1>7, <1>8, <1>9, <1>10

\* What the streaming handler has: the next byte is in the value or its CRLF,
\* and the bytes that go to writeChunk are the next of the value.
LEMMA StreamingPlace ==
    ASSUME PlaceInv, turn = "callback", m_state = "StreamingValue"
    PROVE  LET i == m_activeSession.req
               v == m_valueBytesRemaining
               t == m_trailingCrlfRemaining
           IN  /\ i \in Nat /\ i \in 1 .. Len(script) /\ script[i].kind = "large"
               /\ script[i].head \in Nat /\ script[i].value \in Nat
               /\ lengthOf(script[i]) = script[i].head + script[i].value + kCrlf
               /\ v \in 0 .. script[i].value /\ t \in Nat /\ t <= kCrlf /\ v + t > 0
               /\ v > 0 => t = kCrlf
               /\ unconsumed # <<>> /\ buffered = data /\ data \in Seq(Byte)
               /\ Len(data) \in Nat \ {0}
               /\ unconsumed[1] = [req |-> i, off |-> script[i].head
                                       + (script[i].value - v) + (kCrlf - t) + 1]
               /\ leftFrom(script, unconsumed[1]) = v + t
               /\ \A p \in 1 .. least(Len(data), v) : data[p] =
                      [req |-> i, off |-> script[i].head + (script[i].value - v) + p]
<1> DEFINE i == m_activeSession.req
           v == m_valueBytesRemaining
           t == m_trailingCrlfRemaining
           h == script[i].head
           x == script[i].value
<1>1. ShapeInv /\ StateOK /\ StreamingInv
  BY PlaceParts DEF PlaceInv
<1>2. /\ unconsumed # <<>> /\ data \in Seq(Byte) /\ data # <<>> /\ client \in Clients
      /\ m_incomingBuffer = <<>> /\ buffered = data
      /\ \A p \in 1 .. Len(data) : unconsumed[p] = data[p]
      /\ Len(unconsumed) = Len(data) + Len(incoming) /\ incoming \in Seq(Byte)
  BY <1>1, Buffers DEF ShapeInv
<1>3. Len(data) \in Nat \ {0} /\ Len(incoming) \in Nat
  BY <1>2, EmptySeq, LenProperties
<1>4. /\ i \in Nat /\ i \in 1 .. Len(script) /\ script[i].kind = "large"
      /\ h \in Nat /\ x \in Nat /\ lengthOf(script[i]) = h + x + kCrlf
      /\ v \in 0 .. x /\ t \in Nat /\ t <= kCrlf /\ v + t > 0
      /\ v > 0 => t = kCrlf
      /\ unconsumed[1] = [req |-> i, off |-> h + (x - v) + (kCrlf - t) + 1]
      /\ unconsumed[1].req = i /\ unconsumed[1].off > 0
      /\ leftFrom(script, unconsumed[1]) = v + t
  BY <1>2, StreamingNext
<1> DEFINE off0 == h + (x - v) + (kCrlf - t) + 1
<1>5. unconsumed[1].off = off0
  BY <1>4
<1>6. ASSUME NEW p \in 1 .. least(Len(data), v)
      PROVE  data[p] = [req |-> i, off |-> h + (x - v) + p]
  <2>1. p \in 1 .. Len(data) /\ p <= v /\ v > 0
    BY <1>3, <1>4 DEF least
  <2>2. p \in 1 .. Len(unconsumed) /\ 1 \in 1 .. Len(unconsumed) /\ 1 <= p
    BY <1>2, <1>3, <2>1
  <2>3. unconsumed[1].off > 0 /\ p - 1 < leftFrom(script, unconsumed[1])
    BY <1>4, <2>1
  <2>4. contiguous(script, unconsumed)
    BY <1>1 DEF ShapeInv
  <2>5. unconsumed[p] = [req |-> unconsumed[1].req, off |-> unconsumed[1].off + (p - 1)]
    BY <2>2, <2>3, <2>4 DEF contiguous
  <2>6. off0 + (p - 1) = h + (x - v) + p
    BY <1>4, <2>1, SMTT(30) DEF kCrlf
  <2> QED
    BY <1>2, <1>4, <1>5, <2>1, <2>5, <2>6
<1> QED
  BY <1>2, <1>3, <1>4, <1>6

\* What writeChunk gets is the next part of the value.
LEMMA ChunkGiven ==
    ASSUME PlaceInv, turn = "callback", m_state = "StreamingValue"
    PROVE  LET i == m_activeSession.req
               v == m_valueBytesRemaining
           IN  /\ m_activeSession \in [req : Nat, bytes : Seq(Byte)]
               /\ m_activeSession.bytes \o chunk \in Seq(Byte)
               /\ m_activeSession.bytes \o chunk =
                      valuePart(script, i, v - least(Len(data), v))
<1> DEFINE i == m_activeSession.req
           v == m_valueBytesRemaining
           c == least(Len(data), v)
<1>1. /\ i \in Nat /\ script[i].head \in Nat /\ script[i].value \in Nat
      /\ v \in 0 .. script[i].value /\ data \in Seq(Byte) /\ Len(data) \in Nat
      /\ \A p \in 1 .. c : data[p] =
             [req |-> i, off |-> script[i].head + (script[i].value - v) + p]
  BY StreamingPlace
<1>2. /\ m_activeSession \in [req : Nat, bytes : Seq(Byte)]
      /\ m_activeSession.bytes = valuePart(script, i, v)
  BY DEF PlaceInv, StreamingInv
<1>3. c \in 0 .. Len(data) /\ c <= v
  BY <1>1 DEF least
<1>4. chunk = SubSeq(data, 1, c)
  BY DEF chunk
<1> HIDE DEF i, v, c
<1>5. valuePart(script, i, v) \o SubSeq(data, 1, c) = valuePart(script, i, v - c)
  BY <1>1, <1>3, ValuePartGrows
<1>6. SubSeq(data, 1, c) \in Seq(Byte)
  BY <1>1, <1>3, SplitSeq
<1>7. m_activeSession.bytes \o SubSeq(data, 1, c) \in Seq(Byte)
  BY <1>2, <1>6, ConcatProperties
<1> QED
  BY <1>2, <1>4, <1>5, <1>7 DEF i, v, c

\* Part of the value goes to the session, or its last part and what follows
\* it to the parser.
LEMMA StreamingConsumes ==
    ASSUME PlaceInv, ContinueStreamingValue
    PROVE  LET v == m_valueBytesRemaining
               t == m_trailingCrlfRemaining
               c == least(Len(data), v)
               k == c + least(Len(data) - c, t)
           IN  /\ k \in 0 .. Len(data) /\ k \in 0 .. Len(unconsumed)
               /\ drop(data, k) \in Seq(Byte)
               /\ unconsumed' = drop(unconsumed, k)
               /\ data' = drop(data, k)
               /\ (v - c) + (t - least(Len(data) - c, t)) > 0 => data' = <<>>
<1> DEFINE v == m_valueBytesRemaining
           t == m_trailingCrlfRemaining
           c == least(Len(data), v)
           k == c + least(Len(data) - c, t)
<1>1. turn = "callback" /\ m_state = "StreamingValue" /\ ShapeInv
  BY DEF ContinueStreamingValue, PlaceInv
<1>2. /\ data \in Seq(Byte) /\ Len(data) \in Nat /\ v \in Nat /\ t \in Nat
      /\ t <= kCrlf /\ v + t > 0
      /\ v > 0 => t = kCrlf
  BY <1>1, StreamingPlace
<1>3. m_incomingBuffer = <<>> /\ incoming \in Seq(Byte) /\ buffered = data
      /\ unconsumed = buffered \o incoming
  BY <1>1, Buffers DEF ShapeInv
<1>4. /\ k \in 0 .. Len(data)
      /\ (v - c) + (t - least(Len(data) - c, t)) > 0 => k = Len(data)
  BY <1>2, StreamingCounts
<1>5. /\ m_valueBytesRemaining' = v - c
      /\ m_trailingCrlfRemaining' = t - least(Len(data) - c, t)
      /\ IF m_valueBytesRemaining' + m_trailingCrlfRemaining' > 0
         THEN Returns(TRUE) ELSE PassesOn(drop(data, k), view)
      /\ m_incomingBuffer' = m_incomingBuffer /\ incoming' = incoming
  BY DEF ContinueStreamingValue
<1>6. drop(data, Len(data)) = <<>>
  BY <1>2, DropEnds
<1> HIDE DEF c, k
<1>7. data' = drop(data, k)
  BY <1>4, <1>5, <1>6 DEF PassesOn, Returns
<1>8. /\ drop(data, k) \in Seq(Byte) /\ <<>> \o drop(data, k) = drop(data, k)
      /\ drop(data, k) \o incoming = drop(data \o incoming, k)
      /\ k \in 0 .. Len(data \o incoming)
  <2>1. data \in Seq(Byte) /\ incoming \in Seq(Byte) /\ k \in 0 .. Len(data)
    BY <1>2, <1>3, <1>4
  <2> QED
    BY <2>1, Consume
<1>9. unconsumed' = drop(unconsumed, k) /\ k \in 0 .. Len(unconsumed)
  BY <1>3, <1>5, <1>7, <1>8 DEF unconsumed
<1>10. (v - c) + (t - least(Len(data) - c, t)) > 0 => data' = <<>>
  BY <1>4, <1>6, <1>7
<1> QED
  BY <1>4, <1>7, <1>8, <1>9, <1>10 DEF c, k

LEMMA ContinueStreamingPlace == PlaceInv /\ ContinueStreamingValue => PlaceInv'
<1> SUFFICES ASSUME PlaceInv, ContinueStreamingValue PROVE PlaceInv'
  OBVIOUS
<1> DEFINE i == m_activeSession.req
           h == script[i].head
           x == script[i].value
           v == m_valueBytesRemaining
           t == m_trailingCrlfRemaining
           n == Len(data)
           c == least(n, v)
           s == least(n - c, t)
           u == drop(unconsumed, c + s)
<1>1. /\ InputOK /\ StateOK /\ OutputOK /\ StreamingInv
      /\ turn = "callback" /\ m_state = "StreamingValue"
  BY PlaceParts DEF ContinueStreamingValue, StateOK
<1>2. /\ i \in Nat /\ i \in 1 .. Len(script) /\ script[i].kind = "large"
      /\ h \in Nat /\ x \in Nat
      /\ v \in 0 .. x /\ t \in Nat /\ t <= kCrlf /\ v + t > 0
      /\ v > 0 => t = kCrlf
      /\ unconsumed # <<>> /\ data \in Seq(Byte) /\ n \in Nat \ {0}
      /\ unconsumed[1] = [req |-> i, off |-> h + (x - v) + (kCrlf - t) + 1]
      /\ leftFrom(script, unconsumed[1]) = v + t
      /\ \A p \in 1 .. c : data[p] = [req |-> i, off |-> h + (x - v) + p]
  BY <1>1, StreamingPlace
<1>3. /\ c + s \in 0 .. Len(unconsumed) /\ unconsumed' = u
      /\ drop(data, c + s) \in Seq(Byte) /\ data' = drop(data, c + s)
      /\ (v - c) + (t - s) > 0 => data' = <<>>
  BY StreamingConsumes
<1>4. /\ m_valueBytesRemaining' = v - c /\ m_trailingCrlfRemaining' = t - s
      /\ IF (v - c) + (t - s) > 0
         THEN /\ m_activeSession' = [m_activeSession EXCEPT !.bytes = @ \o chunk]
              /\ Returns(TRUE)
              /\ UNCHANGED <<m_state, m_outgoingBuffer, finished>>
         ELSE /\ m_activeSession' = None
              /\ finished' = [m_activeSession EXCEPT !.bytes = @ \o chunk]
              /\ m_outgoingBuffer' = Append(m_outgoingBuffer, item(i, "reply", 0))
              /\ m_state' = "ParsingCommands"
              /\ PassesOn(drop(data, c + s), view)
      /\ UNCHANGED <<client, incoming, m_incomingBuffer, m_discardBytesRemaining,
                     m_activeReadSession, wire>>
  BY DEF ContinueStreamingValue, queueResponse
<1>5. /\ c \in 0 .. n /\ c <= v /\ s \in Nat /\ s <= t /\ v - c \in Nat /\ t - s \in Nat
      /\ (v - c) + (t - s) > 0 => c + s < v + t
      /\ v - c > 0 => t - s = kCrlf
  <2>1. /\ n \in Nat /\ v \in Nat /\ t \in Nat /\ t <= kCrlf /\ v + t > 0
        /\ v > 0 => t = kCrlf
    BY <1>2
  <2> HIDE DEF n, v, t
  <2> QED
    BY <2>1 DEF least, kCrlf
<1> HIDE DEF c, s, u, h, x, i, n
<1>6. /\ contiguous(script, u)
      /\ u # <<>> /\ c + s < v + t => u[1] =
             [req |-> unconsumed[1].req, off |-> unconsumed[1].off + (c + s)]
  <2>1. contiguous(script, unconsumed)
    BY <1>1 DEF InputOK
  <2>2. unconsumed[1].off > 0
    BY <1>2 DEF kCrlf
  <2> DEFINE k == c + s
  <2>3. k \in 0 .. Len(unconsumed)
    BY <1>3
  <2> HIDE DEF k
  <2>4. /\ contiguous(script, drop(unconsumed, k))
        /\ drop(unconsumed, k) # <<>> /\ k < leftFrom(script, unconsumed[1]) =>
               drop(unconsumed, k)[1] =
                   [req |-> unconsumed[1].req, off |-> unconsumed[1].off + k]
    BY <2>1, <2>2, <2>3, Advance
  <2> QED
    BY <1>2, <2>4 DEF u, k
<1>7. /\ turn' \in {"callback", "write"}
      /\ turn' = "callback" <=> data' # <<>>
      /\ view' \in Nat
      /\ view' > 0 => turn' = "callback"
  BY <1>1, <1>3, <1>4 DEF PassesOn, Returns, InputOK
<1>8. keepGoing' \in BOOLEAN /\ keepGoing'
  BY <1>1, <1>4 DEF PassesOn, Returns, InputOK
<1>9. InputOK'
  <2>1. UNCHANGED <<client, incoming, m_incomingBuffer>> /\ data' \in Seq(Byte)
    BY <1>3, <1>4
  <2> QED
    BY <1>1, <1>3, <1>6, <1>7, <1>8, <2>1 DEF InputOK, script
<1>10. StateOK'
  <2>1. /\ script' = script /\ m_incomingBuffer' = <<>>
        /\ m_valueBytesRemaining' \in Nat /\ m_trailingCrlfRemaining' \in Nat
        /\ m_discardBytesRemaining' \in Nat
    BY <1>1, <1>4, <1>5 DEF StateOK, script
  <2>2. /\ m_activeSession \in [req : Nat, bytes : Seq(Byte)]
        /\ m_activeSession.bytes \o chunk \in Seq(Byte)
        /\ m_activeSession.bytes \o chunk = valuePart(script, i, v - c)
    BY <1>1, ChunkGiven DEF i, c, n
  <2>3. CASE (v - c) + (t - s) > 0
    <3>1. m_activeSession' = [req |-> i, bytes |-> m_activeSession.bytes \o chunk]
      BY <1>4, <2>3, <2>2 DEF i
    <3>2. /\ m_activeSession' \in [req : Nat, bytes : Seq(Byte)]
          /\ m_activeSession'.req = i
          /\ m_activeSession'.bytes = valuePart(script, i, v - c)
      BY <1>2, <2>2, <3>1
    <3>3. u # <<>> => u[1] = [req |-> i, off |-> h + (x - (v - c)) + (kCrlf - (t - s)) + 1]
      <4>1. unconsumed[1].req = i /\ unconsumed[1].off = h + (x - v) + (kCrlf - t) + 1
        BY <1>2
      <4>2. h + (x - v) + (kCrlf - t) + 1 + (c + s)
                = h + (x - (v - c)) + (kCrlf - (t - s)) + 1
        BY <1>2, <1>5 DEF kCrlf
      <4> QED
        BY <1>5, <1>6, <2>3, <4>1, <4>2
    <3>4. v - c <= x /\ t - s <= kCrlf
      BY <1>2, <1>5 DEF kCrlf
    <3>5. m_state' = "StreamingValue"
      BY <1>1, <1>4, <2>3
    <3>6. StreamingInv'
      BY <1>2, <1>3, <1>4, <1>5, <2>1, <2>3, <3>2, <3>3, <3>4 DEF StreamingInv, h, x
    <3> QED
      BY <1>1, <1>4, <2>1, <2>3, <3>2, <3>5, <3>6 DEF StateOK, DiscardingInv
  <2>4. CASE ~((v - c) + (t - s) > 0)
    <3>1. finished' = [req |-> i, bytes |-> m_activeSession.bytes \o chunk]
      BY <1>4, <2>4, <2>2 DEF i
    <3>2. finished' \in [req : Nat, bytes : Seq(Byte)]
      BY <1>2, <2>2, <3>1
    <3> QED
      BY <1>4, <2>1, <2>4, <3>2 DEF StateOK, StreamingInv, DiscardingInv
  <2> QED
    BY <2>3, <2>4
<1>11. OutputOK'
  <2>1. item(i, "reply", 0) \in Items
    BY <1>2, ItemType
  <2>2. m_outgoingBuffer \in Seq(Items)
    BY <1>1 DEF OutputOK
  <2>3. m_outgoingBuffer' \in Seq(Items)
    <3>1. Append(m_outgoingBuffer, item(i, "reply", 0)) \in Seq(Items)
      BY <2>1, <2>2, AppendProperties
    <3> QED
      BY <1>4, <2>2, <3>1
  <2>4. UNCHANGED <<m_activeReadSession, wire>>
    BY <1>4
  <2> QED
    BY <1>1, <2>3, <2>4 DEF OutputOK
<1> QED
  BY <1>9, <1>10, <1>11, PlaceParts, PTL

LEMMA WriteFailsPlace == PlaceInv /\ WriteFails => PlaceInv'
<1> SUFFICES ASSUME PlaceInv, WriteFails PROVE PlaceInv'
  OBVIOUS
<1>1. InputOK /\ StateOK /\ OutputOK /\ ShapeInv
  BY PlaceParts DEF PlaceInv
<1>2. /\ turn = "callback" /\ m_state = "StreamingValue" /\ m_activeSession' = None
      /\ m_outgoingBuffer' = Append(m_outgoingBuffer, item(m_activeSession.req, "reply", 0))
      /\ m_state' = "ParsingCommands"
      /\ turn' = "write" /\ view' = 0 /\ data' = <<>>
      /\ UNCHANGED <<client, incoming, m_incomingBuffer, m_valueBytesRemaining,
                     m_trailingCrlfRemaining, m_discardBytesRemaining, finished,
                     m_activeReadSession, wire>>
  BY DEF WriteFails, queueResponse, Fails, Returns
<1>3. keepGoing' \in BOOLEAN
  BY DEF WriteFails, Fails, Returns
<1>4. m_incomingBuffer' = <<>>
  BY <1>1, <1>2 DEF ShapeInv
<1>5. contiguous(script, unconsumed')
  BY <1>1, <1>2, <1>4, DropsBuffer
<1>6. <<>> \in Seq(Byte)
  BY EmptySeq
<1>7. InputOK'
  BY <1>1, <1>2, <1>3, <1>4, <1>5, <1>6 DEF InputOK, script
<1>8. StateOK'
  BY <1>1, <1>2 DEF StateOK, StreamingInv, DiscardingInv
<1>9. OutputOK'
  <2>1. m_activeSession.req \in Nat
    BY <1>2, StreamingPlace
  <2>2. item(m_activeSession.req, "reply", 0) \in Items
    BY <2>1, ItemType
  <2>3. m_outgoingBuffer' \in Seq(Items)
    BY <1>1, <1>2, <2>2, AppendProperties DEF OutputOK
  <2> QED
    BY <1>1, <1>2, <2>3 DEF OutputOK
<1> QED
  BY <1>7, <1>8, <1>9, PlaceParts, PTL

\* Bytes of a value that was refused are skipped.
LEMMA DiscardingConsumes ==
    ASSUME PlaceInv, ContinueDiscardingValue
    PROVE  LET d == m_discardBytesRemaining
               k == least(Len(data), d)
           IN  /\ buffered = data /\ d \in Nat \ {0} /\ unconsumed # <<>>
               /\ unconsumed[1].off > 0 /\ leftFrom(script, unconsumed[1]) = d
               /\ script[unconsumed[1].req].kind = "large"
               /\ k \in 1 .. Len(data) /\ k \in 0 .. Len(unconsumed) /\ k <= d
               /\ drop(data, k) \in Seq(Byte) /\ data' = drop(data, k)
               /\ unconsumed' = drop(unconsumed, k)
               /\ k < d => data' = <<>>
<1> DEFINE d == m_discardBytesRemaining
           k == least(Len(data), d)
<1>1. /\ ShapeInv /\ StateOK /\ turn = "callback" /\ m_state = "DiscardingRejectedValue"
      /\ DiscardingInv
  BY PlaceParts DEF ContinueDiscardingValue, PlaceInv
<1>2. /\ m_incomingBuffer = <<>> /\ incoming \in Seq(Byte) /\ buffered = data
      /\ unconsumed = data \o incoming /\ data \in Seq(Byte) /\ data # <<>>
      /\ unconsumed # <<>>
  BY <1>1, Buffers DEF ShapeInv
<1>3. Len(data) \in Nat \ {0}
  BY <1>2, EmptySeq
<1>4. d \in Nat \ {0}
  BY <1>1 DEF StateOK, DiscardingInv
<1>5. /\ unconsumed[1].off > 0 /\ leftFrom(script, unconsumed[1]) = d
      /\ script[unconsumed[1].req].kind = "large"
  BY <1>1, <1>2 DEF DiscardingInv
<1>6. /\ k \in 1 .. Len(data) /\ k \in 0 .. Len(data) /\ k <= d
      /\ k < d => k = Len(data)
  BY <1>3, <1>4 DEF least
<1>7. PassesOn(drop(data, k), view) /\ UNCHANGED <<incoming, m_incomingBuffer>>
  BY DEF ContinueDiscardingValue
<1> HIDE DEF k
<1>8. data' = drop(data, k)
  BY <1>7 DEF PassesOn, Returns
<1>9. /\ drop(data, k) \in Seq(Byte) /\ <<>> \o drop(data, k) = drop(data, k)
      /\ drop(data, k) \o incoming = drop(data \o incoming, k)
      /\ k \in 0 .. Len(data \o incoming)
  <2>1. data \in Seq(Byte) /\ incoming \in Seq(Byte) /\ k \in 0 .. Len(data)
    BY <1>2, <1>6
  <2> QED
    BY <2>1, Consume
<1>10. unconsumed' = drop(unconsumed, k) /\ k \in 0 .. Len(unconsumed)
  BY <1>2, <1>7, <1>8, <1>9 DEF unconsumed
<1>11. k < d => data' = <<>>
  BY <1>2, <1>6, <1>8, DropEnds
<1> QED
  BY <1>2, <1>4, <1>5, <1>6, <1>8, <1>9, <1>10, <1>11 DEF k

LEMMA ContinueDiscardingPlace == PlaceInv /\ ContinueDiscardingValue => PlaceInv'
<1> SUFFICES ASSUME PlaceInv, ContinueDiscardingValue PROVE PlaceInv'
  OBVIOUS
<1> DEFINE d == m_discardBytesRemaining
           k == least(Len(data), d)
           b == unconsumed[1]
           u == drop(unconsumed, k)
<1>1. /\ InputOK /\ StateOK /\ OutputOK /\ ShapeInv
      /\ turn = "callback" /\ m_state = "DiscardingRejectedValue"
  BY PlaceParts DEF ContinueDiscardingValue, PlaceInv
<1>2. /\ d \in Nat \ {0} /\ unconsumed # <<>>
      /\ b.off > 0 /\ leftFrom(script, b) = d /\ script[b.req].kind = "large"
      /\ k \in 1 .. Len(data) /\ k \in 0 .. Len(unconsumed) /\ k <= d
      /\ data' \in Seq(Byte) /\ unconsumed' = u
  BY DiscardingConsumes
<1>3. /\ m_discardBytesRemaining' = d - k
      /\ m_state' = IF d - k > 0 THEN "DiscardingRejectedValue" ELSE "ParsingCommands"
      /\ PassesOn(drop(data, k), view)
      /\ UNCHANGED <<client, incoming, m_incomingBuffer, upload, output>>
  BY <1>1 DEF ContinueDiscardingValue
<1> HIDE DEF k, u
<1>4. /\ turn' \in {"callback", "write"}
      /\ turn' = "callback" <=> data' # <<>>
      /\ view' \in Nat
      /\ view' > 0 => turn' = "callback"
  BY <1>1, <1>3 DEF PassesOn, Returns, InputOK
<1>5. keepGoing' \in BOOLEAN /\ keepGoing'
  BY <1>1, <1>3 DEF PassesOn, Returns, InputOK
<1>6. /\ contiguous(script, u)
      /\ u # <<>> /\ k < d => u[1] = [req |-> b.req, off |-> b.off + k]
  BY <1>1, <1>2, Advance DEF u, InputOK
<1>7. InputOK'
  BY <1>1, <1>2, <1>3, <1>4, <1>5, <1>6 DEF InputOK, script
<1>8. k \in Nat /\ d - k \in Nat
  BY <1>1, <1>2, Buffers, LenProperties
<1>9. DiscardingInv'
  <2> SUFFICES ASSUME d - k > 0, u # <<>>
               PROVE  /\ u[1].off > 0 /\ script[u[1].req].kind = "large"
                      /\ leftFrom(script, u[1]) = d - k
    <3>1. script' = script /\ m_discardBytesRemaining' = d - k
      BY <1>3 DEF script
    <3> QED
      BY <1>2, <1>3, <1>8, <3>1 DEF DiscardingInv
  <2>1. k < d
    BY <1>2, <1>8
  <2>2. u[1] = [req |-> b.req, off |-> b.off + k]
    BY <1>6, <2>1
  <2>3. u[1].req = b.req /\ u[1].off = b.off + k
    BY <2>2
  <2>4. /\ b.off \in Nat /\ lengthOf(script[b.req]) - b.off + 1 = d
        /\ lengthOf(script[b.req]) \in Nat
    <3>1. b.off \in Nat /\ b.req \in 1 .. Len(script) /\ script \in Script
      BY <1>1, <1>2, FirstByte, Buffers
    <3> QED
      BY <1>2, <3>1, LengthPositive DEF leftFrom
  <2> DEFINE y == b.off
             m == lengthOf(script[b.req])
  <2>5. leftFrom(script, u[1]) = m - (y + k) + 1
    BY <2>3 DEF leftFrom
  <2>6. y \in Nat /\ m \in Nat /\ m - y + 1 = d
    BY <2>4
  <2> HIDE DEF y, m, d
  <2>7. m - (y + k) + 1 = d - k /\ y + k > 0
    BY <1>2, <1>8, <2>6
  <2> QED
    BY <1>2, <2>3, <2>5, <2>7 DEF y
<1>10. StateOK'
  BY <1>1, <1>3, <1>8, <1>9 DEF StateOK, StreamingInv, upload
<1>11. OutputOK'
  BY <1>1, <1>3 DEF OutputOK, output
<1> QED
  BY <1>7, <1>10, <1>11, PlaceParts, PTL

\* What the parser makes of the front of the buffer.
LEMMA ParseOutcome ==
    ASSUME ShapeInv, turn = "callback", ~holdsLargeHead(buffered),
           NEW o \in parse(buffered)
    PROVE  LET r == script[buffered[1].req]
           IN  /\ o.result = "Complete" =>
                      /\ o.consumed \in 0 .. Len(buffered)
                      /\ atRequest(buffered) => /\ o.consumed = lengthOf(r)
                                                /\ r.kind \in {"short", "get", "empty"}
               /\ o.result = "Error" /\ atRequest(buffered) =>
                      r.kind = "bad" /\ lengthOf(r) <= Len(buffered)
<1> DEFINE r == script[buffered[1].req]
<1>1. /\ first(buffered) = r /\ r.head \in Nat \ {0}
      /\ r.kind \in {"short", "get", "empty", "large", "bad", "stuck"}
      /\ r.kind # "large" => lengthOf(r) = r.head
  BY AtFront
<1>2. buffered \in Seq(Byte) /\ Len(buffered) \in Nat
  BY Buffers, LenProperties
<1> HIDE DEF r
<1>3. CASE ~atRequest(buffered)
  <2>1. \/ o.result = "Incomplete" \/ o.result = "Error"
        \/ o.result = "Complete" /\ o.consumed \in 1 .. Len(buffered)
    BY <1>3 DEF parse
  <2> QED
    BY <1>2, <1>3, <2>1 DEF r
<1>4. CASE atRequest(buffered)
  <2>1. CASE Len(buffered) < r.head \/ r.kind = "stuck"
    <3>1. o.result = "Incomplete"
      BY <1>1, <1>4, <2>1 DEF parse
    <3> QED
      BY <3>1
  <2>2. CASE ~(Len(buffered) < r.head \/ r.kind = "stuck")
    <3>1. r.kind # "large" /\ r.head <= Len(buffered)
      BY <1>1, <1>2, <1>4, <2>2 DEF holdsLargeHead
    <3>2. IF r.kind = "bad" THEN o.result = "Error"
          ELSE o.result = "Complete" /\ o.consumed = r.head
      BY <1>1, <1>4, <2>2 DEF parse
    <3>3. /\ lengthOf(r) = r.head /\ r.head \in 0 .. Len(buffered)
          /\ r.kind \in {"short", "get", "empty", "bad"}
      BY <1>1, <1>2, <2>2, <3>1
    <3> QED
      BY <3>1, <3>2, <3>3 DEF r
  <2> QED
    BY <2>1, <2>2
<1> QED
  BY <1>3, <1>4

\* A command is consumed: at a request, exactly the request.
LEMMA CommandConsumes ==
    ASSUME ShapeInv, Command
    PROVE  /\ m_incomingBuffer' \in Seq(Byte)
           /\ \E k \in 0 .. Len(unconsumed) :
                  /\ k <= Len(buffered)
                  /\ unconsumed' = drop(unconsumed, k)
                  /\ m_incomingBuffer' = drop(buffered, k)
                  /\ atRequest(buffered) =>
                         LET r == script[buffered[1].req]
                         IN  k = lengthOf(r) /\ r.kind \in {"short", "get", "empty"}
           /\ processCommands(buffered)
<1>1. turn = "callback" /\ ~holdsLargeHead(buffered)
  BY DEF Command, parsing
<1>2. PICK o \in parse(buffered) :
          /\ o.result = "Complete" /\ processCommands(buffered)
          /\ m_incomingBuffer' = drop(buffered, o.consumed)
  BY DEF Command
<1> DEFINE k == o.consumed
<1>3. /\ k \in 0 .. Len(buffered)
      /\ atRequest(buffered) =>
             LET r == script[buffered[1].req]
             IN  k = lengthOf(r) /\ r.kind \in {"short", "get", "empty"}
  BY <1>1, <1>2, ParseOutcome
<1>4. data' = <<>> /\ incoming' = incoming
  BY DEF Command, Returns
<1>5. buffered \in Seq(Byte) /\ incoming \in Seq(Byte) /\ Len(buffered) \in Nat
  BY Buffers, LenProperties
<1>6. unconsumed = buffered \o incoming
  BY Buffers
<1> HIDE DEF k
<1>7. /\ drop(buffered, k) \in Seq(Byte) /\ drop(buffered, k) \o <<>> = drop(buffered, k)
      /\ drop(buffered, k) \o incoming = drop(buffered \o incoming, k)
      /\ k \in 0 .. Len(buffered \o incoming)
  BY <1>3, <1>5, Consume
<1>8. m_incomingBuffer' = drop(buffered, k)
  BY <1>2 DEF k
<1>9. unconsumed' = drop(unconsumed, k) /\ k \in 0 .. Len(unconsumed)
  BY <1>4, <1>6, <1>7, <1>8 DEF unconsumed
<1>10. k <= Len(buffered)
  BY <1>3, <1>5
<1> QED
  BY <1>2, <1>3, <1>7, <1>8, <1>9, <1>10

\* What a command queues.
LEMMA CommandOutput ==
    ASSUME PlaceInv, Command
    PROVE  LET i == buffered[1].req
           IN  /\ OutputOK'
               /\ \/ /\ sent' = sent /\ m_activeReadSession' = m_activeReadSession
                     /\ atRequest(buffered) => script[i].kind = "empty"
                  \/ /\ sent' = Append(sent, item(i, "reply", 0))
                     /\ m_activeReadSession' = m_activeReadSession
                     /\ atRequest(buffered) => script[i].kind # "empty"
                  \/ \E n \in 0 .. MaxChunks :
                         /\ sent' = Append(sent, item(i, "header", n + 1))
                         /\ m_activeReadSession' = [req |-> i, chunks |-> n]
                         /\ atRequest(buffered) => script[i].kind # "empty"
<1> DEFINE i == buffered[1].req
<1>1. /\ ShapeInv /\ OutputOK /\ turn = "callback"
  BY PlaceParts DEF Command, parsing, PlaceInv
<1>2. i \in Nat /\ first(buffered) = script[i]
  BY <1>1, AtFront
<1>3. /\ m_outgoingBuffer \in Seq(Items) /\ wire \in Seq(Items) /\ wire' = wire
      /\ m_activeReadSession \in [req : Nat, chunks : 0 .. MaxChunks] \cup {None}
      /\ MaxChunks \in Nat
  BY <1>1, ConnectionAssumption DEF OutputOK, Command
<1>4. processCommands(buffered)
  BY <1>1, CommandConsumes
<1> HIDE DEF i
<1>5. CASE /\ UNCHANGED <<m_outgoingBuffer, m_activeReadSession>>
           /\ atRequest(buffered) => script[i].kind = "empty"
  BY <1>1, <1>3, <1>5 DEF OutputOK, sent, i
<1>6. CASE /\ m_outgoingBuffer' = Append(m_outgoingBuffer, item(i, "reply", 0))
           /\ UNCHANGED m_activeReadSession
           /\ atRequest(buffered) => script[i].kind # "empty"
  <2>1. item(i, "reply", 0) \in Items
    BY <1>2, ItemType
  <2>2. /\ Append(m_outgoingBuffer, item(i, "reply", 0)) \in Seq(Items)
        /\ wire \o Append(m_outgoingBuffer, item(i, "reply", 0)) =
               Append(wire \o m_outgoingBuffer, item(i, "reply", 0))
    BY <1>3, <2>1, SentGrows, AppendProperties
  <2> QED
    BY <1>3, <1>6, <2>2 DEF OutputOK, sent, i
<1>7. CASE /\ \E n \in 0 .. MaxChunks :
                  /\ m_outgoingBuffer' = Append(m_outgoingBuffer, item(i, "header", n + 1))
                  /\ m_activeReadSession' = [req |-> i, chunks |-> n]
           /\ atRequest(buffered) => script[i].kind # "empty"
  <2>1. PICK n \in 0 .. MaxChunks :
            /\ m_outgoingBuffer' = Append(m_outgoingBuffer, item(i, "header", n + 1))
            /\ m_activeReadSession' = [req |-> i, chunks |-> n]
    BY <1>7
  <2>2. n + 1 \in Nat
    BY <1>3
  <2>3. item(i, "header", n + 1) \in Items
    BY <1>2, <2>2, ItemType
  <2>4. /\ Append(m_outgoingBuffer, item(i, "header", n + 1)) \in Seq(Items)
        /\ wire \o Append(m_outgoingBuffer, item(i, "header", n + 1)) =
               Append(wire \o m_outgoingBuffer, item(i, "header", n + 1))
    BY <1>3, <2>3, SentGrows, AppendProperties
  <2>5. sent' = Append(sent, item(i, "header", n + 1))
    BY <1>3, <2>1, <2>4 DEF sent
  <2>6. OutputOK'
    BY <1>2, <1>3, <2>1, <2>4 DEF OutputOK
  <2> QED
    BY <1>7, <2>1, <2>5, <2>6 DEF i
<1> QED
  <2> DEFINE kinds == IF atRequest(buffered) THEN {script[i].kind}
                      ELSE {"short", "get", "empty"}
  <2>1. \/ /\ "empty" \in kinds
           /\ UNCHANGED <<m_outgoingBuffer, m_activeReadSession>>
        \/ /\ kinds # {"empty"}
           /\ m_outgoingBuffer' = Append(m_outgoingBuffer, item(i, "reply", 0))
           /\ UNCHANGED m_activeReadSession
        \/ /\ "get" \in kinds
           /\ \E n \in 0 .. MaxChunks :
                  /\ m_outgoingBuffer' = Append(m_outgoingBuffer, item(i, "header", n + 1))
                  /\ m_activeReadSession' = [req |-> i, chunks |-> n]
    BY <1>2, <1>4 DEF processCommands, queueResponse, i
  <2>2. /\ "empty" \in kinds => (atRequest(buffered) => script[i].kind = "empty")
        /\ kinds # {"empty"} => (atRequest(buffered) => script[i].kind # "empty")
        /\ "get" \in kinds => (atRequest(buffered) => script[i].kind # "empty")
    OBVIOUS
  <2> HIDE DEF kinds
  <2> QED
    BY <1>5, <1>6, <1>7, <2>1, <2>2

LEMMA CommandPlace == PlaceInv /\ Command => PlaceInv'
<1> SUFFICES ASSUME PlaceInv, Command PROVE PlaceInv'
  OBVIOUS
<1>1. InputOK /\ StateOK /\ OutputOK /\ ShapeInv
  BY PlaceParts DEF PlaceInv
<1>2. /\ m_state = "ParsingCommands" /\ turn' = "write" /\ view' = 0 /\ data' = <<>>
      /\ UNCHANGED <<client, incoming, m_state, upload, m_discardBytesRemaining>>
  BY DEF Command, parsing, Returns
<1>3. keepGoing' \in BOOLEAN /\ keepGoing'
  BY DEF Command, Returns
<1>4. m_incomingBuffer' \in Seq(Byte) /\ contiguous(script, unconsumed')
  BY <1>1, CommandConsumes, Advance, ZenonT(30) DEF ShapeInv
<1>5. <<>> \in Seq(Byte)
  BY EmptySeq
<1>6. InputOK'
  BY <1>1, <1>2, <1>3, <1>4, <1>5 DEF InputOK, script
<1>7. StateOK'
  BY <1>1, <1>2 DEF StateOK, StreamingInv, DiscardingInv, upload
<1>8. OutputOK'
  BY CommandOutput
<1> QED
  BY <1>6, <1>7, <1>8, PlaceParts, PTL

LEMMA InitPlace == Init => PlaceInv
<1> SUFFICES ASSUME Init PROVE PlaceInv
  OBVIOUS
<1>1. /\ client \in Clients /\ incoming = streamOf(script)
      /\ data = <<>> /\ view = 0 /\ turn = "read" /\ keepGoing = TRUE
      /\ m_incomingBuffer = <<>> /\ m_activeSession = None
      /\ m_activeReadSession = None /\ m_outgoingBuffer = <<>> /\ wire = <<>>
      /\ m_state = "ParsingCommands"
      /\ m_valueBytesRemaining = 0 /\ m_trailingCrlfRemaining = 0
      /\ m_discardBytesRemaining = 0 /\ finished = None
  BY DEF Init, ConnectionInit
<1>2. script \in Script
  BY <1>1, ClientScript DEF script
<1>3. contiguous(script, incoming)
  BY <1>1, <1>2, StreamContiguous
<1>4. incoming \in Seq(Byte)
  BY <1>3 DEF contiguous
<1>5. (<<>> \o <<>>) \o incoming = incoming /\ <<>> \in Seq(Byte) /\ <<>> \in Seq(Items)
  BY <1>4, ConcatEmptySeq, EmptySeq
<1>6. unconsumed = incoming
  BY <1>1, <1>5 DEF unconsumed
<1>7. InputOK
  BY <1>1, <1>3, <1>4, <1>5, <1>6 DEF InputOK
<1>8. StateOK
  BY <1>1 DEF StateOK, StreamingInv, DiscardingInv
<1>9. OutputOK
  BY <1>1, <1>5 DEF OutputOK
<1> QED
  BY <1>7, <1>8, <1>9, PlaceParts

LEMMA NextPlace == PlaceInv /\ [Next]_vars => PlaceInv'
<1> SUFFICES ASSUME PlaceInv, [Next]_vars PROVE PlaceInv'
  OBVIOUS
<1>1. CASE UNCHANGED vars
  <2>1. /\ UNCHANGED <<client, incoming, m_incomingBuffer, m_activeSession, output, respVars>>
        /\ UNCHANGED <<data, view, turn, keepGoing>>
    BY <1>1 DEF vars, call
  <2>2. unconsumed' = unconsumed /\ script' = script
    BY <2>1 DEF unconsumed, script
  <2>3. InputOK /\ StateOK /\ OutputOK
    BY PlaceParts
  <2>4. InputOK'
    BY <2>1, <2>2, <2>3 DEF InputOK
  <2>5. StateOK'
    BY <2>1, <2>2, <2>3 DEF StateOK, StreamingInv, DiscardingInv, respVars
  <2>6. OutputOK'
    BY <2>1, <2>3 DEF OutputOK, output
  <2> QED
    BY <2>4, <2>5, <2>6, PlaceParts, PTL
<1>2. CASE Next
  BY <1>2, ReceivePlace, BeginRefusedPlace, BeginUploadPlace, ContinueStreamingPlace,
     WriteFailsPlace, ContinueDiscardingPlace, CommandPlace, NeedsMorePlace,
     MalformedPlace, TakeOutgoingPlace, WrittenPlace DEF Next, Handler
<1> QED
  BY <1>1, <1>2

\* However the client's bytes are cut into buffers and whatever the storage
\* answers, the handler's variables have their types: no counter of
\* continueStreamingValue or continueDiscardingValue runs below zero, and an
\* onBytesReceived with nothing left to look at has returned.
THEOREM RespTypeOK == Spec => []TypeOK
<1>1. PlaceInv => TypeOK
  BY DEF PlaceInv, ShapeInv
<1> QED
  BY <1>1, InitPlace, NextPlace, PTL DEF Spec

\* What was finished had all of its value; only ContinueStreamingValue
\* finishes.
FinishedInv == givenAll(finished)

LEMMA FinishedStep == PlaceInv /\ FinishedInv /\ [Next]_vars => FinishedInv'
<1> SUFFICES ASSUME PlaceInv, FinishedInv, [Next]_vars PROVE FinishedInv'
  OBVIOUS
<1>1. CASE UNCHANGED <<client, finished>>
  BY <1>1 DEF FinishedInv, givenAll, valueUpTo, script
<1>2. CASE ContinueStreamingValue
  <2> DEFINE v == m_valueBytesRemaining
             c == least(Len(data), v)
  <2>1. /\ turn = "callback" /\ m_state = "StreamingValue"
        /\ UNCHANGED client /\ v' = v - c
    BY <1>2 DEF ContinueStreamingValue
  <2>2. \/ UNCHANGED finished
        \/ /\ ~(v' + m_trailingCrlfRemaining' > 0)
           /\ finished' = [m_activeSession EXCEPT !.bytes = @ \o chunk]
    BY <1>2 DEF ContinueStreamingValue
  <2>3. CASE /\ ~(v' + m_trailingCrlfRemaining' > 0)
             /\ finished' = [m_activeSession EXCEPT !.bytes = @ \o chunk]
    <3>1. /\ m_activeSession \in [req : Nat, bytes : Seq(Byte)]
          /\ m_activeSession.bytes \o chunk = valuePart(script, m_activeSession.req, v - c)
      BY <2>1, ChunkGiven
    <3>2. v' \in Nat /\ m_trailingCrlfRemaining' \in Nat
      <4>1. PlaceInv'
        BY NextPlace
      <4>2. TypeOK'
        BY <4>1 DEF PlaceInv, ShapeInv
      <4> QED
        BY <4>2 DEF TypeOK
    <3>3. v - c = 0
      BY <2>1, <2>3, <3>2
    <3>4. finished'.bytes = valuePart(script, finished'.req, 0)
      BY <2>3, <3>1, <3>3
    <3>5. script' = script
      BY <2>1 DEF script
    <3> QED
      BY <3>4, <3>5 DEF FinishedInv, givenAll, valuePart, valueUpTo
  <2> QED
    BY <1>1, <2>1, <2>2, <2>3
<1>3. CASE \/ BeginRefused \/ BeginUpload \/ WriteFails \/ ContinueDiscardingValue
           \/ Command \/ NeedsMore \/ Malformed
  BY <1>1, <1>3 DEF BeginRefused, BeginUpload, WriteFails, ContinueDiscardingValue, Command,
     NeedsMore, Malformed, upload
<1>4. CASE TakeOutgoingBytes \/ Written \/ Receive \/ UNCHANGED vars
  BY <1>1, <1>4 DEF TakeOutgoingBytes, Written, ReadsOn, Receive, Receives, vars, respVars
<1> QED
  BY <1>2, <1>3, <1>4 DEF Next, Handler

\* What writeChunk is given of a SET's value is the value up to the bytes that
\* m_valueBytesRemaining counts, whatever was sent before it, and after any
\* number of uploads that failed half way.  What finish is called on has been
\* given all of its value, and no byte of the CRLF or of the next command.
THEOREM RespUploadIsValue == Spec => []UploadIsValue
<1>1. Init => FinishedInv
  BY DEF Init, FinishedInv, givenAll
<1>2. PlaceInv /\ FinishedInv => UploadIsValue
  BY DEF PlaceInv, ShapeInv, StreamingInv, FinishedInv, UploadIsValue, valuePart, valueUpTo
<1> QED
  BY <1>1, <1>2, InitPlace, NextPlace, FinishedStep, PTL DEF Spec

-----------------------------------------------------------------------------
(* Objects are sent as one piece *)

\* A step that sends nothing, and leaves Session with the object if one is
\* being sent.
LEMMA ObjectsSame ==
    ASSUME ObjectsInv, sent' = sent, m_activeReadSession' = m_activeReadSession,
           m_activeReadSession # None => turn' = turn
    PROVE  ObjectsInv'
<1>1. ObjectsUnbroken'
  BY DEF ObjectsInv, ObjectsUnbroken
<1> QED
  BY <1>1 DEF ObjectsInv

\* An answer when no object is being sent.
LEMMA ObjectsAnswer ==
    ASSUME OutputOK, ObjectsInv, m_activeReadSession = None,
           NEW x \in Items, isAnswer(x), sent' = Append(sent, x),
           \/ x.left = 0 /\ m_activeReadSession' = None
           \/ /\ turn' = "write" /\ x.left \in Nat /\ x.left > 0
              /\ m_activeReadSession' = [req |-> x.req, chunks |-> x.left - 1]
    PROVE  ObjectsInv'
<1>1. sent \in Seq(Items) /\ unbroken(sent)
  BY SentType, UnbrokenSent DEF ObjectsInv
<1>2. sent # <<>> => mayFollow(sent[Len(sent)], x)
  BY DEF ObjectsInv, mayFollow
<1>3. /\ Append(sent, x) # <<>> /\ Append(sent, x)[Len(Append(sent, x))] = x
      /\ unbroken(Append(sent, x))
  BY <1>1, <1>2, AppendItem
<1>4. ObjectsUnbroken'
  BY <1>3 DEF ObjectsUnbroken, unbroken, mayFollow, isAnswer
<1>5. sent' # <<>> /\ sent'[Len(sent')] = x
  BY <1>3
<1>6. CASE x.left = 0 /\ m_activeReadSession' = None
  BY <1>4, <1>5, <1>6 DEF ObjectsInv
<1>7. CASE /\ turn' = "write" /\ x.left \in Nat /\ x.left > 0
           /\ m_activeReadSession' = [req |-> x.req, chunks |-> x.left - 1]
  <2>1. /\ m_activeReadSession'.req = x.req
        /\ m_activeReadSession'.chunks + 1 = x.left
    BY <1>7
  <2>2. m_activeReadSession' # None
    <3>1. x.req \in Nat
      BY DEF Items
    <3>2. m_activeReadSession' \in [req : Nat, chunks : Nat]
      BY <1>7, <3>1
    <3> QED
      BY <3>2, ConnectionAssumption
  <2> QED
    BY <1>4, <1>5, <1>7, <2>1, <2>2 DEF ObjectsInv
<1> QED
  BY <1>6, <1>7

\* The next part of an object.
LEMMA ObjectsPart ==
    ASSUME PlaceInv, ObjectsInv, TakeOutgoingBytes
    PROVE  ObjectsInv'
<1> DEFINE r == m_activeReadSession
           last == sent[Len(sent)]
<1>1. OutputOK /\ turn' = turn /\ turn = "write"
  BY PlaceParts DEF TakeOutgoingBytes, call
<1>2. sent \in Seq(Items) /\ unbroken(sent)
  BY <1>1, SentType, UnbrokenSent DEF ObjectsInv
<1>3. CASE sent' = sent /\ UNCHANGED m_activeReadSession
  BY <1>1, <1>3, ObjectsSame
<1>4. ASSUME r \in [req : Nat, chunks : 0 .. MaxChunks], r # None,
             NEW x \in Items, ~isAnswer(x), x.req = r.req, x.left = r.chunks,
             sent' = Append(sent, x),
             \/ x.left = 0 /\ m_activeReadSession' = None
             \/ x.left > 0 /\ m_activeReadSession' = [req |-> x.req, chunks |-> x.left - 1]
      PROVE  ObjectsInv'
  <2>1. r.chunks \in 0 .. MaxChunks /\ r.req \in Nat /\ MaxChunks \in Nat
    BY <1>4, ConnectionAssumption
  <2>2. last.req = r.req /\ last.left = r.chunks + 1
    BY <1>4 DEF ObjectsInv
  <2>3. x.part # "header"
    BY <1>4 DEF isAnswer
  <2>4. mayFollow(last, x)
    BY <1>4, <2>1, <2>2, <2>3 DEF mayFollow
  <2>5. /\ Append(sent, x) # <<>> /\ Append(sent, x)[Len(Append(sent, x))] = x
        /\ unbroken(Append(sent, x))
    BY <1>2, <2>4, AppendItem
  <2>6. ObjectsUnbroken'
    BY <1>4, <2>5 DEF ObjectsUnbroken, unbroken, mayFollow, isAnswer
  <2>7. sent' # <<>> /\ sent'[Len(sent')] = x
    BY <1>4, <2>5
  <2>8. CASE x.left = 0 /\ m_activeReadSession' = None
    BY <2>6, <2>7, <2>8 DEF ObjectsInv
  <2>9. CASE x.left > 0 /\ m_activeReadSession' = [req |-> x.req, chunks |-> x.left - 1]
    <3>1. x.left \in Nat /\ x.req \in Nat
      BY DEF Items
    <3>2. /\ m_activeReadSession'.req = x.req
          /\ m_activeReadSession'.chunks + 1 = x.left
          /\ m_activeReadSession' \in [req : Nat, chunks : Nat]
      BY <2>9, <3>1
    <3>3. m_activeReadSession' # None
      BY <3>2, ConnectionAssumption
    <3> QED
      BY <1>1, <2>6, <2>7, <3>2, <3>3 DEF ObjectsInv
  <2> QED
    BY <1>4, <2>8, <2>9
<1>5. CASE /\ r \in [req : Nat, chunks : 0 .. MaxChunks] /\ r # None /\ r.chunks > 0
           /\ sent' = Append(sent, item(r.req, "chunk", r.chunks))
           /\ m_activeReadSession' = [req |-> r.req, chunks |-> r.chunks - 1]
  <2> DEFINE x == item(r.req, "chunk", r.chunks)
  <2>1. r.req \in Nat /\ r.chunks \in Nat
    BY <1>5, ConnectionAssumption
  <2>2. x \in Items /\ x.req = r.req /\ x.part = "chunk" /\ x.left = r.chunks
    BY <2>1, ItemType
  <2> HIDE DEF x
  <2>3. ~isAnswer(x)
    BY <2>2 DEF isAnswer
  <2>4. sent' = Append(sent, x)
    BY <1>5 DEF x
  <2> QED
    BY <1>4, <1>5, <2>2, <2>3, <2>4
<1>6. CASE /\ r \in [req : Nat, chunks : 0 .. MaxChunks] /\ r # None /\ r.chunks = 0
           /\ sent' = Append(sent, item(r.req, "end", 0))
           /\ m_activeReadSession' = None
  <2> DEFINE x == item(r.req, "end", 0)
  <2>1. r.req \in Nat
    BY <1>6
  <2>2. x \in Items /\ x.req = r.req /\ x.part = "end" /\ x.left = 0
    BY <2>1, ItemType
  <2> HIDE DEF x
  <2>3. ~isAnswer(x)
    BY <2>2 DEF isAnswer
  <2>4. sent' = Append(sent, x)
    BY <1>6 DEF x
  <2> QED
    BY <1>4, <1>6, <2>2, <2>3, <2>4
<1> QED
  BY <1>1, <1>3, <1>5, <1>6, TakeOutgoing

LEMMA ObjectsReply ==
    ASSUME OutputOK, ObjectsInv, turn = "callback", NEW i \in Nat, wire' = wire,
           m_outgoingBuffer' = Append(m_outgoingBuffer, item(i, "reply", 0)),
           m_activeReadSession' = m_activeReadSession
    PROVE  ObjectsInv'
<1> DEFINE x == item(i, "reply", 0)
<1>1. x \in Items /\ isAnswer(x) /\ x.left = 0 /\ sent' = Append(sent, x)
  BY ReplySent
<1>2. m_activeReadSession = None /\ m_activeReadSession' = None
  BY DEF ObjectsInv
<1> HIDE DEF x
<1> QED
  BY <1>1, <1>2, ObjectsAnswer

LEMMA NextObjects == PlaceInv /\ ObjectsInv /\ [Next]_vars => ObjectsInv'
<1> SUFFICES ASSUME PlaceInv, ObjectsInv, [Next]_vars PROVE ObjectsInv'
  OBVIOUS
<1>1. OutputOK /\ ShapeInv
  BY PlaceParts DEF PlaceInv
<1>2. turn # "write" => m_activeReadSession = None
  BY DEF ObjectsInv
<1>3. CASE /\ UNCHANGED output
           /\ m_activeReadSession # None => turn' = turn
  <2>1. sent' = sent /\ m_activeReadSession' = m_activeReadSession
    BY <1>3 DEF output, sent
  <2> QED
    BY <1>3, <2>1, ObjectsSame
<1>4. CASE UNCHANGED vars
  BY <1>3, <1>4 DEF vars, call
<1>5. CASE Receive
  BY <1>2, <1>3, <1>5 DEF Receive, Receives
<1>6. CASE Written
  BY <1>3, <1>6 DEF Written, ReadsOn
<1>7. CASE NeedsMore \/ Malformed \/ BeginUpload \/ ContinueDiscardingValue
  BY <1>2, <1>3, <1>7 DEF NeedsMore, Malformed, BeginUpload, ContinueDiscardingValue, parsing
<1>8. CASE TakeOutgoingBytes
  BY <1>8, ObjectsPart
<1>9. CASE BeginRefused
  <2>1. /\ turn = "callback" /\ wire' = wire /\ m_activeReadSession' = m_activeReadSession
        /\ m_outgoingBuffer' = Append(m_outgoingBuffer, item(buffered[1].req, "reply", 0))
    BY <1>9 DEF BeginRefused, parsing, queueResponse
  <2>2. buffered[1].req \in Nat
    BY <1>1, <2>1, AtFront
  <2> QED
    BY <1>1, <2>1, <2>2, ObjectsReply
<1>10. CASE WriteFails
  <2>1. /\ turn = "callback" /\ m_state = "StreamingValue"
        /\ wire' = wire /\ m_activeReadSession' = m_activeReadSession
        /\ m_outgoingBuffer' =
               Append(m_outgoingBuffer, item(m_activeSession.req, "reply", 0))
    BY <1>10 DEF WriteFails, queueResponse
  <2>2. m_activeSession.req \in Nat
    BY <2>1, StreamingPlace
  <2> QED
    BY <1>1, <2>1, <2>2, ObjectsReply
<1>11. CASE ContinueStreamingValue
  <2>1. /\ turn = "callback" /\ m_state = "StreamingValue"
        /\ wire' = wire /\ m_activeReadSession' = m_activeReadSession
        /\ \/ m_outgoingBuffer' = m_outgoingBuffer
           \/ m_outgoingBuffer' =
                  Append(m_outgoingBuffer, item(m_activeSession.req, "reply", 0))
    BY <1>11 DEF ContinueStreamingValue, queueResponse
  <2>2. m_activeSession.req \in Nat
    BY <2>1, StreamingPlace
  <2>3. CASE m_outgoingBuffer' = m_outgoingBuffer
    BY <1>2, <1>3, <2>1, <2>3 DEF output
  <2> QED
    BY <1>1, <2>1, <2>2, <2>3, ObjectsReply
<1>12. CASE Command
  <2> DEFINE i == buffered[1].req
  <2>1. turn = "callback" /\ turn' = "write" /\ m_activeReadSession = None
    BY <1>2, <1>12 DEF Command, parsing, Returns
  <2>2. i \in Nat
    BY <1>1, <2>1, AtFront
  <2>3. \/ sent' = sent /\ m_activeReadSession' = m_activeReadSession
        \/ /\ sent' = Append(sent, item(i, "reply", 0))
           /\ m_activeReadSession' = m_activeReadSession
        \/ \E n \in 0 .. MaxChunks :
               /\ sent' = Append(sent, item(i, "header", n + 1))
               /\ m_activeReadSession' = [req |-> i, chunks |-> n]
    BY <1>12, CommandOutput
  <2> HIDE DEF i
  <2>4. CASE sent' = sent /\ m_activeReadSession' = m_activeReadSession
    BY <2>1, <2>4, ObjectsSame
  <2>5. CASE /\ sent' = Append(sent, item(i, "reply", 0))
             /\ m_activeReadSession' = m_activeReadSession
    <3> DEFINE x == item(i, "reply", 0)
    <3>1. x \in Items /\ x.part = "reply" /\ x.left = 0
      BY <2>2, ItemType
    <3>2. sent' = Append(sent, x) /\ m_activeReadSession' = None
      BY <2>1, <2>5
    <3> HIDE DEF x
    <3> QED
      BY <1>1, <2>1, <3>1, <3>2, ObjectsAnswer DEF isAnswer
  <2>6. ASSUME NEW n \in 0 .. MaxChunks, sent' = Append(sent, item(i, "header", n + 1)),
               m_activeReadSession' = [req |-> i, chunks |-> n]
        PROVE  ObjectsInv'
    <3> DEFINE x == item(i, "header", n + 1)
    <3>1. n \in Nat /\ n + 1 \in Nat /\ (n + 1) - 1 = n /\ n + 1 > 0
      BY ConnectionAssumption
    <3>2. x \in Items /\ x.req = i /\ x.part = "header" /\ x.left = n + 1
      BY <2>2, <3>1, ItemType
    <3> HIDE DEF x
    <3>3. sent' = Append(sent, x)
      BY <2>6 DEF x
    <3>4. /\ x.left \in Nat /\ x.left > 0
          /\ m_activeReadSession' = [req |-> x.req, chunks |-> x.left - 1]
      BY <2>6, <3>1, <3>2
    <3>5. isAnswer(x)
      BY <3>2 DEF isAnswer
    <3> QED
      BY <1>1, <2>1, <3>2, <3>3, <3>4, <3>5, ObjectsAnswer
  <2> QED
    BY <2>3, <2>4, <2>5, <2>6
<1> QED
  BY <1>4, <1>5, <1>6, <1>7, <1>8, <1>9, <1>10, <1>11, <1>12 DEF Next, Handler

LEMMA InitObjects == Init => ObjectsInv
<1> SUFFICES ASSUME Init PROVE ObjectsInv
  OBVIOUS
<1>1. m_activeReadSession = None /\ m_outgoingBuffer = <<>> /\ wire = <<>>
  BY DEF Init, ConnectionInit
<1>2. sent = <<>>
  BY <1>1, ConcatEmptySeq, EmptySeq DEF sent
<1>3. Len(sent) = 0
  BY <1>2, EmptySeq
<1> QED
  BY <1>1, <1>2, <1>3 DEF ObjectsInv, ObjectsUnbroken

\* Between the header of a GET's object and its final CRLF nothing else is
\* sent and no chunk is left out, whatever else the client sends meanwhile:
\* processCommands and pumpReadSession share m_outgoingBuffer, but no command
\* is read before the last part has been taken.
THEOREM RespObjectsUnbroken == Spec => []ObjectsUnbroken
<1>1. ObjectsInv => ObjectsUnbroken
  BY DEF ObjectsInv
<1> QED
  BY <1>1, InitPlace, NextPlace, InitObjects, NextObjects, PTL DEF Spec

-----------------------------------------------------------------------------
(* Requests are answered in order, from their first byte *)

\* What a step that keeps the client leaves alone.
LEMMA SameClient ==
    ASSUME client' = client
    PROVE  /\ script' = script /\ mayLosePlace' = mayLosePlace
           /\ \A n : haveReplies(n)' = haveReplies(n)
  BY DEF script, mayLosePlace, haveReplies

LEMMA HaveReplies ==
    ASSUME NEW i \in Nat \ {0}
    PROVE  /\ script[i].kind = "empty" => haveReplies(i) = haveReplies(i - 1)
           /\ script[i].kind # "empty" => haveReplies(i) = haveReplies(i - 1) \cup {i}
           /\ \A j \in haveReplies(i - 1) : j < i
<1>1. \A j \in 1 .. i : j = i \/ j \in 1 .. (i - 1)
  OBVIOUS
<1>2. \A j \in 1 .. (i - 1) : j \in 1 .. i /\ j < i
  OBVIOUS
<1>3. i \in 1 .. i
  OBVIOUS
<1> QED
  BY <1>1, <1>2, <1>3 DEF haveReplies

\* A step of the handler that answers nothing.
LEMMA RepliesSame ==
    ASSUME PlaceInv, RepliesInv, turn = "callback", client' = client, sent' = sent,
           NEW k \in 0 .. Len(unconsumed), unconsumed' = drop(unconsumed, k),
           ~mayLosePlace /\ keepGoing' /\ unconsumed' # <<>> =>
               haveReplies(lastReplied') = haveReplies(lastReplied)
    PROVE  RepliesInv'
<1>1. ShapeInv /\ keepGoing /\ unconsumed # <<>> /\ contiguous(script, unconsumed)
  BY Buffers DEF PlaceInv, ShapeInv
<1>2. answered' = answered /\ mayLosePlace' = mayLosePlace
  BY SameClient DEF answered
<1>3. inOrder(sent, mayLosePlace)'
  BY <1>2 DEF RepliesInv
<1>4. ASSUME mayLosePlace, unconsumed' # <<>>, NEW j \in answered
      PROVE  j <= unconsumed'[1].req
  <2>1. j <= unconsumed[1].req
    BY <1>1, <1>4 DEF RepliesInv
  <2>2. unconsumed'[1] = unconsumed[k + 1] /\ unconsumed[1].req <= unconsumed[k + 1].req
    BY <1>1, <1>4, Advance
  <2>3. j \in Nat
    <3>1. sent \in Seq(Items)
      BY PlaceParts, SentType
    <3>2. PICK p \in DOMAIN sent : j = sent[p].req
      BY DEF answered, repliedIn
    <3>3. sent[p] \in Items
      BY <3>1, <3>2, ElementOfSeq, LenProperties
    <3> QED
      BY <3>2, <3>3 DEF Items
  <2>4. unconsumed[1].req \in Nat /\ unconsumed[k + 1].req \in Nat
    <3>1. unconsumed \in Seq(Byte) /\ k + 1 \in 1 .. Len(unconsumed)
      <4>1. k < Len(unconsumed) /\ unconsumed \in Seq(Byte) /\ Len(unconsumed) \in Nat
        BY <1>1, <1>4, Advance, Buffers, LenProperties
      <4> QED
        BY <4>1
    <3>2. unconsumed[k + 1] \in Byte
      BY <3>1, ElementOfSeq
    <3> QED
      BY <1>1, <3>2, FirstByte DEF Byte
  <2> QED
    BY <2>1, <2>2, <2>3, <2>4
<1>5. ASSUME ~mayLosePlace, unconsumed' # <<>>, keepGoing'
      PROVE  answered = haveReplies(lastReplied')
  BY <1>1, <1>5 DEF RepliesInv
<1>6. \A n : haveReplies(n)' = haveReplies(n)
  BY SameClient
<1> QED
  BY <1>2, <1>3, <1>4, <1>5, <1>6 DEF RepliesInv

\* A step of the handler that answers the request at the front.
LEMMA RepliesOne ==
    ASSUME PlaceInv, RepliesInv, turn = "callback", client' = client,
           m_state # "DiscardingRejectedValue",
           NEW x \in Items, isAnswer(x), x.req = unconsumed[1].req, sent' = Append(sent, x),
           NEW k \in 0 .. Len(unconsumed), unconsumed' = drop(unconsumed, k),
           ~mayLosePlace /\ keepGoing' /\ unconsumed' # <<>> =>
               haveReplies(lastReplied') =
                   haveReplies(unconsumed[1].req - 1) \cup {unconsumed[1].req}
    PROVE  RepliesInv'
<1> DEFINE i == unconsumed[1].req
<1>1. ShapeInv /\ keepGoing /\ unconsumed # <<>> /\ contiguous(script, unconsumed)
  BY Buffers DEF PlaceInv, ShapeInv
<1>2. /\ sent \in Seq(Items) /\ i \in Nat \ {0}
  BY <1>1, PlaceParts, SentType, FirstByte
<1>3. /\ inOrder(sent, mayLosePlace)
      /\ mayLosePlace => \A j \in answered : j <= i
      /\ ~mayLosePlace => answered = haveReplies(i - 1)
  BY <1>1 DEF RepliesInv, lastReplied
<1>4. \A j \in answered : j \in Nat
  <2> TAKE j \in answered
  <2>1. PICK p \in DOMAIN sent : j = sent[p].req
    BY DEF answered, repliedIn
  <2>2. sent[p] \in Items
    BY <1>2, <2>1, ElementOfSeq, LenProperties
  <2> QED
    BY <2>1, <2>2 DEF Items
<1>5. mayLosePlace' = mayLosePlace
  BY SameClient
<1>6. answered' = answered \cup {i}
  BY <1>2, AppendItem DEF answered
<1>7. inOrder(sent, mayLosePlace)'
  <2>1. \A j \in haveReplies(i - 1) : j < i
    BY <1>2, HaveReplies
  <2>2. \A j \in answered : j < i \/ (mayLosePlace /\ j = i)
    BY <1>2, <1>3, <1>4, <2>1
  <2>3. inOrder(Append(sent, x), mayLosePlace)
    BY <1>2, <1>3, <2>2, OrderKept DEF answered
  <2> QED
    BY <1>5, <2>3
<1>8. ASSUME mayLosePlace, unconsumed' # <<>>, NEW j \in answered'
      PROVE  j <= unconsumed'[1].req
  <2>1. j <= i /\ j \in Nat
    BY <1>2, <1>3, <1>4, <1>6, <1>8
  <2>2. unconsumed'[1] = unconsumed[k + 1] /\ unconsumed[1].req <= unconsumed[k + 1].req
    BY <1>1, <1>8, Advance
  <2>3. unconsumed[k + 1].req \in Nat
    <3>1. k < Len(unconsumed) /\ unconsumed \in Seq(Byte) /\ Len(unconsumed) \in Nat
      BY <1>1, <1>8, Advance, Buffers, LenProperties
    <3>2. k + 1 \in 1 .. Len(unconsumed)
      BY <3>1
    <3>3. unconsumed[k + 1] \in Byte
      BY <3>1, <3>2, ElementOfSeq
    <3> QED
      BY <3>3 DEF Byte
  <2> QED
    BY <1>2, <2>1, <2>2, <2>3
<1>9. ASSUME ~mayLosePlace, unconsumed' # <<>>, keepGoing'
      PROVE  answered' = haveReplies(lastReplied')
  BY <1>3, <1>6, <1>9
<1>10. \A n : haveReplies(n)' = haveReplies(n)
  BY SameClient
<1> QED
  BY <1>5, <1>7, <1>8, <1>9, <1>10 DEF RepliesInv

\* What is buffered after a step that keeps nothing back, or passes nothing on.
LEMMA BufferedIs ==
    ASSUME data' \in Seq(Byte), m_incomingBuffer' \in Seq(Byte)
    PROVE  /\ m_incomingBuffer' = <<>> => buffered' = data'
           /\ data' = <<>> => buffered' = m_incomingBuffer'
  BY ConcatEmptySeq DEF buffered

\* A step that consumes bytes, or none, and takes back no answer.
LEMMA DeliveredShrinks ==
    ASSUME ShapeInv, DeliveredInv, client' = client, answered \subseteq answered',
           NEW k \in 0 .. Len(buffered), buffered' = drop(buffered, k)
    PROVE  DeliveredInv'
<1>1. buffered \in Seq(Byte) /\ Len(buffered) \in Nat
  BY Buffers, LenProperties
<1>2. /\ Len(drop(buffered, k)) = Len(buffered) - k
      /\ \A p \in 1 .. (Len(buffered) - k) : drop(buffered, k)[p] = buffered[k + p]
  BY <1>1, DropProperties
<1>3. script' = script
  BY SameClient
<1>4. ASSUME ~client.pipelining, NEW p \in 1 .. (Len(buffered) - k),
             NEW j \in 1 .. (buffered[k + p].req - 1)
      PROVE  script[j].kind = "empty" \/ j \in answered'
  <2>1. k + p \in 1 .. Len(buffered)
    BY <1>1
  <2> QED
    BY <1>4, <2>1 DEF DeliveredInv
<1> QED
  BY <1>2, <1>3, <1>4 DEF DeliveredInv

LEMMA DeliveredNone ==
    ASSUME buffered' = <<>>
    PROVE  DeliveredInv'
<1>1. Len(buffered') = 0
  BY EmptySeq
<1> QED
  BY <1>1 DEF DeliveredInv

\* Behind the last byte of its request comes the first of the next.
LEMMA NextRequest ==
    ASSUME ShapeInv, unconsumed # <<>>, unconsumed[1].off > 0,
           NEW k \in 0 .. Len(unconsumed), k = leftFrom(script, unconsumed[1]),
           unconsumed' = drop(unconsumed, k), unconsumed' # <<>>
    PROVE  /\ unconsumed'[1] = unconsumed[k + 1]
           /\ unconsumed'[1].req = unconsumed[1].req + 1 /\ unconsumed'[1].off = 1
           /\ unconsumed'[1].req - 1 = unconsumed[1].req
<1>1. contiguous(script, unconsumed) /\ unconsumed[1].req \in Nat
  BY FirstByte DEF ShapeInv
<1>2. /\ unconsumed'[1] = unconsumed[k + 1]
      /\ unconsumed[k + 1] = [req |-> unconsumed[1].req + 1, off |-> 1]
  BY <1>1, Advance
<1> QED
  BY <1>1, <1>2

\* In the middle of a request the next byte is of the same.
LEMMA SameRequest ==
    ASSUME ShapeInv, unconsumed # <<>>, unconsumed[1].off > 0,
           NEW k \in 0 .. Len(unconsumed), k < leftFrom(script, unconsumed[1]),
           unconsumed' = drop(unconsumed, k), unconsumed' # <<>>
    PROVE  unconsumed'[1].req = unconsumed[1].req
<1>1. contiguous(script, unconsumed)
  BY DEF ShapeInv
<1>2. /\ unconsumed'[1] = unconsumed[k + 1]
      /\ unconsumed[k + 1] = [req |-> unconsumed[1].req, off |-> unconsumed[1].off + k]
  BY <1>1, Advance
<1> QED
  BY <1>2

LEMMA ReceiveOrder == PlaceInv /\ OrderInv /\ Receive => OrderInv'
<1> SUFFICES ASSUME PlaceInv, OrderInv, Receive PROVE OrderInv'
  OBVIOUS
<1>1. ShapeInv /\ ParsingInv /\ RepliesInv /\ DeliveredInv
  BY DEF PlaceInv, OrderInv
<1>2. /\ turn = "read" /\ view' = 0
      /\ UNCHANGED <<client, keepGoing, m_incomingBuffer, output, m_state>>
  BY DEF Receive, Receives, respVars
<1>3. unconsumed' = unconsumed /\ data' \in Seq(Byte)
  BY <1>1, ReceiveConsumes
<1>4. sent' = sent /\ answered' = answered /\ lastReplied' = lastReplied
  BY <1>2, <1>3 DEF output, sent, answered, lastReplied
<1>5. /\ script' = script /\ mayLosePlace' = mayLosePlace
      /\ \A n : haveReplies(n)' = haveReplies(n)
  BY <1>2, SameClient
<1>6. ParsingInv' /\ ViewInv'
  BY <1>1, <1>2, <1>3, <1>5 DEF ParsingInv, ViewInv
<1>7. RepliesInv'
  BY <1>1, <1>2, <1>3, <1>4, <1>5 DEF RepliesInv
<1>8. DeliveredInv'
  <2> DEFINE b == m_incomingBuffer
  <2>1. PICK k \in 1 .. least(BufferSize, Len(incoming)) :
            /\ \A p \in 1 .. k : maySend(incoming[p].req)
            /\ data' = SubSeq(incoming, 1, k)
    BY DEF Receive, Receives
  <2>2. /\ incoming \in Seq(Byte) /\ Len(incoming) \in Nat
        /\ b \in Seq(Byte) /\ Len(b) \in Nat /\ buffered = b
    BY <1>1, <1>2, Buffers, LenProperties
  <2>3. k \in 0 .. Len(incoming)
    BY <2>1, <2>2, ConnectionAssumption DEF least
  <2>4. Len(data') = k /\ \A p \in 1 .. k : data'[p] = incoming[p]
    BY <2>1, <2>2, <2>3, SplitSeq
  <2>5. buffered' = b \o data'
    BY <1>2 DEF buffered
  <2> DEFINE d == data'
  <2>6. d \in Seq(Byte) /\ Len(d) = k /\ k \in Nat
    BY <1>3, <2>2, <2>3, <2>4
  <2> HIDE DEF d
  <2>7. /\ Len(b \o d) = Len(b) + k
        /\ \A p \in 1 .. (Len(b) + k) :
               (b \o d)[p] = IF p <= Len(b) THEN b[p] ELSE d[p - Len(b)]
    BY <2>2, <2>6, ConcatProperties
  <2> SUFFICES ASSUME ~client.pipelining, NEW p \in 1 .. (Len(b) + k),
                      NEW j \in 1 .. ((b \o d)[p].req - 1)
               PROVE  script[j].kind = "empty" \/ j \in answered
    BY <1>2, <1>4, <1>5, <2>5, <2>7 DEF DeliveredInv, d
  <2>8. CASE p <= Len(b)
    <3>1. p \in 1 .. Len(b) /\ (b \o d)[p] = b[p]
      BY <2>2, <2>6, <2>7, <2>8
    <3> QED
      BY <1>1, <2>2, <3>1 DEF DeliveredInv
  <2>9. CASE ~(p <= Len(b))
    <3>1. p - Len(b) \in 1 .. k /\ (b \o d)[p] = d[p - Len(b)]
      BY <2>2, <2>6, <2>7, <2>9
    <3>2. (b \o d)[p] = incoming[p - Len(b)] /\ maySend(incoming[p - Len(b)].req)
      BY <2>1, <2>4, <3>1 DEF d
    <3> QED
      BY <3>2 DEF maySend
  <2> QED
    BY <2>8, <2>9
<1> QED
  BY <1>6, <1>7, <1>8 DEF OrderInv

LEMMA WriteOrder ==
    ASSUME PlaceInv, OrderInv, TakeOutgoingBytes \/ Written
    PROVE  OrderInv'
<1>1. ShapeInv /\ OutputOK /\ ParsingInv /\ RepliesInv /\ DeliveredInv
  BY PlaceParts DEF PlaceInv, OrderInv
<1>2. /\ turn = "write"
      /\ UNCHANGED <<client, incoming, data, view, keepGoing, m_incomingBuffer, m_state>>
  BY DEF TakeOutgoingBytes, Written, ReadsOn, call, respVars
<1>3. view' = 0
  BY <1>1, <1>2 DEF ShapeInv, TypeOK, ConnectionTypeOK
<1>4. unconsumed' = unconsumed /\ buffered' = buffered /\ lastReplied' = lastReplied
  BY <1>2 DEF unconsumed, buffered, lastReplied
<1>5. /\ script' = script /\ mayLosePlace' = mayLosePlace
      /\ \A n : haveReplies(n)' = haveReplies(n)
  BY <1>2, SameClient
<1>6. answered' = answered /\ (inOrder(sent, mayLosePlace) => inOrder(sent', mayLosePlace))
  <2>1. CASE sent' = sent
    BY <2>1 DEF answered
  <2>2. ASSUME NEW x \in Items, x.part \in {"chunk", "end"}, sent' = Append(sent, x)
        PROVE  answered' = answered
                   /\ (inOrder(sent, mayLosePlace) => inOrder(sent', mayLosePlace))
    <3>1. sent \in Seq(Items) /\ ~isAnswer(x)
      BY <1>1, <2>2, SentType DEF isAnswer
    <3> QED
      BY <2>2, <3>1, AppendItem, OrderKept DEF answered
  <2>3. CASE Written
    BY <2>1, <2>3 DEF Written, ReadsOn, output, sent
  <2>4. CASE TakeOutgoingBytes
    <3> DEFINE r == m_activeReadSession
    <3>1. \/ sent' = sent
          \/ /\ r \in [req : Nat, chunks : 0 .. MaxChunks]
             /\ \/ sent' = Append(sent, item(r.req, "chunk", r.chunks))
                \/ sent' = Append(sent, item(r.req, "end", 0))
      BY <1>1, <2>4, TakeOutgoing
    <3>2. r \in [req : Nat, chunks : 0 .. MaxChunks] =>
              /\ item(r.req, "chunk", r.chunks) \in Items
              /\ item(r.req, "chunk", r.chunks).part = "chunk"
              /\ item(r.req, "end", 0) \in Items
              /\ item(r.req, "end", 0).part = "end"
      BY ItemType, ConnectionAssumption
    <3> QED
      BY <2>1, <2>2, <3>1, <3>2
  <2> QED
    BY <2>3, <2>4
<1>7. ParsingInv' /\ ViewInv'
  BY <1>1, <1>2, <1>3, <1>4, <1>5 DEF ParsingInv, ViewInv
<1>8. RepliesInv'
  BY <1>1, <1>2, <1>4, <1>5, <1>6 DEF RepliesInv
<1>9. DeliveredInv'
  BY <1>1, <1>2, <1>4, <1>5, <1>6 DEF DeliveredInv
<1> QED
  BY <1>7, <1>8, <1>9 DEF OrderInv

LEMMA NeedsMoreOrder == PlaceInv /\ OrderInv /\ NeedsMore => OrderInv'
<1> SUFFICES ASSUME PlaceInv, OrderInv, NeedsMore PROVE OrderInv'
  OBVIOUS
<1>1. ShapeInv /\ ParsingInv /\ RepliesInv /\ DeliveredInv
  BY DEF PlaceInv, OrderInv
<1>2. /\ turn = "callback" /\ view' = 0 /\ data' = <<>> /\ m_incomingBuffer' = buffered
      /\ UNCHANGED <<client, output, m_state>>
  BY DEF NeedsMore, parsing, Returns
<1>3. unconsumed' = unconsumed /\ m_incomingBuffer' \in Seq(Byte)
  BY <1>1, NeedsMoreConsumes
<1>4. keepGoing
  BY <1>1, <1>2 DEF ShapeInv
<1>5. buffered' = buffered
  <2>1. <<>> \in Seq(Byte)
    BY EmptySeq
  <2> QED
    BY <1>2, <1>3, <2>1, BufferedIs
<1>6. sent' = sent /\ answered' = answered /\ lastReplied' = lastReplied
  BY <1>2, <1>3 DEF output, sent, answered, lastReplied
<1>7. /\ script' = script /\ mayLosePlace' = mayLosePlace
      /\ \A n : haveReplies(n)' = haveReplies(n)
  BY <1>2, SameClient
<1>8. ParsingInv' /\ ViewInv'
  BY <1>1, <1>2, <1>3, <1>4, <1>7 DEF ParsingInv, ViewInv
<1>9. RepliesInv'
  BY <1>1, <1>3, <1>4, <1>6, <1>7 DEF RepliesInv
<1>10. DeliveredInv'
  BY <1>1, <1>2, <1>5, <1>6, <1>7 DEF DeliveredInv
<1> QED
  BY <1>8, <1>9, <1>10 DEF OrderInv

\* Malformed input: the connection is closed, or was read in one buffer behind
\* a large value, and is the last of the script unless the place may be lost.
LEMMA MalformedOrder == PlaceInv /\ OrderInv /\ Malformed => OrderInv'
<1> SUFFICES ASSUME PlaceInv, OrderInv, Malformed PROVE OrderInv'
  OBVIOUS
<1>1. ShapeInv /\ ParsingInv /\ RepliesInv /\ DeliveredInv /\ ViewInv
  BY DEF PlaceInv, OrderInv
<1>2. /\ turn = "callback" /\ m_state = "ParsingCommands"
      /\ view' = 0 /\ data' = <<>> /\ m_incomingBuffer' = <<>>
      /\ keepGoing' = (view > 0)
      /\ UNCHANGED <<client, incoming, output, m_state>>
  BY DEF Malformed, parsing, Fails, Returns
<1> DEFINE n == Len(buffered)
<1>3. unconsumed' = drop(unconsumed, n) /\ n \in 0 .. Len(unconsumed)
  BY <1>1, <1>2, DropsBuffer
<1>4. sent' = sent
  BY <1>2 DEF output, sent
<1>5. /\ script' = script /\ mayLosePlace' = mayLosePlace
  BY <1>2, SameClient
<1>6. keepGoing' /\ unconsumed' # <<>> => mayLosePlace
  <2> SUFFICES ASSUME view > 0, unconsumed' # <<>>, ~mayLosePlace PROVE FALSE
    BY <1>2
  <2> DEFINE j == unconsumed[1].req
  <2>1. client.pipelining /\ \E i \in 1 .. (j - 1) : script[i].kind = "large"
    BY <1>1, <1>2 DEF ViewInv
  <2>2. PICK i \in 1 .. (j - 1) : script[i].kind = "large"
    BY <2>1
  <2>3. unconsumed # <<>> /\ keepGoing
    BY <1>1, <1>2, Buffers DEF ShapeInv
  <2>4. unconsumed[1].off = 1
    BY <1>1, <1>2, <2>3 DEF ParsingInv
  <2>5. /\ buffered[1] = unconsumed[1] /\ atRequest(buffered)
        /\ leftFrom(script, unconsumed[1]) = lengthOf(script[j])
    BY <1>1, <1>2, <2>4, AtFront
  <2>6. PICK o \in parse(buffered) : o.result = "Error"
    BY DEF Malformed
  <2>7. ~holdsLargeHead(buffered)
    BY DEF Malformed
  <2>8. script[j].kind = "bad" /\ lengthOf(script[j]) <= n
    BY <1>1, <1>2, <2>5, <2>6, <2>7, ParseOutcome
  <2>9. /\ contiguous(script, unconsumed) /\ script \in Script /\ Len(unconsumed) \in Nat
        /\ j \in 1 .. Len(script) /\ Len(script) \in Nat /\ DOMAIN script = 1 .. Len(script)
        /\ client \in Clients
    BY <1>1, <2>3, Buffers, FirstByte, LenProperties DEF ShapeInv, Script
  <2>10. lengthOf(script[j]) \in Nat
    BY <2>9, LengthPositive
  <2>11. n < Len(unconsumed)
    BY <1>3, <2>9, Advance
  <2> HIDE DEF n
  <2>12. n + 1 \in 1 .. Len(unconsumed) /\ n + 1 > leftFrom(script, unconsumed[1])
    BY <1>3, <2>5, <2>8, <2>9, <2>10, <2>11
  <2>13. j < unconsumed[n + 1].req
    BY <2>3, <2>4, <2>9, <2>12, BehindRequest
  <2>14. unconsumed[n + 1].req \in 1 .. Len(script)
    BY <2>9, <2>12 DEF contiguous
  <2>15. /\ i \in DOMAIN script /\ j \in DOMAIN script /\ i < j /\ j < Len(script)
    <3> HIDE DEF j
    <3>1. j \in 1 .. Len(script)
      BY <2>9
    <3>2. i \in 1 .. Len(script) /\ i < j
      BY <2>2, <2>9, <3>1
    <3>3. j < Len(script)
      BY <2>9, <2>13, <2>14, <3>1
    <3> QED
      BY <2>9, <3>1, <3>2, <3>3
  <2> QED
    BY <2>1, <2>2, <2>8, <2>15 DEF mayLosePlace
<1>7. RepliesInv'
  BY <1>1, <1>2, <1>3, <1>4, <1>6, RepliesSame
<1>8. ParsingInv' /\ ViewInv'
  BY <1>2, <1>5, <1>6 DEF ParsingInv, ViewInv
<1>9. DeliveredInv'
  <2>1. <<>> \in Seq(Byte)
    BY EmptySeq
  <2>2. buffered' = <<>>
    BY <1>2, <2>1, BufferedIs
  <2> QED
    BY <2>2, DeliveredNone
<1> QED
  BY <1>7, <1>8, <1>9 DEF OrderInv

\* A client that waits for its answers has sent nothing behind a large value
\* that has none.
LEMMA LargeAlone ==
    ASSUME PlaceInv, OrderInv, turn = "callback", m_state = "ParsingCommands",
           holdsLargeHead(buffered), ~client.pipelining, ~mayLosePlace
    PROVE  \A p \in 1 .. Len(buffered) : buffered[p].req = buffered[1].req
<1> DEFINE i == buffered[1].req
<1>1. ShapeInv /\ RepliesInv /\ DeliveredInv
  BY DEF PlaceInv, OrderInv
<1>2. /\ buffered[1] = unconsumed[1] /\ i \in Nat \ {0} /\ first(buffered) = script[i]
      /\ unconsumed # <<>>
  BY <1>1, AtFront
<1>3. script[i].kind = "large" /\ keepGoing
  BY <1>1, <1>2 DEF holdsLargeHead, ShapeInv
<1>4. answered = haveReplies(i - 1)
  BY <1>1, <1>2, <1>3 DEF RepliesInv, lastReplied
<1>5. i \notin answered
  <2>1. \A j \in haveReplies(i - 1) : j < i
    BY <1>2, HaveReplies
  <2> HIDE DEF i
  <2> QED
    BY <1>2, <1>4, <2>1
<1> TAKE p \in 1 .. Len(buffered)
<1>6. /\ buffered \in Seq(Byte) /\ Len(buffered) \in Nat /\ Len(incoming) \in Nat
      /\ \A q \in 1 .. Len(buffered) : unconsumed[q] = buffered[q]
      /\ Len(unconsumed) = Len(buffered) + Len(incoming)
  BY <1>1, Buffers, LenProperties
<1>7. p \in 1 .. Len(unconsumed) /\ 1 \in 1 .. Len(unconsumed) /\ 1 <= p
  BY <1>6
<1>8. i <= buffered[p].req
  BY <1>1, <1>2, <1>6, <1>7 DEF ShapeInv, contiguous
<1>9. buffered[p].req \in Nat
  <2>1. buffered[p] \in Byte
    BY <1>6, ElementOfSeq
  <2> QED
    BY <2>1 DEF Byte
<1>10. ~(i \in 1 .. (buffered[p].req - 1))
  BY <1>1, <1>3, <1>5 DEF DeliveredInv
<1> HIDE DEF i
<1>11. buffered[p].req = i
  BY <1>2, <1>8, <1>9, <1>10
<1> QED
  BY <1>11 DEF i

\* What an upload that begins, or is refused, leaves in the buffer.
LEMMA BeginBuffer ==
    ASSUME PlaceInv, PlaceInv', OrderInv, turn = "callback", m_state = "ParsingCommands",
           holdsLargeHead(buffered), client' = client, incoming' = incoming,
           m_incomingBuffer' = <<>>, m_state' # "ParsingCommands",
           answered \subseteq answered',
           PassesOn(drop(buffered, script[buffered[1].req].head),
                    script[buffered[1].req].head)
    PROVE  /\ \E k \in 0 .. Len(unconsumed) :
                  /\ unconsumed' = drop(unconsumed, k)
                  /\ unconsumed' # <<>> => unconsumed'[1].req = unconsumed[1].req
           /\ ParsingInv' /\ DeliveredInv' /\ ViewInv'
<1> DEFINE i == buffered[1].req
           k == script[i].head
           rest == drop(buffered, k)
<1>1. ShapeInv /\ RepliesInv /\ DeliveredInv /\ ShapeInv'
  BY DEF PlaceInv, OrderInv
<1>2. /\ rest \in Seq(Byte) /\ (<<>> \o rest) \o incoming = drop(unconsumed, k)
      /\ k \in 0 .. Len(unconsumed)
      /\ drop(unconsumed, k) # <<>> => drop(unconsumed, k)[1] = [req |-> i, off |-> k + 1]
  BY <1>1, BeginConsumes
<1>3. buffered[1] = unconsumed[1] /\ k \in Nat \ {0} /\ first(buffered) = script[i]
  BY <1>1, AtFront
<1>4. k <= Len(buffered) /\ buffered \in Seq(Byte) /\ Len(buffered) \in Nat
  BY <1>1, <1>3, Buffers, LenProperties DEF holdsLargeHead
<1>5. PassesOn(rest, k)
  OBVIOUS
<1> HIDE DEF k, rest
<1>6. data' = rest
  BY <1>5 DEF PassesOn, Returns
<1>7. unconsumed' = drop(unconsumed, k)
  BY <1>2, <1>6 DEF unconsumed
<1>8. unconsumed' # <<>> => unconsumed'[1].req = unconsumed[1].req
  BY <1>2, <1>3, <1>7
<1>9. <<>> \in Seq(Byte)
  BY EmptySeq
<1>10. buffered' = rest
  BY <1>2, <1>6, <1>9, BufferedIs
<1>11. k \in 0 .. Len(buffered)
  BY <1>3, <1>4
<1>12. DeliveredInv'
  BY <1>1, <1>10, <1>11, DeliveredShrinks DEF rest
<1>13. ParsingInv'
  BY DEF ParsingInv
<1>14. ViewInv'
  <2> SUFFICES ASSUME ~client.pipelining, ~mayLosePlace, NEW p \in 1 .. Len(rest)
               PROVE  rest[p].req = rest[1].req
    <3>1. mayLosePlace' = mayLosePlace
      BY SameClient
    <3> QED
      BY <1>6, <3>1 DEF ViewInv
  <2>1. Len(rest) = Len(buffered) - k
        /\ \A q \in 1 .. (Len(buffered) - k) : rest[q] = buffered[k + q]
    BY <1>4, <1>11, DropProperties DEF rest
  <2>2. k + p \in 1 .. Len(buffered) /\ k + 1 \in 1 .. Len(buffered)
        /\ 1 \in 1 .. (Len(buffered) - k) /\ p \in 1 .. (Len(buffered) - k)
    BY <1>3, <1>4, <2>1
  <2>3. \A q \in 1 .. Len(buffered) : buffered[q].req = i
    BY LargeAlone
  <2> HIDE DEF i
  <2> QED
    BY <2>1, <2>2, <2>3
<1> QED
  BY <1>2, <1>7, <1>8, <1>12, <1>13, <1>14

LEMMA BeginRefusedOrder == PlaceInv /\ PlaceInv' /\ OrderInv /\ BeginRefused => OrderInv'
<1> SUFFICES ASSUME PlaceInv, PlaceInv', OrderInv, BeginRefused PROVE OrderInv'
  OBVIOUS
<1> DEFINE i == buffered[1].req
           x == item(i, "reply", 0)
<1>1. ShapeInv /\ OutputOK /\ RepliesInv
  BY PlaceParts DEF PlaceInv, OrderInv
<1>2. /\ turn = "callback" /\ m_state = "ParsingCommands" /\ holdsLargeHead(buffered)
      /\ m_outgoingBuffer' = Append(m_outgoingBuffer, x)
      /\ m_incomingBuffer' = <<>> /\ m_state' = "DiscardingRejectedValue"
      /\ PassesOn(drop(buffered, script[i].head), script[i].head)
      /\ UNCHANGED <<client, incoming, wire>>
  BY DEF BeginRefused, parsing, queueResponse
<1>3. /\ i \in Nat \ {0} /\ buffered[1] = unconsumed[1] /\ first(buffered) = script[i]
      /\ script[i].kind = "large"
  BY <1>1, <1>2, AtFront DEF holdsLargeHead
<1>4. x \in Items /\ isAnswer(x) /\ x.req = i /\ sent' = Append(sent, x)
  BY <1>1, <1>2, <1>3, ReplySent
<1> HIDE DEF x
<1>5. answered \subseteq answered'
  <2>1. sent \in Seq(Items)
    BY <1>1, SentType
  <2> QED
    BY <1>4, <2>1, AppendItem DEF answered
<1>6. /\ \E k \in 0 .. Len(unconsumed) :
             /\ unconsumed' = drop(unconsumed, k)
             /\ unconsumed' # <<>> => unconsumed'[1].req = unconsumed[1].req
      /\ ParsingInv' /\ DeliveredInv' /\ ViewInv'
  BY <1>2, <1>5, BeginBuffer
<1>7. PICK k \in 0 .. Len(unconsumed) :
          /\ unconsumed' = drop(unconsumed, k)
          /\ unconsumed' # <<>> => unconsumed'[1].req = unconsumed[1].req
  BY <1>6
<1>8. unconsumed' # <<>> => haveReplies(lastReplied') = haveReplies(i - 1) \cup {i}
  <2>1. haveReplies(i) = haveReplies(i - 1) \cup {i}
    BY <1>3, HaveReplies
  <2> QED
    BY <1>2, <1>3, <1>7, <2>1 DEF lastReplied
<1>9. unconsumed[1].req = i /\ m_state # "DiscardingRejectedValue"
  BY <1>2, <1>3
<1> HIDE DEF i
<1>10. RepliesInv'
  BY <1>1, <1>2, <1>4, <1>7, <1>8, <1>9, RepliesOne
<1> QED
  BY <1>6, <1>10 DEF OrderInv

LEMMA BeginUploadOrder == PlaceInv /\ PlaceInv' /\ OrderInv /\ BeginUpload => OrderInv'
<1> SUFFICES ASSUME PlaceInv, PlaceInv', OrderInv, BeginUpload PROVE OrderInv'
  OBVIOUS
<1> DEFINE i == buffered[1].req
<1>1. RepliesInv
  BY DEF OrderInv
<1>2. /\ turn = "callback" /\ m_state = "ParsingCommands" /\ holdsLargeHead(buffered)
      /\ m_incomingBuffer' = <<>> /\ m_state' = "StreamingValue"
      /\ PassesOn(drop(buffered, script[i].head), script[i].head)
      /\ UNCHANGED <<client, incoming, output>>
  BY DEF BeginUpload, parsing
<1>3. sent' = sent /\ answered \subseteq answered'
  BY <1>2 DEF output, sent, answered
<1>4. /\ \E k \in 0 .. Len(unconsumed) :
             /\ unconsumed' = drop(unconsumed, k)
             /\ unconsumed' # <<>> => unconsumed'[1].req = unconsumed[1].req
      /\ ParsingInv' /\ DeliveredInv' /\ ViewInv'
  BY <1>2, <1>3, BeginBuffer
<1>5. PICK k \in 0 .. Len(unconsumed) :
          /\ unconsumed' = drop(unconsumed, k)
          /\ unconsumed' # <<>> => unconsumed'[1].req = unconsumed[1].req
  BY <1>4
<1>6. unconsumed' # <<>> => lastReplied' = lastReplied
  BY <1>2, <1>5 DEF lastReplied
<1>7. RepliesInv'
  BY <1>1, <1>2, <1>3, <1>5, <1>6, RepliesSame
<1> QED
  BY <1>4, <1>7 DEF OrderInv

\* Below tryBeginStreamingSetValue nothing follows a value that is through,
\* unless the client sends ahead.
LEMMA NothingBehind ==
    ASSUME PlaceInv, ViewInv, turn = "callback", view > 0, ~mayLosePlace,
           ~client.pipelining, unconsumed[1].off > 0,
           NEW k \in 0 .. Len(data), k = leftFrom(script, unconsumed[1])
    PROVE  drop(data, k) = <<>>
<1>1. m_state # "ParsingCommands" /\ \A p \in 1 .. Len(data) : data[p].req = data[1].req
  BY DEF ViewInv
<1>2. ShapeInv /\ m_incomingBuffer = <<>>
  BY <1>1 DEF PlaceInv, ShapeInv
<1>3. /\ data \in Seq(Byte) /\ Len(data) \in Nat /\ data # <<>> /\ unconsumed # <<>>
      /\ Len(incoming) \in Nat
      /\ Len(unconsumed) = Len(data) + Len(incoming)
      /\ \A p \in 1 .. Len(data) : unconsumed[p] = data[p]
  BY <1>2, Buffers, LenProperties
<1>4. contiguous(script, unconsumed) /\ unconsumed[1].req \in Nat
  BY <1>2, <1>3, FirstByte DEF ShapeInv
<1> SUFFICES ASSUME k # Len(data) PROVE FALSE
  BY <1>3, DropEnds
<1>5. /\ k + 1 \in 1 .. Len(data) /\ 1 \in 1 .. Len(data)
      /\ k + 1 \in 1 .. Len(unconsumed) /\ 1 \in 1 .. Len(unconsumed)
      /\ 1 <= k + 1 /\ (k + 1) - 1 = k
  BY <1>3
<1>6. unconsumed[k + 1] = [req |-> unconsumed[1].req + 1, off |-> 1]
  BY <1>4, <1>5 DEF contiguous
<1>7. unconsumed[k + 1].req = unconsumed[1].req + 1
  BY <1>6
<1>8. unconsumed[k + 1].req = unconsumed[1].req
  BY <1>1, <1>3, <1>5
<1> QED
  BY <1>4, <1>7, <1>8

\* A large value is through: what follows it starts with the next request.
LEMMA ValueThrough ==
    ASSUME PlaceInv, OrderInv, turn = "callback", client' = client,
           NEW k \in 0 .. Len(data), unconsumed' = drop(unconsumed, k),
           k \in 0 .. Len(unconsumed), unconsumed[1].off > 0,
           k = leftFrom(script, unconsumed[1]),
           script[unconsumed[1].req].kind = "large",
           data' = drop(data, k), PassesOn(drop(data, k), view)
    PROVE  /\ unconsumed' # <<>> => /\ unconsumed'[1].req - 1 = unconsumed[1].req
                                    /\ unconsumed'[1].off = 1
           /\ ViewInv'
<1>1. ShapeInv /\ ViewInv
  BY DEF PlaceInv, OrderInv
<1>2. unconsumed # <<>>
  BY <1>1, Buffers
<1>3. unconsumed' # <<>> =>
          /\ unconsumed'[1].req = unconsumed[1].req + 1 /\ unconsumed'[1].off = 1
          /\ unconsumed'[1].req - 1 = unconsumed[1].req
  BY <1>1, <1>2, NextRequest
<1>4. /\ unconsumed[1].req \in 1 .. Len(script) /\ unconsumed[1].req \in Nat
  BY <1>1, <1>2, FirstByte
<1>5. mayLosePlace' = mayLosePlace /\ script' = script
  BY SameClient
<1>6. ASSUME view' > 0, ~mayLosePlace PROVE view > 0 /\ drop(data, k) # <<>>
  BY <1>6 DEF PassesOn, Returns
<1>7. ASSUME view' > 0, ~mayLosePlace, ~client.pipelining PROVE FALSE
  BY <1>1, <1>6, <1>7, NothingBehind
<1>8. ASSUME view' > 0, ~mayLosePlace
      PROVE  \E i \in 1 .. (unconsumed'[1].req - 1) : script[i].kind = "large"
  <2>1. unconsumed' # <<>>
    <3>1. data' # <<>> /\ Len(drop(data, k)) = Len(data) - k /\ data \in Seq(Byte)
          /\ drop(data, k) \in Seq(Byte)
      BY <1>1, <1>6, <1>8, Buffers, DropProperties
    <3>2. Len(data) \in Nat /\ Len(drop(data, k)) # 0
      BY <1>6, <1>8, <3>1, EmptySeq
    <3>3. k < Len(data)
      BY <3>1, <3>2
    <3>4. /\ unconsumed \in Seq(Byte) /\ Len(unconsumed) = Len(buffered) + Len(incoming)
          /\ Len(buffered) = Len(m_incomingBuffer) + Len(data)
          /\ Len(incoming) \in Nat /\ Len(m_incomingBuffer) \in Nat
      BY <1>1, Buffers, LenProperties
    <3>5. Len(drop(unconsumed, k)) = Len(unconsumed) - k
      BY <3>4, DropProperties
    <3>6. Len(drop(unconsumed, k)) # 0
      BY <3>2, <3>3, <3>4, <3>5
    <3> QED
      BY <3>6, EmptySeq
  <2>2. unconsumed[1].req \in 1 .. (unconsumed'[1].req - 1)
    BY <1>3, <1>4, <2>1
  <2> QED
    BY <2>2
<1>9. ViewInv'
  BY <1>5, <1>7, <1>8 DEF ViewInv
<1> QED
  BY <1>3, <1>9

LEMMA ContinueStreamingOrder ==
    ASSUME PlaceInv, PlaceInv', OrderInv, ContinueStreamingValue
    PROVE  OrderInv'
<1> DEFINE i == m_activeSession.req
           v == m_valueBytesRemaining
           t == m_trailingCrlfRemaining
           n == Len(data)
           c == least(n, v)
           s == least(n - c, t)
           k == c + s
           x == item(i, "reply", 0)
<1>1. /\ ShapeInv /\ OutputOK /\ ParsingInv /\ RepliesInv /\ DeliveredInv
      /\ turn = "callback" /\ m_state = "StreamingValue"
  BY PlaceParts DEF ContinueStreamingValue, PlaceInv, OrderInv
<1>2. /\ i \in Nat /\ i \in 1 .. Len(script) /\ script[i].kind = "large"
      /\ script[i].head \in Nat /\ script[i].value \in Nat
      /\ v \in 0 .. script[i].value /\ t \in Nat /\ t <= kCrlf /\ v + t > 0
      /\ v > 0 => t = kCrlf
      /\ unconsumed # <<>> /\ buffered = data /\ data \in Seq(Byte) /\ n \in Nat
      /\ unconsumed[1] = [req |-> i, off |-> script[i].head + (script[i].value - v)
                                                 + (kCrlf - t) + 1]
      /\ leftFrom(script, unconsumed[1]) = v + t
  BY <1>1, StreamingPlace
<1>3. unconsumed[1].req = i /\ unconsumed[1].off > 0
  BY <1>2, SMTT(30) DEF kCrlf
<1>4. /\ k \in 0 .. Len(data) /\ k \in 0 .. Len(unconsumed)
      /\ unconsumed' = drop(unconsumed, k)
      /\ drop(data, k) \in Seq(Byte) /\ data' = drop(data, k)
      /\ (v - c) + (t - s) > 0 => data' = <<>>
  BY StreamingConsumes
<1>5. /\ UNCHANGED <<client, incoming, m_incomingBuffer, wire>>
      /\ IF (v - c) + (t - s) > 0
         THEN Returns(TRUE) /\ UNCHANGED <<m_state, m_outgoingBuffer>>
         ELSE /\ m_outgoingBuffer' = Append(m_outgoingBuffer, x)
              /\ m_state' = "ParsingCommands"
              /\ PassesOn(drop(data, k), view)
  BY DEF ContinueStreamingValue, queueResponse
<1>6. /\ (v - c) + (t - s) > 0 => k < v + t
      /\ ~((v - c) + (t - s) > 0) => k = v + t
  <2>1. /\ n \in Nat /\ v \in Nat /\ t \in Nat /\ t <= kCrlf /\ v + t > 0
        /\ v > 0 => t = kCrlf
    BY <1>2
  <2> HIDE DEF n, v, t
  <2> QED
    BY <2>1 DEF least, kCrlf
<1> HIDE DEF k, c, s, n
<1>7. m_incomingBuffer' = <<>> /\ <<>> \in Seq(Byte)
  BY <1>1, <1>5, EmptySeq DEF ShapeInv
<1>8. buffered' = drop(buffered, k) /\ k \in 0 .. Len(buffered)
  BY <1>2, <1>4, <1>7, BufferedIs
<1>9. CASE (v - c) + (t - s) > 0
  <2>1. sent' = sent /\ answered \subseteq answered' /\ view' = 0 /\ m_state' = m_state
    BY <1>5, <1>9 DEF sent, answered, Returns
  <2>2. unconsumed' # <<>> => unconsumed'[1].req = unconsumed[1].req
    BY <1>1, <1>2, <1>3, <1>4, <1>6, <1>9, SameRequest
  <2>3. unconsumed' # <<>> => lastReplied' = lastReplied
    BY <2>1, <2>2 DEF lastReplied
  <2>4. RepliesInv'
    BY <1>1, <1>4, <1>5, <2>1, <2>3, RepliesSame
  <2>5. DeliveredInv'
    BY <1>1, <1>5, <1>8, <2>1, DeliveredShrinks
  <2>6. ParsingInv' /\ ViewInv'
    BY <1>1, <2>1 DEF ParsingInv, ViewInv
  <2> QED
    BY <2>4, <2>5, <2>6 DEF OrderInv
<1>10. CASE ~((v - c) + (t - s) > 0)
  <2>1. x \in Items /\ isAnswer(x) /\ x.req = i /\ sent' = Append(sent, x)
    BY <1>1, <1>2, <1>5, <1>10, ReplySent
  <2> HIDE DEF x
  <2>2. answered \subseteq answered'
    <3>1. sent \in Seq(Items)
      BY <1>1, SentType
    <3> QED
      BY <2>1, <3>1, AppendItem DEF answered
  <2>3. PassesOn(drop(data, k), view) /\ m_state' = "ParsingCommands"
    BY <1>5, <1>10
  <2>4. k = leftFrom(script, unconsumed[1])
    BY <1>2, <1>6, <1>10
  <2>5. /\ unconsumed' # <<>> => /\ unconsumed'[1].req - 1 = unconsumed[1].req
                                 /\ unconsumed'[1].off = 1
        /\ ViewInv'
    BY <1>1, <1>2, <1>3, <1>4, <1>5, <2>3, <2>4, ValueThrough
  <2>6. unconsumed' # <<>> =>
            haveReplies(lastReplied') = haveReplies(i - 1) \cup {i}
    <3>1. i \in Nat \ {0}
      BY <1>2
    <3>2. haveReplies(i) = haveReplies(i - 1) \cup {i}
      BY <1>2, <3>1, HaveReplies
    <3> QED
      BY <1>3, <2>3, <2>5, <3>2 DEF lastReplied
  <2> HIDE DEF i
  <2>7. RepliesInv'
    BY <1>1, <1>3, <1>4, <1>5, <2>1, <2>6, RepliesOne
  <2>8. DeliveredInv'
    BY <1>1, <1>5, <1>8, <2>2, DeliveredShrinks
  <2>9. ParsingInv'
    BY <2>5 DEF ParsingInv
  <2> QED
    BY <2>5, <2>7, <2>8, <2>9 DEF OrderInv
<1> QED
  BY <1>9, <1>10

LEMMA WriteFailsOrder == PlaceInv /\ OrderInv /\ WriteFails => OrderInv'
<1> SUFFICES ASSUME PlaceInv, OrderInv, WriteFails PROVE OrderInv'
  OBVIOUS
<1> DEFINE i == m_activeSession.req
           x == item(i, "reply", 0)
<1>1. ShapeInv /\ OutputOK /\ RepliesInv
  BY PlaceParts DEF PlaceInv, OrderInv
<1>2. /\ turn = "callback" /\ m_state = "StreamingValue"
      /\ m_outgoingBuffer' = Append(m_outgoingBuffer, x)
      /\ view' = 0 /\ data' = <<>> /\ keepGoing' = (view > 0)
      /\ (IF view > 0 THEN "first" ELSE "later") \in client.faults
      /\ UNCHANGED <<client, incoming, m_incomingBuffer, wire>>
  BY DEF WriteFails, queueResponse, Fails, Returns
<1>3. m_incomingBuffer' = <<>> /\ <<>> \in Seq(Byte)
  BY <1>1, <1>2, EmptySeq DEF ShapeInv
<1>4. /\ unconsumed' = drop(unconsumed, Len(buffered))
      /\ Len(buffered) \in 0 .. Len(unconsumed)
  BY <1>1, <1>2, <1>3, DropsBuffer
<1>5. /\ i \in Nat
      /\ unconsumed[1] = [req |-> i, off |-> script[i].head
              + (script[i].value - m_valueBytesRemaining)
              + (kCrlf - m_trailingCrlfRemaining) + 1]
  BY <1>2, StreamingPlace
<1>6. x \in Items /\ isAnswer(x) /\ x.req = i /\ sent' = Append(sent, x)
  BY <1>1, <1>2, <1>5, ReplySent
<1>7. unconsumed[1].req = i
  BY <1>5
<1> HIDE DEF x, i
<1>8. keepGoing' => mayLosePlace
  BY <1>2 DEF mayLosePlace
<1>9. RepliesInv'
  BY <1>1, <1>2, <1>4, <1>6, <1>7, <1>8, RepliesOne
<1>10. mayLosePlace' = mayLosePlace
  BY <1>2, SameClient
<1>11. ParsingInv' /\ ViewInv'
  BY <1>2, <1>8, <1>10 DEF ParsingInv, ViewInv
<1>12. DeliveredInv'
  <2>1. buffered' = <<>>
    BY <1>2, <1>3, BufferedIs
  <2> QED
    BY <2>1, DeliveredNone
<1> QED
  BY <1>9, <1>11, <1>12 DEF OrderInv

LEMMA ContinueDiscardingOrder ==
    ASSUME PlaceInv, PlaceInv', OrderInv, ContinueDiscardingValue
    PROVE  OrderInv'
<1> DEFINE d == m_discardBytesRemaining
           k == least(Len(data), d)
<1>1. /\ ShapeInv /\ RepliesInv /\ DeliveredInv
      /\ turn = "callback" /\ m_state = "DiscardingRejectedValue"
  BY DEF ContinueDiscardingValue, PlaceInv, OrderInv
<1>2. /\ buffered = data /\ d \in Nat \ {0} /\ unconsumed # <<>>
      /\ unconsumed[1].off > 0 /\ leftFrom(script, unconsumed[1]) = d
      /\ script[unconsumed[1].req].kind = "large"
      /\ k \in 1 .. Len(data) /\ k \in 0 .. Len(unconsumed) /\ k <= d
      /\ drop(data, k) \in Seq(Byte) /\ data' = drop(data, k)
      /\ unconsumed' = drop(unconsumed, k)
      /\ k < d => data' = <<>>
  BY DiscardingConsumes
<1>3. /\ m_state' = IF d - k > 0 THEN "DiscardingRejectedValue" ELSE "ParsingCommands"
      /\ PassesOn(drop(data, k), view)
      /\ UNCHANGED <<client, incoming, m_incomingBuffer, output>>
  BY <1>1 DEF ContinueDiscardingValue
<1> HIDE DEF k
<1>4. k \in Nat /\ k \in 0 .. Len(data)
  BY <1>1, <1>2, Buffers, LenProperties
<1>5. m_incomingBuffer' = <<>> /\ <<>> \in Seq(Byte)
  BY <1>1, <1>3, EmptySeq DEF ShapeInv
<1>6. buffered' = drop(buffered, k) /\ k \in 0 .. Len(buffered)
  BY <1>2, <1>4, <1>5, BufferedIs
<1>7. sent' = sent /\ answered \subseteq answered'
  BY <1>3 DEF output, sent, answered
<1>8. DeliveredInv'
  BY <1>1, <1>3, <1>6, <1>7, DeliveredShrinks
<1>9. CASE k < d
  <2>1. m_state' = "DiscardingRejectedValue" /\ view' = 0
    <3>1. d - k > 0
      BY <1>2, <1>4, <1>9
    <3> QED
      BY <1>2, <1>3, <1>9, <3>1 DEF PassesOn, Returns
  <2>2. unconsumed' # <<>> => unconsumed'[1].req = unconsumed[1].req
    BY <1>1, <1>2, <1>9, SameRequest
  <2>3. unconsumed' # <<>> => lastReplied' = lastReplied
    BY <1>1, <2>1, <2>2 DEF lastReplied
  <2>4. RepliesInv'
    BY <1>1, <1>2, <1>3, <1>7, <2>3, RepliesSame
  <2>5. ParsingInv' /\ ViewInv'
    BY <2>1 DEF ParsingInv, ViewInv
  <2> QED
    BY <1>8, <2>4, <2>5 DEF OrderInv
<1>10. CASE ~(k < d)
  <2>1. k = leftFrom(script, unconsumed[1]) /\ m_state' = "ParsingCommands"
    <3>1. k = d
      BY <1>2, <1>4, <1>10
    <3> QED
      BY <1>2, <1>3, <3>1
  <2>2. /\ unconsumed' # <<>> => /\ unconsumed'[1].req - 1 = unconsumed[1].req
                                 /\ unconsumed'[1].off = 1
        /\ ViewInv'
    BY <1>1, <1>2, <1>3, <1>4, <2>1, ValueThrough
  <2>3. unconsumed' # <<>> => lastReplied' = lastReplied
    BY <1>1, <2>1, <2>2 DEF lastReplied
  <2>4. RepliesInv'
    BY <1>1, <1>2, <1>3, <1>7, <2>3, RepliesSame
  <2>5. ParsingInv'
    BY <2>2 DEF ParsingInv
  <2> QED
    BY <1>8, <2>2, <2>4, <2>5 DEF OrderInv
<1> QED
  BY <1>9, <1>10

\* A command is answered, unless it has no elements; what follows it starts
\* with the next request.
LEMMA CommandOrder == PlaceInv /\ OrderInv /\ Command => OrderInv'
<1> SUFFICES ASSUME PlaceInv, OrderInv, Command PROVE OrderInv'
  OBVIOUS
<1> DEFINE i == buffered[1].req
<1>1. ShapeInv /\ OutputOK /\ ParsingInv /\ RepliesInv /\ DeliveredInv
  BY PlaceParts DEF PlaceInv, OrderInv
<1>2. /\ turn = "callback" /\ m_state = "ParsingCommands" /\ m_state' = m_state
      /\ view' = 0 /\ data' = <<>> /\ UNCHANGED <<client, incoming>>
  BY DEF Command, parsing, Returns
<1>3. /\ i \in Nat \ {0} /\ buffered[1] = unconsumed[1] /\ unconsumed # <<>>
      /\ atRequest(buffered) <=> unconsumed[1].off = 1
      /\ atRequest(buffered) => leftFrom(script, unconsumed[1]) = lengthOf(script[i])
  BY <1>1, <1>2, AtFront
<1>4. m_incomingBuffer' \in Seq(Byte)
  BY <1>1, CommandConsumes
<1>5. PICK k \in 0 .. Len(unconsumed) :
          /\ k <= Len(buffered)
          /\ unconsumed' = drop(unconsumed, k)
          /\ m_incomingBuffer' = drop(buffered, k)
          /\ atRequest(buffered) => k = lengthOf(script[i])
  BY <1>1, CommandConsumes
<1>6. ~mayLosePlace => atRequest(buffered)
  BY <1>1, <1>2, <1>3 DEF ParsingInv, ShapeInv
<1>7. ~mayLosePlace /\ unconsumed' # <<>> =>
          /\ unconsumed'[1].req - 1 = i /\ unconsumed'[1].off = 1
          /\ lastReplied' = i
  <2> SUFFICES ASSUME ~mayLosePlace, unconsumed' # <<>>
               PROVE  /\ unconsumed'[1].req - 1 = i /\ unconsumed'[1].off = 1
                      /\ lastReplied' = i
    OBVIOUS
  <2>1. k = leftFrom(script, unconsumed[1]) /\ unconsumed[1].off > 0
    BY <1>3, <1>5, <1>6
  <2>2. unconsumed'[1].req - 1 = unconsumed[1].req /\ unconsumed'[1].off = 1
    BY <1>1, <1>3, <1>5, <2>1, NextRequest
  <2> QED
    BY <1>2, <1>3, <2>2 DEF lastReplied
<1>8. /\ script' = script /\ mayLosePlace' = mayLosePlace
  BY <1>2, SameClient
<1>9. ParsingInv' /\ ViewInv'
  BY <1>2, <1>7, <1>8 DEF ParsingInv, ViewInv
<1>10. buffered' = drop(buffered, k) /\ k \in 0 .. Len(buffered)
  <2>1. <<>> \in Seq(Byte) /\ Len(buffered) \in Nat
    BY <1>1, Buffers, LenProperties, EmptySeq
  <2> QED
    BY <1>2, <1>4, <1>5, <2>1, BufferedIs
<1>11. \/ /\ sent' = sent
          /\ atRequest(buffered) => script[i].kind = "empty"
       \/ \E x \in Items :
              /\ isAnswer(x) /\ x.req = i /\ sent' = Append(sent, x)
              /\ atRequest(buffered) => script[i].kind # "empty"
  <2>1. \/ /\ sent' = sent
           /\ atRequest(buffered) => script[i].kind = "empty"
        \/ /\ sent' = Append(sent, item(i, "reply", 0))
           /\ atRequest(buffered) => script[i].kind # "empty"
        \/ \E n \in 0 .. MaxChunks :
               /\ sent' = Append(sent, item(i, "header", n + 1))
               /\ atRequest(buffered) => script[i].kind # "empty"
    BY CommandOutput
  <2> HIDE DEF i
  <2>2. /\ item(i, "reply", 0) \in Items /\ item(i, "reply", 0).req = i
        /\ isAnswer(item(i, "reply", 0))
    BY <1>3, ItemType DEF isAnswer
  <2>3. \A n \in 0 .. MaxChunks :
            /\ item(i, "header", n + 1) \in Items /\ item(i, "header", n + 1).req = i
            /\ isAnswer(item(i, "header", n + 1))
    <3> TAKE n \in 0 .. MaxChunks
    <3>1. n + 1 \in Nat
      BY ConnectionAssumption
    <3>2. /\ item(i, "header", n + 1) \in Items /\ item(i, "header", n + 1).req = i
          /\ item(i, "header", n + 1).part = "header"
      BY <1>3, <3>1, ItemType
    <3> QED
      BY <3>2 DEF isAnswer
  <2> QED
    BY <2>1, <2>2, <2>3
<1>12. CASE /\ sent' = sent
            /\ atRequest(buffered) => script[i].kind = "empty"
  <2>1. ~mayLosePlace => haveReplies(i) = haveReplies(lastReplied)
    <3>1. lastReplied = i - 1
      BY <1>2, <1>3 DEF lastReplied
    <3> QED
      BY <1>3, <1>6, <1>12, <3>1, HaveReplies
  <2>2. RepliesInv'
    BY <1>1, <1>2, <1>5, <1>7, <1>12, <2>1, RepliesSame
  <2>3. answered \subseteq answered'
    BY <1>12 DEF answered
  <2>4. DeliveredInv'
    BY <1>1, <1>2, <1>10, <2>3, DeliveredShrinks
  <2> QED
    BY <1>9, <2>2, <2>4 DEF OrderInv
<1>13. ASSUME NEW x \in Items, isAnswer(x), x.req = i, sent' = Append(sent, x),
              atRequest(buffered) => script[i].kind # "empty"
       PROVE  OrderInv'
  <2>1. ~mayLosePlace => haveReplies(i) = haveReplies(i - 1) \cup {i}
    BY <1>3, <1>6, <1>13, HaveReplies
  <2>2. unconsumed[1].req = i /\ m_state # "DiscardingRejectedValue"
    BY <1>2, <1>3
  <2> HIDE DEF i
  <2>3. RepliesInv'
    BY <1>1, <1>2, <1>5, <1>7, <1>13, <2>1, <2>2, RepliesOne
  <2>4. answered \subseteq answered'
    <3>1. sent \in Seq(Items)
      BY <1>1, SentType
    <3> QED
      BY <1>13, <3>1, AppendItem DEF answered
  <2>5. DeliveredInv'
    BY <1>1, <1>2, <1>10, <2>4, DeliveredShrinks
  <2> QED
    BY <1>9, <2>3, <2>5 DEF OrderInv
<1> QED
  BY <1>11, <1>12, <1>13

LEMMA InitOrder == Init => OrderInv
<1> SUFFICES ASSUME Init PROVE OrderInv
  OBVIOUS
<1>1. /\ client \in Clients /\ incoming = streamOf(script)
      /\ data = <<>> /\ view = 0 /\ m_incomingBuffer = <<>>
      /\ m_outgoingBuffer = <<>> /\ wire = <<>> /\ m_state = "ParsingCommands"
  BY DEF Init, ConnectionInit
<1>2. ShapeInv
  BY InitPlace DEF PlaceInv
<1>3. script \in Script /\ unconsumed = incoming
  BY <1>1, <1>2, Buffers, ConcatEmptySeq DEF unconsumed
<1>4. unconsumed # <<>> => unconsumed[1] = [req |-> 1, off |-> 1]
  BY <1>1, <1>3, StreamBegins
<1>5. sent = <<>> /\ buffered = <<>>
  BY <1>1, ConcatEmptySeq, EmptySeq DEF sent, buffered
<1>6. DOMAIN sent = {} /\ Len(buffered) = 0
  BY <1>5, EmptySeq
<1>7. answered = {} /\ inOrder(sent, mayLosePlace)
  BY <1>6 DEF answered, repliedIn, inOrder
<1>8. ParsingInv /\ ViewInv
  BY <1>1, <1>4 DEF ParsingInv, ViewInv
<1>9. DeliveredInv
  BY <1>6 DEF DeliveredInv
<1>10. RepliesInv
  <2>1. haveReplies(0) = {}
    BY DEF haveReplies
  <2>2. unconsumed # <<>> => lastReplied = 0
    BY <1>1, <1>4 DEF lastReplied
  <2> QED
    BY <1>7, <2>1, <2>2 DEF RepliesInv
<1> QED
  BY <1>8, <1>9, <1>10 DEF OrderInv

LEMMA NextOrder == PlaceInv /\ OrderInv /\ [Next]_vars => OrderInv'
<1> SUFFICES ASSUME PlaceInv, OrderInv, [Next]_vars PROVE OrderInv'
  OBVIOUS
<1>1. PlaceInv'
  BY NextPlace
<1>2. CASE UNCHANGED vars
  <2>1. UNCHANGED <<client, incoming, data, view, keepGoing, m_incomingBuffer, output, m_state>>
    BY <1>2 DEF vars, call, respVars
  <2>2. /\ unconsumed' = unconsumed /\ buffered' = buffered /\ lastReplied' = lastReplied
        /\ sent' = sent /\ answered' = answered
    BY <2>1 DEF unconsumed, buffered, lastReplied, output, sent, answered
  <2>3. /\ script' = script /\ mayLosePlace' = mayLosePlace
        /\ \A n : haveReplies(n)' = haveReplies(n)
    BY <2>1, SameClient
  <2> QED
    BY <2>1, <2>2, <2>3
       DEF OrderInv, ParsingInv, RepliesInv, DeliveredInv, ViewInv
<1>3. CASE Next
  BY <1>1, <1>3, ReceiveOrder, BeginRefusedOrder, BeginUploadOrder, ContinueStreamingOrder,
     WriteFailsOrder, ContinueDiscardingOrder, CommandOrder, NeedsMoreOrder,
     MalformedOrder, WriteOrder DEF Next, Handler
<1> QED
  BY <1>2, <1>3

\* Unless a failed first chunk or malformed input behind a large value makes
\* tryBeginStreamingSetValue lose its place, the handler knows where it is in
\* the client's stream, however the bytes are cut into buffers: commands are
\* parsed from the first byte of a request, and the counters of a value that
\* is streamed or discarded are what is left of its request.
THEOREM RespFramingKept == Spec => []FramingKept
<1>1. PlaceInv /\ OrderInv => FramingKept
  <2> SUFFICES ASSUME PlaceInv, OrderInv, unconsumed # <<>>, keepGoing, ~mayLosePlace
               PROVE  LET next == unconsumed[1]
                          left == lengthOf(script[next.req]) - next.off + 1
                      IN  CASE m_state = "ParsingCommands" -> next.off = 1
                            [] m_state = "StreamingValue" ->
                                   /\ next.req = m_activeSession.req
                                   /\ left = m_valueBytesRemaining + m_trailingCrlfRemaining
                            [] m_state = "DiscardingRejectedValue" ->
                                   left = m_discardBytesRemaining
    BY DEF FramingKept
  <2>1. StateOK /\ ParsingInv
    BY PlaceParts DEF OrderInv
  <2>2. CASE m_state = "ParsingCommands"
    BY <2>1, <2>2 DEF ParsingInv
  <2>3. CASE m_state = "StreamingValue"
    <3>1. /\ unconsumed[1].req = m_activeSession.req
          /\ leftFrom(script, unconsumed[1]) =
                 m_valueBytesRemaining + m_trailingCrlfRemaining
      BY <2>3, StreamingNext
    <3> QED
      BY <2>3, <3>1 DEF leftFrom
  <2>4. CASE m_state = "DiscardingRejectedValue"
    BY <2>1, <2>4 DEF StateOK, DiscardingInv, leftFrom
  <2> QED
    BY <2>1, <2>2, <2>3, <2>4 DEF StateOK
<1> QED
  BY <1>1, InitPlace, NextPlace, InitOrder, NextOrder, PTL DEF Spec

\* Replies leave in the order of their requests, none twice and none left out,
\* for a script of any length and any cut of it into buffers; where the place
\* may be lost a request may get several, but none comes out of order.
THEOREM RespRepliesInOrder == Spec => []RepliesInOrder
<1>1. PlaceInv /\ OrderInv => RepliesInOrder
  BY DEF OrderInv, RepliesInv, RepliesInOrder, haveReplies, lastReplied
<1> QED
  BY <1>1, InitPlace, NextPlace, InitOrder, NextOrder, PTL DEF Spec
=============================================================================
