----------------------------- MODULE HttpProofs -----------------------------
(***************************************************************************)
(* Proofs about the HTTP side of a connection, with the detector in front, *)
(* for every script a client may send, every way its bytes are cut into    *)
(* buffers of any size, and whatever the storage answers.                  *)
(***************************************************************************)
EXTENDS HttpProtocolHandler, ConnectionProofs

-----------------------------------------------------------------------------
(* The inductive invariant *)

\* What a handler has in its hands.
buffered == m_incomingBuffer \o data

\* The types, what belongs to each state of the handler, and that what it has
\* not consumed is one piece of the client's stream.
ShapeInv ==
    /\ TypeOK
    /\ contiguous(script, unconsumed)
    /\ ~keepGoing => turn \in {"write", "closed"}
    /\ turn = "parse" =>
           m_incomingBuffer # <<>> /\ m_delegate /\ m_state = "ParsingHeaders"
    /\ m_state # "StreamingBody" => m_activeSession = None
    /\ m_state = "StreamingBody" => m_incomingBuffer = <<>>
    /\ ~m_delegate => m_incomingBuffer = <<>> /\ m_state = "ParsingHeaders"
    /\ view > 0 => turn = "callback" /\ m_incomingBuffer = <<>>

\* While a body is streamed, the counter places the next byte in it and the
\* session has been given all of the body before that byte.
StreamingInv ==
    m_state = "StreamingBody" =>
        LET i == m_activeSession.req
            v == m_bodyBytesRemaining
        IN  /\ m_activeSession \in [req : Nat, bytes : Seq(Byte)]
            /\ i \in 1 .. Len(script) /\ script[i].kind = "large"
            /\ v > 0 /\ v <= script[i].value
            /\ m_activeSession.bytes = valuePart(script, i, v)
            /\ unconsumed # <<>> =>
                   unconsumed[1] =
                       [req |-> i, off |-> script[i].head + (script[i].value - v) + 1]

\* Headers are parsed from the start of a request.
ParsingInv ==
    /\ m_state = "ParsingHeaders" /\ unconsumed # <<>> /\ keepGoing
    /\ dropped = <<>> /\ ~garbled
    => unconsumed[1].off = 1

\* Before the detector has chosen nothing has been done, and once it has let
\* bytes go the next one is in the middle of the first request.
DetectInv ==
    /\ ~m_delegate => /\ sent = <<>> /\ unreported = {}
                      /\ unconsumed # <<>> /\ keepGoing => unconsumed[1].req = 1
    /\ dropped # <<>> => /\ ~m_delegate
                         /\ unconsumed # <<>> /\ keepGoing => unconsumed[1].off > 1

\* The requests before the next byte's have their reply or are unreported.
RepliesInv ==
    ~garbled =>
        /\ inOrder(sent, FALSE)
        /\ unconsumed # <<>> /\ keepGoing =>
               /\ unreported \subseteq 1 .. (unconsumed[1].req - 1)
               /\ answered = (1 .. (unconsumed[1].req - 1)) \ unreported

\* The last item sent is the one before the next part of the object being
\* sent, and nothing is handled before the object's end.
ObjectsInv ==
    LET r == m_activeReadSession
        last == sent[Len(sent)]
    IN  /\ ObjectsUnbroken
        /\ r # None => turn = "write" /\ sent # <<>>
        /\ r # None => last.req = r.req /\ last.left = r.chunks
        /\ r = None /\ sent # <<>> => last.left = 0

\* PlaceInv is inductive by itself, the other two with its help.
PlaceInv == ShapeInv /\ StreamingInv
OrderInv == ParsingInv /\ DetectInv /\ RepliesInv
-----------------------------------------------------------------------------
(* The script and the buffers *)

\* What a client sends is a script of HTTP requests.
LEMMA ClientScript ==
    ASSUME NEW c \in Clients
    PROVE  /\ c.script \in Script /\ Len(c.script) \in Nat
           /\ DOMAIN c.script = 1 .. Len(c.script)
           /\ \A i \in 1 .. Len(c.script) :
                  LET r == c.script[i]
                  IN  /\ r.head \in Nat \ {0} /\ r.value \in Nat /\ r.tail \in Nat
                      /\ lengthOf(r) \in Nat \ {0}
                      /\ r.kind \in {"short", "get", "large", "bad"}
                      /\ r.tail = 0 /\ r.head >= kMethodLength
                      /\ r.kind = "large" => r.value > 0
                      /\ r.kind # "large" => lengthOf(r) = r.head
<1>1. c.script \in Script
  BY ConnectionAssumption DEF Script
<1>2. Len(c.script) \in Nat /\ DOMAIN c.script = 1 .. Len(c.script)
  BY <1>1, LenProperties DEF Script
<1>3. ASSUME NEW i \in 1 .. Len(c.script)
      PROVE  LET r == c.script[i]
             IN  /\ r.head \in Nat \ {0} /\ r.value \in Nat /\ r.tail \in Nat
                 /\ lengthOf(r) \in Nat \ {0}
                 /\ r.kind \in {"short", "get", "large", "bad"}
                 /\ r.tail = 0 /\ r.head >= kMethodLength
                 /\ r.kind = "large" => r.value > 0
                 /\ r.kind # "large" => lengthOf(r) = r.head
  <2> DEFINE r == c.script[i]
  <2>1. /\ r \in [kind : STRING, head : Nat \ {0}, value : Nat, tail : Nat]
        /\ lengthOf(r) \in Nat \ {0}
    BY <1>1, LengthPositive
  <2>2. i \in DOMAIN c.script
    BY <1>2
  <2>3. /\ r.kind \in {"short", "get", "large", "bad"}
        /\ r.tail = 0 /\ r.head >= kMethodLength
    BY <2>2, HttpAssumption
  <2>4. /\ r.kind = "large" => r.value > BufferSize
        /\ r.kind # "large" => r.value = 0 /\ r.tail = 0
    BY <2>2, ConnectionAssumption
  <2>5. BufferSize \in Nat
    BY ConnectionAssumption
  <2> HIDE DEF r
  <2>6. r.head \in Nat \ {0} /\ r.value \in Nat /\ r.tail \in Nat
    BY <2>1
  <2>7. r.kind = "large" => r.value > 0
    BY <2>4, <2>5, <2>6
  <2>8. r.kind # "large" => lengthOf(r) = r.head
    BY <2>4, <2>6 DEF lengthOf
  <2> QED
    BY <2>1, <2>3, <2>6, <2>7, <2>8 DEF r
<1> QED
  BY <1>1, <1>2, <1>3

\* The buffers of a state.
LEMMA Buffers ==
    ASSUME ShapeInv
    PROVE  /\ client \in Clients /\ script \in Script /\ Len(script) \in Nat
           /\ m_incomingBuffer \in Seq(Byte) /\ data \in Seq(Byte) /\ incoming \in Seq(Byte)
           /\ buffered \in Seq(Byte) /\ unconsumed \in Seq(Byte)
           /\ unconsumed = buffered \o incoming
           /\ Len(buffered) = Len(m_incomingBuffer) + Len(data)
           /\ Len(unconsumed) = Len(buffered) + Len(incoming)
           /\ \A p \in 1 .. Len(buffered) : unconsumed[p] = buffered[p]
           /\ m_incomingBuffer = <<>> => buffered = data
           /\ turn = "callback" => data # <<>> /\ buffered # <<>> /\ unconsumed # <<>>
           /\ turn # "callback" => data = <<>> /\ buffered = m_incomingBuffer
<1>1. /\ client \in Clients
      /\ m_incomingBuffer \in Seq(Byte) /\ data \in Seq(Byte) /\ incoming \in Seq(Byte)
      /\ turn = "callback" <=> data # <<>>
  BY DEF ShapeInv, TypeOK, ConnectionTypeOK
<1>2. /\ buffered \in Seq(Byte) /\ Len(buffered) = Len(m_incomingBuffer) + Len(data)
  BY <1>1, ConcatProperties DEF buffered
<1>3. unconsumed = buffered \o incoming
  BY DEF unconsumed, buffered
<1>4. /\ unconsumed \in Seq(Byte) /\ Len(unconsumed) = Len(buffered) + Len(incoming)
      /\ \A p \in 1 .. (Len(buffered) + Len(incoming)) : unconsumed[p] =
             IF p <= Len(buffered) THEN buffered[p] ELSE incoming[p - Len(buffered)]
  <2>1. /\ buffered \o incoming \in Seq(Byte)
        /\ Len(buffered \o incoming) = Len(buffered) + Len(incoming)
        /\ \A p \in 1 .. (Len(buffered) + Len(incoming)) : (buffered \o incoming)[p] =
               IF p <= Len(buffered) THEN buffered[p] ELSE incoming[p - Len(buffered)]
    <3>1. buffered \in Seq(Byte) /\ incoming \in Seq(Byte)
      BY <1>1, <1>2
    <3> QED
      BY <3>1, ConcatProperties
  <2> QED
    BY <1>3, <2>1, Zenon
<1>5. m_incomingBuffer = <<>> => buffered = data
  BY <1>1, ConcatEmptySeq DEF buffered
<1>6. turn # "callback" => data = <<>> /\ buffered = m_incomingBuffer
  BY <1>1, ConcatEmptySeq DEF buffered
<1>7. Len(buffered) \in Nat /\ Len(incoming) \in Nat /\ Len(m_incomingBuffer) \in Nat
  BY <1>1, <1>2, LenProperties
<1>8. turn = "callback" => data # <<>> /\ buffered # <<>> /\ unconsumed # <<>>
  <2> SUFFICES ASSUME turn = "callback"
               PROVE  data # <<>> /\ buffered # <<>> /\ unconsumed # <<>>
    OBVIOUS
  <2>1. data # <<>> /\ Len(data) \in Nat \ {0}
    BY <1>1, EmptySeq
  <2>2. Len(buffered) # 0 /\ Len(unconsumed) # 0
    BY <1>2, <1>4, <1>7, <2>1
  <2> QED
    BY <2>1, <2>2, EmptySeq
<1>9. \A p \in 1 .. Len(buffered) : unconsumed[p] = buffered[p]
  BY <1>4, <1>7
<1>10. script \in Script /\ Len(script) \in Nat
  BY <1>1, ClientScript DEF script
<1> QED
  BY <1>1, <1>2, <1>3, <1>4, <1>5, <1>6, <1>8, <1>9, <1>10

\* The first byte of what a handler has.
LEMMA FirstByte ==
    ASSUME ShapeInv, unconsumed # <<>>
    PROVE  LET b == unconsumed[1]
           IN  /\ b \in Byte /\ b.req \in Nat /\ b.off \in Nat
               /\ b.req \in 1 .. Len(script) /\ b.off <= lengthOf(script[b.req])
               /\ leftFrom(script, b) = lengthOf(script[b.req]) - b.off + 1
               /\ leftFrom(script, b) \in Nat \ {0}
<1>1. unconsumed \in Seq(Byte) /\ contiguous(script, unconsumed) /\ script \in Script
  BY Buffers DEF ShapeInv
<1>2. 1 \in 1 .. Len(unconsumed)
  BY <1>1, EmptySeq
<1>3. /\ unconsumed[1].req \in 1 .. Len(script)
      /\ unconsumed[1].off <= lengthOf(script[unconsumed[1].req])
  BY <1>1, <1>2 DEF contiguous
<1>4. unconsumed[1] \in Byte
  BY <1>1, <1>2, ElementOfSeq
<1>5. unconsumed[1].req \in Nat /\ unconsumed[1].off \in Nat
  BY <1>4 DEF Byte
<1>6. lengthOf(script[unconsumed[1].req]) \in Nat
  BY <1>1, <1>3, LengthPositive
<1>7. leftFrom(script, unconsumed[1]) =
          lengthOf(script[unconsumed[1].req]) - unconsumed[1].off + 1
  BY DEF leftFrom
<1>8. leftFrom(script, unconsumed[1]) \in Nat \ {0}
  BY <1>3, <1>5, <1>6, <1>7
<1> QED
  BY <1>3, <1>4, <1>5, <1>7, <1>8

-----------------------------------------------------------------------------
(* The handler's place in the stream *)

\* The part of PlaceInv that is about the input.
InputOK ==
    /\ client \in Clients
    /\ {incoming, data, m_incomingBuffer} \subseteq Seq(Byte)
    /\ view \in Nat /\ keepGoing \in BOOLEAN
    /\ turn \in {"read", "callback", "parse", "write", "closed"}
    /\ turn = "callback" <=> data # <<>>
    /\ contiguous(script, unconsumed)
    /\ ~keepGoing => turn \in {"write", "closed"}
    /\ turn = "parse" => m_incomingBuffer # <<>>
    /\ view > 0 => turn = "callback" /\ m_incomingBuffer = <<>>

\* The part that is about the state of the handler.
StateOK ==
    /\ m_state \in {"ParsingHeaders", "StreamingBody"}
    /\ m_bodyBytesRemaining \in Nat
    /\ m_activeSession \in [req : Nat, bytes : Seq(Byte)] \cup {None}
    /\ m_state # "StreamingBody" => m_activeSession = None
    /\ m_state = "StreamingBody" => m_incomingBuffer = <<>>
    /\ StreamingInv

\* The part that is about the detector and the histories.
DetectorOK ==
    /\ m_delegate \in BOOLEAN /\ garbled \in BOOLEAN
    /\ dropped \in Seq(Byte) /\ unreported \subseteq DOMAIN script
    /\ finished \in [req : Nat, bytes : Seq(Byte)] \cup {None}
    /\ turn = "parse" => m_delegate /\ m_state = "ParsingHeaders"
    /\ ~m_delegate => m_incomingBuffer = <<>> /\ m_state = "ParsingHeaders"

LEMMA PlaceParts == PlaceInv <=> InputOK /\ StateOK /\ DetectorOK /\ OutputOK
  BY DEF PlaceInv, ShapeInv, TypeOK, ConnectionTypeOK, InputOK, StateOK, DetectorOK, OutputOK

\* Bytes arrive: nothing is consumed.
LEMMA ReceiveConsumes ==
    ASSUME ShapeInv, Receive
    PROVE  /\ unconsumed' = unconsumed /\ data' # <<>>
           /\ data' \in Seq(Byte) /\ incoming' \in Seq(Byte)
<1>1. PICK k \in 1 .. least(BufferSize, Len(incoming)) :
          data' = SubSeq(incoming, 1, k) /\ incoming' = drop(incoming, k)
  BY DEF Receive, Receives
<1>2. /\ incoming \in Seq(Byte) /\ m_incomingBuffer \in Seq(Byte) /\ Len(incoming) \in Nat
  BY Buffers, LenProperties
<1>3. k \in 0 .. Len(incoming) /\ k > 0
  BY <1>1, <1>2, ConnectionAssumption DEF least
<1>4. SubSeq(incoming, 1, k) \in Seq(Byte) /\ Len(SubSeq(incoming, 1, k)) = k
  BY <1>2, <1>3, SplitSeq
<1>5. data' \in Seq(Byte) /\ Len(data') = k
  BY <1>1, <1>4
<1>6. incoming' \in Seq(Byte)
  BY <1>1, <1>2, <1>3, DropProperties
<1>7. data' # <<>>
  BY <1>3, <1>5, EmptySeq
<1>8. (m_incomingBuffer \o data') \o incoming' = m_incomingBuffer \o incoming
  BY <1>1, <1>2, <1>3, Deliver
<1>9. m_incomingBuffer' = m_incomingBuffer
  BY DEF Receive, Receives
<1>10. unconsumed = m_incomingBuffer \o incoming
  BY Buffers DEF Receive, Receives
<1> QED
  BY <1>5, <1>6, <1>7, <1>8, <1>9, <1>10 DEF unconsumed

LEMMA ReceivePlace == PlaceInv /\ Receive => PlaceInv'
<1> SUFFICES ASSUME PlaceInv, Receive PROVE PlaceInv'
  OBVIOUS
<1>1. InputOK /\ StateOK /\ DetectorOK /\ OutputOK /\ ShapeInv
  BY PlaceParts DEF PlaceInv
<1>2. /\ unconsumed' = unconsumed /\ data' # <<>>
      /\ data' \in Seq(Byte) /\ incoming' \in Seq(Byte)
  BY <1>1, ReceiveConsumes
<1>3. /\ turn = "read" /\ turn' = "callback" /\ view' = 0
      /\ UNCHANGED <<client, keepGoing, m_incomingBuffer, m_activeSession, output, httpVars>>
  BY DEF Receive, Receives
<1>4. InputOK'
  BY <1>1, <1>2, <1>3 DEF InputOK, script
<1>5. StateOK'
  BY <1>1, <1>2, <1>3 DEF StateOK, StreamingInv, httpVars, script
<1>6. DetectorOK'
  BY <1>1, <1>3 DEF DetectorOK, httpVars, history, script
<1>7. OutputOK'
  BY <1>1, <1>3 DEF OutputOK, output
<1> QED
  BY <1>4, <1>5, <1>6, <1>7, PlaceParts, PTL

\* A step that drops all that is in the buffer.
LEMMA DropsBuffer ==
    ASSUME ShapeInv, m_incomingBuffer' = <<>>, data' = <<>>, incoming' = incoming
    PROVE  /\ unconsumed' = drop(unconsumed, Len(buffered))
           /\ Len(buffered) \in 0 .. Len(unconsumed)
           /\ contiguous(script, unconsumed')
<1>1. buffered \in Seq(Byte) /\ incoming \in Seq(Byte) /\ unconsumed = buffered \o incoming
  BY Buffers
<1>2. /\ (<<>> \o <<>>) \o incoming = drop(buffered \o incoming, Len(buffered))
      /\ Len(buffered) \in 0 .. Len(buffered \o incoming)
  BY <1>1, ConsumeAll
<1>3. unconsumed' = drop(unconsumed, Len(buffered)) /\ Len(buffered) \in 0 .. Len(unconsumed)
  BY <1>1, <1>2 DEF unconsumed
<1> QED
  BY <1>3, Advance DEF ShapeInv

\* The detector chooses HTTP: the same data goes to the handler.
LEMMA MatchPlace == PlaceInv /\ Match => PlaceInv'
<1> SUFFICES ASSUME PlaceInv, Match PROVE PlaceInv'
  OBVIOUS
<1>1. InputOK /\ StateOK /\ DetectorOK /\ OutputOK
  BY PlaceParts
<1>2. /\ UNCHANGED <<client, incoming, data, view, turn, keepGoing, m_incomingBuffer,
                     m_activeSession, m_state, m_bodyBytesRemaining>>
      /\ UNCHANGED <<m_activeReadSession, m_outgoingBuffer, wire>>
      /\ UNCHANGED <<dropped, unreported, garbled, finished>>
  BY DEF Match, call, output, history
<1>3. m_delegate' \in BOOLEAN /\ m_delegate'
  BY DEF Match
<1>4. unconsumed' = unconsumed /\ script' = script
  BY <1>2 DEF unconsumed, script
<1>5. InputOK'
  BY <1>1, <1>2, <1>4 DEF InputOK
<1>6. StateOK'
  BY <1>1, <1>2, <1>4 DEF StateOK, StreamingInv
<1>7. DetectorOK'
  BY <1>1, <1>2, <1>3, <1>4 DEF DetectorOK
<1>8. OutputOK'
  BY <1>1, <1>2 DEF OutputOK
<1> QED
  BY <1>5, <1>6, <1>7, <1>8, PlaceParts, PTL

\* The detector waits for more bytes, or gives up: the data is gone.
LEMMA DetectorDropsPlace ==
    ASSUME PlaceInv, NeedMoreData \/ NoMatch
    PROVE  /\ PlaceInv'
           /\ data # <<>> /\ m_incomingBuffer = <<>> /\ unconsumed # <<>>
           /\ unconsumed' = drop(unconsumed, Len(data)) /\ unconsumed[1] = data[1]
           /\ Len(data) \in 0 .. Len(unconsumed)
<1>1. /\ InputOK /\ StateOK /\ DetectorOK /\ OutputOK /\ ShapeInv
      /\ turn = "callback" /\ ~m_delegate
  BY PlaceParts DEF NeedMoreData, NoMatch, detecting, PlaceInv
<1>2. /\ turn' = "write" /\ view' = 0 /\ data' = <<>>
      /\ UNCHANGED <<client, incoming, m_incomingBuffer, m_activeSession, m_delegate,
                     m_state, m_bodyBytesRemaining, unreported, garbled, finished>>
      /\ UNCHANGED <<m_activeReadSession, m_outgoingBuffer, wire>>
      /\ dropped' = dropped \o data \/ dropped' = dropped
  BY DEF NeedMoreData, NoMatch, Returns, output, httpVars, history
<1>3. keepGoing' \in BOOLEAN
  BY DEF NeedMoreData, NoMatch, Returns
<1>4. /\ data # <<>> /\ data \in Seq(Byte) /\ m_incomingBuffer = <<>> /\ buffered = data
      /\ unconsumed # <<>>
      /\ \A p \in 1 .. Len(data) : unconsumed[p] = data[p]
  BY <1>1, Buffers DEF DetectorOK
<1>5. /\ unconsumed' = drop(unconsumed, Len(data)) /\ contiguous(script, unconsumed')
      /\ Len(data) \in 0 .. Len(unconsumed)
  BY <1>1, <1>2, <1>4, DropsBuffer
<1>6. unconsumed[1] = data[1]
  BY <1>4, EmptySeq
<1>7. script' = script /\ <<>> \in Seq(Byte)
  BY <1>2, EmptySeq DEF script
<1>8. InputOK'
  BY <1>1, <1>2, <1>3, <1>5, <1>7 DEF InputOK
<1>9. StateOK'
  BY <1>1, <1>2 DEF StateOK, StreamingInv, DetectorOK
<1>10. DetectorOK'
  <2>1. dropped \in Seq(Byte) /\ data \in Seq(Byte)
    BY <1>1, <1>4 DEF DetectorOK
  <2>2. dropped \o data \in Seq(Byte)
    BY <2>1, ConcatProperties
  <2> QED
    BY <1>1, <1>2, <1>7, <2>1, <2>2 DEF DetectorOK
<1>11. OutputOK'
  BY <1>1, <1>2 DEF OutputOK
<1>12. PlaceInv'
  BY <1>8, <1>9, <1>10, <1>11, PlaceParts, PTL
<1> QED
  BY <1>4, <1>5, <1>6, <1>12

\* Data is added to the buffer: what is not consumed stays the same, or is
\* overwritten in place.
LEMMA AppendConsumes ==
    ASSUME PlaceInv, AppendToBuffer
    PROVE  /\ m_incomingBuffer' \in Seq(Byte) /\ m_incomingBuffer' # <<>>
           /\ contiguous(script, unconsumed')
           /\ \/ unconsumed' = unconsumed /\ garbled' = garbled
              \/ garbled' \in BOOLEAN /\ garbled'
<1>1. /\ InputOK /\ ShapeInv /\ turn = "callback"
  BY PlaceParts DEF AppendToBuffer, PlaceInv
<1>2. data' = <<>> /\ incoming' = incoming
  BY DEF AppendToBuffer
<1>3. /\ buffered \in Seq(Byte) /\ unconsumed = buffered \o incoming /\ buffered # <<>>
      /\ data \in Seq(Byte) /\ data # <<>> /\ incoming \in Seq(Byte)
      /\ contiguous(script, unconsumed) /\ script \in Script
  BY <1>1, Buffers DEF ShapeInv
<1>4. CASE m_incomingBuffer' = m_incomingBuffer \o data /\ UNCHANGED garbled
  <2>1. m_incomingBuffer' = buffered
    BY <1>4 DEF buffered
  <2>2. buffered \o <<>> = buffered
    BY <1>3, ConcatEmptySeq
  <2>3. unconsumed' = unconsumed
    BY <1>2, <1>3, <2>1, <2>2 DEF unconsumed
  <2> QED
    BY <1>3, <1>4, <2>1, <2>3
<1>5. CASE /\ view > 0
           /\ m_incomingBuffer' = [p \in DOMAIN data |-> [data[p] EXCEPT !.off = 0]]
           /\ garbled' = TRUE
  <2> DEFINE g == [p \in DOMAIN data |-> [data[p] EXCEPT !.off = 0]]
             n == Len(data)
             u == unconsumed
             w == g \o incoming
  <2>1. DOMAIN data = 1 .. n /\ n \in Nat \ {0} /\ Len(incoming) \in Nat
    BY <1>3, LenProperties, EmptySeq
  <2>2. ASSUME NEW p \in 1 .. n
        PROVE  g[p] \in Byte /\ g[p].req = data[p].req /\ g[p].off = 0
    <3>1. data[p] \in Byte
      BY <1>3, <2>1, <2>2, ElementOfSeq
    <3>2. g[p] = [data[p] EXCEPT !.off = 0]
      BY <2>1, <2>2
    <3> HIDE DEF g
    <3> QED
      BY <3>1, <3>2 DEF Byte
  <2>3. g \in [1 .. n -> Byte]
    BY <2>1, <2>2
  <2> HIDE DEF g
  <2>4. g \in Seq(Byte) /\ Len(g) = n
    <3> HIDE DEF n
    <3> QED
      BY <2>1, <2>3, FunctionSeq
  <2>5. g \o <<>> = g /\ g # <<>>
    BY <2>1, <2>4, ConcatEmptySeq, EmptySeq
  <2>6. unconsumed' = w
    BY <1>2, <1>5, <2>5 DEF unconsumed, g
  <2>7. /\ w \in Seq(Byte) /\ Len(w) = n + Len(incoming)
        /\ \A p \in 1 .. (n + Len(incoming)) :
               w[p] = IF p <= n THEN g[p] ELSE incoming[p - n]
    <3>1. /\ w \in Seq(Byte) /\ Len(w) = Len(g) + Len(incoming)
          /\ \A p \in 1 .. (Len(g) + Len(incoming)) :
                 w[p] = IF p <= Len(g) THEN g[p] ELSE incoming[p - Len(g)]
      BY <1>3, <2>4, ConcatProperties
    <3> HIDE DEF w, n
    <3> QED
      BY <2>4, <3>1
  <2>8. u = data \o incoming
    BY <1>1, <1>3, <1>5, Buffers DEF InputOK
  <2>9. /\ Len(u) = n + Len(incoming)
        /\ \A p \in 1 .. (n + Len(incoming)) :
               u[p] = IF p <= n THEN data[p] ELSE incoming[p - n]
    BY <1>3, <2>8, ConcatProperties
  <2> HIDE DEF n, u, w
  <2>10. \A p \in 1 .. Len(u) : /\ p <= n => w[p].req = u[p].req /\ w[p].off = 0
                                /\ p > n => w[p] = u[p]
    BY <2>1, <2>2, <2>7, <2>9, SMTT(30)
  <2>11. contiguous(script, w)
    <3>1. contiguous(script, u) /\ Len(w) = Len(u) /\ Len(u) \in Nat
      BY <1>3, <2>1, <2>7, <2>9 DEF u
    <3>2. \A p \in 1 .. Len(w) :
              /\ w[p].req \in 1 .. Len(script)
              /\ w[p].off <= lengthOf(script[w[p].req])
      <4> SUFFICES ASSUME NEW p \in 1 .. Len(w)
                   PROVE  /\ w[p].req \in 1 .. Len(script)
                          /\ w[p].off <= lengthOf(script[w[p].req])
        OBVIOUS
      <4>1. u[p].req \in 1 .. Len(script) /\ u[p].off <= lengthOf(script[u[p].req])
        BY <3>1 DEF contiguous
      <4>2. lengthOf(script[u[p].req]) \in Nat
        BY <1>3, <4>1, LengthPositive
      <4>3. CASE p <= n
        <5>1. w[p].req = u[p].req /\ w[p].off = 0
          BY <2>10, <3>1, <4>3
        <5> QED
          BY <4>1, <4>2, <5>1
      <4>4. CASE p > n
        BY <2>10, <3>1, <4>1, <4>4
      <4> QED
        BY <2>1, <3>1, <4>3, <4>4
    <3>3. \A p, q \in 1 .. Len(w) : p <= q => w[p].req <= w[q].req
      <4>1. \A p \in 1 .. Len(w) : w[p].req = u[p].req
        BY <2>1, <2>10, <3>1
      <4>2. \A p, q \in 1 .. Len(u) : p <= q => u[p].req <= u[q].req
        BY <3>1 DEF contiguous
      <4> QED
        BY <3>1, <4>1, <4>2
    <3>4. \A p, q \in 1 .. Len(w) : p <= q /\ w[p].off > 0 =>
              /\ q - p < leftFrom(script, w[p]) =>
                     w[q] = [req |-> w[p].req, off |-> w[p].off + (q - p)]
              /\ q - p = leftFrom(script, w[p]) => w[q] = [req |-> w[p].req + 1, off |-> 1]
      <4> SUFFICES ASSUME NEW p \in 1 .. Len(w), NEW q \in 1 .. Len(w),
                          p <= q, w[p].off > 0
                   PROVE  /\ q - p < leftFrom(script, w[p]) =>
                                 w[q] = [req |-> w[p].req, off |-> w[p].off + (q - p)]
                          /\ q - p = leftFrom(script, w[p]) =>
                                 w[q] = [req |-> w[p].req + 1, off |-> 1]
        OBVIOUS
      <4>1. p > n /\ q > n
        BY <2>1, <2>10, <3>1
      <4>2. w[p] = u[p] /\ w[q] = u[q]
        BY <2>10, <3>1, <4>1
      <4> QED
        BY <3>1, <4>2 DEF contiguous
    <3> QED
      BY <2>7, <3>2, <3>3, <3>4 DEF contiguous
  <2>12. garbled' \in BOOLEAN /\ garbled'
    BY <1>5
  <2> QED
    BY <1>5, <2>4, <2>5, <2>6, <2>11, <2>12 DEF g
<1> QED
  BY <1>4, <1>5 DEF AppendToBuffer

LEMMA AppendPlace == PlaceInv /\ AppendToBuffer => PlaceInv'
<1> SUFFICES ASSUME PlaceInv, AppendToBuffer PROVE PlaceInv'
  OBVIOUS
<1>1. InputOK /\ StateOK /\ DetectorOK /\ OutputOK
  BY PlaceParts
<1>2. /\ m_incomingBuffer' \in Seq(Byte) /\ m_incomingBuffer' # <<>>
      /\ contiguous(script, unconsumed')
      /\ garbled' = garbled \/ garbled' \in BOOLEAN
  BY AppendConsumes
<1>3. /\ turn = "callback" /\ turn' = "parse" /\ data' = <<>> /\ view' = 0
      /\ m_state = "ParsingHeaders"
      /\ UNCHANGED <<client, incoming, keepGoing, m_activeSession, m_delegate,
                     m_state, m_bodyBytesRemaining, dropped, unreported, finished>>
      /\ UNCHANGED <<m_activeReadSession, m_outgoingBuffer, wire>>
  BY DEF AppendToBuffer, output
<1>4. m_delegate \in BOOLEAN /\ m_delegate
  BY <1>1 DEF AppendToBuffer, DetectorOK
<1>5. script' = script /\ <<>> \in Seq(Byte)
  BY <1>3, EmptySeq DEF script
<1>6. InputOK'
  BY <1>1, <1>2, <1>3, <1>5 DEF InputOK
<1>7. StateOK'
  BY <1>1, <1>3 DEF StateOK, StreamingInv
<1>8. DetectorOK'
  BY <1>1, <1>2, <1>3, <1>4, <1>5 DEF DetectorOK
<1>9. OutputOK'
  BY <1>1, <1>3 DEF OutputOK
<1> QED
  BY <1>6, <1>7, <1>8, <1>9, PlaceParts, PTL

\* The request at the front of the buffer that is parsed, which is the next
\* one.
LEMMA AtFront ==
    ASSUME ShapeInv, turn = "parse"
    PROVE  LET i == buf[1].req
           IN  /\ buf \in Seq(Byte) /\ buf # <<>> /\ Len(buf) \in Nat /\ buffered = buf
               /\ incoming \in Seq(Byte) /\ unconsumed = buf \o incoming
               /\ buf[1] = unconsumed[1] /\ unconsumed # <<>>
               /\ i \in Nat /\ i \in 1 .. Len(script) /\ first(buf) = script[i]
               /\ atRequest(buf) <=> unconsumed[1].off = 1
               /\ script[i].head \in Nat \ {0} /\ script[i].value \in Nat
               /\ script[i].tail = 0 /\ lengthOf(script[i]) \in Nat \ {0}
               /\ script[i].kind \in {"short", "get", "large", "bad"}
               /\ script[i].kind = "large" => script[i].value > 0
               /\ script[i].kind # "large" => lengthOf(script[i]) = script[i].head
               /\ atRequest(buf) =>
                      leftFrom(script, unconsumed[1]) = lengthOf(script[i])
<1>1. /\ buf \in Seq(Byte) /\ buf # <<>> /\ buffered = buf
      /\ incoming \in Seq(Byte) /\ unconsumed = buf \o incoming
      /\ \A p \in 1 .. Len(buf) : unconsumed[p] = buf[p]
      /\ Len(unconsumed) = Len(buf) + Len(incoming)
      /\ client \in Clients
  BY Buffers DEF ShapeInv, buf
<1>2. 1 \in 1 .. Len(buf) /\ Len(buf) \in Nat /\ Len(incoming) \in Nat
  BY <1>1, EmptySeq, LenProperties
<1>3. buf[1] = unconsumed[1]
  BY <1>1, <1>2
<1>4. unconsumed # <<>>
  <2>1. Len(unconsumed) # 0
    BY <1>1, <1>2
  <2> QED
    BY <2>1, EmptySeq
<1>5. /\ unconsumed[1].req \in Nat /\ unconsumed[1].req \in 1 .. Len(script)
      /\ leftFrom(script, unconsumed[1]) =
             lengthOf(script[unconsumed[1].req]) - unconsumed[1].off + 1
  BY <1>4, FirstByte
<1>6. LET r == script[unconsumed[1].req]
      IN  /\ r.head \in Nat \ {0} /\ r.value \in Nat /\ r.tail = 0
          /\ lengthOf(r) \in Nat \ {0}
          /\ r.kind \in {"short", "get", "large", "bad"}
          /\ r.kind = "large" => r.value > 0
          /\ r.kind # "large" => lengthOf(r) = r.head
  BY <1>1, <1>5, ClientScript DEF script
<1>7. atRequest(buf) <=> unconsumed[1].off = 1
  BY <1>3 DEF atRequest
<1>8. first(buf) = script[unconsumed[1].req]
  BY <1>3 DEF first
<1>9. atRequest(buf) =>
          leftFrom(script, unconsumed[1]) = lengthOf(script[unconsumed[1].req])
  BY <1>5, <1>6, <1>7
<1> QED
  BY <1>1, <1>2, <1>3, <1>4, <1>5, <1>6, <1>7, <1>8, <1>9

\* An incomplete request stays in the buffer.
LEMMA NeedsMorePlace == PlaceInv /\ NeedsMore => PlaceInv' /\ unconsumed' = unconsumed
<1> SUFFICES ASSUME PlaceInv, NeedsMore PROVE PlaceInv' /\ unconsumed' = unconsumed
  OBVIOUS
<1>1. InputOK /\ StateOK /\ DetectorOK /\ OutputOK /\ turn = "parse"
  BY PlaceParts DEF NeedsMore, parsing
<1>2. /\ turn' = "write" /\ view' = 0 /\ data' = <<>>
      /\ UNCHANGED <<client, incoming, m_incomingBuffer, m_activeSession, m_delegate,
                     m_state, m_bodyBytesRemaining, dropped, unreported, garbled, finished>>
      /\ UNCHANGED <<m_activeReadSession, m_outgoingBuffer, wire>>
  BY DEF NeedsMore, Returns, output, httpVars, history
<1>3. keepGoing' \in BOOLEAN /\ keepGoing'
  BY DEF NeedsMore, Returns
<1>4. unconsumed' = unconsumed /\ script' = script /\ data = <<>>
  BY <1>1, <1>2 DEF unconsumed, script, InputOK
<1>5. InputOK'
  BY <1>1, <1>2, <1>3, <1>4 DEF InputOK
<1>6. StateOK'
  BY <1>1, <1>2 DEF StateOK, StreamingInv, DetectorOK
<1>7. DetectorOK'
  BY <1>1, <1>2, <1>4 DEF DetectorOK
<1>8. OutputOK'
  BY <1>1, <1>2 DEF OutputOK
<1>9. PlaceInv'
  BY <1>5, <1>6, <1>7, <1>8, PlaceParts, PTL
<1> QED
  BY <1>4, <1>9

\* A request is refused and the connection given up.
LEMMA AnswersPlace ==
    ASSUME PlaceInv, turn = "parse", Answers(FALSE)
    PROVE  PlaceInv'
<1>1. InputOK /\ StateOK /\ DetectorOK /\ OutputOK /\ ShapeInv
  BY PlaceParts DEF PlaceInv
<1>2. /\ turn' = "write" /\ view' = 0 /\ data' = <<>> /\ m_incomingBuffer' = <<>>
      /\ m_outgoingBuffer' = Append(m_outgoingBuffer, item(buf[1].req, "reply", 0))
      /\ UNCHANGED <<client, incoming, m_activeSession, m_delegate,
                     m_state, m_bodyBytesRemaining, dropped, unreported, garbled, finished>>
      /\ UNCHANGED <<m_activeReadSession, wire>>
  BY DEF Answers, Returns, httpVars, history, queueResponse
<1>3. keepGoing' \in BOOLEAN
  BY DEF Answers, Returns
<1>4. script' = script /\ <<>> \in Seq(Byte)
  BY <1>2, EmptySeq DEF script
<1>5. contiguous(script, unconsumed')
  BY <1>1, <1>2, DropsBuffer
<1>6. InputOK'
  BY <1>1, <1>2, <1>3, <1>4, <1>5 DEF InputOK
<1>7. StateOK'
  BY <1>1, <1>2 DEF StateOK, StreamingInv, DetectorOK
<1>8. DetectorOK'
  BY <1>1, <1>2, <1>4 DEF DetectorOK
<1>9. OutputOK'
  <2>1. buf[1].req \in Nat
    BY <1>1, AtFront
  <2> QED
    BY <1>1, <1>2, <2>1, ReplyQueued
<1> QED
  BY <1>6, <1>7, <1>8, <1>9, PlaceParts, PTL

\* Where an upload begins, the request is consumed up to its body.
LEMMA BeginConsumes ==
    ASSUME ShapeInv, turn = "parse", holdsLargeHead(buf)
    PROVE  LET i == buf[1].req
               rest == drop(buf, script[i].head)
           IN  /\ rest \in Seq(Byte)
               /\ (<<>> \o rest) \o incoming = drop(unconsumed, script[i].head)
               /\ script[i].head \in 0 .. Len(unconsumed)
               /\ contiguous(script, drop(unconsumed, script[i].head))
               /\ script[i].kind = "large" /\ unconsumed[1].off = 1
               /\ script[i].value \in Nat \ {0}
               /\ lengthOf(script[i]) = script[i].head + script[i].value
               /\ drop(unconsumed, script[i].head) # <<>> =>
                      drop(unconsumed, script[i].head)[1] =
                          [req |-> i, off |-> script[i].head + 1]
<1> DEFINE i == buf[1].req
           k == script[i].head
           rest == drop(buf, k)
<1>1. /\ buf[1] = unconsumed[1] /\ i \in 1 .. Len(script)
      /\ k \in Nat \ {0} /\ script[i].value \in Nat \ {0} /\ script[i].tail = 0
      /\ script[i].kind = "large" /\ unconsumed[1].off = 1
      /\ leftFrom(script, unconsumed[1]) = lengthOf(script[i])
      /\ k <= Len(buf)
  BY AtFront DEF holdsLargeHead
<1>2. /\ buf \in Seq(Byte) /\ incoming \in Seq(Byte) /\ Len(buf) \in Nat
      /\ unconsumed = buf \o incoming
  BY AtFront
<1>3. lengthOf(script[i]) = k + script[i].value
  BY <1>1 DEF lengthOf
<1> HIDE DEF k
<1>4. k \in 0 .. Len(buf)
  BY <1>1, <1>2
<1>5. /\ rest \in Seq(Byte) /\ <<>> \o rest = rest
      /\ rest \o incoming = drop(unconsumed, k)
      /\ k \in 0 .. Len(unconsumed)
  BY <1>2, <1>4, Consume
<1> HIDE DEF rest
<1>6. contiguous(script, unconsumed)
  BY DEF ShapeInv
<1>7. k < leftFrom(script, unconsumed[1]) /\ unconsumed[1].off > 0
  BY <1>1, <1>3
<1>8. /\ contiguous(script, drop(unconsumed, k))
      /\ drop(unconsumed, k) # <<>> =>
             /\ drop(unconsumed, k)[1] = unconsumed[k + 1]
             /\ unconsumed[k + 1] = [req |-> unconsumed[1].req, off |-> unconsumed[1].off + k]
  BY <1>5, <1>6, <1>7, Advance
<1>9. unconsumed[1].off + k = k + 1 /\ unconsumed[1].req = i
  BY <1>1
<1> HIDE DEF i
<1>10. drop(unconsumed, k) # <<>> => drop(unconsumed, k)[1] = [req |-> i, off |-> k + 1]
  BY <1>8, <1>9
<1> QED
  BY <1>1, <1>3, <1>5, <1>8, <1>10 DEF i, k, rest

LEMMA BeginUploadPlace == PlaceInv /\ BeginUpload => PlaceInv'
<1> SUFFICES ASSUME PlaceInv, BeginUpload PROVE PlaceInv'
  OBVIOUS
<1> DEFINE i == buf[1].req
           k == script[i].head
           rest == drop(buf, k)
           u == drop(unconsumed, k)
<1>1. /\ InputOK /\ StateOK /\ DetectorOK /\ OutputOK /\ ShapeInv
      /\ turn = "parse" /\ holdsLargeHead(buf)
  BY PlaceParts DEF PlaceInv, BeginUpload, parsing
<1>2. /\ rest \in Seq(Byte) /\ (<<>> \o rest) \o incoming = u /\ contiguous(script, u)
      /\ script[i].kind = "large" /\ script[i].value \in Nat \ {0}
      /\ u # <<>> => u[1] = [req |-> i, off |-> k + 1]
  BY <1>1, BeginConsumes
<1>3. i \in Nat /\ i \in 1 .. Len(script) /\ k \in Nat \ {0} /\ first(buf) = script[i]
  BY <1>1, AtFront
<1>4. /\ m_activeSession' = [req |-> i, bytes |-> <<>>]
      /\ m_incomingBuffer' = <<>>
      /\ m_bodyBytesRemaining' = script[i].value
      /\ m_state' = "StreamingBody"
      /\ PassesOn(rest, k)
      /\ UNCHANGED <<client, incoming, m_delegate, dropped, unreported, garbled, finished>>
      /\ UNCHANGED <<m_activeReadSession, m_outgoingBuffer, wire>>
  BY <1>3 DEF BeginUpload, output, history
<1>K. k = script[i].head
  OBVIOUS
<1> HIDE DEF k, rest, u, i
<1>5. /\ data' = rest /\ view' \in Nat /\ turn' \in {"callback", "write"}
      /\ turn' = "callback" <=> rest # <<>>
      /\ view' > 0 => turn' = "callback"
  BY <1>3, <1>4 DEF PassesOn, Returns
<1>6. keepGoing' \in BOOLEAN /\ keepGoing'
  BY <1>1, <1>4 DEF PassesOn, Returns, InputOK
<1>7. unconsumed' = u
  BY <1>2, <1>4, <1>5 DEF unconsumed
<1>8. <<>> \in Seq(Byte) /\ script' = script
  BY <1>4, EmptySeq DEF script
<1>9. InputOK'
  BY <1>1, <1>2, <1>4, <1>5, <1>6, <1>7, <1>8 DEF InputOK
<1>10. StateOK'
  <2>1. valuePart(script, i, script[i].value) = <<>>
    BY <1>2, ValuePartNone
  <2>2. k + 1 = k + (script[i].value - script[i].value) + 1
    BY <1>2, <1>3
  <2>3. StreamingInv'
    BY <1>2, <1>3, <1>4, <1>7, <1>8, <1>K, <2>1, <2>2 DEF StreamingInv
  <2> QED
    BY <1>1, <1>2, <1>3, <1>4, <1>8, <2>3 DEF StateOK
<1>11. DetectorOK'
  BY <1>1, <1>4, <1>5, <1>8 DEF DetectorOK
<1>12. OutputOK'
  BY <1>1, <1>4 DEF OutputOK
<1> QED
  BY <1>9, <1>10, <1>11, <1>12, PlaceParts, PTL

\* Writing touches the output only.
LEMMA WrittenPlace == PlaceInv /\ Written => PlaceInv'
<1> SUFFICES ASSUME PlaceInv, Written PROVE PlaceInv'
  OBVIOUS
<1>1. InputOK /\ StateOK /\ DetectorOK /\ OutputOK /\ ShapeInv
  BY PlaceParts DEF PlaceInv
<1>2. /\ turn = "write" /\ turn' = IF keepGoing THEN "read" ELSE "closed"
      /\ UNCHANGED <<client, incoming, data, view, keepGoing, m_incomingBuffer,
                     m_activeSession, output, httpVars>>
  BY DEF Written, ReadsOn
<1>3. unconsumed' = unconsumed
  BY <1>2 DEF unconsumed
<1>4. InputOK'
  BY <1>1, <1>2, <1>3 DEF InputOK, script
<1>5. StateOK'
  BY <1>1, <1>2, <1>3 DEF StateOK, StreamingInv, httpVars, script
<1>6. DetectorOK'
  BY <1>1, <1>2 DEF DetectorOK, httpVars, history, script
<1>7. OutputOK'
  BY <1>1, <1>2 DEF OutputOK, output
<1> QED
  BY <1>4, <1>5, <1>6, <1>7, PlaceParts, PTL

\* What takeOutgoingBytes does to what is sent.
LEMMA TakeOutgoing ==
    ASSUME OutputOK, TakeOutgoingBytes
    PROVE  /\ OutputOK'
           /\ LET r == m_activeReadSession
              IN  \/ sent' = sent /\ UNCHANGED m_activeReadSession
                  \/ /\ r \in [req : Nat, chunks : 0 .. MaxChunks] /\ r # None
                     /\ r.chunks > 0
                     /\ sent' = Append(sent, item(r.req, "chunk", r.chunks - 1))
                     /\ m_activeReadSession' = [req |-> r.req, chunks |-> r.chunks - 1]
                  \/ /\ r # None /\ r.chunks = 0 /\ sent' = sent
                     /\ m_activeReadSession' = None
<1> DEFINE r == m_activeReadSession
<1>1. /\ m_outgoingBuffer \in Seq(Items) /\ wire \in Seq(Items)
      /\ r \in [req : Nat, chunks : 0 .. MaxChunks] \cup {None}
      /\ <<>> \in Seq(Items) /\ m_outgoingBuffer' = <<>> /\ MaxChunks \in Nat
  BY EmptySeq, ConnectionAssumption DEF OutputOK, TakeOutgoingBytes
<1>2. CASE wire' = wire \o m_outgoingBuffer /\ UNCHANGED m_activeReadSession
  <2>1. wire' \in Seq(Items)
    BY <1>1, <1>2, ConcatProperties
  <2>2. wire' \o <<>> = wire'
    BY <2>1, ConcatEmptySeq
  <2>3. sent' = sent
    BY <1>1, <1>2, <2>2 DEF sent
  <2> QED
    BY <1>1, <1>2, <2>1, <2>3 DEF OutputOK
<1>3. CASE /\ m_outgoingBuffer = <<>> /\ r # None /\ r.chunks > 0
           /\ wire' = Append(wire, item(r.req, "chunk", r.chunks - 1))
           /\ m_activeReadSession' = [r EXCEPT !.chunks = @ - 1]
  <2>1. r \in [req : Nat, chunks : 0 .. MaxChunks] /\ r.req \in Nat /\ r.chunks \in 0 .. MaxChunks
    BY <1>1, <1>3
  <2>2. r.chunks - 1 \in 0 .. MaxChunks /\ r.chunks - 1 \in Nat
    BY <1>1, <1>3, <2>1
  <2>3. item(r.req, "chunk", r.chunks - 1) \in Items
    BY <2>1, <2>2, ItemType
  <2>4. m_activeReadSession' = [req |-> r.req, chunks |-> r.chunks - 1]
    BY <1>3, <2>1
  <2>5. wire' \in Seq(Items)
    BY <1>1, <1>3, <2>3, AppendProperties
  <2>6. sent' = Append(sent, item(r.req, "chunk", r.chunks - 1))
    BY <1>1, <1>3, <2>3, SentGrows DEF sent
  <2> QED
    BY <1>1, <1>3, <2>1, <2>2, <2>4, <2>5, <2>6 DEF OutputOK
<1>4. CASE /\ m_outgoingBuffer = <<>> /\ r # None /\ r.chunks = 0
           /\ m_activeReadSession' = None /\ UNCHANGED wire
  BY <1>1, <1>4 DEF OutputOK, sent
<1> QED
  BY <1>2, <1>3, <1>4 DEF TakeOutgoingBytes

LEMMA TakeOutgoingPlace == PlaceInv /\ TakeOutgoingBytes => PlaceInv'
<1> SUFFICES ASSUME PlaceInv, TakeOutgoingBytes PROVE PlaceInv'
  OBVIOUS
<1>1. InputOK /\ StateOK /\ DetectorOK /\ OutputOK
  BY PlaceParts
<1>2. UNCHANGED <<client, incoming, call, m_incomingBuffer, m_activeSession, httpVars>>
  BY DEF TakeOutgoingBytes
<1>3. unconsumed' = unconsumed
  BY <1>2 DEF unconsumed, call
<1>4. InputOK'
  BY <1>1, <1>2, <1>3 DEF InputOK, script, call
<1>5. StateOK'
  BY <1>1, <1>2, <1>3 DEF StateOK, StreamingInv, httpVars, script
<1>6. DetectorOK'
  BY <1>1, <1>2 DEF DetectorOK, call, httpVars, history, script
<1>7. OutputOK'
  BY <1>1, TakeOutgoing
<1> QED
  BY <1>4, <1>5, <1>6, <1>7, PlaceParts, PTL

\* While a body is streamed the next byte is in it, at the place the counter
\* says, and the bytes of data are the next of the body.
LEMMA StreamingPlace ==
    ASSUME PlaceInv, turn = "callback", m_state = "StreamingBody"
    PROVE  LET i == m_activeSession.req
               v == m_bodyBytesRemaining
           IN  /\ i \in Nat /\ i \in 1 .. Len(script) /\ script[i].kind = "large"
               /\ script[i].head \in Nat /\ script[i].value \in Nat
               /\ v \in 0 .. script[i].value /\ v > 0
               /\ m_activeSession \in [req : Nat, bytes : Seq(Byte)]
               /\ m_activeSession.bytes = valuePart(script, i, v)
               /\ m_incomingBuffer = <<>> /\ buffered = data /\ unconsumed # <<>>
               /\ data \in Seq(Byte) /\ Len(data) \in Nat \ {0}
               /\ incoming \in Seq(Byte) /\ unconsumed = data \o incoming
               /\ unconsumed[1].req = i
               /\ unconsumed[1].off = script[i].head + (script[i].value - v) + 1
               /\ leftFrom(script, unconsumed[1]) = v
               /\ \A p \in 1 .. least(Len(data), v) : data[p] =
                      [req |-> i, off |-> script[i].head + (script[i].value - v) + p]
<1> DEFINE i == m_activeSession.req
           v == m_bodyBytesRemaining
           h == script[i].head
           x == script[i].value
<1>1. ShapeInv /\ StateOK /\ StreamingInv
  BY PlaceParts DEF PlaceInv
<1>2. /\ unconsumed # <<>> /\ data \in Seq(Byte) /\ data # <<>> /\ client \in Clients
      /\ m_incomingBuffer = <<>> /\ buffered = data /\ unconsumed = data \o incoming
      /\ \A p \in 1 .. Len(data) : unconsumed[p] = data[p]
      /\ Len(unconsumed) = Len(data) + Len(incoming) /\ incoming \in Seq(Byte)
  BY <1>1, Buffers DEF ShapeInv
<1>3. Len(data) \in Nat \ {0} /\ Len(incoming) \in Nat
  BY <1>2, EmptySeq, LenProperties
<1>4. /\ m_activeSession \in [req : Nat, bytes : Seq(Byte)]
      /\ i \in 1 .. Len(script) /\ script[i].kind = "large"
      /\ v > 0 /\ v <= x
      /\ m_activeSession.bytes = valuePart(script, i, v)
      /\ unconsumed[1] = [req |-> i, off |-> h + (x - v) + 1]
  BY <1>1, <1>2 DEF StreamingInv
<1>5. i \in Nat /\ v \in Nat
  BY <1>1, <1>4 DEF StateOK
<1>6. h \in Nat /\ x \in Nat /\ script[i].tail = 0
  BY <1>2, <1>4, ClientScript DEF script
<1>7. lengthOf(script[i]) = h + x /\ v \in 0 .. x
  BY <1>4, <1>5, <1>6 DEF lengthOf
<1> DEFINE off0 == h + (x - v) + 1
<1>8. unconsumed[1].req = i /\ unconsumed[1].off = off0
  BY <1>4
<1>9. off0 \in Nat \ {0} /\ leftFrom(script, unconsumed[1]) = v
  <2>1. leftFrom(script, unconsumed[1]) = (h + x) - off0 + 1
    <3>1. leftFrom(script, unconsumed[1]) =
              lengthOf(script[unconsumed[1].req]) - unconsumed[1].off + 1
      BY DEF leftFrom
    <3> HIDE DEF h, x, i, off0
    <3> QED
      BY <1>7, <1>8, <3>1
  <2>2. h \in Nat /\ x \in Nat /\ v \in Nat /\ v <= x
    BY <1>4, <1>5, <1>6
  <2> HIDE DEF h, x, v, i
  <2>3. off0 \in Nat \ {0} /\ (h + x) - off0 + 1 = v
    BY <2>2
  <2> QED
    BY <2>1, <2>3
<1>10. ASSUME NEW p \in 1 .. least(Len(data), v)
       PROVE  data[p] = [req |-> i, off |-> h + (x - v) + p]
  <2>1. p \in 1 .. Len(data) /\ p <= v
    BY <1>3, <1>5 DEF least
  <2>2. p \in 1 .. Len(unconsumed) /\ 1 \in 1 .. Len(unconsumed) /\ 1 <= p
    BY <1>2, <1>3, <2>1
  <2>3. unconsumed[1].off > 0 /\ p - 1 < leftFrom(script, unconsumed[1])
    BY <1>5, <1>8, <1>9, <2>1
  <2>4. contiguous(script, unconsumed)
    BY <1>1 DEF ShapeInv
  <2>5. unconsumed[p] = [req |-> unconsumed[1].req, off |-> unconsumed[1].off + (p - 1)]
    BY <2>2, <2>3, <2>4 DEF contiguous
  <2>6. off0 + (p - 1) = h + (x - v) + p
    BY <1>5, <1>6, <2>1
  <2> QED
    BY <1>2, <1>8, <2>1, <2>5, <2>6
<1> QED
  BY <1>2, <1>3, <1>4, <1>5, <1>6, <1>7, <1>8, <1>9, <1>10

\* The first k bytes of data are taken for the body.
LEMMA BodyConsumes ==
    ASSUME PlaceInv, turn = "callback", m_state = "StreamingBody",
           NEW k \in 0 .. Len(data), k <= m_bodyBytesRemaining,
           data' = drop(data, k), UNCHANGED <<incoming, m_incomingBuffer>>
    PROVE  LET b == unconsumed[1]
           IN  /\ data' \in Seq(Byte)
               /\ unconsumed' = drop(unconsumed, k)
               /\ contiguous(script, unconsumed')
               /\ unconsumed' # <<>> =>
                      /\ k < m_bodyBytesRemaining =>
                             unconsumed'[1] = [req |-> b.req, off |-> b.off + k]
                      /\ k = m_bodyBytesRemaining =>
                             unconsumed'[1] = [req |-> b.req + 1, off |-> 1]
<1>1. /\ data \in Seq(Byte) /\ incoming \in Seq(Byte) /\ m_incomingBuffer = <<>>
      /\ unconsumed = data \o incoming
      /\ leftFrom(script, unconsumed[1]) = m_bodyBytesRemaining
  BY StreamingPlace
<1>2. /\ drop(data, k) \in Seq(Byte) /\ <<>> \o drop(data, k) = drop(data, k)
      /\ drop(data, k) \o incoming = drop(data \o incoming, k)
      /\ k \in 0 .. Len(data \o incoming)
  <2>1. data \in Seq(Byte) /\ incoming \in Seq(Byte) /\ k \in 0 .. Len(data)
    BY <1>1
  <2>2. \A b, c \in Seq(Byte) : \A j \in 0 .. Len(b) :
            /\ drop(b, j) \in Seq(Byte) /\ <<>> \o drop(b, j) = drop(b, j)
            /\ drop(b, j) \o c = drop(b \o c, j)
            /\ j \in 0 .. Len(b \o c)
    BY Consume
  <2> QED
    BY <2>1, <2>2, Zenon
<1>3. unconsumed' = drop(unconsumed, k) /\ k \in 0 .. Len(unconsumed)
  BY <1>1, <1>2 DEF unconsumed
<1>4. contiguous(script, unconsumed) /\ unconsumed[1].off > 0
  <2>1. /\ script[m_activeSession.req].head \in Nat
        /\ m_bodyBytesRemaining \in 0 .. script[m_activeSession.req].value
        /\ script[m_activeSession.req].value \in Nat
        /\ unconsumed[1].off = script[m_activeSession.req].head +
               (script[m_activeSession.req].value - m_bodyBytesRemaining) + 1
    BY StreamingPlace
  <2> QED
    BY <2>1 DEF PlaceInv, ShapeInv
<1>5. /\ contiguous(script, drop(unconsumed, k))
      /\ drop(unconsumed, k) # <<>> =>
             /\ k < leftFrom(script, unconsumed[1]) => drop(unconsumed, k)[1] =
                    [req |-> unconsumed[1].req, off |-> unconsumed[1].off + k]
             /\ k = leftFrom(script, unconsumed[1]) => drop(unconsumed, k)[1] =
                    [req |-> unconsumed[1].req + 1, off |-> 1]
  BY <1>3, <1>4, Advance
<1> QED
  BY <1>1, <1>2, <1>3, <1>5

LEMMA ContinueStreamingPlace ==
    ASSUME PlaceInv, ContinueStreamingBody
    PROVE  /\ PlaceInv'
           /\ unconsumed' # <<>> => unconsumed'[1].req = unconsumed[1].req
<1> DEFINE i == m_activeSession.req
           h == script[i].head
           x == script[i].value
           v == m_bodyBytesRemaining
           n == Len(data)
<1>1. /\ InputOK /\ StateOK /\ DetectorOK /\ OutputOK /\ n < v
      /\ turn = "callback" /\ m_state = "StreamingBody"
  BY PlaceParts DEF ContinueStreamingBody
<1>2. /\ m_bodyBytesRemaining' = v - n /\ turn' = "write" /\ data' = <<>> /\ view' = 0
      /\ m_activeSession' = [m_activeSession EXCEPT !.bytes = @ \o SubSeq(data, 1, least(n, v))]
      /\ UNCHANGED <<client, incoming, m_incomingBuffer, m_delegate, m_state,
                     dropped, unreported, garbled, finished>>
      /\ UNCHANGED <<m_activeReadSession, m_outgoingBuffer, wire>>
  BY DEF ContinueStreamingBody, Returns, output, history, chunk
<1>3. keepGoing' \in BOOLEAN /\ keepGoing'
  BY DEF ContinueStreamingBody, Returns
<1>4. /\ i \in Nat /\ i \in 1 .. Len(script) /\ script[i].kind = "large"
      /\ h \in Nat /\ x \in Nat /\ v \in 0 .. x /\ v > 0
      /\ m_activeSession \in [req : Nat, bytes : Seq(Byte)]
      /\ m_activeSession.bytes = valuePart(script, i, v)
      /\ m_incomingBuffer = <<>> /\ data \in Seq(Byte) /\ n \in Nat \ {0}
      /\ unconsumed[1].req = i /\ unconsumed[1].off = h + (x - v) + 1
      /\ \A p \in 1 .. least(n, v) : data[p] = [req |-> i, off |-> h + (x - v) + p]
  BY <1>1, StreamingPlace
<1>5. n \in 0 .. n /\ n <= v /\ least(n, v) = n /\ drop(data, n) = <<>>
  BY <1>1, <1>4, DropEnds DEF least
<1>6. /\ contiguous(script, unconsumed')
      /\ unconsumed' # <<>> =>
             unconsumed'[1] = [req |-> unconsumed[1].req, off |-> unconsumed[1].off + n]
  BY <1>1, <1>2, <1>5, BodyConsumes
<1> HIDE DEF h, x, i, n
<1>7. script' = script /\ <<>> \in Seq(Byte)
  BY <1>2, EmptySeq DEF script
<1>8. InputOK'
  BY <1>1, <1>2, <1>3, <1>6, <1>7 DEF InputOK
<1>9. StateOK'
  <2>1. m_activeSession' = [req |-> i, bytes |-> m_activeSession.bytes \o SubSeq(data, 1, n)]
    BY <1>2, <1>4, <1>5 DEF i
  <2>2. valuePart(script, i, v) \o SubSeq(data, 1, n) = valuePart(script, i, v - n)
    <3>1. /\ i \in Nat /\ script[i].head \in Nat /\ script[i].value \in Nat
          /\ v \in 0 .. script[i].value /\ data \in Seq(Byte)
          /\ n \in 0 .. Len(data) /\ n <= v
          /\ \A p \in 1 .. n : data[p] =
                 [req |-> i, off |-> script[i].head + (script[i].value - v) + p]
      BY <1>4, <1>5 DEF h, x, n
    <3> HIDE DEF v
    <3> QED
      BY <3>1, ValuePartGrows
  <2>3. SubSeq(data, 1, n) = data
    BY <1>4, SubSeqFull DEF n
  <2>4. m_activeSession.bytes \o data \in Seq(Byte)
    BY <1>4, ConcatProperties
  <2>5. /\ m_activeSession' \in [req : Nat, bytes : Seq(Byte)]
        /\ m_activeSession'.req = i
        /\ m_activeSession'.bytes = valuePart(script, i, v - n)
    BY <1>4, <2>1, <2>2, <2>3, <2>4
  <2>6. /\ v - n \in Nat /\ v - n > 0 /\ v - n <= x
        /\ h + (x - v) + 1 + n = h + (x - (v - n)) + 1
    BY <1>1, <1>4, SMTT(30)
  <2>7. unconsumed' # <<>> => unconsumed'[1] = [req |-> i, off |-> h + (x - (v - n)) + 1]
    BY <1>4, <1>6, <2>6
  <2>8. StreamingInv'
    BY <1>2, <1>4, <1>7, <2>5, <2>6, <2>7 DEF StreamingInv, h, x
  <2> QED
    BY <1>1, <1>2, <1>4, <2>5, <2>6, <2>8 DEF StateOK
<1>10. DetectorOK'
  BY <1>1, <1>2, <1>7 DEF DetectorOK
<1>11. OutputOK'
  BY <1>1, <1>2 DEF OutputOK
<1>12. PlaceInv'
  BY <1>8, <1>9, <1>10, <1>11, PlaceParts, PTL
<1> QED
  BY <1>6, <1>12

\* The last chunk ends where the body does.
LEMMA LastChunk ==
    ASSUME PlaceInv, turn = "callback", m_state = "StreamingBody",
           Len(data) >= m_bodyBytesRemaining
    PROVE  /\ m_activeSession \in [req : Nat, bytes : Seq(Byte)]
           /\ m_activeSession.bytes \o chunk \in Seq(Byte)
           /\ m_activeSession.bytes \o chunk = valuePart(script, m_activeSession.req, 0)
<1> DEFINE i == m_activeSession.req
           h == script[i].head
           x == script[i].value
           v == m_bodyBytesRemaining
<1>1. /\ i \in Nat /\ h \in Nat /\ x \in Nat /\ v \in 0 .. x
      /\ m_activeSession \in [req : Nat, bytes : Seq(Byte)]
      /\ m_activeSession.bytes = valuePart(script, i, v)
      /\ data \in Seq(Byte) /\ Len(data) \in Nat
      /\ \A p \in 1 .. least(Len(data), v) : data[p] = [req |-> i, off |-> h + (x - v) + p]
  BY StreamingPlace, LenProperties
<1>2. v \in 0 .. Len(data) /\ v <= v /\ least(Len(data), v) = v /\ v - v = 0
  BY <1>1 DEF least
<1>3. chunk = SubSeq(data, 1, v)
  BY <1>1, <1>2 DEF chunk
<1>4. \A p \in 1 .. v : data[p] = [req |-> i, off |-> h + (x - v) + p]
  BY <1>1, <1>2
<1> HIDE DEF i, v
<1>5. valuePart(script, i, v) \o SubSeq(data, 1, v) = valuePart(script, i, 0)
  <2>1. /\ i \in Nat /\ script[i].head \in Nat /\ script[i].value \in Nat
        /\ v \in 0 .. script[i].value /\ data \in Seq(Byte)
        /\ v \in 0 .. Len(data) /\ v <= v
        /\ \A p \in 1 .. v : data[p] =
               [req |-> i, off |-> script[i].head + (script[i].value - v) + p]
    BY <1>1, <1>2, <1>4
  <2>2. valuePart(script, i, v) \o SubSeq(data, 1, v) = valuePart(script, i, v - v)
    BY <2>1, ValuePartGrows
  <2> QED
    BY <1>2, <2>2
<1>6. SubSeq(data, 1, v) \in Seq(Byte)
  BY <1>1, <1>2, SplitSeq
<1>7. m_activeSession.bytes \o SubSeq(data, 1, v) \in Seq(Byte)
  BY <1>1, <1>6, ConcatProperties
<1> QED
  BY <1>1, <1>3, <1>5, <1>7 DEF i

LEMMA FinishStreamingPlace ==
    ASSUME PlaceInv, FinishStreamingBody
    PROVE  /\ PlaceInv'
           /\ unconsumed' # <<>> =>
                  unconsumed'[1] = [req |-> unconsumed[1].req + 1, off |-> 1]
<1> DEFINE i == m_activeSession.req
           v == m_bodyBytesRemaining
           rest == drop(data, v)
           at == IF view > 0 THEN view + v ELSE 0
<1>1. /\ InputOK /\ StateOK /\ DetectorOK /\ OutputOK /\ Len(data) >= v
      /\ turn = "callback" /\ m_state = "StreamingBody"
  BY PlaceParts DEF FinishStreamingBody
<1>2. /\ finished' = [m_activeSession EXCEPT !.bytes = @ \o chunk]
      /\ m_bodyBytesRemaining' = 0 /\ m_activeSession' = None /\ m_state' = "ParsingHeaders"
      /\ \/ /\ m_outgoingBuffer' = Append(m_outgoingBuffer, item(i, "reply", 0))
            /\ unreported' = unreported
         \/ m_outgoingBuffer' = m_outgoingBuffer /\ unreported' = unreported \cup {i}
      /\ PassesOn(rest, at)
      /\ UNCHANGED <<client, incoming, m_incomingBuffer, m_activeReadSession, wire,
                     m_delegate, dropped, garbled>>
  BY DEF FinishStreamingBody, queueResponse
<1>3. /\ i \in Nat /\ i \in 1 .. Len(script) /\ m_incomingBuffer = <<>>
      /\ v \in Nat /\ data \in Seq(Byte) /\ Len(data) \in Nat
  BY <1>1, StreamingPlace
<1>4. v \in 0 .. Len(data) /\ v <= v /\ ~(v < v) /\ at \in Nat
  BY <1>1, <1>3 DEF InputOK
<1> HIDE DEF rest, at
<1>5. /\ data' = rest /\ view' \in Nat /\ turn' \in {"callback", "write"}
      /\ turn' = "callback" <=> rest # <<>>
      /\ view' > 0 => turn' = "callback"
  BY <1>2, <1>4 DEF PassesOn, Returns
<1>6. keepGoing' \in BOOLEAN /\ keepGoing'
  BY <1>1, <1>2 DEF PassesOn, Returns, InputOK
<1>7. /\ data' \in Seq(Byte) /\ contiguous(script, unconsumed')
      /\ unconsumed' # <<>> =>
             unconsumed'[1] = [req |-> unconsumed[1].req + 1, off |-> 1]
  <2>1. data' = drop(data, v) /\ UNCHANGED <<incoming, m_incomingBuffer>>
    BY <1>2, <1>5 DEF rest
  <2> QED
    BY <1>1, <1>4, <2>1, BodyConsumes
<1>8. script' = script
  BY <1>2 DEF script
<1>9. InputOK'
  BY <1>1, <1>2, <1>3, <1>5, <1>6, <1>7, <1>8 DEF InputOK
<1>10. StateOK'
  BY <1>1, <1>2 DEF StateOK, StreamingInv
<1>11. DetectorOK'
  <2>1. DOMAIN script = 1 .. Len(script)
    BY <1>1, ClientScript DEF InputOK, script
  <2>2. unreported' \subseteq DOMAIN script
    BY <1>1, <1>2, <1>3, <2>1 DEF DetectorOK
  <2>3. finished' \in [req : Nat, bytes : Seq(Byte)]
    <3>1. /\ m_activeSession \in [req : Nat, bytes : Seq(Byte)]
          /\ m_activeSession.bytes \o chunk \in Seq(Byte)
      BY <1>1, LastChunk
    <3> QED
      BY <1>2, <3>1
  <2> QED
    BY <1>1, <1>2, <1>3, <1>5, <1>8, <2>2, <2>3 DEF DetectorOK
<1>12. OutputOK'
  <2>1. CASE m_outgoingBuffer' = Append(m_outgoingBuffer, item(i, "reply", 0))
    BY <1>1, <1>2, <1>3, <2>1, ReplyQueued
  <2>2. CASE m_outgoingBuffer' = m_outgoingBuffer
    BY <1>1, <1>2, <2>2 DEF OutputOK
  <2> QED
    BY <1>2, <2>1, <2>2
<1>13. PlaceInv'
  BY <1>9, <1>10, <1>11, <1>12, PlaceParts, PTL
<1> QED
  BY <1>7, <1>13

LEMMA WriteFailsPlace == PlaceInv /\ WriteFails => PlaceInv'
<1> SUFFICES ASSUME PlaceInv, WriteFails PROVE PlaceInv'
  OBVIOUS
<1>1. /\ InputOK /\ StateOK /\ DetectorOK /\ OutputOK /\ ShapeInv
      /\ turn = "callback" /\ m_state = "StreamingBody"
  BY PlaceParts DEF PlaceInv, WriteFails
<1>2. /\ m_activeSession' = None /\ m_state' = "ParsingHeaders"
      /\ m_outgoingBuffer' = Append(m_outgoingBuffer, item(m_activeSession.req, "reply", 0))
      /\ turn' = "write" /\ view' = 0 /\ data' = <<>>
      /\ UNCHANGED <<client, incoming, m_incomingBuffer, m_activeReadSession, wire,
                     m_delegate, m_bodyBytesRemaining, dropped, unreported, garbled, finished>>
  BY DEF WriteFails, queueResponse, Returns, history
<1>3. keepGoing' \in BOOLEAN
  BY DEF WriteFails, Returns
<1>4. m_incomingBuffer' = <<>> /\ m_activeSession.req \in Nat
  BY <1>1, <1>2, StreamingPlace
<1>5. contiguous(script, unconsumed')
  BY <1>1, <1>2, <1>4, DropsBuffer
<1>6. <<>> \in Seq(Byte) /\ script' = script
  BY <1>2, EmptySeq DEF script
<1>7. InputOK'
  BY <1>1, <1>2, <1>3, <1>4, <1>5, <1>6 DEF InputOK
<1>8. StateOK'
  BY <1>1, <1>2 DEF StateOK, StreamingInv
<1>9. DetectorOK'
  BY <1>1, <1>2, <1>4, <1>6 DEF DetectorOK
<1>10. OutputOK'
  BY <1>1, <1>2, <1>4, ReplyQueued
<1> QED
  BY <1>7, <1>8, <1>9, <1>10, PlaceParts, PTL

\* What the parser makes of the front of the buffer.
LEMMA ParseOutcome ==
    ASSUME ShapeInv, turn = "parse", ~holdsLargeHead(buf), NEW o \in parse(buf),
           o.result = "Complete"
    PROVE  /\ o.consumed \in 0 .. Len(buf)
           /\ atRequest(buf) => o.consumed = lengthOf(script[buf[1].req])
<1> DEFINE r == script[buf[1].req]
<1>1. /\ first(buf) = r /\ r.head \in Nat \ {0} /\ Len(buf) \in Nat
      /\ r.kind # "large" => lengthOf(r) = r.head
  BY AtFront
<1> HIDE DEF r
<1>2. CASE ~atRequest(buf)
  <2>1. o.consumed \in 1 .. Len(buf)
    BY <1>2 DEF parse
  <2> QED
    BY <1>1, <1>2, <2>1
<1>3. CASE atRequest(buf)
  <2>1. ~(Len(buf) < r.head) /\ r.kind # "bad" /\ o.consumed = r.head
    BY <1>1, <1>3 DEF parse
  <2>2. r.kind # "large" /\ r.head \in 0 .. Len(buf)
    BY <1>1, <1>3, <2>1 DEF holdsLargeHead
  <2> QED
    BY <1>1, <2>1, <2>2 DEF r
<1> QED
  BY <1>2, <1>3

\* A request is consumed: at a request, exactly the request.
LEMMA RequestConsumes ==
    ASSUME ShapeInv, Request
    PROVE  /\ m_incomingBuffer' \in Seq(Byte)
           /\ contiguous(script, unconsumed')
           /\ unconsumed' # <<>> /\ unconsumed[1].off = 1 =>
                  unconsumed'[1] = [req |-> unconsumed[1].req + 1, off |-> 1]
           /\ handleRequest \/ handleGetPath
<1>1. turn = "parse" /\ ~holdsLargeHead(buf)
  BY DEF Request, parsing
<1>2. PICK o \in parse(buf) :
          /\ o.result = "Complete" /\ processRequest
          /\ m_incomingBuffer' = drop(buf, o.consumed)
  BY DEF Request
<1> DEFINE k == o.consumed
<1>3. /\ k \in 0 .. Len(buf)
      /\ atRequest(buf) => k = lengthOf(script[buf[1].req])
  BY <1>1, <1>2, ParseOutcome
<1>4. data' = <<>> /\ incoming' = incoming
  BY DEF Request, Returns
<1>5. buf \in Seq(Byte) /\ incoming \in Seq(Byte)
  BY <1>1, AtFront
<1>6. /\ unconsumed = buf \o incoming
      /\ atRequest(buf) <=> unconsumed[1].off = 1
      /\ atRequest(buf) => leftFrom(script, unconsumed[1]) = lengthOf(script[buf[1].req])
  BY <1>1, AtFront
<1> HIDE DEF k
<1>7. /\ drop(buf, k) \in Seq(Byte) /\ drop(buf, k) \o <<>> = drop(buf, k)
      /\ drop(buf, k) \o incoming = drop(buf \o incoming, k)
      /\ k \in 0 .. Len(buf \o incoming)
  <2>1. \A b, c \in Seq(Byte) : \A j \in 0 .. Len(b) :
            /\ drop(b, j) \in Seq(Byte) /\ drop(b, j) \o <<>> = drop(b, j)
            /\ drop(b, j) \o c = drop(b \o c, j)
            /\ j \in 0 .. Len(b \o c)
    BY Consume
  <2> QED
    BY <1>3, <1>5, <2>1, Zenon
<1>8. m_incomingBuffer' = drop(buf, k)
  BY <1>2 DEF k
<1>9. unconsumed' = drop(unconsumed, k) /\ k \in 0 .. Len(unconsumed)
  BY <1>4, <1>6, <1>7, <1>8 DEF unconsumed
<1>10. /\ contiguous(script, drop(unconsumed, k))
       /\ drop(unconsumed, k) # <<>> /\ unconsumed[1].off > 0
          /\ k = leftFrom(script, unconsumed[1]) =>
              drop(unconsumed, k)[1] = [req |-> unconsumed[1].req + 1, off |-> 1]
  BY <1>9, Advance DEF ShapeInv
<1>11. unconsumed' # <<>> /\ unconsumed[1].off = 1 =>
          unconsumed'[1] = [req |-> unconsumed[1].req + 1, off |-> 1]
  <2> SUFFICES ASSUME unconsumed' # <<>>, unconsumed[1].off = 1
               PROVE  unconsumed'[1] = [req |-> unconsumed[1].req + 1, off |-> 1]
    OBVIOUS
  <2>1. k = leftFrom(script, unconsumed[1])
    BY <1>3, <1>6
  <2>2. unconsumed[1].off > 0 /\ drop(unconsumed, k) # <<>>
    BY <1>9
  <2> QED
    BY <1>9, <1>10, <2>1, <2>2
<1> QED
  BY <1>2, <1>7, <1>8, <1>9, <1>10, <1>11 DEF processRequest

\* What a request queues.
LEMMA RequestOutput ==
    ASSUME PlaceInv, Request
    PROVE  LET i == buf[1].req
           IN  /\ OutputOK'
               /\ \/ /\ sent' = Append(sent, item(i, "reply", 0))
                     /\ m_activeReadSession' = m_activeReadSession
                  \/ \E n \in 0 .. MaxChunks :
                         /\ sent' = Append(sent, item(i, "header", n))
                         /\ m_activeReadSession' = [req |-> i, chunks |-> n]
<1> DEFINE i == buf[1].req
<1>1. ShapeInv /\ OutputOK /\ turn = "parse"
  BY PlaceParts DEF Request, parsing, PlaceInv
<1>2. i \in Nat
  BY <1>1, AtFront
<1>3. /\ m_outgoingBuffer \in Seq(Items) /\ wire \in Seq(Items) /\ wire' = wire
      /\ MaxChunks \in Nat
  BY <1>1, ConnectionAssumption DEF OutputOK, Request
<1>4. \/ /\ m_outgoingBuffer' = Append(m_outgoingBuffer, item(i, "reply", 0))
         /\ m_activeReadSession' = m_activeReadSession
      \/ \E n \in 0 .. MaxChunks :
             /\ m_outgoingBuffer' = Append(m_outgoingBuffer, item(i, "header", n))
             /\ m_activeReadSession' = [req |-> i, chunks |-> n]
  BY <1>1, RequestConsumes DEF handleRequest, handleGetPath, queueResponse
<1> HIDE DEF i
<1>5. CASE /\ m_outgoingBuffer' = Append(m_outgoingBuffer, item(i, "reply", 0))
           /\ m_activeReadSession' = m_activeReadSession
  <2>1. sent' = Append(sent, item(i, "reply", 0))
    BY <1>1, <1>2, <1>3, <1>5, ReplySent
  <2>2. OutputOK'
    BY <1>1, <1>2, <1>3, <1>5, ReplyQueued
  <2> QED
    BY <1>5, <2>1, <2>2 DEF i
<1>6. ASSUME NEW n \in 0 .. MaxChunks,
             m_outgoingBuffer' = Append(m_outgoingBuffer, item(i, "header", n)),
             m_activeReadSession' = [req |-> i, chunks |-> n]
      PROVE  OutputOK' /\ sent' = Append(sent, item(i, "header", n))
  <2>1. n \in Nat
    BY <1>3, <1>6
  <2>2. item(i, "header", n) \in Items
    BY <1>2, <2>1, ItemType
  <2>3. sent' = Append(sent, item(i, "header", n))
    BY <1>1, <1>3, <1>6, <2>2, QueueSent
  <2>4. Append(m_outgoingBuffer, item(i, "header", n)) \in Seq(Items)
    BY <1>3, <2>2, AppendProperties
  <2> QED
    BY <1>2, <1>3, <1>6, <2>3, <2>4 DEF OutputOK
<1> QED
  BY <1>4, <1>5, <1>6 DEF i

LEMMA RequestPlace == PlaceInv /\ Request => PlaceInv'
<1> SUFFICES ASSUME PlaceInv, Request PROVE PlaceInv'
  OBVIOUS
<1>1. /\ InputOK /\ StateOK /\ DetectorOK /\ OutputOK /\ ShapeInv /\ turn = "parse"
  BY PlaceParts DEF PlaceInv, Request, parsing
<1>2. /\ turn' = "write" /\ view' = 0 /\ data' = <<>>
      /\ UNCHANGED <<client, incoming, m_activeSession, m_delegate,
                     m_state, m_bodyBytesRemaining, dropped, unreported, garbled, finished>>
  BY DEF Request, Returns, httpVars, history
<1>3. keepGoing' \in BOOLEAN /\ keepGoing'
  BY DEF Request, Returns
<1>4. m_incomingBuffer' \in Seq(Byte) /\ contiguous(script, unconsumed')
  BY <1>1, RequestConsumes
<1>5. <<>> \in Seq(Byte) /\ script' = script
  BY <1>2, EmptySeq DEF script
<1>6. InputOK'
  BY <1>1, <1>2, <1>3, <1>4, <1>5 DEF InputOK
<1>7. StateOK'
  BY <1>1, <1>2 DEF StateOK, StreamingInv, DetectorOK
<1>8. DetectorOK'
  BY <1>1, <1>2, <1>5 DEF DetectorOK
<1>9. OutputOK'
  BY RequestOutput
<1> QED
  BY <1>6, <1>7, <1>8, <1>9, PlaceParts, PTL

LEMMA InitPlace == Init => PlaceInv
<1> SUFFICES ASSUME Init PROVE PlaceInv
  OBVIOUS
<1>1. /\ client \in Clients /\ incoming = streamOf(script)
      /\ data = <<>> /\ view = 0 /\ turn = "read" /\ keepGoing = TRUE
      /\ m_incomingBuffer = <<>> /\ m_activeSession = None
      /\ m_activeReadSession = None /\ m_outgoingBuffer = <<>> /\ wire = <<>>
      /\ m_state = "ParsingHeaders" /\ m_bodyBytesRemaining = 0
      /\ dropped = <<>> /\ unreported = {} /\ finished = None
  BY DEF Init, ConnectionInit
<1>2. m_delegate \in BOOLEAN /\ garbled \in BOOLEAN
  BY DEF Init
<1>3. script \in Script
  BY <1>1, ClientScript DEF script
<1>4. contiguous(script, incoming)
  BY <1>1, <1>3, StreamContiguous
<1>5. incoming \in Seq(Byte)
  BY <1>4 DEF contiguous
<1>6. (<<>> \o <<>>) \o incoming = incoming /\ <<>> \in Seq(Byte) /\ <<>> \in Seq(Items)
  BY <1>5, ConcatEmptySeq, EmptySeq
<1>7. unconsumed = incoming
  BY <1>1, <1>6 DEF unconsumed
<1>8. InputOK
  BY <1>1, <1>4, <1>5, <1>6, <1>7 DEF InputOK
<1>9. StateOK
  BY <1>1 DEF StateOK, StreamingInv
<1>10. DetectorOK
  BY <1>1, <1>2, <1>6 DEF DetectorOK
<1>11. OutputOK
  BY <1>1, <1>6 DEF OutputOK
<1> QED
  BY <1>8, <1>9, <1>10, <1>11, PlaceParts

LEMMA NextPlace == PlaceInv /\ [Next]_vars => PlaceInv'
<1> SUFFICES ASSUME PlaceInv, [Next]_vars PROVE PlaceInv'
  OBVIOUS
<1>1. CASE UNCHANGED vars
  <2>1. /\ UNCHANGED <<client, incoming, m_incomingBuffer, m_activeSession, output, httpVars>>
        /\ UNCHANGED <<data, view, turn, keepGoing>>
    BY <1>1 DEF vars, call
  <2>2. unconsumed' = unconsumed /\ script' = script
    BY <2>1 DEF unconsumed, script
  <2>3. InputOK /\ StateOK /\ DetectorOK /\ OutputOK
    BY PlaceParts
  <2>4. InputOK'
    BY <2>1, <2>2, <2>3 DEF InputOK
  <2>5. StateOK'
    BY <2>1, <2>2, <2>3 DEF StateOK, StreamingInv, httpVars
  <2>6. DetectorOK'
    BY <2>1, <2>2, <2>3 DEF DetectorOK, httpVars, history
  <2>7. OutputOK'
    BY <2>1, <2>3 DEF OutputOK, output
  <2> QED
    BY <2>4, <2>5, <2>6, <2>7, PlaceParts, PTL
<1>2. CASE Next
  <2>1. CASE Malformed \/ BeginRefused
    BY <2>1, AnswersPlace DEF Malformed, BeginRefused, parsing
  <2> QED
    BY <1>2, <2>1, ReceivePlace, MatchPlace, DetectorDropsPlace, AppendPlace, RequestPlace,
       NeedsMorePlace, BeginUploadPlace, ContinueStreamingPlace, FinishStreamingPlace,
       WriteFailsPlace, TakeOutgoingPlace, WrittenPlace DEF Next, Handler
<1> QED
  BY <1>1, <1>2

\* However the client's bytes are cut into buffers and whatever the storage
\* answers, the variables of the detector and the handler have their types:
\* m_bodyBytesRemaining of continueStreamingBody does not run below zero, and an
\* onBytesReceived with nothing left to look at has returned.
THEOREM HttpTypeOK == Spec => []TypeOK
<1>1. PlaceInv => TypeOK
  BY DEF PlaceInv, ShapeInv
<1> QED
  BY <1>1, InitPlace, NextPlace, PTL DEF Spec

\* What was finished had all of its body; only FinishStreamingBody finishes.
FinishedInv == givenAll(finished)

LEMMA FinishedStep == PlaceInv /\ FinishedInv /\ [Next]_vars => FinishedInv'
<1> SUFFICES ASSUME PlaceInv, FinishedInv, [Next]_vars PROVE FinishedInv'
  OBVIOUS
<1>1. CASE FinishStreamingBody
  <2>1. finished'.bytes = valuePart(script, finished'.req, 0)
    <3>1. finished' = [m_activeSession EXCEPT !.bytes = @ \o chunk]
      BY <1>1 DEF FinishStreamingBody
    <3>2. /\ m_activeSession \in [req : Nat, bytes : Seq(Byte)]
          /\ m_activeSession.bytes \o chunk = valuePart(script, m_activeSession.req, 0)
      BY <1>1, LastChunk DEF FinishStreamingBody
    <3> QED
      BY <3>1, <3>2
  <2>2. script' = script
    BY <1>1 DEF FinishStreamingBody, script
  <2> QED
    BY <2>1, <2>2 DEF FinishedInv, givenAll, valuePart, valueUpTo
<1>2. CASE UNCHANGED <<client, finished>>
  BY <1>2 DEF FinishedInv, givenAll, valueUpTo, script
<1>3. CASE \/ Match \/ NeedMoreData \/ NoMatch \/ AppendToBuffer \/ Request \/ NeedsMore
           \/ Malformed \/ BeginRefused
  BY <1>2, <1>3 DEF Match, NeedMoreData, NoMatch, AppendToBuffer, Request, NeedsMore,
     Malformed, BeginRefused, Answers, httpVars, history
<1>4. CASE \/ BeginUpload \/ ContinueStreamingBody \/ WriteFails \/ TakeOutgoingBytes
           \/ Written \/ Receive \/ UNCHANGED vars
  BY <1>2, <1>4 DEF BeginUpload, ContinueStreamingBody, WriteFails, TakeOutgoingBytes,
     Written, ReadsOn, Receive, Receives, vars, httpVars, history
<1> QED
  BY <1>1, <1>3, <1>4 DEF Next, Handler

\* What writeChunk is given of a PUT's body is the body up to the bytes that
\* m_bodyBytesRemaining counts: the part that came with the header, read from
\* the storage of the cleared m_incomingBuffer, and all that came later.  The
\* last chunk that continueStreamingBody cuts from the data ends with the
\* body: what finish is called on has all of it, and no byte of the next
\* request.
THEOREM HttpUploadIsValue == Spec => []UploadIsValue
<1>1. Init => FinishedInv
  BY DEF Init, FinishedInv, givenAll
<1>2. PlaceInv /\ FinishedInv => UploadIsValue
  BY DEF PlaceInv, ShapeInv, StreamingInv, FinishedInv, UploadIsValue, valuePart, valueUpTo
<1> QED
  BY <1>1, <1>2, InitPlace, NextPlace, FinishedStep, PTL DEF Spec

-----------------------------------------------------------------------------
(* Objects are sent as one piece *)

\* A step that sends nothing, and leaves Session with the object if one is
\* being sent.
LEMMA ObjectsSame ==
    ASSUME ObjectsInv, sent' = sent, m_activeReadSession' = m_activeReadSession,
           m_activeReadSession # None => turn' = turn
    PROVE  ObjectsInv'
<1>1. ObjectsUnbroken'
  BY DEF ObjectsInv, ObjectsUnbroken
<1> QED
  BY <1>1 DEF ObjectsInv

\* An answer when no object is being sent.
LEMMA ObjectsAnswer ==
    ASSUME OutputOK, ObjectsInv, m_activeReadSession = None,
           NEW x \in Items, isAnswer(x), sent' = Append(sent, x),
           \/ x.left = 0 /\ m_activeReadSession' = None
           \/ /\ turn' = "write"
              /\ m_activeReadSession' = [req |-> x.req, chunks |-> x.left]
    PROVE  ObjectsInv'
<1>1. sent \in Seq(Items) /\ unbroken(sent)
  BY SentType, UnbrokenSent DEF ObjectsInv
<1>2. sent # <<>> => mayFollow(sent[Len(sent)], x)
  BY DEF ObjectsInv, mayFollow
<1>3. /\ Append(sent, x) # <<>> /\ Append(sent, x)[Len(Append(sent, x))] = x
      /\ unbroken(Append(sent, x))
  BY <1>1, <1>2, AppendItem
<1>4. ObjectsUnbroken'
  BY <1>3 DEF ObjectsUnbroken, unbroken, mayFollow, isAnswer
<1>5. sent' # <<>> /\ sent'[Len(sent')] = x
  BY <1>3
<1>6. CASE x.left = 0 /\ m_activeReadSession' = None
  BY <1>4, <1>5, <1>6 DEF ObjectsInv
<1>7. CASE /\ turn' = "write"
           /\ m_activeReadSession' = [req |-> x.req, chunks |-> x.left]
  <2>1. /\ m_activeReadSession'.req = x.req
        /\ m_activeReadSession'.chunks = x.left
    BY <1>7
  <2>2. m_activeReadSession' # None
    <3>1. x.req \in Nat /\ x.left \in Nat
      BY DEF Items
    <3>2. m_activeReadSession' \in [req : Nat, chunks : Nat]
      BY <1>7, <3>1
    <3> QED
      BY <3>2, ConnectionAssumption
  <2> QED
    BY <1>4, <1>5, <1>7, <2>1, <2>2 DEF ObjectsInv
<1> QED
  BY <1>6, <1>7

\* The next part of an object.
LEMMA ObjectsPart ==
    ASSUME PlaceInv, ObjectsInv, TakeOutgoingBytes
    PROVE  ObjectsInv'
<1> DEFINE r == m_activeReadSession
           last == sent[Len(sent)]
<1>1. OutputOK /\ turn' = turn /\ turn = "write"
  BY PlaceParts DEF TakeOutgoingBytes, call
<1>2. sent \in Seq(Items) /\ unbroken(sent)
  BY <1>1, SentType, UnbrokenSent DEF ObjectsInv
<1>3. CASE sent' = sent /\ UNCHANGED m_activeReadSession
  BY <1>1, <1>3, ObjectsSame
<1>4. CASE /\ r \in [req : Nat, chunks : 0 .. MaxChunks] /\ r # None /\ r.chunks > 0
           /\ sent' = Append(sent, item(r.req, "chunk", r.chunks - 1))
           /\ m_activeReadSession' = [req |-> r.req, chunks |-> r.chunks - 1]
  <2> DEFINE x == item(r.req, "chunk", r.chunks - 1)
  <2>1. r.req \in Nat /\ r.chunks \in Nat /\ r.chunks - 1 \in Nat
    BY <1>4, ConnectionAssumption
  <2>2. x \in Items /\ x.req = r.req /\ x.part = "chunk" /\ x.left = r.chunks - 1
    BY <2>1, ItemType
  <2> HIDE DEF x
  <2>3. last.req = r.req /\ last.left = r.chunks
    BY <1>4 DEF ObjectsInv
  <2>4. mayFollow(last, x)
    BY <1>4, <2>1, <2>2, <2>3 DEF mayFollow
  <2>5. /\ Append(sent, x) # <<>> /\ Append(sent, x)[Len(Append(sent, x))] = x
        /\ unbroken(Append(sent, x))
    BY <1>2, <2>2, <2>4, AppendItem
  <2>6. sent' = Append(sent, x)
    BY <1>4 DEF x
  <2>7. ObjectsUnbroken'
    BY <2>5, <2>6 DEF ObjectsUnbroken, unbroken, mayFollow, isAnswer
  <2>8. sent' # <<>> /\ sent'[Len(sent')] = x
    BY <2>5, <2>6
  <2>9. /\ m_activeReadSession'.req = x.req
        /\ m_activeReadSession'.chunks = x.left
        /\ m_activeReadSession' \in [req : Nat, chunks : Nat]
    BY <1>4, <2>1, <2>2
  <2>10. m_activeReadSession' # None
    BY <2>9, ConnectionAssumption
  <2> QED
    BY <1>1, <2>7, <2>8, <2>9, <2>10 DEF ObjectsInv
<1>5. CASE r # None /\ r.chunks = 0 /\ sent' = sent /\ m_activeReadSession' = None
  <2>1. ObjectsUnbroken'
    BY <1>5 DEF ObjectsInv, ObjectsUnbroken
  <2>2. last.left = 0
    BY <1>5 DEF ObjectsInv
  <2> QED
    BY <1>5, <2>1, <2>2 DEF ObjectsInv
<1> QED
  BY <1>1, <1>3, <1>4, <1>5, TakeOutgoing

LEMMA ObjectsReply ==
    ASSUME OutputOK, ObjectsInv, turn # "write", NEW i \in Nat, wire' = wire,
           m_outgoingBuffer' = Append(m_outgoingBuffer, item(i, "reply", 0)),
           m_activeReadSession' = m_activeReadSession
    PROVE  ObjectsInv'
<1> DEFINE x == item(i, "reply", 0)
<1>1. x \in Items /\ isAnswer(x) /\ x.left = 0 /\ sent' = Append(sent, x)
  BY ReplySent
<1>2. m_activeReadSession = None /\ m_activeReadSession' = None
  BY DEF ObjectsInv
<1> HIDE DEF x
<1> QED
  BY <1>1, <1>2, ObjectsAnswer

LEMMA NextObjects == PlaceInv /\ ObjectsInv /\ [Next]_vars => ObjectsInv'
<1> SUFFICES ASSUME PlaceInv, ObjectsInv, [Next]_vars PROVE ObjectsInv'
  OBVIOUS
<1>1. OutputOK /\ ShapeInv
  BY PlaceParts DEF PlaceInv
<1>2. turn # "write" => m_activeReadSession = None
  BY DEF ObjectsInv
<1>3. CASE /\ UNCHANGED output
           /\ m_activeReadSession # None => turn' = turn
  <2>1. sent' = sent /\ m_activeReadSession' = m_activeReadSession
    BY <1>3 DEF output, sent
  <2> QED
    BY <1>3, <2>1, ObjectsSame
<1>4. CASE UNCHANGED vars
  BY <1>3, <1>4 DEF vars, call
<1>5. CASE Receive
  BY <1>2, <1>3, <1>5 DEF Receive, Receives
<1>6. CASE Written
  BY <1>3, <1>6 DEF Written, ReadsOn
<1>7. CASE Match \/ NeedMoreData \/ NoMatch \/ AppendToBuffer
  BY <1>2, <1>3, <1>7 DEF Match, NeedMoreData, NoMatch, AppendToBuffer, detecting
<1>8. CASE NeedsMore \/ BeginUpload \/ ContinueStreamingBody
  BY <1>2, <1>3, <1>8 DEF NeedsMore, BeginUpload, ContinueStreamingBody, parsing
<1>9. CASE TakeOutgoingBytes
  BY <1>9, ObjectsPart
<1>10. CASE Malformed \/ BeginRefused
  <2>1. /\ turn = "parse" /\ wire' = wire /\ m_activeReadSession' = m_activeReadSession
        /\ m_outgoingBuffer' = Append(m_outgoingBuffer, item(buf[1].req, "reply", 0))
    BY <1>10 DEF Malformed, BeginRefused, Answers, parsing, queueResponse
  <2>2. buf[1].req \in Nat
    BY <1>1, <2>1, AtFront
  <2> QED
    BY <1>1, <2>1, <2>2, ObjectsReply
<1>11. CASE WriteFails \/ FinishStreamingBody
  <2>1. /\ turn = "callback" /\ m_state = "StreamingBody"
        /\ wire' = wire /\ m_activeReadSession' = m_activeReadSession
        /\ \/ m_outgoingBuffer' = m_outgoingBuffer
           \/ m_outgoingBuffer' =
                  Append(m_outgoingBuffer, item(m_activeSession.req, "reply", 0))
    BY <1>11 DEF WriteFails, FinishStreamingBody, queueResponse
  <2>2. m_activeSession.req \in Nat
    BY <2>1, StreamingPlace
  <2>3. CASE m_outgoingBuffer' = m_outgoingBuffer
    BY <1>2, <1>3, <2>1, <2>3 DEF output
  <2> QED
    BY <1>1, <2>1, <2>2, <2>3, ObjectsReply
<1>12. CASE Request
  <2> DEFINE i == buf[1].req
  <2>1. turn = "parse" /\ turn' = "write" /\ m_activeReadSession = None
    BY <1>2, <1>12 DEF Request, parsing, Returns
  <2>2. i \in Nat
    BY <1>1, <2>1, AtFront
  <2>3. \/ /\ sent' = Append(sent, item(i, "reply", 0))
           /\ m_activeReadSession' = m_activeReadSession
        \/ \E n \in 0 .. MaxChunks :
               /\ sent' = Append(sent, item(i, "header", n))
               /\ m_activeReadSession' = [req |-> i, chunks |-> n]
    BY <1>12, RequestOutput
  <2> HIDE DEF i
  <2>4. CASE /\ sent' = Append(sent, item(i, "reply", 0))
             /\ m_activeReadSession' = m_activeReadSession
    <3> DEFINE x == item(i, "reply", 0)
    <3>1. x \in Items /\ x.part = "reply" /\ x.left = 0
      BY <2>2, ItemType
    <3>2. sent' = Append(sent, x) /\ m_activeReadSession' = None
      BY <2>1, <2>4
    <3> HIDE DEF x
    <3> QED
      BY <1>1, <2>1, <3>1, <3>2, ObjectsAnswer DEF isAnswer
  <2>5. ASSUME NEW n \in 0 .. MaxChunks, sent' = Append(sent, item(i, "header", n)),
               m_activeReadSession' = [req |-> i, chunks |-> n]
        PROVE  ObjectsInv'
    <3> DEFINE x == item(i, "header", n)
    <3>1. n \in Nat
      BY ConnectionAssumption
    <3>2. x \in Items /\ x.req = i /\ x.part = "header" /\ x.left = n
      BY <2>2, <3>1, ItemType
    <3> HIDE DEF x
    <3>3. sent' = Append(sent, x)
      BY <2>5 DEF x
    <3>4. m_activeReadSession' = [req |-> x.req, chunks |-> x.left]
      BY <2>5, <3>2
    <3>5. isAnswer(x)
      BY <3>2 DEF isAnswer
    <3> QED
      BY <1>1, <2>1, <3>2, <3>3, <3>4, <3>5, ObjectsAnswer
  <2> QED
    BY <2>3, <2>4, <2>5
<1> QED
  BY <1>4, <1>5, <1>6, <1>7, <1>8, <1>9, <1>10, <1>11, <1>12 DEF Next, Handler

LEMMA InitObjects == Init => ObjectsInv
<1> SUFFICES ASSUME Init PROVE ObjectsInv
  OBVIOUS
<1>1. m_activeReadSession = None /\ m_outgoingBuffer = <<>> /\ wire = <<>>
  BY DEF Init, ConnectionInit
<1>2. sent = <<>>
  BY <1>1, ConcatEmptySeq, EmptySeq DEF sent
<1>3. Len(sent) = 0
  BY <1>2, EmptySeq
<1> QED
  BY <1>1, <1>2, <1>3 DEF ObjectsInv, ObjectsUnbroken

\* Between the header of a GET's object and its last chunk nothing else is
\* sent and no chunk is left out: no request is read before pumpReadSession
\* has come to the end of the object.
THEOREM HttpObjectsUnbroken == Spec => []ObjectsUnbroken
<1>1. ObjectsInv => ObjectsUnbroken
  BY DEF ObjectsInv
<1> QED
  BY <1>1, InitPlace, NextPlace, InitObjects, NextObjects, PTL DEF Spec

-----------------------------------------------------------------------------
(* Requests are answered in order, from their first byte *)

\* What the detector or the handler finds when it is called.
LEMMA Ready ==
    ASSUME PlaceInv, OrderInv, turn \in {"callback", "parse"}
    PROVE  LET i == unconsumed[1].req
           IN  /\ keepGoing /\ unconsumed # <<>> /\ i \in Nat \ {0}
               /\ m_delegate => dropped = <<>>
               /\ m_delegate /\ ~garbled /\ m_state = "ParsingHeaders" =>
                      unconsumed[1].off = 1
               /\ ~garbled => /\ inOrder(sent, FALSE)
                              /\ unreported \subseteq 1 .. (i - 1)
                              /\ answered = (1 .. (i - 1)) \ unreported
<1>1. ShapeInv /\ keepGoing
  BY DEF PlaceInv, ShapeInv
<1>2. unconsumed # <<>>
  BY <1>1, Buffers, AtFront
<1>3. unconsumed[1].req \in Nat \ {0}
  BY <1>1, <1>2, FirstByte
<1>4. m_delegate => dropped = <<>>
  BY DEF OrderInv, DetectInv
<1>5. m_delegate /\ ~garbled /\ m_state = "ParsingHeaders" => unconsumed[1].off = 1
  BY <1>1, <1>2, <1>4 DEF OrderInv, ParsingInv
<1>6. ~garbled => /\ inOrder(sent, FALSE)
                  /\ unreported \subseteq 1 .. (unconsumed[1].req - 1)
                  /\ answered = (1 .. (unconsumed[1].req - 1)) \ unreported
  BY <1>1, <1>2 DEF OrderInv, RepliesInv
<1> QED
  BY <1>1, <1>2, <1>3, <1>4, <1>5, <1>6

\* A step that consumes and answers nothing.
LEMMA OrderSame ==
    ASSUME OrderInv, unconsumed' = unconsumed, sent' = sent, keepGoing' => keepGoing,
           UNCHANGED <<m_delegate, m_state, dropped, unreported, garbled>>
    PROVE  OrderInv'
<1>1. answered' = answered
  BY DEF answered
<1>2. ParsingInv'
  BY DEF OrderInv, ParsingInv
<1>3. DetectInv'
  BY DEF OrderInv, DetectInv
<1>4. RepliesInv'
  BY <1>1 DEF OrderInv, RepliesInv
<1> QED
  BY <1>2, <1>3, <1>4 DEF OrderInv

\* A step of the handler.
LEMMA HandlerOrder ==
    ASSUME PlaceInv, OrderInv, m_delegate, UNCHANGED <<m_delegate, dropped, garbled>>,
           ~garbled => inOrder(sent', FALSE),
           ~garbled /\ unconsumed' # <<>> /\ keepGoing' =>
               /\ m_state' = "ParsingHeaders" => unconsumed'[1].off = 1
               /\ unreported' \subseteq 1 .. (unconsumed'[1].req - 1)
               /\ answered' = (1 .. (unconsumed'[1].req - 1)) \ unreported'
    PROVE  OrderInv'
<1>1. dropped = <<>>
  BY DEF OrderInv, DetectInv
<1>2. ParsingInv'
  BY DEF ParsingInv
<1>3. DetectInv'
  BY <1>1 DEF DetectInv
<1>4. RepliesInv'
  BY DEF RepliesInv
<1> QED
  BY <1>2, <1>3, <1>4 DEF OrderInv

\* The request of the next byte is answered.
LEMMA RepliesOne ==
    ASSUME PlaceInv, OrderInv, turn \in {"callback", "parse"}, ~garbled,
           NEW x \in Items, isAnswer(x), x.req = unconsumed[1].req, sent' = Append(sent, x)
    PROVE  LET i == unconsumed[1].req
           IN  inOrder(sent', FALSE) /\ answered' = (1 .. i) \ unreported
<1> DEFINE i == unconsumed[1].req
<1>1. /\ i \in Nat \ {0} /\ inOrder(sent, FALSE)
      /\ unreported \subseteq 1 .. (i - 1)
      /\ answered = (1 .. (i - 1)) \ unreported
  BY Ready
<1>2. sent \in Seq(Items)
  BY PlaceParts, SentType
<1>3. repliedIn(Append(sent, x)) = repliedIn(sent) \cup {i}
  BY <1>2, AppendItem
<1>4. \A j \in repliedIn(sent) : j < i
  BY <1>1 DEF answered
<1>5. inOrder(Append(sent, x), FALSE)
  BY <1>1, <1>2, <1>4, OrderKept
<1> HIDE DEF i
<1>6. 1 .. i = (1 .. (i - 1)) \cup {i} /\ i \notin 1 .. (i - 1)
  BY <1>1
<1>7. answered' = answered \cup {i}
  BY <1>3 DEF answered
<1>8. answered' = (1 .. i) \ unreported
  BY <1>1, <1>6, <1>7
<1> QED
  BY <1>5, <1>8 DEF i

\* The last answer of a connection that is given up.
LEMMA LastReply ==
    ASSUME PlaceInv, OrderInv, turn \in {"callback", "parse"}, m_delegate,
           UNCHANGED <<m_delegate, dropped, garbled, wire>>, ~keepGoing',
           m_outgoingBuffer' =
               Append(m_outgoingBuffer, item(unconsumed[1].req, "reply", 0))
    PROVE  OrderInv'
<1> DEFINE x == item(unconsumed[1].req, "reply", 0)
<1>1. OutputOK /\ unconsumed[1].req \in Nat
  BY PlaceParts, Ready
<1>2. x \in Items /\ isAnswer(x) /\ x.req = unconsumed[1].req /\ sent' = Append(sent, x)
  BY <1>1, ReplySent
<1> HIDE DEF x
<1>3. ~garbled => inOrder(sent', FALSE)
  BY <1>2, RepliesOne
<1> QED
  BY <1>3, HandlerOrder

LEMMA DetectorOrder ==
    ASSUME PlaceInv, OrderInv, Match \/ NeedMoreData \/ NoMatch
    PROVE  OrderInv'
<1> DEFINE b == unconsumed[1]
<1>1. /\ turn = "callback" /\ ~m_delegate /\ keepGoing /\ unconsumed # <<>>
      /\ sent = <<>> /\ unreported = {} /\ b.req = 1
      /\ dropped # <<>> => b.off > 1
  BY Ready DEF Match, NeedMoreData, NoMatch, detecting, OrderInv, DetectInv
<1>2. /\ b = data[1] /\ data \in Seq(Byte) /\ data # <<>> /\ ShapeInv /\ client \in Clients
      /\ b.off \in Nat
  <2>1. ShapeInv /\ m_incomingBuffer = <<>>
    BY <1>1 DEF PlaceInv, ShapeInv
  <2>2. /\ data \in Seq(Byte) /\ data # <<>> /\ buffered = data /\ client \in Clients
        /\ \A p \in 1 .. Len(data) : unconsumed[p] = data[p]
    BY <1>1, <2>1, Buffers
  <2>3. b = data[1]
    BY <2>2, EmptySeq
  <2>4. b.off \in Nat
    BY <1>1, <2>1, FirstByte
  <2> QED
    BY <2>1, <2>2, <2>3, <2>4
<1>3. isHttp(data) # "NoMatch" => b.off = 1 /\ dropped = <<>>
  BY <1>1, <1>2 DEF isHttp, atRequest
<1>4. CASE Match
  <2>1. /\ dropped = <<>> /\ b.off = 1
        /\ UNCHANGED <<client, incoming, data, keepGoing, m_incomingBuffer, m_state,
                       m_outgoingBuffer, wire, dropped, unreported, garbled>>
    BY <1>3, <1>4 DEF Match, call, output, history
  <2>2. m_delegate' \in BOOLEAN /\ m_delegate'
    BY <1>4 DEF Match
  <2>3. unconsumed' = unconsumed /\ sent' = sent /\ answered' = answered
    BY <2>1 DEF unconsumed, sent, answered
  <2>4. ParsingInv'
    BY <2>1, <2>3 DEF ParsingInv
  <2>5. DetectInv'
    BY <2>1, <2>2 DEF DetectInv
  <2>6. RepliesInv'
    BY <2>1, <2>3 DEF OrderInv, RepliesInv
  <2> QED
    BY <2>4, <2>5, <2>6 DEF OrderInv
<1>5. CASE NoMatch
  <2>1. UNCHANGED <<m_delegate, dropped, unreported, garbled>> /\ sent' = sent
    BY <1>5 DEF NoMatch, output, sent, httpVars, history
  <2>2. ~keepGoing'
    BY <1>5 DEF NoMatch, Returns
  <2>3. ParsingInv'
    BY <2>2 DEF ParsingInv
  <2>4. DetectInv'
    BY <1>1, <2>1, <2>2 DEF DetectInv
  <2>5. RepliesInv'
    BY <2>1, <2>2 DEF OrderInv, RepliesInv
  <2> QED
    BY <2>3, <2>4, <2>5 DEF OrderInv
<1>6. CASE NeedMoreData
  <2> DEFINE n == Len(data)
  <2>1. /\ b.off = 1 /\ n < kMethodLength /\ dropped = <<>>
        /\ dropped' = dropped \o data /\ sent' = sent
        /\ UNCHANGED <<m_delegate, unreported, garbled>>
    <3>1. n \in Nat /\ kMethodLength \in Nat
      BY <1>2, LenProperties, HttpAssumption
    <3>2. isHttp(data) = "NeedMoreData"
      BY <1>6 DEF NeedMoreData
    <3>3. n < kMethodLength
      BY <3>1, <3>2 DEF isHttp
    <3> QED
      BY <1>3, <1>6, <3>2, <3>3 DEF NeedMoreData, output, sent
  <2>2. dropped' # <<>>
    <3>1. <<>> \o data = data
      BY <1>2, ConcatEmptySeq
    <3> QED
      BY <1>2, <2>1, <3>1
  <2>3. unconsumed' = drop(unconsumed, n) /\ n \in 0 .. Len(unconsumed) /\ n \in Nat \ {0}
    BY <1>2, <1>6, DetectorDropsPlace, EmptySeq
  <2>4. n < leftFrom(script, b)
    <3>1. /\ b.req \in 1 .. Len(script) /\ b.off <= lengthOf(script[b.req])
          /\ leftFrom(script, b) = lengthOf(script[b.req]) - b.off + 1
      BY <1>1, <1>2, FirstByte
    <3>2. LET r == script[b.req]
          IN  /\ r.head \in Nat \ {0} /\ r.value \in Nat /\ r.tail = 0
              /\ r.head >= kMethodLength /\ lengthOf(r) \in Nat \ {0}
      BY <1>2, <3>1, ClientScript DEF script
    <3>3. lengthOf(script[b.req]) >= kMethodLength /\ kMethodLength \in Nat
      BY <3>2, HttpAssumption DEF lengthOf
    <3> DEFINE m == lengthOf(script[b.req])
               y == b.off
    <3>4. leftFrom(script, b) = m - y + 1 /\ y = 1 /\ m \in Nat /\ m >= kMethodLength
      BY <2>1, <3>1, <3>2, <3>3
    <3>5. n < kMethodLength /\ n \in Nat
      BY <2>1, <2>3
    <3> HIDE DEF m, y, b, n
    <3> QED
      BY <3>3, <3>4, <3>5
  <2>5. contiguous(script, unconsumed)
    BY <1>2 DEF ShapeInv
  <2> HIDE DEF n
  <2>6. unconsumed' # <<>> => unconsumed'[1] = [req |-> b.req, off |-> b.off + n]
    <3>1. drop(unconsumed, n) # <<>> => drop(unconsumed, n)[1] =
              [req |-> unconsumed[1].req, off |-> unconsumed[1].off + n]
      <4>1. /\ contiguous(script, unconsumed) /\ n \in 0 .. Len(unconsumed)
            /\ unconsumed[1].off > 0 /\ n < leftFrom(script, unconsumed[1])
        BY <2>1, <2>3, <2>4, <2>5
      <4> QED
        BY <4>1, Advance
    <3> QED
      BY <2>3, <3>1
  <2>7. unconsumed' # <<>> => unconsumed'[1].req = b.req /\ unconsumed'[1].off > 1
    BY <2>1, <2>3, <2>6
  <2>8. ParsingInv'
    BY <2>2 DEF ParsingInv
  <2>9. DetectInv'
    BY <1>1, <2>1, <2>7 DEF DetectInv
  <2>10. RepliesInv'
    BY <1>1, <2>1, <2>7 DEF OrderInv, RepliesInv, answered
  <2> QED
    BY <2>8, <2>9, <2>10 DEF OrderInv
<1> QED
  BY <1>4, <1>5, <1>6

LEMMA AppendOrder == PlaceInv /\ OrderInv /\ AppendToBuffer => OrderInv'
<1> SUFFICES ASSUME PlaceInv, OrderInv, AppendToBuffer PROVE OrderInv'
  OBVIOUS
<1>1. /\ turn = "callback" /\ m_delegate
      /\ UNCHANGED <<keepGoing, m_delegate, m_state, dropped, unreported>>
      /\ sent' = sent
  BY DEF AppendToBuffer, output, sent
<1>2. dropped = <<>>
  BY <1>1, Ready
<1>3. CASE unconsumed' = unconsumed /\ garbled' = garbled
  BY <1>1, <1>3, OrderSame
<1>4. CASE garbled'
  <2>1. ParsingInv' /\ RepliesInv'
    BY <1>4 DEF ParsingInv, RepliesInv
  <2>2. DetectInv'
    BY <1>1, <1>2 DEF DetectInv
  <2> QED
    BY <2>1, <2>2 DEF OrderInv
<1> QED
  BY <1>3, <1>4, AppendConsumes

LEMMA RequestOrder == PlaceInv /\ OrderInv /\ Request => OrderInv'
<1> SUFFICES ASSUME PlaceInv, OrderInv, Request PROVE OrderInv'
  OBVIOUS
<1> DEFINE i == unconsumed[1].req
<1>1. /\ turn = "parse" /\ UNCHANGED <<m_delegate, dropped, unreported, garbled>>
  BY DEF Request, parsing, httpVars, history
<1>2. ShapeInv /\ m_delegate /\ m_state = "ParsingHeaders"
  BY <1>1 DEF PlaceInv, ShapeInv
<1>3. buf[1].req = i /\ i \in Nat \ {0}
  BY <1>1, <1>2, AtFront, Ready
<1>4. PICK x \in Items : isAnswer(x) /\ x.req = i /\ sent' = Append(sent, x)
  <2>1. \A n \in 0 .. MaxChunks : n \in Nat
    BY ConnectionAssumption
  <2>2. \A n \in Nat : /\ item(i, "header", n) \in Items /\ isAnswer(item(i, "header", n))
                       /\ item(i, "header", n).req = i
    BY <1>3, ItemType DEF isAnswer
  <2>3. /\ item(i, "reply", 0) \in Items /\ isAnswer(item(i, "reply", 0))
        /\ item(i, "reply", 0).req = i
    BY <1>3, ItemType DEF isAnswer
  <2>4. \/ sent' = Append(sent, item(i, "reply", 0))
        \/ \E n \in 0 .. MaxChunks : sent' = Append(sent, item(i, "header", n))
    BY <1>3, RequestOutput
  <2> QED
    BY <2>1, <2>2, <2>3, <2>4
<1>5. ~garbled => inOrder(sent', FALSE) /\ answered' = (1 .. i) \ unreported
  BY <1>1, <1>4, RepliesOne
<1>6. ~garbled => unconsumed[1].off = 1 /\ unreported \subseteq 1 .. (i - 1)
  BY <1>1, <1>2, Ready
<1>7. ~garbled /\ unconsumed' # <<>> => unconsumed'[1] = [req |-> i + 1, off |-> 1]
  BY <1>2, <1>6, RequestConsumes
<1> HIDE DEF i
<1>8. ~garbled /\ unconsumed' # <<>> =>
          /\ unconsumed'[1].off = 1 /\ unconsumed'[1].req - 1 = i
          /\ unreported' \subseteq 1 .. i
  BY <1>1, <1>3, <1>6, <1>7
<1> QED
  BY <1>1, <1>2, <1>5, <1>8, HandlerOrder

LEMMA AnswersOrder ==
    ASSUME PlaceInv, OrderInv, turn = "parse", Answers(FALSE)
    PROVE  OrderInv'
<1>1. ShapeInv /\ m_delegate
  BY DEF PlaceInv, ShapeInv
<1>2. buf[1].req = unconsumed[1].req
  BY <1>1, AtFront
<1>3. /\ UNCHANGED <<m_delegate, dropped, garbled, wire>>
      /\ m_outgoingBuffer' = Append(m_outgoingBuffer, item(unconsumed[1].req, "reply", 0))
  BY <1>2 DEF Answers, queueResponse, httpVars, history
<1>4. ~keepGoing'
  BY DEF Answers, Returns
<1> QED
  BY <1>1, <1>3, <1>4, LastReply

LEMMA BeginUploadOrder == PlaceInv /\ OrderInv /\ BeginUpload => OrderInv'
<1> SUFFICES ASSUME PlaceInv, OrderInv, BeginUpload PROVE OrderInv'
  OBVIOUS
<1> DEFINE k == script[buf[1].req].head
           u == drop(unconsumed, k)
<1>1. /\ turn = "parse" /\ holdsLargeHead(buf) /\ m_state' = "StreamingBody"
      /\ UNCHANGED <<m_delegate, dropped, unreported, garbled>> /\ sent' = sent
  BY DEF BeginUpload, parsing, output, sent, history
<1>2. ShapeInv /\ m_delegate
  BY <1>1 DEF PlaceInv, ShapeInv
<1>3. /\ (<<>> \o drop(buf, k)) \o incoming = u
      /\ u # <<>> => u[1] = [req |-> buf[1].req, off |-> k + 1]
  BY <1>1, <1>2, BeginConsumes
<1>4. buf[1] = unconsumed[1] /\ first(buf) = script[buf[1].req]
  BY <1>1, <1>2, AtFront
<1>5. m_incomingBuffer' = <<>> /\ incoming' = incoming /\ data' = drop(buf, k)
  BY <1>4 DEF BeginUpload, PassesOn, Returns
<1>6. unconsumed' = u
  BY <1>3, <1>5 DEF unconsumed
<1>7. unconsumed' # <<>> => unconsumed'[1].req = unconsumed[1].req
  BY <1>3, <1>4, <1>6
<1>8. answered' = answered
  BY <1>1 DEF answered
<1>9. ~garbled => /\ inOrder(sent, FALSE)
                  /\ unreported \subseteq 1 .. (unconsumed[1].req - 1)
                  /\ answered = (1 .. (unconsumed[1].req - 1)) \ unreported
  BY <1>1, Ready
<1> QED
  BY <1>1, <1>2, <1>7, <1>8, <1>9, HandlerOrder

LEMMA ContinueStreamingOrder == PlaceInv /\ OrderInv /\ ContinueStreamingBody => OrderInv'
<1> SUFFICES ASSUME PlaceInv, OrderInv, ContinueStreamingBody PROVE OrderInv'
  OBVIOUS
<1>1. /\ turn = "callback" /\ m_state = "StreamingBody" /\ m_state' = m_state
      /\ UNCHANGED <<m_delegate, dropped, unreported, garbled>> /\ sent' = sent
  BY DEF ContinueStreamingBody, output, sent, history
<1>2. m_delegate
  BY <1>1, PlaceParts DEF DetectorOK
<1>3. unconsumed' # <<>> => unconsumed'[1].req = unconsumed[1].req
  BY ContinueStreamingPlace
<1>4. answered' = answered
  BY <1>1 DEF answered
<1>5. ~garbled => /\ inOrder(sent, FALSE)
                  /\ unreported \subseteq 1 .. (unconsumed[1].req - 1)
                  /\ answered = (1 .. (unconsumed[1].req - 1)) \ unreported
  BY <1>1, Ready
<1> QED
  BY <1>1, <1>2, <1>3, <1>4, <1>5, HandlerOrder

LEMMA FinishStreamingOrder == PlaceInv /\ OrderInv /\ FinishStreamingBody => OrderInv'
<1> SUFFICES ASSUME PlaceInv, OrderInv, FinishStreamingBody PROVE OrderInv'
  OBVIOUS
<1> DEFINE i == unconsumed[1].req
<1>1. /\ turn = "callback" /\ m_state = "StreamingBody"
      /\ UNCHANGED <<m_delegate, dropped, garbled, wire>>
      /\ \/ /\ m_outgoingBuffer' = Append(m_outgoingBuffer,
                                          item(m_activeSession.req, "reply", 0))
            /\ unreported' = unreported
         \/ /\ unreported' = unreported \cup {m_activeSession.req}
            /\ m_outgoingBuffer' = m_outgoingBuffer
  BY DEF FinishStreamingBody, queueResponse
<1>2. m_delegate /\ OutputOK
  BY <1>1, PlaceParts DEF DetectorOK
<1>3. m_activeSession.req = i
  BY <1>1, StreamingPlace
<1>4. unconsumed' # <<>> => unconsumed'[1] = [req |-> i + 1, off |-> 1]
  BY FinishStreamingPlace
<1>5. /\ i \in Nat \ {0}
      /\ ~garbled => /\ inOrder(sent, FALSE)
                     /\ unreported \subseteq 1 .. (i - 1)
                     /\ answered = (1 .. (i - 1)) \ unreported
  BY <1>1, Ready
<1>6. ~garbled => /\ inOrder(sent', FALSE)
                  /\ unreported' \subseteq 1 .. i
                  /\ answered' = (1 .. i) \ unreported'
  <2>1. CASE /\ m_outgoingBuffer' = Append(m_outgoingBuffer, item(i, "reply", 0))
             /\ unreported' = unreported
    <3> DEFINE x == item(i, "reply", 0)
    <3>1. x \in Items /\ isAnswer(x) /\ x.req = i /\ sent' = Append(sent, x)
      BY <1>1, <1>2, <1>5, <2>1, ReplySent
    <3> HIDE DEF x
    <3>2. ~garbled => inOrder(sent', FALSE) /\ answered' = (1 .. i) \ unreported
      BY <1>1, <3>1, RepliesOne
    <3> HIDE DEF i
    <3>3. ~garbled => unreported \subseteq 1 .. i
      BY <1>5
    <3> QED
      BY <2>1, <3>2, <3>3
  <2>2. CASE unreported' = unreported \cup {i} /\ m_outgoingBuffer' = m_outgoingBuffer
    <3>1. sent' = sent /\ answered' = answered
      BY <1>1, <2>2 DEF sent, answered
    <3> HIDE DEF i
    <3>2. 1 .. i = (1 .. (i - 1)) \cup {i} /\ i \notin 1 .. (i - 1)
      BY <1>5
    <3> QED
      BY <1>5, <2>2, <3>1, <3>2
  <2> QED
    BY <1>1, <1>3, <2>1, <2>2
<1> HIDE DEF i
<1>7. unconsumed' # <<>> => unconsumed'[1].off = 1 /\ unconsumed'[1].req - 1 = i
  BY <1>4, <1>5
<1> QED
  BY <1>1, <1>2, <1>6, <1>7, HandlerOrder

LEMMA WriteFailsOrder == PlaceInv /\ OrderInv /\ WriteFails => OrderInv'
<1> SUFFICES ASSUME PlaceInv, OrderInv, WriteFails PROVE OrderInv'
  OBVIOUS
<1>1. turn = "callback" /\ m_state = "StreamingBody"
  BY DEF WriteFails
<1>2. m_delegate
  BY <1>1, PlaceParts DEF DetectorOK
<1>3. m_activeSession.req = unconsumed[1].req
  BY <1>1, StreamingPlace
<1>4. /\ UNCHANGED <<m_delegate, dropped, garbled, wire>>
      /\ m_outgoingBuffer' = Append(m_outgoingBuffer, item(unconsumed[1].req, "reply", 0))
  BY <1>3 DEF WriteFails, queueResponse, history
<1>5. ~keepGoing'
  BY DEF WriteFails, Returns
<1> QED
  BY <1>1, <1>2, <1>4, <1>5, LastReply

\* Chunks are not answers, and are sent only once the detector has chosen.
LEMMA TakeOutgoingOrder ==
    PlaceInv /\ ObjectsInv /\ OrderInv /\ TakeOutgoingBytes => OrderInv'
<1> SUFFICES ASSUME PlaceInv, ObjectsInv, OrderInv, TakeOutgoingBytes PROVE OrderInv'
  OBVIOUS
<1> DEFINE r == m_activeReadSession
<1>1. OutputOK
  BY PlaceParts
<1>2. /\ UNCHANGED <<client, incoming, data, keepGoing, m_incomingBuffer, m_delegate, m_state,
                     dropped, unreported, garbled>>
  BY DEF TakeOutgoingBytes, call, httpVars, history
<1>3. unconsumed' = unconsumed
  BY <1>2 DEF unconsumed
<1>4. CASE sent' = sent
  BY <1>2, <1>3, <1>4, OrderSame
<1>5. CASE /\ r \in [req : Nat, chunks : 0 .. MaxChunks] /\ r # None /\ r.chunks > 0
           /\ sent' = Append(sent, item(r.req, "chunk", r.chunks - 1))
  <2> DEFINE x == item(r.req, "chunk", r.chunks - 1)
  <2>1. r.req \in Nat /\ r.chunks - 1 \in Nat
    BY <1>5, ConnectionAssumption
  <2>2. x \in Items /\ x.part = "chunk"
    BY <2>1, ItemType
  <2> HIDE DEF x
  <2>3. ~isAnswer(x)
    BY <2>2 DEF isAnswer
  <2>4. sent \in Seq(Items) /\ sent' = Append(sent, x)
    BY <1>1, <1>5, SentType DEF x
  <2>5. repliedIn(Append(sent, x)) = repliedIn(sent)
    BY <2>2, <2>3, <2>4, AppendItem
  <2>6. answered' = answered
    BY <2>4, <2>5 DEF answered
  <2>7. inOrder(sent, FALSE) => inOrder(Append(sent, x), FALSE)
    BY <2>2, <2>3, <2>4, OrderKept
  <2>8. m_delegate
    BY <1>5 DEF ObjectsInv, OrderInv, DetectInv
  <2>9. ParsingInv'
    BY <1>2, <1>3 DEF OrderInv, ParsingInv
  <2>10. DetectInv'
    BY <1>2, <1>3, <2>8 DEF OrderInv, DetectInv
  <2>11. RepliesInv'
    BY <1>2, <1>3, <2>4, <2>6, <2>7 DEF OrderInv, RepliesInv
  <2> QED
    BY <2>9, <2>10, <2>11 DEF OrderInv
<1> QED
  BY <1>1, <1>4, <1>5, TakeOutgoing

LEMMA InitOrder == Init => OrderInv
<1> SUFFICES ASSUME Init PROVE OrderInv
  OBVIOUS
<1>1. /\ client \in Clients /\ incoming = streamOf(script)
      /\ data = <<>> /\ m_incomingBuffer = <<>>
      /\ m_outgoingBuffer = <<>> /\ wire = <<>>
      /\ dropped = <<>> /\ unreported = {}
  BY DEF Init, ConnectionInit
<1>2. script \in Script
  BY <1>1, ClientScript DEF script
<1>3. incoming \in Seq(Byte)
  BY <1>1, <1>2, StreamByte
<1>4. (<<>> \o <<>>) \o incoming = incoming
  BY <1>3, ConcatEmptySeq, EmptySeq
<1>5. unconsumed = incoming
  BY <1>1, <1>4 DEF unconsumed
<1>6. unconsumed # <<>> => unconsumed[1].req = 1 /\ unconsumed[1].off = 1
  <2>1. unconsumed # <<>> => unconsumed[1] = [req |-> 1, off |-> 1]
    BY <1>1, <1>2, <1>5, StreamBegins
  <2> QED
    BY <2>1
<1>7. sent = <<>>
  BY <1>1, ConcatEmptySeq, EmptySeq DEF sent
<1>8. DOMAIN sent = {}
  <2>1. Len(sent) = 0 /\ sent \in Seq(Items)
    BY <1>7, EmptySeq
  <2>2. DOMAIN sent = 1 .. 0
    BY <2>1, LenProperties
  <2> QED
    BY <2>2
<1>9. answered = {} /\ inOrder(sent, FALSE)
  BY <1>8 DEF answered, repliedIn, inOrder
<1>10. ParsingInv
  BY <1>6 DEF ParsingInv
<1>11. DetectInv
  BY <1>1, <1>6, <1>7 DEF DetectInv
<1>12. RepliesInv
  <2>1. 1 .. (1 - 1) = {}
    OBVIOUS
  <2> QED
    BY <1>1, <1>6, <1>9, <2>1 DEF RepliesInv
<1> QED
  BY <1>10, <1>11, <1>12 DEF OrderInv

LEMMA NextOrder == PlaceInv /\ ObjectsInv /\ OrderInv /\ [Next]_vars => OrderInv'
<1> SUFFICES ASSUME PlaceInv, ObjectsInv, OrderInv, [Next]_vars PROVE OrderInv'
  OBVIOUS
<1>1. CASE UNCHANGED vars
  <2>1. /\ UNCHANGED <<incoming, data, keepGoing, m_incomingBuffer, m_outgoingBuffer, wire>>
        /\ UNCHANGED <<m_delegate, m_state, dropped, unreported, garbled>>
    BY <1>1 DEF vars, call, output, httpVars, history
  <2>2. unconsumed' = unconsumed /\ sent' = sent
    BY <2>1 DEF unconsumed, sent
  <2> QED
    BY <2>1, <2>2, OrderSame
<1>2. CASE Receive
  <2>1. unconsumed' = unconsumed
    BY <1>2, ReceiveConsumes DEF PlaceInv
  <2>2. /\ UNCHANGED <<keepGoing, m_delegate, m_state, dropped, unreported, garbled>>
        /\ sent' = sent
    BY <1>2 DEF Receive, Receives, output, sent, httpVars, history
  <2> QED
    BY <2>1, <2>2, OrderSame
<1>3. CASE Written
  <2>1. /\ UNCHANGED <<incoming, data, keepGoing, m_incomingBuffer, m_outgoingBuffer, wire>>
        /\ UNCHANGED <<m_delegate, m_state, dropped, unreported, garbled>>
    BY <1>3 DEF Written, ReadsOn, output, httpVars, history
  <2>2. unconsumed' = unconsumed /\ sent' = sent
    BY <2>1 DEF unconsumed, sent
  <2> QED
    BY <2>1, <2>2, OrderSame
<1>4. CASE NeedsMore
  <2>1. unconsumed' = unconsumed
    BY <1>4, NeedsMorePlace
  <2>2. /\ UNCHANGED <<m_delegate, m_state, dropped, unreported, garbled>>
        /\ sent' = sent /\ turn = "parse"
    BY <1>4 DEF NeedsMore, parsing, output, sent, httpVars, history
  <2>3. keepGoing
    BY <2>2, Ready
  <2> QED
    BY <2>1, <2>2, <2>3, OrderSame
<1>5. CASE Malformed \/ BeginRefused
  BY <1>5, AnswersOrder DEF Malformed, BeginRefused, parsing
<1> QED
  BY <1>1, <1>2, <1>3, <1>4, <1>5, DetectorOrder, AppendOrder, RequestOrder,
     BeginUploadOrder, ContinueStreamingOrder, FinishStreamingOrder, WriteFailsOrder,
     TakeOutgoingOrder DEF Next, Handler

\* The three invariants together.
LEMMA HttpInvariant == Spec => [](PlaceInv /\ ObjectsInv /\ OrderInv)
  BY InitPlace, NextPlace, InitObjects, NextObjects, InitOrder, NextOrder, PTL DEF Spec

\* The handler keeps its place in the client's stream: the next byte it looks
\* at is the first of a request while onBytesReceived parses headers, and the
\* one m_bodyBytesRemaining says while a body is streamed, for any number of
\* uploads and pipelined requests and any cut of the stream.
THEOREM HttpFramingKept == Spec => []FramingKept
<1>1. PlaceInv /\ OrderInv => FramingKept
  <2> SUFFICES ASSUME PlaceInv, OrderInv, unconsumed # <<>>, keepGoing,
                      dropped = <<>>, ~garbled
               PROVE  IF m_state = "ParsingHeaders" THEN unconsumed[1].off = 1
                      ELSE /\ unconsumed[1].req = m_activeSession.req
                           /\ lengthOf(script[unconsumed[1].req]) - unconsumed[1].off + 1
                                  = m_bodyBytesRemaining
    BY DEF FramingKept
  <2>1. CASE m_state = "ParsingHeaders"
    BY <2>1 DEF OrderInv, ParsingInv
  <2>2. CASE m_state # "ParsingHeaders"
    <3> DEFINE i == m_activeSession.req
               h == script[i].head
               x == script[i].value
               v == m_bodyBytesRemaining
    <3>1. m_state = "StreamingBody" /\ v \in Nat /\ client \in Clients
      BY <2>2, PlaceParts DEF StateOK, InputOK
    <3>2. /\ i \in 1 .. Len(script) /\ v <= x
          /\ unconsumed[1] = [req |-> i, off |-> h + (x - v) + 1]
      BY <3>1 DEF PlaceInv, StreamingInv
    <3>3. h \in Nat /\ x \in Nat /\ script[i].tail = 0
      BY <3>1, <3>2, ClientScript DEF script
    <3>4. lengthOf(script[i]) = h + x
      BY <3>3 DEF lengthOf
    <3>5. unconsumed[1].req = i /\ unconsumed[1].off = h + (x - v) + 1
      BY <3>2
    <3> HIDE DEF i, h, x, v
    <3>6. (h + x) - (h + (x - v) + 1) + 1 = v
      BY <3>1, <3>3
    <3>7. lengthOf(script[unconsumed[1].req]) - unconsumed[1].off + 1 = v
      BY <3>4, <3>5, <3>6
    <3> QED
      BY <2>2, <3>5, <3>7 DEF i, v
  <2> QED
    BY <2>1, <2>2
<1> QED
  BY <1>1, HttpInvariant, PTL

\* Requests are answered once and in their order, none is answered before it
\* has been received whole and none is skipped: the requests before the next
\* byte's are exactly those answered, but for the uploads whose finish
\* failed, to which finishStreamingBody queues nothing.
THEOREM HttpRepliesInOrder == Spec => []RepliesInOrder
<1>1. OrderInv => RepliesInOrder
  BY DEF OrderInv, RepliesInv, RepliesInOrder
<1> QED
  BY <1>1, HttpInvariant, PTL

\* Once ProtocolDetectorHandler has let bytes go while it waited for more, no
\* handler is chosen and nothing is sent on this connection: isHttp finds no
\* method where the next bytes begin.
THEOREM HttpNothingFromTheMiddle == Spec => []NothingFromTheMiddle
<1>1. OrderInv => NothingFromTheMiddle
  BY DEF OrderInv, DetectInv, NothingFromTheMiddle
<1> QED
  BY <1>1, HttpInvariant, PTL

=============================================================================
