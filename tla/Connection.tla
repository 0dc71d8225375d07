----------------------------- MODULE Connection -----------------------------
(***************************************************************************)
(* What the two protocol handlers have in common: a client that sends a    *)
(* script of requests, Session around the handler (it reads a buffer,      *)
(* calls onBytesReceived, writes all that the handler has to send, and     *)
(* reads again), and the order of what is sent.                            *)
(*                                                                         *)
(* A byte is known by the request it belongs to and its offset there; what *)
(* a byte says matters only through the kind of its request.  A request    *)
(* is [kind, head, value, tail]: lengths up to its large value, of that    *)
(* value and of what ends it; other requests have a head only.             *)
(***************************************************************************)
EXTENDS Integers, Sequences

CONSTANTS
    Clients,        \* [script, pipelining, faults]: what a client sends, if it
                    \* sends before it has its answers, what fails meanwhile
    BufferSize,     \* the size of Session's m_buffer
    MaxChunks,      \* bound: the most chunks one object is read in
    None

\* Only a large value is told apart from its request, and kStreamingThreshold
\* is above the size of m_buffer.
ASSUME ConnectionAssumption ==
    /\ BufferSize \in Nat \ {0} /\ MaxChunks \in Nat
    /\ None \notin [req : Nat, chunks : Nat]
    /\ \A c \in Clients :
           /\ c.script \in Seq([kind : STRING, head : Nat \ {0}, value : Nat, tail : Nat])
           /\ \A i \in DOMAIN c.script :
                  LET r == c.script[i]
                  IN  IF r.kind = "large" THEN r.value > BufferSize
                                          ELSE r.value = 0 /\ r.tail = 0

VARIABLES
    client,         \* the client of this connection
    incoming,       \* bytes the socket has not delivered
    data,           \* the argument of the current call
    view,           \* 0, or where data starts in the former m_incomingBuffer
    turn,           \* "read", "callback", "parse" (inside a callback), "write"
                    \* or "closed": what Session does
    keepGoing,      \* the result of the last onBytesReceived
    m_incomingBuffer,
    m_activeSession,            \* [req, bytes]: the upload, or None
    m_activeReadSession,        \* [req, chunks]: the download, or None
    m_outgoingBuffer,
    wire                        \* history: what the socket was given

call == <<data, view, turn, keepGoing>>
output == <<m_activeReadSession, m_outgoingBuffer, wire>>

least(a, b) == IF a <= b THEN a ELSE b
drop(s, k) == SubSeq(s, k + 1, Len(s))

-----------------------------------------------------------------------------
(* The client's bytes *)

script == client.script
lengthOf(r) == r.head + r.value + r.tail

\* Where the requests of a script end.
endsOf(s) ==
    LET end[i \in 0 .. Len(s)] == IF i = 0 THEN 0 ELSE end[i - 1] + lengthOf(s[i])
    IN  end

streamOf(s) ==
    LET end == endsOf(s)
        requestAt(p) == CHOOSE i \in 1 .. Len(s) : end[i - 1] < p /\ p <= end[i]
    IN  [p \in 1 .. end[Len(s)] |->
            [req |-> requestAt(p), off |-> p - end[requestAt(p) - 1]]]

Byte == [req : Nat, off : Nat]

atRequest(buf) == buf[1].off = 1
first(buf) == script[buf[1].req]

\* The buffer holds a request up to its large value.
holdsLargeHead(buf) ==
    /\ atRequest(buf)
    /\ first(buf).kind = "large"
    /\ Len(buf) >= first(buf).head

\* What the handler has not consumed yet.
unconsumed == m_incomingBuffer \o data \o incoming

-----------------------------------------------------------------------------
(* What is sent *)

\* A reply, or a part of an object that is streamed out; left counts the
\* parts of the object still to come.
Items == [req : Nat, part : {"reply", "header", "chunk", "end"}, left : Nat]
item(i, part, left) == [req |-> i, part |-> part, left |-> left]

sent == wire \o m_outgoingBuffer
isAnswer(x) == x.part \in {"reply", "header"}
repliedIn(w) == {w[k].req : k \in {j \in DOMAIN w : isAnswer(w[j])}}
answered == repliedIn(sent)

\* Answers come in the order of their requests, several to one request only
\* where ties are allowed.
inOrder(w, ties) ==
    \A j, k \in DOMAIN w :
        j < k /\ isAnswer(w[j]) /\ isAnswer(w[k]) =>
            w[j].req < w[k].req \/ (ties /\ w[j].req = w[k].req)

\* A client that does not pipeline sends request i when the earlier ones are
\* answered.
maySend(i) ==
    \/ client.pipelining
    \/ \A j \in 1 .. (i - 1) : script[j].kind = "empty" \/ j \in answered

queueResponse(x) == m_outgoingBuffer' = Append(m_outgoingBuffer, x)

-----------------------------------------------------------------------------
(* Session around the handler *)

\* async_read_some completes with up to BufferSize bytes.
Receives ==
    /\ turn = "read"
    /\ \E k \in 1 .. least(BufferSize, Len(incoming)) :
           /\ \A p \in 1 .. k : maySend(incoming[p].req)
           /\ data' = SubSeq(incoming, 1, k)
           /\ incoming' = drop(incoming, k)
    /\ turn' = "callback" /\ view' = 0
    /\ UNCHANGED <<client, keepGoing, m_incomingBuffer, m_activeSession, output>>

\* onBytesReceived returns to Session.
Returns(result) ==
    /\ turn' = "write" /\ keepGoing' = result
    /\ data' = <<>> /\ view' = 0

\* The rest of the data, if any, goes to the next call.
PassesOn(rest, at) ==
    IF rest = <<>> THEN Returns(TRUE)
    ELSE data' = rest /\ view' = at /\ turn' = "callback" /\ UNCHANGED keepGoing

\* Slip: Session reads on without asking hasMoreToSend.
ReadsOnEarly ==
    /\ turn = "write" /\ m_outgoingBuffer = <<>>
    /\ turn' = IF keepGoing THEN "read" ELSE "closed"
    /\ UNCHANGED <<client, incoming, data, view, keepGoing, m_incomingBuffer,
                   m_activeSession, output>>

\* Nothing to write and hasMoreToSend is false: Session reads, or closes.
ReadsOn ==
    /\ turn = "write" /\ m_outgoingBuffer = <<>> /\ m_activeReadSession = None
    /\ turn' = IF keepGoing THEN "read" ELSE "closed"
    /\ UNCHANGED <<client, incoming, data, view, keepGoing, m_incomingBuffer,
                   m_activeSession, output>>

-----------------------------------------------------------------------------
ConnectionInit ==
    /\ client \in Clients
    /\ incoming = streamOf(script)
    /\ data = <<>> /\ view = 0 /\ turn = "read" /\ keepGoing = TRUE
    /\ m_incomingBuffer = <<>> /\ m_activeSession = None
    /\ m_activeReadSession = None /\ m_outgoingBuffer = <<>> /\ wire = <<>>

ConnectionTypeOK ==
    /\ client \in Clients
    /\ {incoming, data, m_incomingBuffer} \subseteq Seq(Byte)
    /\ view \in Nat /\ keepGoing \in BOOLEAN
    /\ turn \in {"read", "callback", "parse", "write", "closed"}
    /\ turn = "callback" <=> data # <<>>
    /\ m_activeSession \in [req : Nat, bytes : Seq(Byte)] \cup {None}
    /\ m_activeReadSession \in [req : Nat, chunks : 0 .. MaxChunks] \cup {None}
    /\ {m_outgoingBuffer, wire} \subseteq Seq(Items)

\* The bytes of a value up to the ones that are still to come.
valueUpTo(i, remaining) ==
    [p \in 1 .. (script[i].value - remaining) |->
        [req |-> i, off |-> script[i].head + p]]

\* An upload that was finished had been given the whole value of its request.
givenAll(u) == u # None => u.bytes = valueUpTo(u.req, 0)

\* An object is sent as one piece: from its header to its last part nothing
\* else is queued, and no part is missing.  pumpReadSession adds to the same
\* m_outgoingBuffer as the replies, and Session asks for it only once that
\* is empty.
ObjectsUnbroken ==
    \A k \in 1 .. (Len(sent) - 1) :
        LET x == sent[k]
            y == sent[k + 1]
        IN  IF x.left > 0 THEN y.req = x.req /\ y.left = x.left - 1 /\ y.part # "header"
                          ELSE y.part \in {"reply", "header"}
=============================================================================
