------------------------------ MODULE Session -------------------------------
(***************************************************************************)
(* One connection of Core/Net: Server::doAccept hands the socket to a      *)
(* Session, which alternates between reading a buffer, passing it to the   *)
(* protocol handler and writing what the handler has queued, with an idle  *)
(* timer on the side.                                                      *)
(*                                                                         *)
(* A completion handler is a step.  The protocol handler behind            *)
(* onBytesReceived is seen through IProtocolHandler: whether it wants to   *)
(* go on, whether it queued output, and how many chunks the object it      *)
(* streams still has.                                                      *)
(***************************************************************************)
EXTENDS Integers

CONSTANTS
    MaxChunks,  \* bound: the most chunks one object is read in
    None        \* nothing

ASSUME SessionAssumption ==
    /\ MaxChunks \in Nat
    /\ None \notin Nat
    /\ None \notin {"accept", "read", "write", "drain", "post"}

VARIABLES
    op,         \* the operation outstanding on m_socket
    keepGoing,  \* keepGoingAfterWrite of the write in progress
    timer,      \* async_wait of m_idleTimer: waiting, or done but not yet
                \* dispatched ("expired"), or not outstanding ("off")
    socket,     \* "open", "half" (nothing more is sent) or "closed"
    protocol,   \* the handler the first bytes selected
    stream,     \* chunks left of the object being sent, or None
    client,     \* "sending", "quiet" (reads only), "stalled" or "gone"
    heard       \* history: bytes have arrived on this connection

vars == <<op, keepGoing, timer, socket, protocol, stream, client, heard>>

TypeOK ==
    /\ op \in {"accept", "read", "write", "drain", "post", None}
    /\ keepGoing \in BOOLEAN
    /\ timer \in {"off", "waiting", "expired"}
    /\ socket \in {"open", "half", "closed"}
    /\ protocol \in {"resp", "http", None}
    /\ stream \in (0 .. MaxChunks) \cup {None}
    /\ client \in {"sending", "quiet", "stalled", "gone"}
    /\ heard \in BOOLEAN

Init ==
    /\ op = "accept" /\ keepGoing = TRUE /\ timer = "off" /\ socket = "open"
    /\ protocol = None /\ stream = None
    /\ client = "sending" /\ heard = FALSE

-----------------------------------------------------------------------------
(* Timer and socket *)

\* Both cancel and expires_after abort a wait that has not completed; one
\* that has is dispatched all the same.
cancelled(t) == IF t = "waiting" THEN "off" ELSE t

\* The session ends: no operation is left outstanding on the socket.
finish == op' = None /\ socket' = "closed"

-----------------------------------------------------------------------------
(* takeOutgoingBytes of both handlers *)

\* Slip: the end of the object is noticed one chunk late.
takeTooFar(o, s, p) ==
    IF o \/ s = None THEN [sent |-> o, stream |-> s]
    ELSE [sent |-> TRUE, stream |-> s - 1]

\* Slip: at the end of the object the HTTP handler forgets m_streamingRead.
takeStuck(o, s, p) ==
    IF o \/ s = None THEN [sent |-> o, stream |-> s]
    ELSE IF s > 0 THEN [sent |-> TRUE, stream |-> s - 1]
    ELSE [sent |-> p = "resp", stream |-> IF p = "resp" THEN None ELSE 0]

\* With nothing queued, the next chunk is pumped.  At the end of the object
\* RESP sends a final CRLF, HTTP nothing.
take(o, s, p) ==
    IF o \/ s = None THEN [sent |-> o, stream |-> s]
    ELSE IF s > 0 THEN [sent |-> TRUE, stream |-> s - 1]
    ELSE [sent |-> p = "resp", stream |-> None]

-----------------------------------------------------------------------------
(* Session *)

\* The connection is read again, or drained and closed.
nextRequest(t, keep) ==
    IF keep THEN op' = "read" /\ timer' = t /\ UNCHANGED socket
    ELSE /\ op' = "drain" /\ timer' = cancelled(t)
         /\ socket' = IF socket = "open" THEN "half" ELSE socket

\* doWrite with timer t, handler output o and stream s.  An exception of the
\* handler closes the connection.  What it posts would call it again with the
\* handler as it is: NeverSpins shows that it never comes to that.
doWrite(t, keep, o, s, p) ==
    LET taken == take(o, s, p)
    IN  /\ keepGoing' = keep
        /\ \/ /\ stream' = taken.stream
              /\ \/ /\ taken.sent
                    /\ op' = "write" /\ timer' = t /\ UNCHANGED socket
                 \/ /\ ~taken.sent /\ taken.stream # None
                    /\ op' = "post" /\ timer' = t /\ UNCHANGED socket
                 \/ /\ ~taken.sent /\ taken.stream = None
                    /\ nextRequest(t, keep)
           \/ /\ stream' = s
              /\ timer' = cancelled(t)
              /\ finish

\* Server::doAccept, Session::start
Accept ==
    /\ op = "accept"
    /\ timer' = "waiting"
    /\ op' = "read"
    /\ UNCHANGED <<keepGoing, socket, protocol, stream, client, heard>>

\* What onBytesReceived may do once the protocol is p: keep is its result, o
\* whether it queued a response, s the chunks of the object it starts to
\* send.  It streams only after queueing the header, and an HTTP request is
\* refused with a response.
outcome(p, keep, o, s) ==
    /\ s # None => o /\ keep
    /\ p = "http" /\ ~keep => o
    /\ p = None => ~o /\ s = None

\* The detector waits for more bytes, picks a handler or gives up; the handler
\* takes the bytes.
ReadBytes ==
    /\ op = "read" /\ socket = "open" /\ client = "sending"
    /\ heard' = TRUE
    /\ \E p \in IF protocol = None THEN {"resp", "http", None} ELSE {protocol},
          keep \in BOOLEAN, o \in BOOLEAN, s \in (0 .. MaxChunks) \cup {None} :
           /\ outcome(p, keep, o, s)
           /\ protocol' = p
           /\ doWrite(cancelled(timer), keep, o, s, p)
    /\ UNCHANGED client

\* onBytesReceived throws, as keys() does when the directory walk fails.
ReadThrows ==
    /\ op = "read" /\ socket = "open" /\ client = "sending"
    /\ heard' = TRUE
    /\ timer' = cancelled(timer)
    /\ finish
    /\ UNCHANGED <<keepGoing, protocol, stream, client>>

ReadFails ==
    /\ op = "read" /\ (socket = "closed" \/ client = "gone")
    /\ timer' = cancelled(timer)
    /\ finish
    /\ UNCHANGED <<keepGoing, protocol, stream, client, heard>>

\* Slip: hasMoreToSend is not asked when a write completes.
WriteDoneStops ==
    /\ op = "write" /\ socket = "open" /\ client # "gone"
    /\ nextRequest(timer, keepGoing)
    /\ UNCHANGED <<keepGoing, protocol, stream, client, heard>>

\* takeOutgoingBytes left nothing queued: only the object may have more to send.
WriteDone ==
    /\ op = "write" /\ socket = "open" /\ client # "gone"
    /\ IF stream # None
       THEN doWrite(timer, keepGoing, FALSE, stream, protocol)
       ELSE nextRequest(timer, keepGoing) /\ UNCHANGED <<keepGoing, stream>>
    /\ UNCHANGED <<protocol, client, heard>>

WriteFails ==
    /\ op = "write" /\ (socket = "closed" \/ client = "gone")
    /\ timer' = cancelled(timer)
    /\ finish
    /\ UNCHANGED <<keepGoing, protocol, stream, client, heard>>

\* Slip: draining goes on after the read has failed.
DrainLoops ==
    /\ op = "drain" /\ (socket = "closed" \/ client = "gone")
    /\ UNCHANGED vars

\* drainAndClose reads and discards until the client closes.
DrainEnds ==
    /\ op = "drain" /\ (socket = "closed" \/ client = "gone")
    /\ finish
    /\ UNCHANGED <<keepGoing, timer, protocol, stream, client, heard>>

\* kIdleTimeout has passed since the wait began.
TimerExpires ==
    /\ timer = "waiting"
    /\ timer' = "expired"
    /\ UNCHANGED <<op, keepGoing, socket, protocol, stream, client, heard>>

\* Slip: the handler of the wait does not close the socket.
TimerIgnored ==
    /\ timer = "expired"
    /\ timer' = "off"
    /\ UNCHANGED <<op, keepGoing, socket, protocol, stream, client, heard>>

\* The handler of the wait: closeSocket.
TimerFires ==
    /\ timer = "expired"
    /\ timer' = "off"
    /\ socket' = "closed"
    /\ UNCHANGED <<op, keepGoing, protocol, stream, client, heard>>

\* The peer stops sending, stops reading, or closes.
ClientChanges ==
    /\ op # "accept"
    /\ \/ client = "sending" /\ client' \in {"quiet", "stalled", "gone"}
       \/ client \in {"quiet", "stalled"} /\ client' = "gone"
    /\ UNCHANGED <<op, keepGoing, timer, socket, protocol, stream, heard>>

Next == \/ Accept \/ ReadBytes \/ ReadThrows \/ ReadFails
        \/ WriteDone \/ WriteFails \/ DrainEnds
        \/ TimerExpires \/ TimerFires \/ ClientChanges

-----------------------------------------------------------------------------
(***************************************************************************)
(* io_context::run dispatches every completion, time passes, and a write   *)
(* completes when the peer reads.  Nothing obliges the peer to send or to  *)
(* close.                                                                  *)
(***************************************************************************)
Fairness ==
    /\ WF_vars(Accept)
    /\ WF_vars(ReadFails) /\ WF_vars(WriteFails) /\ WF_vars(DrainEnds)
    /\ WF_vars(client # "stalled" /\ WriteDone)
    /\ WF_vars(TimerExpires) /\ WF_vars(TimerFires)

Spec == Init /\ [][Next]_vars /\ Fairness

-----------------------------------------------------------------------------
(* Properties *)

ended == op = None

\* A session waits for new requests, or shuts its side of the socket down, only
\* when no object is half sent: onBytesReceived never runs while a read session
\* is active, and no object is cut off by drainAndClose.
RequestsInOrder == op \in {"read", "drain"} => stream = None

\* takeOutgoingBytes has nothing to send only when hasMoreToSend is false, so
\* doWrite never posts itself in a loop.
NeverSpins == op # "post"

\* Once the peer is gone the session is released: no operation on the socket
\* and no timer keeps it alive.
SessionReleased == client = "gone" ~> (ended /\ timer = "off")

\* A peer that connects and never sends anything is disconnected.
SilentPeerDropped == (op = "read" /\ ~heard) ~> (heard \/ ended)

\* An object whose header was sent is sent to its end, unless the connection
\* ends or the peer stops reading.
ObjectSent == stream # None ~> (stream = None \/ ended \/ client = "stalled")

\* A connection on which the peer has fallen silent between requests, or in
\* the middle of one, is closed when the idle timeout has passed.
IdleConnectionCloses == (client = "quiet" /\ op = "read") ~> ended

=============================================================================
