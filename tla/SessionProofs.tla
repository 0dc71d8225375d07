--------------------------- MODULE SessionProofs ----------------------------
(***************************************************************************)
(* Proofs about one connection, for objects of any number of chunks and    *)
(* whatever the protocol handler answers.                                  *)
(***************************************************************************)
EXTENDS Session, TLAPS

-----------------------------------------------------------------------------
\* An object is still to be sent only while a write is in progress, or when
\* the connection has ended before its time.
SessionInv ==
    /\ TypeOK
    /\ op \in {"accept", "read", "drain"} => stream = None
    /\ op # "post"

\* What takeOutgoingBytes leaves is an object or none.
LEMMA TakeStream ==
    ASSUME NEW o, NEW s \in (0 .. MaxChunks) \cup {None}, NEW p
    PROVE  take(o, s, p).stream \in (0 .. MaxChunks) \cup {None}
<1>1. CASE o \/ s = None
  <2>1. take(o, s, p) = [sent |-> o, stream |-> s]
    BY <1>1, Zenon DEF take
  <2>2. take(o, s, p).stream = s
    BY <2>1
  <2> QED
    BY <2>2
<1>2. CASE ~(o \/ s = None) /\ s > 0
  <2>1. take(o, s, p) = [sent |-> TRUE, stream |-> s - 1]
    BY <1>2, Zenon DEF take
  <2>2. take(o, s, p).stream = s - 1
    BY <2>1
  <2> QED
    BY <1>2, <2>2, SessionAssumption
<1>3. CASE ~(o \/ s = None) /\ ~(s > 0)
  <2>1. take(o, s, p) = [sent |-> p = "resp", stream |-> None]
    BY <1>3, Zenon DEF take
  <2>2. take(o, s, p).stream = None
    BY <2>1
  <2> QED
    BY <2>2
<1> QED BY <1>1, <1>2, <1>3

\* It sends nothing only when nothing is left.
LEMMA TakeAll ==
    ASSUME NEW o, NEW s, NEW p, ~take(o, s, p).sent
    PROVE  take(o, s, p).stream = None
<1>1. CASE o
  <2>1. take(o, s, p) = [sent |-> o, stream |-> s]
    BY <1>1, Zenon DEF take
  <2>2. take(o, s, p).sent = o
    BY <2>1
  <2> QED
    BY <1>1, <2>2, Zenon
<1>2. CASE ~o /\ s = None
  <2>1. take(o, s, p) = [sent |-> o, stream |-> s]
    BY <1>2, Zenon DEF take
  <2>2. take(o, s, p).stream = s
    BY <2>1
  <2> QED
    BY <1>2, <2>2
<1>3. CASE ~(o \/ s = None) /\ s > 0
  <2>1. take(o, s, p) = [sent |-> TRUE, stream |-> s - 1]
    BY <1>3, Zenon DEF take
  <2>2. take(o, s, p).sent = TRUE
    BY <2>1
  <2> QED
    BY <2>2, Zenon
<1>4. CASE ~(o \/ s = None) /\ ~(s > 0)
  <2>1. take(o, s, p) = [sent |-> p = "resp", stream |-> None]
    BY <1>4, Zenon DEF take
  <2> QED
    BY <2>1
<1> QED BY <1>1, <1>2, <1>3, <1>4, Zenon

-----------------------------------------------------------------------------
\* The timer stays a timer, and so does the socket.
LEMMA NextRequestType ==
    ASSUME NEW t \in {"off", "waiting", "expired"}, NEW keep,
           socket \in {"open", "half", "closed"}, nextRequest(t, keep)
    PROVE  /\ op' \in {"read", "drain"}
           /\ timer' \in {"off", "waiting", "expired"}
           /\ socket' \in {"open", "half", "closed"}
BY DEF nextRequest, cancelled

\* doWrite writes, reads on, drains or finishes; it reads on only when no
\* object is left to send, and never posts itself.
LEMMA DoWriteOutcome ==
    ASSUME NEW t \in {"off", "waiting", "expired"}, NEW keep, NEW o,
           NEW s \in (0 .. MaxChunks) \cup {None}, NEW p,
           socket \in {"open", "half", "closed"}, doWrite(t, keep, o, s, p)
    PROVE  /\ keepGoing' = keep
           /\ stream' \in (0 .. MaxChunks) \cup {None}
           /\ op' \in {"read", "write", "drain", None}
           /\ op' \in {"read", "drain"} => stream' = None
           /\ timer' \in {"off", "waiting", "expired"}
           /\ socket' \in {"open", "half", "closed"}
<1> DEFINE taken == take(o, s, p)
<1>1. taken.stream \in (0 .. MaxChunks) \cup {None}
  BY TakeStream
<1>2. ~taken.sent => taken.stream = None
  BY TakeAll
<1>3. /\ keepGoing' = keep
      /\ \/ /\ stream' = taken.stream
            /\ \/ taken.sent /\ op' = "write" /\ timer' = t /\ UNCHANGED socket
               \/ ~taken.sent /\ taken.stream # None /\ op' = "post"
               \/ ~taken.sent /\ taken.stream = None /\ nextRequest(t, keep)
         \/ stream' = s /\ timer' = cancelled(t) /\ finish
  BY Zenon DEF doWrite
<1> HIDE DEF taken
<1>4. keepGoing' = keep
  BY <1>3
<1>5. CASE stream' = taken.stream /\ op' = "write" /\ timer' = t /\ UNCHANGED socket
  BY <1>1, <1>4, <1>5
<1>6. CASE stream' = taken.stream /\ taken.stream = None /\ nextRequest(t, keep)
  BY <1>4, <1>6, NextRequestType
<1>7. CASE stream' = s /\ timer' = cancelled(t) /\ finish
  BY <1>4, <1>7, SessionAssumption DEF finish, cancelled
<1> QED
  BY <1>2, <1>3, <1>5, <1>6, <1>7, Zenon

-----------------------------------------------------------------------------
\* What an answer the protocol handler may give leaves behind.
LEMMA ReadBytesInv == SessionInv /\ ReadBytes => SessionInv'
<1> SUFFICES ASSUME SessionInv, ReadBytes PROVE SessionInv'
  OBVIOUS
<1>1. PICK p \in IF protocol = None THEN {"resp", "http", None} ELSE {protocol},
           keep \in BOOLEAN, o \in BOOLEAN, s \in (0 .. MaxChunks) \cup {None} :
           protocol' = p /\ doWrite(cancelled(timer), keep, o, s, p)
  BY DEF ReadBytes
<1>2. PICK t \in {"off", "waiting", "expired"} : t = cancelled(timer)
  BY DEF SessionInv, TypeOK, cancelled
<1>3. doWrite(t, keep, o, s, p)
  BY <1>1, <1>2, Zenon DEF doWrite, nextRequest
<1>4. socket \in {"open", "half", "closed"}
  BY DEF SessionInv, TypeOK
<1>5. /\ keepGoing' = keep
      /\ stream' \in (0 .. MaxChunks) \cup {None}
      /\ op' \in {"read", "write", "drain", None}
      /\ op' \in {"read", "drain"} => stream' = None
      /\ timer' \in {"off", "waiting", "expired"}
      /\ socket' \in {"open", "half", "closed"}
  BY <1>4, <1>3, DoWriteOutcome
<1>6. protocol' \in {"resp", "http", None}
  BY <1>1 DEF SessionInv, TypeOK
<1>7. client' = client /\ heard' = TRUE
  BY DEF ReadBytes
<1> QED
  BY <1>5, <1>6, <1>7, SessionAssumption DEF SessionInv, TypeOK

\* A completed write sends the next chunk, or turns to the next request when
\* hasMoreToSend is false.
LEMMA WriteDoneInv == SessionInv /\ WriteDone => SessionInv'
<1> SUFFICES ASSUME SessionInv, WriteDone PROVE SessionInv'
  OBVIOUS
<1>1. UNCHANGED <<protocol, client, heard>>
  BY DEF WriteDone
<1>2. CASE stream # None /\ doWrite(timer, keepGoing, FALSE, stream, protocol)
  <2>1. /\ timer \in {"off", "waiting", "expired"}
        /\ keepGoing \in BOOLEAN
        /\ stream \in (0 .. MaxChunks) \cup {None}
        /\ socket \in {"open", "half", "closed"}
    BY DEF SessionInv, TypeOK
  <2>2. PICK t \in {"off", "waiting", "expired"}, keep \in BOOLEAN, o \in BOOLEAN,
             s \in (0 .. MaxChunks) \cup {None}, p \in {protocol} :
             t = timer /\ keep = keepGoing /\ o = FALSE /\ s = stream /\ p = protocol
    BY <2>1, Zenon
  <2>3. doWrite(t, keep, o, s, p)
    BY <1>2, <2>2, Zenon DEF doWrite, nextRequest
  <2>4. /\ keepGoing' = keep
        /\ stream' \in (0 .. MaxChunks) \cup {None}
        /\ op' \in {"read", "write", "drain", None}
        /\ op' \in {"read", "drain"} => stream' = None
        /\ timer' \in {"off", "waiting", "expired"}
        /\ socket' \in {"open", "half", "closed"}
    BY <2>1, <2>3, DoWriteOutcome
  <2> QED
    BY <1>1, <2>4, SessionAssumption DEF SessionInv, TypeOK
<1>3. CASE stream = None /\ nextRequest(timer, keepGoing)
             /\ UNCHANGED <<keepGoing, stream>>
  <2>1. /\ op' \in {"read", "drain"}
        /\ timer' \in {"off", "waiting", "expired"}
        /\ socket' \in {"open", "half", "closed"}
    BY <1>3, NextRequestType DEF SessionInv, TypeOK
  <2> QED
    BY <1>1, <1>3, <2>1 DEF SessionInv, TypeOK
<1> QED
  BY <1>2, <1>3, Zenon DEF WriteDone

\* Every step keeps the invariant.
LEMMA SessionInvKept == SessionInv /\ [Next]_vars => SessionInv'
<1> SUFFICES ASSUME SessionInv, [Next]_vars PROVE SessionInv'
  OBVIOUS
<1>1. CASE Accept
  BY <1>1 DEF SessionInv, TypeOK, Accept
<1>2. CASE ReadBytes
  BY <1>2, ReadBytesInv
<1>3. CASE ReadThrows
  BY <1>3, SessionAssumption DEF SessionInv, TypeOK, ReadThrows, finish, cancelled
<1>4. CASE ReadFails
  BY <1>4, SessionAssumption DEF SessionInv, TypeOK, ReadFails, finish, cancelled
<1>5. CASE WriteDone
  BY <1>5, WriteDoneInv
<1>6. CASE WriteFails
  BY <1>6, SessionAssumption DEF SessionInv, TypeOK, WriteFails, finish, cancelled
<1>7. CASE DrainEnds
  BY <1>7, SessionAssumption DEF SessionInv, TypeOK, DrainEnds, finish
<1>8. CASE TimerExpires
  BY <1>8 DEF SessionInv, TypeOK, TimerExpires
<1>9. CASE TimerFires
  BY <1>9 DEF SessionInv, TypeOK, TimerFires
<1>10. CASE ClientChanges
  BY <1>10 DEF SessionInv, TypeOK, ClientChanges
<1>11. CASE UNCHANGED vars
  BY <1>11 DEF SessionInv, TypeOK, vars
<1> QED
  BY <1>1, <1>2, <1>3, <1>4, <1>5, <1>6, <1>7, <1>8, <1>9, <1>10, <1>11 DEF Next

LEMMA SessionInvAlways == Spec => []SessionInv
<1>1. Init => SessionInv
  BY SessionAssumption DEF Init, SessionInv, TypeOK
<1> QED
  BY <1>1, SessionInvKept, PTL DEF Spec

-----------------------------------------------------------------------------
\* Session's state is always one its code can be in.
THEOREM SessionTypeOK == Spec => []TypeOK
<1>1. SessionInv => TypeOK
  BY DEF SessionInv
<1> QED
  BY <1>1, SessionInvAlways, PTL

\* Whatever the handler queues and however long its objects are, Session
\* reads the next request, or drains the connection, only when the last one
\* is answered to the end.
THEOREM SessionRequestsInOrder == Spec => []RequestsInOrder
<1>1. SessionInv => RequestsInOrder
  BY DEF SessionInv, RequestsInOrder
<1> QED
  BY <1>1, SessionInvAlways, PTL

\* doWrite never posts itself: takeOutgoingBytes of either handler has
\* something to send while hasMoreToSend is true.
THEOREM SessionNeverSpins == Spec => []NeverSpins
<1>1. SessionInv => NeverSpins
  BY DEF SessionInv, NeverSpins
<1> QED
  BY <1>1, SessionInvAlways, PTL
=============================================================================
