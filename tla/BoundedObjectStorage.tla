------------------------ MODULE BoundedObjectStorage ------------------------
(***************************************************************************)
(* The storage engine as main.cpp assembles it: BoundedObjectStorage over  *)
(* DiskObjectStorage, with StoragePersistency as its size index, and the   *)
(* streams that connections keep open across callbacks                     *)
(* (BoundedWriteSession, DiskWriteSession, DiskReadSession).               *)
(*                                                                         *)
(* io_context::run has one thread, so a callback is a step.  Between the   *)
(* callbacks of one upload or download, any other connection may act.      *)
(*                                                                         *)
(* A request that is refused (CapacityExceeded, InvalidPath,               *)
(* AlreadyExists, not found) changes nothing; what it is answered is a     *)
(* function of the state, given by the guards below.                       *)
(*                                                                         *)
(* Env names the parts of the environment's behaviour a run admits:        *)
(*   "contend"     requests on a file that an open upload is using         *)
(*   "overwrite"   a whole-object put to a file that a download is reading *)
(*   "disconnect"  a connection lost, or the server killed, mid-upload     *)
(*   "fault"       opening, writing or closing a file fails                *)
(*   "unreadable"  the directory walk at start-up misses files             *)
(*   "crash"       the server killed in the middle of a put                *)
(***************************************************************************)
EXTENDS DiskObjectStorage, StoragePersistency

CONSTANTS
    Conns,                  \* connections that can have a stream open
    m_maxBytes,             \* the configured capacity
    EmptyPath,              \* the empty path
    kStreamingThreshold,    \* larger values are streamed
    kReadChunkSize,
    Env

ASSUME BoundedAssumption ==
    /\ m_maxBytes \in size_t
    /\ kStreamingThreshold \in Nat
    /\ kReadChunkSize \in Nat \ {0}
    /\ EmptyPath \in Paths => mapPath[EmptyPath] = nullopt
    /\ nullopt \notin Inodes
    /\ Env \subseteq {"contend", "overwrite", "disconnect", "fault",
                      "unreadable", "crash"}

VARIABLES
    session,    \* session[c]: the stream connection c has open, if any
    lost        \* history, read by no action: lost[p] is the size that the
                \* last upload to be dropped reserved for p, and nullopt once
                \* another request or a restart has settled what is at p

vars == <<disk, m_sizes, m_totalBytes, session, lost>>

Idle == [kind |-> "idle"]

Uploads == [kind : {"upload"}, path : Paths, name : DOMAIN tempOf,
            value : Values, isSetNx : BOOLEAN, written : size_t,
            inode : Inodes \cup {nullopt}, previousSize : size_t \cup {nullopt}]

\* want is a history variable: the object's bytes when the download began.
Downloads == [kind : {"download"}, inode : Inodes, announced : Nat,
              want : Seq(Bytes), got : Seq(Bytes), eof : BOOLEAN]

uploading(c) == session[c].kind = "upload"
downloading(c) == session[c].kind = "download"

held(s) == {s[c].inode : c \in {d \in Conns : s[d] # Idle}}

-----------------------------------------------------------------------------
(* The environment a run admits *)

quiet(n) ==
    \/ "contend" \in Env
    \/ \A c \in Conns : uploading(c) =>
           n \notin {session[c].name, tempOf[session[c].name]}

unread(n) ==
    \/ "overwrite" \in Env
    \/ \A c \in Conns : downloading(c) => session[c].inode # disk.dir[n]

-----------------------------------------------------------------------------
(* Admission *)

\* Slip: off by one at the limit.
wouldFitOverByOne(path, incomingBytes) ==
    (m_totalBytes - sizeOrZero(path) + incomingBytes) % W <= m_maxBytes + 1

wouldFit(path, incomingBytes) ==
    (m_totalBytes - sizeOrZero(path) + incomingBytes) % W <= m_maxBytes

\* BoundedObjectStorage::setnx answers AlreadyExists.
setnxRejects(path) ==
    \/ contains(path)
    \/ resolves(path) /\ exists(disk, mapPath[path])

settled(path) == lost' = [lost EXCEPT ![path] = nullopt]

-----------------------------------------------------------------------------
(* Whole objects *)

putAdmitted(path, v) ==
    /\ sizeOf[v] <= kStreamingThreshold
    /\ path # EmptyPath
    /\ wouldFit(path, sizeOf[v])
    /\ putOpens(path)
    /\ quiet(mapPath[path])
    /\ unread(mapPath[path])

\* The inodes a put may write to.
putInodes(path) == openable(disk, mapPath[path], held(session))

\* Slip: the index learns of new paths but not of new sizes.
PutKeepsSize(path, v) ==
    /\ putAdmitted(path, v)
    /\ \E i \in putInodes(path) :
           disk' = reclaim(putBytes(path, i, v, sizeOf[v]), held(session))
    /\ IF contains(path) THEN UNCHANGED indexVars ELSE upsert(path, sizeOf[v])
    /\ settled(path)
    /\ UNCHANGED session

Put(path, v) ==
    /\ putAdmitted(path, v)
    /\ \E i \in putInodes(path) :
           disk' = reclaim(putBytes(path, i, v, sizeOf[v]), held(session))
    /\ upsert(path, sizeOf[v])
    /\ settled(path)
    /\ UNCHANGED session

\* Only part of the value reaches the file.  put answers InvalidPath when
\* write reports it, and Ok when the bytes were still in the stream's buffer
\* and are lost in its destructor.
PutFails(path, v) ==
    /\ "fault" \in Env
    /\ putAdmitted(path, v)
    /\ \E i \in putInodes(path), k \in 0 .. (sizeOf[v] - 1) :
           disk' = reclaim(putBytes(path, i, v, k), held(session))
    /\ \/ UNCHANGED <<m_sizes, m_totalBytes, lost>>
       \/ upsert(path, sizeOf[v]) /\ settled(path)
    /\ UNCHANGED session

SetNx(path, v) ==
    /\ ~setnxRejects(path)
    /\ Put(path, v)

\* setnx never looks at the outcome of write: it answers Inserted.
SetNxFails(path, v) ==
    /\ "fault" \in Env
    /\ ~setnxRejects(path)
    /\ putAdmitted(path, v)
    /\ \E i \in putInodes(path), k \in 0 .. (sizeOf[v] - 1) :
           disk' = reclaim(putBytes(path, i, v, k), held(session))
    /\ upsert(path, sizeOf[v])
    /\ settled(path)
    /\ UNCHANGED session

\* The directories are made and then the file does not open: put and setnx
\* answer InvalidPath.
OpenFails(path, v) ==
    /\ "fault" \in Env
    /\ putAdmitted(path, v)
    /\ disk' = create_directories(disk, mapPath[path])
    /\ UNCHANGED <<m_sizes, m_totalBytes, session, lost>>

\* Slip: the index keeps the deleted path.
DelKeepsIndex(path) ==
    /\ delSucceeds(path)
    /\ quiet(mapPath[path])
    /\ disk' = reclaim(unbind(disk, mapPath[path]), held(session))
    /\ settled(path)
    /\ UNCHANGED <<m_sizes, m_totalBytes, session>>

\* An object stays readable by the downloads that have it open.
Del(path) ==
    /\ delSucceeds(path)
    /\ quiet(mapPath[path])
    /\ disk' = reclaim(unbind(disk, mapPath[path]), held(session))
    /\ erase(path)
    /\ settled(path)
    /\ UNCHANGED session

-----------------------------------------------------------------------------
(* Uploads: SET, SETNX or PUT of a value above the threshold *)

\* tryBeginStreamingSetValue checks for SETNX that the object does not exist.
setNxProceeds(path, isSetNx) == isSetNx => ~stored(path)

\* beginPut reserves the whole size in the index.  It has no check for the
\* empty path: mapPath refuses it.  A stream that fails to open shows only at
\* the first chunk.
BeginPut(c, path, v, isSetNx) ==
    LET n == mapPath[path]
    IN  /\ session[c] = Idle
        /\ sizeOf[v] > kStreamingThreshold
        /\ setNxProceeds(path, isSetNx)
        /\ wouldFit(path, sizeOf[v])
        /\ beginPutOpens(path)
        /\ n \in DOMAIN tempOf
        /\ quiet(n) /\ quiet(tempOf[n])
        /\ \E i \in tempInodes(n, held(session))
                        \cup (IF "fault" \in Env THEN {nullopt} ELSE {}) :
               /\ session' = [session EXCEPT ![c] =
                      [kind |-> "upload", path |-> path, name |-> n,
                       value |-> v, isSetNx |-> isSetNx, written |-> 0,
                       inode |-> i, previousSize |-> objectSize(path)]]
               /\ disk' = reclaim(IF i = nullopt THEN create_directories(disk, n)
                                                 ELSE openTemp(n, i),
                                  held(session'))
        /\ upsert(path, sizeOf[v])
        /\ UNCHANGED lost

\* The socket delivers the value in pieces of any size.
WriteChunk(c) ==
    LET u == session[c]
    IN  /\ uploading(c)
        /\ u.inode # nullopt
        /\ \E k \in 1 .. (sizeOf[u.value] - u.written) :
               /\ disk' = chunk(u.inode, u.value, u.written, k)
               /\ session' = [session EXCEPT ![c].written = u.written + k]
        /\ UNCHANGED <<m_sizes, m_totalBytes, lost>>

\* Slip: an abandoned overwrite forgets the size of the object that stays.
restoreNothing(u) == erase(u.path)

\* m_onAborted: the reservation gives way to the size recorded at the start.
restore(u) ==
    IF u.previousSize = nullopt THEN erase(u.path)
                                ELSE upsert(u.path, u.previousSize)

\* writeChunk fails, and the handler calls abort.
WriteFails(c) ==
    LET u == session[c]
    IN  /\ uploading(c)
        /\ u.written < sizeOf[u.value]
        /\ u.inode = nullopt \/ "fault" \in Env
        /\ session' = [session EXCEPT ![c] = Idle]
        /\ \E k \in 0 .. (sizeOf[u.value] - u.written - 1) :
               disk' = reclaim(removeTemp(IF u.inode = nullopt THEN disk
                                          ELSE chunk(u.inode, u.value, u.written, k),
                                          u.name),
                               held(session'))
        /\ restore(u)
        /\ UNCHANGED lost

\* Slip: the upload is finished one byte early.
FinishEarly(c) ==
    LET u == session[c]
    IN  /\ uploading(c)
        /\ u.inode # nullopt
        /\ u.written = sizeOf[u.value] - 1
        /\ renameSucceeds(u.name)
        /\ session' = [session EXCEPT ![c] = Idle]
        /\ disk' = reclaim(renameTemp(u.name), held(session'))
        /\ settled(u.path)
        /\ UNCHANGED indexVars

\* finish: the stream closes and the temporary takes the object's name.
Finish(c) ==
    LET u == session[c]
    IN  /\ uploading(c)
        /\ u.inode # nullopt
        /\ u.written = sizeOf[u.value]
        /\ renameSucceeds(u.name)
        /\ session' = [session EXCEPT ![c] = Idle]
        /\ disk' = reclaim(renameTemp(u.name), held(session'))
        /\ settled(u.path)
        /\ UNCHANGED indexVars

\* finish: the stream does not close cleanly or the rename fails.
FinishFails(c) ==
    LET u == session[c]
    IN  /\ uploading(c)
        /\ u.inode # nullopt
        /\ u.written = sizeOf[u.value]
        /\ "fault" \in Env \/ ~renameSucceeds(u.name)
        /\ session' = [session EXCEPT ![c] = Idle]
        /\ disk' = reclaim(removeTemp(disk, u.name), held(session'))
        /\ restore(u)
        /\ UNCHANGED lost

\* The connection is lost, or its handler throws: the streams are destroyed
\* with the session.  Nobody calls abort, so a temporary and a reservation
\* stay behind.
Disconnect(c) ==
    /\ session[c] # Idle
    /\ uploading(c) => "disconnect" \in Env
    /\ session' = [session EXCEPT ![c] = Idle]
    /\ disk' = reclaim(disk, held(session'))
    /\ lost' = IF uploading(c)
               THEN [lost EXCEPT ![session[c].path] = sizeOf[session[c].value]]
               ELSE lost
    /\ UNCHANGED indexVars

-----------------------------------------------------------------------------
(* Downloads *)

\* Slip: the length is announced from the index.
BeginGetByIndex(c, path) ==
    /\ session[c] = Idle
    /\ stored(path)
    /\ session' = [session EXCEPT ![c] =
           [kind |-> "download", inode |-> disk.dir[mapPath[path]],
            announced |-> sizeOrZero(path), want |-> get(path),
            got |-> <<>>, eof |-> FALSE]]
    /\ UNCHANGED <<disk, m_sizes, m_totalBytes, lost>>

BeginGet(c, path) ==
    /\ session[c] = Idle
    /\ stored(path)
    /\ session' = [session EXCEPT ![c] =
           [kind |-> "download", inode |-> disk.dir[mapPath[path]],
            announced |-> Len(get(path)), want |-> get(path),
            got |-> <<>>, eof |-> FALSE]]
    /\ UNCHANGED <<disk, m_sizes, m_totalBytes, lost>>

\* What readChunk would return next.
nextChunk(r) ==
    LET bytes == disk.data[r.inode]
        from == Len(r.got) + 1
        to == Len(r.got) + kReadChunkSize
    IN  IF r.eof THEN <<>>
        ELSE SubSeq(bytes, from, IF to < Len(bytes) THEN to ELSE Len(bytes))

\* A chunk shorter than asked for sets the stream's eofbit.
ReadChunk(c) ==
    LET bytes == nextChunk(session[c])
    IN  /\ downloading(c)
        /\ bytes # <<>>
        /\ session' = [session EXCEPT ![c].got = @ \o bytes,
                                      ![c].eof = Len(bytes) < kReadChunkSize]
        /\ UNCHANGED <<disk, m_sizes, m_totalBytes, lost>>

\* readChunk returns nullopt and the handler ends the response.
EndGet(c) ==
    /\ downloading(c)
    /\ nextChunk(session[c]) = <<>>
    /\ session' = [session EXCEPT ![c] = Idle]
    /\ disk' = reclaim(disk, held(session'))
    /\ UNCHANGED <<m_sizes, m_totalBytes, lost>>

-----------------------------------------------------------------------------
(* Stopping and starting the server *)

\* The walk skips what it cannot stat.
restartFrom(d) ==
    /\ \E seen \in IF "unreadable" \in Env THEN SUBSET DOMAIN scan(d)
                                           ELSE {DOMAIN scan(d)} :
           refresh([n \in seen |-> scan(d)[n]])
    /\ session' = [c \in Conns |-> Idle]
    /\ lost' = [path \in Paths |-> nullopt]
    /\ disk' = reclaim(d, {})

Restart ==
    /\ "disconnect" \in Env \/ \A c \in Conns : ~uploading(c)
    /\ restartFrom(disk)

\* The server is killed once put has made the directories, or truncated the
\* file and written part of the value or all of it.
CrashInPut(path, v) ==
    /\ "crash" \in Env
    /\ "disconnect" \in Env \/ \A c \in Conns : ~uploading(c)
    /\ putAdmitted(path, v)
    /\ \/ restartFrom(create_directories(disk, mapPath[path]))
       \/ \E i \in putInodes(path), k \in 0 .. sizeOf[v] :
              restartFrom(putBytes(path, i, v, k))

-----------------------------------------------------------------------------
Init ==
    /\ disk = emptyRoot
    /\ m_sizes = scan(disk)
    /\ m_totalBytes = 0
    /\ session = [c \in Conns |-> Idle]
    /\ lost = [path \in Paths |-> nullopt]

Next ==
    \/ \E path \in Paths, v \in Values :
           \/ Put(path, v)
           \/ PutFails(path, v)
           \/ SetNx(path, v)
           \/ SetNxFails(path, v)
           \/ OpenFails(path, v)
           \/ CrashInPut(path, v)
           \/ \E c \in Conns, isSetNx \in BOOLEAN : BeginPut(c, path, v, isSetNx)
    \/ \E path \in Paths : Del(path)
    \/ \E c \in Conns :
           \/ WriteChunk(c)
           \/ WriteFails(c)
           \/ Finish(c)
           \/ FinishFails(c)
           \/ Disconnect(c)
           \/ ReadChunk(c)
           \/ EndGet(c)
           \/ \E path \in Paths : BeginGet(c, path)
    \/ Restart

Spec == Init /\ [][Next]_vars

-----------------------------------------------------------------------------
(* Properties *)

TypeOK ==
    /\ disk \in FileSystems
    /\ IndexTypeOK
    /\ session \in [Conns -> {Idle} \cup Uploads \cup Downloads]
    /\ lost \in [Paths -> size_t \cup {nullopt}]

uploadsOf(path) == {c \in Conns : uploading(c) /\ session[c].path = path}

\* The index is exact: a path without an upload in progress is indexed iff
\* its file exists, with the length of that file; a path with one is indexed
\* with the size the upload announced.  upsert, erase and restore of
\* BoundedObjectStorage.cpp have to agree with what put, del, rename and
\* remove did to the disk, over any number of interleaved requests.
IndexExact ==
    \A path \in Paths :
        IF uploadsOf(path) # {}
        THEN \A c \in uploadsOf(path) : objectSize(path) = sizeOf[session[c].value]
        ELSE objectSize(path) = IF stored(path) THEN Len(get(path)) ELSE nullopt

storedBytes == TotalOf(scan(disk))

\* The stored objects never take more than the configured capacity once no
\* upload is in progress: what wouldFit admitted against the index holds for
\* the disk.
CapacityKept ==
    (\A c \in Conns : ~uploading(c)) => storedBytes <= m_maxBytes

\* Every object under a name clients can list is, byte for byte, a value some
\* client stored as a whole: an upload becomes visible only when finish
\* renames it, and nothing writes to a file that has been renamed.
ObjectsWhole ==
    \A n \in keys : \E v \in Values : contents(disk, n) = whole(v)

\* A download delivers the object as it was when its length was announced: a
\* prefix of those bytes at any time, and all of them when readChunk has
\* nothing more to return, whatever was replaced or deleted in between.
ReadIsSnapshot ==
    \A c \in Conns : downloading(c) =>
        LET r == session[c]
        IN  /\ Len(r.got) <= Len(r.want)
            /\ r.got = SubSeq(r.want, 1, Len(r.got))
            /\ nextChunk(r) = <<>> => Len(r.got) = r.announced

\* The absence that a streamed SETNX checked when it began still holds when
\* its upload is complete and finish is about to rename it and answer 1.
SetNxReplacesNothing ==
    \A c \in Conns :
        /\ uploading(c) /\ session[c].isSetNx
        /\ session[c].written = sizeOf[session[c].value]
        => ~is_regular_file(disk, session[c].name)

\* Lost connections leak reservations and nothing else.  The index is exact as
\* IndexExact says, but that a path whose last upload was dropped keeps the size
\* this upload had announced until the path is stored, deleted or found by a
\* restart.  And it has no entry but for the paths clients use: none for the
\* temporaries that dropped uploads leave on the disk, also when a restart
\* walks over them.
LeaksAreReservations ==
    /\ DOMAIN m_sizes \subseteq Paths
    /\ \A path \in Paths :
           IF uploadsOf(path) # {}
           THEN \A c \in uploadsOf(path) : objectSize(path) = sizeOf[session[c].value]
           ELSE objectSize(path) = IF lost[path] # nullopt THEN lost[path]
                                   ELSE IF stored(path) THEN Len(get(path)) ELSE nullopt

Abstract == INSTANCE ObjectStorage WITH
    m_storage <- [n \in keys |-> contents(disk, n)],
    Keys <- Names \ TempNames,
    Objects <- {whole(v) : v \in Values}

\* Seen through its listed files, the engine is the in-memory map of
\* ObjectStorage.cpp: whatever the chunks, streams and restarts, each step
\* stores one whole object, deletes one, or changes nothing.
ImplementsObjectStorage == Abstract!ObjectStorageSpec
=============================================================================
