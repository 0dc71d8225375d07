------------------------- MODULE DiskObjectStorage --------------------------
(***************************************************************************)
(* DiskObjectStorage.cpp with its streams DiskWriteSession.cpp and         *)
(* DiskReadSession.cpp: objects as files below the storage root.           *)
(*                                                                         *)
(* The bytes of an object are abstracted to the value they belong to: the  *)
(* value v is sizeOf[v] copies of v, so a file that mixes the bytes of two *)
(* requests, or lacks some, is never equal to the bytes of any value.      *)
(***************************************************************************)
EXTENDS FileSystem, ObjectTypes

CONSTANTS
    mapPath,    \* mapPath[p]: the name path p resolves to, or nullopt
    tempOf,     \* tempOf[n]: the name n followed by ".tmp"
    TempNames,  \* the names with extension ".tmp"
    Values,     \* the values clients store
    sizeOf      \* their lengths in bytes

ASSUME DiskAssumption ==
    /\ mapPath \in [Paths -> Names \cup {nullopt}] /\ nullopt \notin Names
    /\ TempNames \subseteq Names
    /\ DOMAIN tempOf \subseteq Names
    /\ \A n \in DOMAIN tempOf : tempOf[n] \in TempNames /\ tempOf[n] # n
    /\ \A n \in Names : Ancestors[n] \cap TempNames = {}
    /\ \A n \in Names \ TempNames : n \in Paths /\ mapPath[n] = n
    /\ Values \subseteq Bytes \ {Hole}
    /\ sizeOf \in [Values -> size_t]

VARIABLE disk

whole(v) == [k \in 1 .. sizeOf[v] |-> v]

-----------------------------------------------------------------------------
(* Queries *)

resolves(path) == mapPath[path] # nullopt

stored(path) == resolves(path) /\ is_regular_file(disk, mapPath[path])

get(path) == IF stored(path) THEN contents(disk, mapPath[path]) ELSE nullopt

isTempFile(n) == n \in TempNames

keys == {n \in Names : is_regular_file(disk, n) /\ ~isTempFile(n)}

-----------------------------------------------------------------------------
(* put and setnx of a whole object: truncate the file in place, write *)

\* mapPath, create_directories and opening the stream all succeed.
putOpens(path) ==
    /\ resolves(path)
    /\ parentsCreatable(disk, mapPath[path])
    /\ disk.dir[mapPath[path]] # Directory

\* The disk once the first k bytes of v are in the file of the path.
putBytes(path, i, v, k) ==
    LET n == mapPath[path]
    IN  write(openTrunc(create_directories(disk, n), n, i),
              i, 0, SubSeq(whole(v), 1, k))

\* del removes what the path resolves to: a file, or an empty directory.
delSucceeds(path) == resolves(path) /\ removable(disk, mapPath[path])

-----------------------------------------------------------------------------
(* DiskWriteSession: bytes go to a file named tempOf[n], finish renames it *)

\* beginPut needs the parent directories and nothing else: a stream that
\* does not open makes the first writeChunk fail.
beginPutOpens(path) ==
    resolves(path) /\ parentsCreatable(disk, mapPath[path])

\* Slip: the stream is opened on the object itself.
openInPlace(n, i) == openTrunc(create_directories(disk, n), n, i)

openTemp(n, i) == openTrunc(create_directories(disk, n), tempOf[n], i)

\* The inodes the stream on the temporary may get.
tempInodes(n, open) == openable(create_directories(disk, n), tempOf[n], open)

\* writeChunk: k more bytes of v at the stream's own offset.
chunk(i, v, offset, k) ==
    write(disk, i, offset, SubSeq(whole(v), offset + 1, offset + k))

renameSucceeds(n) == renamable(disk, tempOf[n], n)

renameTemp(n) == rename(disk, tempOf[n], n)

\* Temporaries are removed by name, whoever's file that is by now.
removeTemp(d, n) == remove(d, tempOf[n])

-----------------------------------------------------------------------------
(* The directory walk of StoragePersistency::rebuildIndexUnlocked *)

\* Slip: temporaries are counted too.
scanCountsTemps(d) ==
    LET found == {n \in Names : is_regular_file(d, n)}
    IN  [n \in found |-> Len(contents(d, n)) % W]

scan(d) ==
    LET found == {n \in Names : is_regular_file(d, n) /\ ~isTempFile(n)}
    IN  [n \in found |-> Len(contents(d, n)) % W]
=============================================================================
