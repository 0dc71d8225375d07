--------------------- MODULE BoundedObjectStorageProofs ---------------------
(***************************************************************************)
(* Proofs about the size index and the storage engine.                     *)
(*                                                                         *)
(* The index, for every finite set of paths and every width of size_t: the *)
(* incrementally maintained total is the sum of the indexed sizes modulo   *)
(* the word.  Two groups of lemmas carry the argument: word arithmetic (a  *)
(* difference reduced modulo W may be adjusted before or after the         *)
(* reduction), and what With and Without do to TotalOf.                    *)
(*                                                                         *)
(* The engine, for every set of paths, connections and values, every       *)
(* capacity and every environment Env: its types, and that it uses the     *)
(* size index as StoragePersistency specifies it.                          *)
(***************************************************************************)
EXTENDS BoundedObjectStorage, FiniteSetTheorems, SequenceTheorems, TLAPS

-----------------------------------------------------------------------------
(* Word arithmetic *)

\* Division by W: quotient and remainder reconstruct the number, and the
\* remainder is a word.
LEMMA DivMod ==
    ASSUME NEW a \in Int
    PROVE  /\ a \div W \in Int
           /\ a % W \in size_t
           /\ a = W * (a \div W) + (a % W)
  BY WAssumption DEF size_t

\* Quotient and remainder are unique.
LEMMA DivModUnique ==
    ASSUME NEW p \in Int, NEW q \in Int, NEW r \in size_t, NEW s \in size_t,
           W * q + r = W * p + s
    PROVE  q = p /\ r = s
<1>0. W \in Int /\ W > 0 /\ r \in Int /\ s \in Int /\ 0 <= r /\ r < W /\ 0 <= s /\ s < W
  BY WAssumption DEF size_t
<1>1. ASSUME q - p >= 1 PROVE FALSE
  <2>1. W * (q - p) >= W
    BY <1>0, <1>1
  <2>2. W * (q - p) = s - r
    BY <1>0
  <2> QED BY <1>0, <2>1, <2>2
<1>2. ASSUME p - q >= 1 PROVE FALSE
  <2>1. W * (p - q) >= W
    BY <1>0, <1>2
  <2>2. W * (p - q) = r - s
    BY <1>0
  <2> QED BY <1>0, <2>1, <2>2
<1>3. q = p
  BY <1>1, <1>2
<1>4. W * q = W * p
  BY <1>3
<1>5. W * q \in Int /\ W * p \in Int
  BY <1>0
<1> QED BY <1>0, <1>3, <1>4, <1>5

\* Adding a number to a reduced one, then reducing, is the same as adding
\* it to the original: this is why the incremental updates of m_totalBytes
\* lose nothing when they wrap.
LEMMA ModAdd ==
    ASSUME NEW a \in Int, NEW d \in Int
    PROVE  ((a % W) + d) % W = (a + d) % W
<1> DEFINE b == (a % W) + d
           c == a + d
<1>1. W \in Int /\ a % W \in Int /\ a % W \in size_t /\ b \in Int /\ c \in Int
  BY WAssumption, DivMod DEF size_t
<1>2. a \div W \in Int /\ a = W * (a \div W) + (a % W)
  BY DivMod
<1>3. b \div W \in Int /\ b % W \in size_t /\ b = W * (b \div W) + (b % W)
  BY <1>1, DivMod
<1>4. c \div W \in Int /\ c % W \in size_t /\ c = W * (c \div W) + (c % W)
  BY <1>1, DivMod
<1> HIDE DEF b, c
<1>5. b % W \in Int /\ c % W \in Int
  BY <1>3, <1>4 DEF size_t
<1>6. c = W * (a \div W) + b
  BY <1>1, <1>2 DEF b, c
<1>7. c = W * ((a \div W) + (b \div W)) + (b % W)
  BY <1>1, <1>2, <1>3, <1>5, <1>6
<1>8. (a \div W) + (b \div W) \in Int
  BY <1>2, <1>3
<1>9. W * ((a \div W) + (b \div W)) + (b % W) = W * (c \div W) + (c % W)
  BY <1>4, <1>7
<1>10. b % W = c % W
  BY <1>3, <1>4, <1>8, <1>9, DivModUnique
<1> QED BY <1>10 DEF b, c

-----------------------------------------------------------------------------
(* The sum of the indexed sizes *)

\* The bytes one path accounts for.
Own(path, size) == {path} \X (0 .. (size - 1))

\* A path of size n accounts for n bytes.
LEMMA OwnCardinality ==
    ASSUME NEW path, NEW size \in Nat
    PROVE  IsFiniteSet(Own(path, size)) /\ Cardinality(Own(path, size)) = size
<1>1. IsFiniteSet({path}) /\ Cardinality({path}) = 1
  BY FS_Singleton
<1>2. IsFiniteSet(0 .. (size - 1)) /\ Cardinality(0 .. (size - 1)) = size
  BY FS_Interval
<1> QED BY <1>1, <1>2, FS_Product DEF Own

\* Every index is a function from some of the paths to words.
LEMMA IndexFacts ==
    ASSUME NEW f \in Indexes
    PROVE  /\ DOMAIN f \subseteq Paths
           /\ f = [k \in DOMAIN f |-> f[k]]
           /\ \A k \in DOMAIN f : f[k] \in size_t
  BY DEF Indexes

\* The sum of an index is a natural number.
LEMMA TotalType ==
    ASSUME NEW f \in Indexes
    PROVE  IsFiniteSet(BytesOf(f)) /\ TotalOf(f) \in Nat
<1>1. IsFiniteSet(DOMAIN f)
  BY IndexFacts, PathsAssumption, FS_Subset
<1>2. IsFiniteSet(size_t)
  BY WAssumption, FS_Interval DEF size_t
<1>3. IsFiniteSet((DOMAIN f) \X size_t)
  BY <1>1, <1>2, FS_Product
<1>4. BytesOf(f) \in SUBSET ((DOMAIN f) \X size_t)
  BY DEF BytesOf
<1>5. IsFiniteSet(BytesOf(f))
  BY <1>3, <1>4, FS_Subset
<1> QED BY <1>5, FS_CardinalityType DEF TotalOf

\* With and Without yield indexes.
LEMMA IndexUpdateType ==
    ASSUME NEW f \in Indexes, NEW path \in Paths, NEW size \in size_t
    PROVE  With(f, path, size) \in Indexes /\ Without(f, path) \in Indexes
<1>1. With(f, path, size) \in [DOMAIN f \cup {path} -> size_t]
  BY IndexFacts DEF With
<1>2. Without(f, path) \in [DOMAIN f \ {path} -> size_t]
  BY IndexFacts DEF Without
<1>3. DOMAIN f \cup {path} \in SUBSET Paths /\ DOMAIN f \ {path} \in SUBSET Paths
  BY IndexFacts
<1> QED BY <1>1, <1>2, <1>3 DEF Indexes

\* Entering a path that is not in the index adds its size to the sum.
LEMMA TotalAfresh ==
    ASSUME NEW f \in Indexes, NEW path \in Paths, NEW size \in size_t,
           path \notin DOMAIN f
    PROVE  TotalOf(With(f, path, size)) = TotalOf(f) + size
<1>1. size \in Nat /\ size < W
  BY WAssumption DEF size_t
<1>2. BytesOf(With(f, path, size)) = BytesOf(f) \cup Own(path, size)
  BY <1>1, IndexFacts, WAssumption DEF BytesOf, With, Own, size_t
<1>3. BytesOf(f) \cap Own(path, size) = {}
  BY DEF BytesOf, Own
<1>4. IsFiniteSet(BytesOf(f)) /\ Cardinality(BytesOf(f)) \in Nat
  BY TotalType DEF TotalOf
<1>5. IsFiniteSet(Own(path, size)) /\ Cardinality(Own(path, size)) = size
  BY <1>1, OwnCardinality
<1>6. Cardinality(BytesOf(f) \cup Own(path, size))
        = Cardinality(BytesOf(f)) + size - Cardinality({})
  BY <1>3, <1>4, <1>5, FS_Union
<1> QED BY <1>1, <1>2, <1>4, <1>6, FS_EmptySet DEF TotalOf

\* Dropping a path takes its size away from the sum.
LEMMA TotalWithout ==
    ASSUME NEW f \in Indexes, NEW path \in Paths
    PROVE  TotalOf(Without(f, path))
             = TotalOf(f) - (IF path \in DOMAIN f THEN f[path] ELSE 0)
<1>1. CASE path \notin DOMAIN f
  <2>1. Without(f, path) = f
    BY <1>1, IndexFacts DEF Without
  <2> QED BY <1>1, <2>1, TotalType
<1>2. CASE path \in DOMAIN f
  <2>0. 0 \in size_t
    BY WAssumption DEF size_t
  <2>1. Without(f, path) \in Indexes
    BY <2>0, IndexUpdateType
  <2>2. path \notin DOMAIN Without(f, path)
    BY DEF Without
  <2>3. f[path] \in size_t
    BY <1>2, IndexFacts
  <2>4. With(Without(f, path), path, f[path]) = f
    <3>1. DOMAIN f = (DOMAIN f \ {path}) \cup {path}
      BY <1>2
    <3>2. With(Without(f, path), path, f[path]) = [k \in DOMAIN f |-> f[k]]
      BY <3>1 DEF With, Without
    <3> QED BY <3>2, IndexFacts
  <2>5. TotalOf(f) = TotalOf(Without(f, path)) + f[path]
    BY <2>1, <2>2, <2>3, <2>4, TotalAfresh
  <2>6. TotalOf(Without(f, path)) \in Nat /\ TotalOf(f) \in Nat /\ f[path] \in Int
    BY <2>1, <2>3, TotalType, WAssumption DEF size_t
  <2> QED BY <1>2, <2>5, <2>6
<1> QED BY <1>1, <1>2

\* Entering a path replaces its old size, if any, by the new one.
LEMMA TotalWith ==
    ASSUME NEW f \in Indexes, NEW path \in Paths, NEW size \in size_t
    PROVE  TotalOf(With(f, path, size))
             = TotalOf(f) - (IF path \in DOMAIN f THEN f[path] ELSE 0) + size
<1>1. Without(f, path) \in Indexes /\ path \notin DOMAIN Without(f, path)
  BY IndexUpdateType DEF Without
<1>2. With(Without(f, path), path, size) = With(f, path, size)
  BY DEF With, Without
<1>3. TotalOf(With(f, path, size)) = TotalOf(Without(f, path)) + size
  BY <1>1, <1>2, TotalAfresh
<1> QED BY <1>3, TotalWithout

-----------------------------------------------------------------------------
(* The index *)

IndexInv == IndexTypeOK /\ TotalMatchesIndex

\* upsert preserves the invariant.
LEMMA UpsertStep ==
    ASSUME IndexInv, NEW path \in Paths, NEW size \in size_t,
           upsert(path, size)
    PROVE  IndexInv'
<1> DEFINE old == IF path \in DOMAIN m_sizes THEN m_sizes[path] ELSE 0
           T == TotalOf(m_sizes)
<1>1. m_sizes \in Indexes /\ m_totalBytes = T % W
  BY DEF IndexInv, IndexTypeOK, TotalMatchesIndex
<1>2. old \in Int /\ size \in Int /\ T \in Int
  BY <1>1, IndexFacts, TotalType, WAssumption DEF size_t
<1>3. m_sizes' = With(m_sizes, path, size) /\ m_sizes' \in Indexes
  BY <1>1, IndexUpdateType DEF upsert
<1>4. TotalOf(m_sizes') = T - old + size
  BY <1>1, <1>3, TotalWith
<1>5. m_totalBytes' = ((T % W) - old + size) % W
  BY <1>1 DEF upsert, sizeOrZero, contains
<1> HIDE DEF old, T
<1>6. size - old \in Int /\ T % W \in Int
  BY <1>2, DivMod DEF size_t
<1>7. ((T % W) + (size - old)) % W = (T + (size - old)) % W
  BY <1>2, <1>6, ModAdd
<1>8. /\ (T % W) - old + size = (T % W) + (size - old)
      /\ T - old + size = T + (size - old)
  BY <1>2, <1>6
<1>9. m_totalBytes' = TotalOf(m_sizes') % W
  BY <1>4, <1>5, <1>7, <1>8
<1>10. m_totalBytes' \in size_t
  BY <1>2, <1>4, <1>8, <1>9, DivMod, <1>6
<1> QED BY <1>3, <1>9, <1>10 DEF IndexInv, IndexTypeOK, TotalMatchesIndex

\* erase preserves the invariant, whether or not the path was indexed.
LEMMA EraseStep ==
    ASSUME IndexInv, NEW path \in Paths, erase(path)
    PROVE  IndexInv'
<1> DEFINE old == IF path \in DOMAIN m_sizes THEN m_sizes[path] ELSE 0
           T == TotalOf(m_sizes)
<1>0. 0 \in size_t
  BY WAssumption DEF size_t
<1>1. m_sizes \in Indexes /\ m_totalBytes = T % W
  BY DEF IndexInv, IndexTypeOK, TotalMatchesIndex
<1>2. old \in Int /\ T \in Int
  BY <1>1, IndexFacts, TotalType, WAssumption DEF size_t
<1>3. m_sizes' = Without(m_sizes, path) /\ m_sizes' \in Indexes
  BY <1>0, <1>1, IndexUpdateType DEF erase
<1>4. TotalOf(m_sizes') = T - old
  BY <1>1, <1>3, TotalWithout
<1>5. m_totalBytes' = ((T % W) - old) % W
  BY <1>1 DEF erase, sizeOrZero, contains
<1> HIDE DEF old, T
<1>6. -old \in Int /\ T % W \in Int
  BY <1>2, DivMod DEF size_t
<1>7. ((T % W) + (-old)) % W = (T + (-old)) % W
  BY <1>2, <1>6, ModAdd
<1>8. (T % W) - old = (T % W) + (-old) /\ T - old = T + (-old)
  BY <1>2, <1>6
<1>9. m_totalBytes' = TotalOf(m_sizes') % W
  BY <1>4, <1>5, <1>7, <1>8
<1>10. m_totalBytes' \in size_t
  BY <1>2, <1>4, <1>8, <1>9, DivMod, <1>6
<1> QED BY <1>3, <1>9, <1>10 DEF IndexInv, IndexTypeOK, TotalMatchesIndex

\* refresh establishes the invariant whatever it finds on disk.
LEMMA RefreshStep ==
    ASSUME NEW found \in Indexes, refresh(found)
    PROVE  IndexInv'
<1>1. TotalOf(found) \in Int
  BY TotalType
<1>2. TotalOf(found) % W \in size_t
  BY <1>1, DivMod
<1> QED BY <1>2 DEF refresh, IndexInv, IndexTypeOK, TotalMatchesIndex

\* In every reachable state of the index, its total is the sum of the
\* indexed sizes modulo the word: upsert, erase and refresh of
\* StoragePersistency.cpp never let the two drift apart.
THEOREM IndexCorrect == IndexSpec => [](IndexTypeOK /\ TotalMatchesIndex)
<1>1. IndexInit => IndexInv
  <2> SUFFICES ASSUME IndexInit PROVE IndexInv
    OBVIOUS
  <2>1. TotalOf(m_sizes) \in Int
    BY TotalType DEF IndexInit
  <2> QED BY <2>1, DivMod DEF IndexInit, IndexInv, IndexTypeOK, TotalMatchesIndex
<1>2. IndexInv /\ [IndexNext]_indexVars => IndexInv'
  <2> SUFFICES ASSUME IndexInv, [IndexNext]_indexVars PROVE IndexInv'
    OBVIOUS
  <2>1. CASE Upsert
    BY <2>1, UpsertStep DEF Upsert
  <2>2. CASE Erase
    BY <2>2, EraseStep DEF Erase
  <2>3. CASE Refresh
    BY <2>3, RefreshStep DEF Refresh
  <2>4. CASE UNCHANGED indexVars
    BY <2>4 DEF indexVars, IndexInv, IndexTypeOK, TotalMatchesIndex
  <2> QED BY <2>1, <2>2, <2>3, <2>4 DEF IndexNext
<1> QED BY <1>1, <1>2, PTL DEF IndexSpec, IndexInv

-----------------------------------------------------------------------------
(* Bytes *)

\* Writing over a file yields a file.
LEMMA OverlayType ==
    ASSUME NEW old \in Seq(Bytes), NEW new \in Seq(Bytes), NEW offset \in Nat
    PROVE  overlay(old, offset, new) \in Seq(Bytes)
<1> DEFINE end == offset + Len(new)
           N == IF end > Len(old) THEN end ELSE Len(old)
<1>1. N \in Nat /\ end \in Nat /\ Len(old) \in Nat /\ Len(new) \in Nat
  OBVIOUS
<1>2. ASSUME NEW k \in 1 .. N
      PROVE  (IF offset < k /\ k <= end THEN new[k - offset]
              ELSE IF k <= Len(old) THEN old[k] ELSE Hole) \in Bytes
  <2>1. CASE offset < k /\ k <= end
    BY <1>1, <2>1
  <2>2. CASE ~(offset < k /\ k <= end) /\ k <= Len(old)
    BY <1>1, <2>2
  <2>3. CASE ~(offset < k /\ k <= end) /\ ~(k <= Len(old))
    BY <2>3, FileSystemAssumption
  <2> QED BY <2>1, <2>2, <2>3
<1>3. overlay(old, offset, new) \in [1 .. N -> Bytes]
  BY <1>2 DEF overlay
<1> QED BY <1>1, <1>3, SeqDef, SMTT(30)

\* A value is a string of bytes of its size.
LEMMA WholeType ==
    ASSUME NEW v \in Values
    PROVE  /\ sizeOf[v] \in size_t /\ sizeOf[v] \in Nat
           /\ whole(v) \in Seq(Bytes) /\ Len(whole(v)) = sizeOf[v]
<1>1. sizeOf[v] \in size_t /\ sizeOf[v] \in Nat /\ v \in Bytes
  BY DiskAssumption, WAssumption DEF size_t
<1>2. whole(v) \in [1 .. sizeOf[v] -> Bytes]
  BY <1>1 DEF whole
<1>3. whole(v) \in Seq(Bytes)
  BY <1>1, <1>2, SeqDef
<1>4. 1 .. Len(whole(v)) = 1 .. sizeOf[v] /\ Len(whole(v)) \in Nat
  BY <1>2, <1>3, LenProperties
<1> QED BY <1>1, <1>3, <1>4

\* Part of a string of bytes is one.
LEMMA PartType ==
    ASSUME NEW s \in Seq(Bytes), NEW a \in Nat, NEW b \in Nat, b <= Len(s)
    PROVE  SubSeq(s, a + 1, b) \in Seq(Bytes)
<1>1. \A k \in (a + 1) .. b : s[k] \in Bytes
  BY ElementOfSeq
<1> QED BY <1>1, SubSeqProperties

-----------------------------------------------------------------------------
(* File systems *)

\* Making directories yields a file system.
LEMMA CreateDirectoriesType ==
    ASSUME NEW f \in FileSystems, NEW n \in Names
    PROVE  create_directories(f, n) \in FileSystems
  BY DEF create_directories, FileSystems

\* So does opening a file for writing.
LEMMA OpenTruncType ==
    ASSUME NEW f \in FileSystems, NEW n \in Names, NEW i \in Inodes
    PROVE  openTrunc(f, n, i) \in FileSystems
  BY DEF openTrunc, FileSystems

\* So does writing bytes at an offset.
LEMMA WriteType ==
    ASSUME NEW f \in FileSystems, NEW i \in Inodes, NEW offset \in Nat,
           NEW bytes \in Seq(Bytes)
    PROVE  write(f, i, offset, bytes) \in FileSystems
<1>1. f.data[i] \in Seq(Bytes)
  BY DEF FileSystems
<1>2. overlay(f.data[i], offset, bytes) \in Seq(Bytes)
  BY <1>1, OverlayType
<1> QED BY <1>2 DEF write, FileSystems

\* So does removing a name.
LEMMA RemoveType ==
    ASSUME NEW f \in FileSystems, NEW n \in Names
    PROVE  unbind(f, n) \in FileSystems /\ remove(f, n) \in FileSystems
  BY DEF unbind, remove, FileSystems

\* So does renaming.
LEMMA RenameType ==
    ASSUME NEW f \in FileSystems, NEW from \in Names, NEW to \in Names
    PROVE  rename(f, from, to) \in FileSystems
  BY DEF rename, FileSystems

\* So does dropping the files nobody can reach.
LEMMA ReclaimType ==
    ASSUME NEW f \in FileSystems, NEW open
    PROVE  reclaim(f, open) \in FileSystems
  BY EmptySeq DEF reclaim, FileSystems

\* The inodes that can be opened are inodes.
LEMMA OpenableType ==
    ASSUME NEW f \in FileSystems, NEW n \in Names, NEW open
    PROVE  openable(f, n, open) \subseteq Inodes
  BY DEF openable, unused, is_regular_file

\* The directory walk builds an index.
LEMMA ScanType ==
    ASSUME NEW f \in FileSystems
    PROVE  /\ scan(f) \in Indexes
           /\ \A seen \in SUBSET DOMAIN scan(f) : [n \in seen |-> scan(f)[n]] \in Indexes
<1> DEFINE found == {n \in Names : is_regular_file(f, n) /\ ~isTempFile(n)}
<1>1. found \subseteq Paths
  BY DiskAssumption DEF isTempFile
<1>2. \A n \in found : Len(contents(f, n)) \in Int
  <2> TAKE n \in found
  <2>1. contents(f, n) \in Seq(Bytes)
    BY DEF is_regular_file, contents, FileSystems
  <2> QED BY <2>1, LenProperties
<1>3. \A n \in found : Len(contents(f, n)) % W \in size_t
  BY <1>2, DivMod
<1>4. scan(f) \in [found -> size_t]
  BY <1>3 DEF scan
<1>5. ASSUME NEW seen \in SUBSET found
      PROVE  [n \in seen |-> scan(f)[n]] \in [seen -> size_t] /\ seen \subseteq Paths
  BY <1>1, <1>4
<1> QED BY <1>1, <1>4, <1>5 DEF Indexes

-----------------------------------------------------------------------------
(* The index under the engine *)

\* A step of the index, or a stutter, keeps its types.
LEMMA IndexStepType ==
    ASSUME IndexTypeOK, [IndexNext]_indexVars
    PROVE  IndexTypeOK'
<1>0. /\ m_sizes \in Indexes /\ m_totalBytes \in Int
      /\ \A path \in Paths : sizeOrZero(path) \in Int
      /\ \A n \in size_t : n \in Int
  BY WAssumption, IndexFacts DEF IndexTypeOK, size_t, sizeOrZero, contains
<1>1. ASSUME NEW path \in Paths, NEW size \in size_t, upsert(path, size)
      PROVE  IndexTypeOK'
  <2>1. m_totalBytes - sizeOrZero(path) + size \in Int
    BY <1>0
  <2>2. m_totalBytes' \in size_t
    BY <1>1, <2>1, DivMod DEF upsert
  <2> QED BY <1>0, <1>1, <2>2, IndexUpdateType DEF upsert, IndexTypeOK
<1>2. ASSUME NEW path \in Paths, erase(path)
      PROVE  IndexTypeOK'
  <2>1. m_totalBytes - sizeOrZero(path) \in Int
    BY <1>0
  <2>2. m_totalBytes' \in size_t
    BY <1>2, <2>1, DivMod DEF erase
  <2>3. 0 \in size_t
    BY WAssumption DEF size_t
  <2> QED BY <1>0, <1>2, <2>2, <2>3, IndexUpdateType DEF erase, IndexTypeOK
<1>3. ASSUME NEW found \in Indexes, refresh(found)
      PROVE  IndexTypeOK'
  BY <1>3, RefreshStep DEF IndexInv
<1>4. CASE UNCHANGED indexVars
  BY <1>4 DEF indexVars, IndexTypeOK
<1> QED BY <1>1, <1>2, <1>3, <1>4 DEF IndexNext, Upsert, Erase, Refresh

\* objectSize is a size or nothing.
LEMMA ObjectSizeType ==
    ASSUME IndexTypeOK, NEW path \in Paths
    PROVE  objectSize(path) \in size_t \cup {nullopt}
  BY IndexFacts DEF IndexTypeOK, objectSize, contains

\* m_onAborted of an upload is one step of the index.
LEMMA RestoreIsIndexStep ==
    ASSUME NEW u \in Uploads, restore(u)
    PROVE  IndexNext
<1>1. u.path \in Paths /\ u.previousSize \in size_t \cup {nullopt}
  BY DEF Uploads
<1>2. CASE u.previousSize = nullopt
  BY <1>1, <1>2 DEF restore, IndexNext, Erase
<1>3. CASE u.previousSize # nullopt
  BY <1>1, <1>3 DEF restore, IndexNext, Upsert
<1> QED BY <1>2, <1>3

-----------------------------------------------------------------------------
(* Steps of the engine *)

Sessions == [Conns -> {Idle} \cup Uploads \cup Downloads]

\* An uploading connection has an upload, a downloading one a download.
LEMMA SessionKinds ==
    ASSUME session \in Sessions, NEW c \in Conns
    PROVE  /\ uploading(c) => session[c] \in Uploads
           /\ downloading(c) => session[c] \in Downloads
  BY DEF Sessions, Idle, Uploads, Downloads, uploading, downloading

\* A connection may close its stream.
LEMMA BecomeIdle ==
    ASSUME session \in Sessions, NEW c \in Conns
    PROVE  [session EXCEPT ![c] = Idle] \in Sessions
  BY DEF Sessions

\* What a put leaves on disk, however far it gets, is a file system.
LEMMA PutBytesType ==
    ASSUME disk \in FileSystems, NEW path \in Paths, NEW v \in Values,
           putAdmitted(path, v), NEW i \in putInodes(path),
           NEW k \in 0 .. sizeOf[v]
    PROVE  putBytes(path, i, v, k) \in FileSystems
<1> DEFINE n == mapPath[path]
<1>1. n \in Names
  BY DiskAssumption DEF putAdmitted, putOpens, resolves
<1>2. i \in Inodes
  BY <1>1, OpenableType DEF putInodes
<1>3. k \in Nat /\ k <= Len(whole(v)) /\ whole(v) \in Seq(Bytes)
  BY WholeType
<1>4. SubSeq(whole(v), 1, k) \in Seq(Bytes)
  <2>1. SubSeq(whole(v), 0 + 1, k) \in Seq(Bytes)
    BY <1>3, PartType
  <2> QED BY <2>1
<1>5. openTrunc(create_directories(disk, n), n, i) \in FileSystems
  BY <1>1, <1>2, CreateDirectoriesType, OpenTruncType
<1> QED BY <1>2, <1>4, <1>5, WriteType DEF putBytes

\* What a chunk leaves on disk is a file system.
LEMMA ChunkType ==
    ASSUME disk \in FileSystems, NEW i \in Inodes, NEW v \in Values,
           NEW offset \in Nat, NEW k \in Nat, offset + k <= sizeOf[v]
    PROVE  chunk(i, v, offset, k) \in FileSystems
<1>1. whole(v) \in Seq(Bytes) /\ offset + k \in Nat /\ offset + k <= Len(whole(v))
  BY WholeType
<1>2. SubSeq(whole(v), offset + 1, offset + k) \in Seq(Bytes)
  BY <1>1, PartType
<1> QED BY <1>2, WriteType DEF chunk

\* What readChunk returns is a string of bytes.
LEMMA NextChunkType ==
    ASSUME disk \in FileSystems, NEW r \in Downloads
    PROVE  nextChunk(r) \in Seq(Bytes)
<1> DEFINE bytes == disk.data[r.inode]
           to == Len(r.got) + kReadChunkSize
<1>1. bytes \in Seq(Bytes) /\ Len(bytes) \in Nat
  BY DEF FileSystems, Downloads
<1>2. Len(r.got) \in Nat
  BY DEF Downloads
<1>3. (IF to < Len(bytes) THEN to ELSE Len(bytes)) \in Nat
  BY <1>1, <1>2, BoundedAssumption
<1>4. (IF to < Len(bytes) THEN to ELSE Len(bytes)) <= Len(bytes)
  BY <1>1, <1>2, BoundedAssumption
<1> HIDE DEF bytes, to
<1>5. SubSeq(bytes, Len(r.got) + 1, IF to < Len(bytes) THEN to ELSE Len(bytes)) \in Seq(Bytes)
  BY <1>1, <1>2, <1>3, <1>4, PartType
<1> QED BY <1>5, EmptySeq DEF nextChunk, bytes, to


\* A put that is admitted, complete or not, keeps the types and is at most
\* one step of the index.
LEMMA PutSteps ==
    ASSUME TypeOK, NEW path \in Paths, NEW v \in Values,
           \/ Put(path, v)
           \/ PutFails(path, v)
           \/ SetNx(path, v)
           \/ SetNxFails(path, v)
    PROVE  disk' \in FileSystems /\ session' \in Sessions /\ [IndexNext]_indexVars
<1>1. disk \in FileSystems /\ session \in Sessions /\ sizeOf[v] \in size_t
  BY WholeType DEF TypeOK, Sessions
<1>2. /\ putAdmitted(path, v)
      /\ \E i \in putInodes(path), k \in 0 .. sizeOf[v] :
             disk' = reclaim(putBytes(path, i, v, k), held(session))
      /\ UNCHANGED indexVars \/ upsert(path, sizeOf[v])
      /\ session' = session
  <2>0. sizeOf[v] \in Nat /\ sizeOf[v] \in 0 .. sizeOf[v]
        /\ 0 .. (sizeOf[v] - 1) \subseteq 0 .. sizeOf[v]
    BY WholeType
  <2>1. CASE Put(path, v) \/ SetNx(path, v)
    BY <2>0, <2>1 DEF Put, SetNx
  <2>2. CASE PutFails(path, v)
    BY <2>0, <2>2 DEF PutFails, indexVars
  <2>3. CASE SetNxFails(path, v)
    BY <2>0, <2>3 DEF SetNxFails
  <2> QED BY <2>1, <2>2, <2>3
<1>3. disk' \in FileSystems
  BY <1>1, <1>2, PutBytesType, ReclaimType
<1>4. [IndexNext]_indexVars
  BY <1>1, <1>2 DEF IndexNext, Upsert
<1> QED BY <1>1, <1>2, <1>3, <1>4

\* So does beginning an upload.
LEMMA BeginPutStep ==
    ASSUME TypeOK, NEW c \in Conns, NEW path \in Paths, NEW v \in Values,
           NEW isSetNx \in BOOLEAN, BeginPut(c, path, v, isSetNx)
    PROVE  disk' \in FileSystems /\ session' \in Sessions /\ [IndexNext]_indexVars
<1> DEFINE n == mapPath[path]
<1>1. disk \in FileSystems /\ session \in Sessions /\ sizeOf[v] \in size_t
  BY WholeType DEF TypeOK, Sessions
<1>2. n \in Names /\ n \in DOMAIN tempOf /\ tempOf[n] \in Names
  BY DiskAssumption DEF BeginPut, beginPutOpens, resolves
<1>3. PICK i \in tempInodes(n, held(session)) \cup {nullopt} :
          /\ session' = [session EXCEPT ![c] =
                 [kind |-> "upload", path |-> path, name |-> n,
                  value |-> v, isSetNx |-> isSetNx, written |-> 0,
                  inode |-> i, previousSize |-> objectSize(path)]]
          /\ disk' = reclaim(IF i = nullopt THEN create_directories(disk, n)
                                            ELSE openTemp(n, i),
                             held(session'))
  BY DEF BeginPut
<1>4. create_directories(disk, n) \in FileSystems
  BY <1>1, <1>2, CreateDirectoriesType
<1>5. i \in Inodes \cup {nullopt}
  BY <1>2, <1>4, OpenableType DEF tempInodes
<1>6. disk' \in FileSystems
  <2>1. CASE i = nullopt
    BY <1>3, <1>4, <2>1, ReclaimType
  <2>2. CASE i # nullopt
    <3>1. openTemp(n, i) \in FileSystems
      BY <1>2, <1>4, <1>5, <2>2, OpenTruncType DEF openTemp
    <3> QED BY <1>3, <2>2, <3>1, ReclaimType
  <2> QED BY <2>1, <2>2
<1>7. session' \in Sessions
  <2>1. 0 \in size_t /\ objectSize(path) \in size_t \cup {nullopt}
    BY WAssumption, ObjectSizeType DEF TypeOK, size_t
  <2>2. [kind |-> "upload", path |-> path, name |-> n,
         value |-> v, isSetNx |-> isSetNx, written |-> 0,
         inode |-> i, previousSize |-> objectSize(path)] \in Uploads
    BY <1>2, <1>5, <2>1 DEF Uploads
  <2> QED BY <1>1, <1>3, <2>2 DEF Sessions
<1>8. IndexNext
  BY <1>1 DEF BeginPut, IndexNext, Upsert
<1> QED BY <1>6, <1>7, <1>8

\* So does every step of an open upload, to its end.
LEMMA UploadSteps ==
    ASSUME TypeOK, NEW c \in Conns,
           WriteChunk(c) \/ WriteFails(c) \/ Finish(c) \/ FinishFails(c)
    PROVE  disk' \in FileSystems /\ session' \in Sessions /\ [IndexNext]_indexVars
<1> DEFINE u == session[c]
<1>1. disk \in FileSystems /\ session \in Sessions
  BY DEF TypeOK, Sessions
<1>2. u \in Uploads
  BY <1>1, SessionKinds DEF WriteChunk, WriteFails, Finish, FinishFails
<1>3. /\ u.value \in Values /\ u.written \in Nat
      /\ sizeOf[u.value] \in Nat /\ sizeOf[u.value] \in size_t
      /\ u.name \in Names /\ tempOf[u.name] \in Names
  BY <1>2, WholeType, WAssumption, DiskAssumption DEF Uploads, size_t
<1>4. CASE WriteChunk(c)
  <2>1. PICK k \in 1 .. (sizeOf[u.value] - u.written) :
            /\ disk' = chunk(u.inode, u.value, u.written, k)
            /\ session' = [session EXCEPT ![c].written = u.written + k]
    BY <1>4 DEF WriteChunk
  <2>2. k \in Nat /\ u.written + k <= sizeOf[u.value] /\ u.inode \in Inodes
    BY <1>2, <1>3, <1>4 DEF WriteChunk, Uploads
  <2>3. disk' \in FileSystems
    BY <1>1, <1>3, <2>1, <2>2, ChunkType
  <2>4. u.written + k \in size_t
    BY <1>3, <2>2, WAssumption DEF size_t
  <2>5. [u EXCEPT !.written = u.written + k] \in Uploads
    BY <1>2, <2>4 DEF Uploads
  <2>6. session' = [session EXCEPT ![c] = [u EXCEPT !.written = u.written + k]]
    BY <1>1, <2>1 DEF Sessions
  <2>7. session' \in Sessions
    BY <1>1, <2>5, <2>6 DEF Sessions
  <2> QED BY <1>4, <2>3, <2>7 DEF WriteChunk, indexVars
<1>5. CASE WriteFails(c)
  <2>1. PICK k \in 0 .. (sizeOf[u.value] - u.written - 1) :
            disk' = reclaim(removeTemp(IF u.inode = nullopt THEN disk
                                       ELSE chunk(u.inode, u.value, u.written, k),
                                       u.name),
                            held(session'))
    BY <1>5 DEF WriteFails
  <2>2. k \in Nat /\ u.written + k <= sizeOf[u.value]
    BY <1>3
  <2>3. (IF u.inode = nullopt THEN disk
         ELSE chunk(u.inode, u.value, u.written, k)) \in FileSystems
    <3>1. CASE u.inode = nullopt
      BY <1>1, <3>1
    <3>2. CASE u.inode # nullopt
      <4>1. u.inode \in Inodes
        BY <1>2, <3>2 DEF Uploads
      <4> QED BY <1>1, <1>3, <2>2, <3>2, <4>1, ChunkType
    <3> QED BY <3>1, <3>2
  <2>4. disk' \in FileSystems
    BY <1>3, <2>1, <2>3, RemoveType, ReclaimType DEF removeTemp
  <2> QED BY <1>1, <1>2, <1>5, <2>4, BecomeIdle, RestoreIsIndexStep DEF WriteFails
<1>6. CASE Finish(c)
  <2>1. disk' \in FileSystems
    BY <1>1, <1>3, <1>6, RenameType, ReclaimType DEF Finish, renameTemp
  <2> QED BY <1>1, <1>6, <2>1, BecomeIdle DEF Finish
<1>7. CASE FinishFails(c)
  <2>1. disk' \in FileSystems
    BY <1>1, <1>3, <1>7, RemoveType, ReclaimType DEF FinishFails, removeTemp
  <2> QED BY <1>1, <1>2, <1>7, <2>1, BecomeIdle, RestoreIsIndexStep DEF FinishFails
<1> QED BY <1>4, <1>5, <1>6, <1>7

\* So does every step of a download, and the loss of a connection.
LEMMA DownloadSteps ==
    ASSUME TypeOK, NEW c \in Conns,
           \/ \E path \in Paths : BeginGet(c, path)
           \/ ReadChunk(c)
           \/ EndGet(c)
           \/ Disconnect(c)
    PROVE  disk' \in FileSystems /\ session' \in Sessions /\ [IndexNext]_indexVars
<1> DEFINE r == session[c]
<1>1. disk \in FileSystems /\ session \in Sessions
  BY DEF TypeOK, Sessions
<1>2. ASSUME NEW path \in Paths, BeginGet(c, path)
      PROVE  disk' \in FileSystems /\ session' \in Sessions /\ [IndexNext]_indexVars
  <2> DEFINE new == [kind |-> "download", inode |-> disk.dir[mapPath[path]],
                     announced |-> Len(get(path)), want |-> get(path),
                     got |-> <<>>, eof |-> FALSE]
  <2>1. disk.dir[mapPath[path]] \in Inodes
    BY <1>2 DEF BeginGet, stored, is_regular_file
  <2>2. get(path) \in Seq(Bytes)
    BY <1>1, <1>2, <2>1 DEF BeginGet, get, contents, FileSystems
  <2>3. new \in Downloads
    BY <2>1, <2>2, LenProperties, EmptySeq DEF Downloads
  <2>4. session' = [session EXCEPT ![c] = new]
    BY <1>2 DEF BeginGet
  <2>5. session' \in Sessions
    BY <1>1, <2>3, <2>4 DEF Sessions
  <2> QED BY <1>1, <1>2, <2>5 DEF BeginGet, indexVars
<1>3. CASE ReadChunk(c)
  <2> DEFINE bytes == nextChunk(r)
  <2>1. r \in Downloads
    BY <1>1, <1>3, SessionKinds DEF ReadChunk
  <2>2. bytes \in Seq(Bytes) /\ r.got \in Seq(Bytes)
    BY <1>1, <2>1, NextChunkType DEF Downloads
  <2>3. r.got \o bytes \in Seq(Bytes)
    BY <2>2, ConcatProperties
  <2> DEFINE short == Len(bytes) < kReadChunkSize
             got2 == r.got \o bytes
  <2>4. session' = [session EXCEPT ![c] = [r EXCEPT !.got = got2, !.eof = short]]
    BY <1>1, <1>3 DEF ReadChunk, Sessions
  <2>5. [r EXCEPT !.got = got2, !.eof = short] \in Downloads
    <3>1. short \in BOOLEAN /\ got2 \in Seq(Bytes)
      BY <2>3
    <3> HIDE DEF short, got2
    <3> QED BY <2>1, <3>1 DEF Downloads
  <2>6. session' \in Sessions
    BY <1>1, <2>4, <2>5 DEF Sessions
  <2> QED BY <1>1, <1>3, <2>6 DEF ReadChunk, indexVars
<1>4. CASE EndGet(c) \/ Disconnect(c)
  BY <1>1, <1>4, BecomeIdle, ReclaimType DEF EndGet, Disconnect, indexVars
<1> QED BY <1>2, <1>3, <1>4

\* So does starting the server from a disk.
LEMMA RestartFromStep ==
    ASSUME NEW d \in FileSystems, restartFrom(d)
    PROVE  disk' \in FileSystems /\ session' \in Sessions /\ [IndexNext]_indexVars
<1>1. PICK seen \in SUBSET DOMAIN scan(d) : refresh([n \in seen |-> scan(d)[n]])
  BY DEF restartFrom
<1>2. IndexNext
  BY <1>1, ScanType DEF IndexNext, Refresh
<1>3. session' \in Sessions
  BY DEF restartFrom, Sessions
<1> QED BY <1>2, <1>3, ReclaimType DEF restartFrom

\* So does a file that does not open once its directories are made.
LEMMA OpenFailsStep ==
    ASSUME TypeOK, NEW path \in Paths, NEW v \in Values, OpenFails(path, v)
    PROVE  disk' \in FileSystems /\ session' \in Sessions /\ [IndexNext]_indexVars
<1>1. mapPath[path] \in Names
  BY DiskAssumption DEF OpenFails, putAdmitted, putOpens, resolves
<1> QED BY <1>1, CreateDirectoriesType DEF OpenFails, TypeOK, Sessions, indexVars

\* The history of lost uploads keeps its type.
LEMMA LostStep ==
    ASSUME TypeOK, [Next]_vars
    PROVE  lost' \in [Paths -> size_t \cup {nullopt}]
<1>0. lost \in [Paths -> size_t \cup {nullopt}] /\ session \in Sessions
  BY DEF TypeOK, Sessions
<1>1. ASSUME NEW path \in Paths, settled(path) \/ lost' = lost
      PROVE  lost' \in [Paths -> size_t \cup {nullopt}]
  BY <1>0, <1>1 DEF settled
<1>2. ASSUME NEW c \in Conns, uploading(c)
      PROVE  session[c].path \in Paths /\ sizeOf[session[c].value] \in size_t
  BY <1>0, <1>2, SessionKinds, WholeType DEF Uploads
<1>3. ASSUME NEW path \in Paths, NEW v \in Values,
             \/ Put(path, v) \/ PutFails(path, v) \/ SetNx(path, v) \/ SetNxFails(path, v)
             \/ OpenFails(path, v)
             \/ \E c \in Conns, isSetNx \in BOOLEAN : BeginPut(c, path, v, isSetNx)
      PROVE  lost' \in [Paths -> size_t \cup {nullopt}]
  BY <1>1, <1>3 DEF Put, PutFails, SetNx, SetNxFails, OpenFails, BeginPut
<1>4. ASSUME NEW path \in Paths, Del(path)
      PROVE  lost' \in [Paths -> size_t \cup {nullopt}]
  BY <1>1, <1>4 DEF Del
<1>5. ASSUME NEW c \in Conns, Finish(c)
      PROVE  lost' \in [Paths -> size_t \cup {nullopt}]
  BY <1>1, <1>2, <1>5 DEF Finish
<1>6. ASSUME NEW c \in Conns, Disconnect(c)
      PROVE  lost' \in [Paths -> size_t \cup {nullopt}]
  BY <1>0, <1>2, <1>6 DEF Disconnect
<1>7. ASSUME \/ \E c \in Conns : \/ WriteChunk(c) \/ WriteFails(c) \/ FinishFails(c)
                                 \/ ReadChunk(c) \/ EndGet(c)
                                 \/ \E path \in Paths : BeginGet(c, path)
             \/ UNCHANGED vars
      PROVE  lost' = lost
  BY <1>7 DEF WriteChunk, WriteFails, FinishFails, ReadChunk, EndGet, BeginGet, vars
<1>8. ASSUME Restart \/ \E path \in Paths, v \in Values : CrashInPut(path, v)
      PROVE  lost' = [path \in Paths |-> nullopt]
  BY <1>8 DEF Restart, CrashInPut, restartFrom
<1> QED BY <1>0, <1>3, <1>4, <1>5, <1>6, <1>7, <1>8 DEF Next

\* Any step of the engine keeps its types and is at most one step of the
\* index.
LEMMA EngineStep ==
    ASSUME TypeOK, [Next]_vars
    PROVE  TypeOK' /\ [IndexNext]_indexVars
<1>1. disk' \in FileSystems /\ session' \in Sessions /\ [IndexNext]_indexVars
  <2>1. ASSUME NEW path \in Paths, NEW v \in Values,
               Put(path, v) \/ PutFails(path, v) \/ SetNx(path, v) \/ SetNxFails(path, v)
        PROVE  disk' \in FileSystems /\ session' \in Sessions /\ [IndexNext]_indexVars
    BY <2>1, PutSteps
  <2>2. ASSUME NEW path \in Paths, NEW v \in Values, CrashInPut(path, v)
        PROVE  disk' \in FileSystems /\ session' \in Sessions /\ [IndexNext]_indexVars
    <3>1. create_directories(disk, mapPath[path]) \in FileSystems
      BY <2>2, DiskAssumption, CreateDirectoriesType
         DEF CrashInPut, putAdmitted, putOpens, resolves, TypeOK
    <3>2. \A i \in putInodes(path), k \in 0 .. sizeOf[v] :
              putBytes(path, i, v, k) \in FileSystems
      BY <2>2, PutBytesType DEF CrashInPut, TypeOK
    <3> QED BY <2>2, <3>1, <3>2, RestartFromStep DEF CrashInPut
  <2>3. ASSUME NEW path \in Paths, NEW v \in Values, NEW c \in Conns,
               NEW isSetNx \in BOOLEAN, BeginPut(c, path, v, isSetNx)
        PROVE  disk' \in FileSystems /\ session' \in Sessions /\ [IndexNext]_indexVars
    BY <2>3, BeginPutStep
  <2>4. ASSUME NEW path \in Paths, Del(path)
        PROVE  disk' \in FileSystems /\ session' \in Sessions /\ [IndexNext]_indexVars
    <3>1. mapPath[path] \in Names
      BY <2>4, DiskAssumption DEF Del, delSucceeds, resolves
    <3>2. disk' \in FileSystems
      BY <2>4, <3>1, RemoveType, ReclaimType DEF Del, TypeOK
    <3> QED BY <2>4, <3>2 DEF Del, TypeOK, Sessions, IndexNext, Erase
  <2>5. ASSUME NEW c \in Conns,
               WriteChunk(c) \/ WriteFails(c) \/ Finish(c) \/ FinishFails(c)
        PROVE  disk' \in FileSystems /\ session' \in Sessions /\ [IndexNext]_indexVars
    BY <2>5, UploadSteps
  <2>6. ASSUME NEW c \in Conns,
               \/ \E path \in Paths : BeginGet(c, path)
               \/ ReadChunk(c)
               \/ EndGet(c)
               \/ Disconnect(c)
        PROVE  disk' \in FileSystems /\ session' \in Sessions /\ [IndexNext]_indexVars
    BY <2>6, DownloadSteps
  <2>7. CASE Restart
    BY <2>7, RestartFromStep DEF Restart, TypeOK
  <2>8. CASE UNCHANGED vars
    BY <2>8 DEF vars, indexVars, TypeOK, Sessions
  <2>9. ASSUME NEW path \in Paths, NEW v \in Values, OpenFails(path, v)
        PROVE  disk' \in FileSystems /\ session' \in Sessions /\ [IndexNext]_indexVars
    BY <2>9, OpenFailsStep
  <2> QED BY <2>1, <2>2, <2>3, <2>4, <2>5, <2>6, <2>7, <2>8, <2>9 DEF Next
<1>2. IndexTypeOK'
  BY <1>1, IndexStepType DEF TypeOK
<1> QED BY <1>1, <1>2, LostStep DEF TypeOK, Sessions

\* The engine starts on an empty disk, with an index that is right for it.
LEMMA EngineInit ==
    ASSUME Init
    PROVE  TypeOK /\ IndexInit
<1>1. disk \in FileSystems /\ \A n \in Names : disk.dir[n] = Missing
  BY EmptySeq DEF Init, emptyRoot, FileSystems
<1>2. scan(disk) \in Indexes
  BY <1>1, ScanType
<1>3. DOMAIN m_sizes = {}
  BY <1>1, FileSystemAssumption DEF Init, scan, is_regular_file
<1>4. TotalOf(m_sizes) = 0
  BY <1>3, FS_EmptySet DEF TotalOf, BytesOf
<1>5. m_totalBytes = 0 /\ 0 \in size_t /\ 0 % W = 0
  BY WAssumption DEF Init, size_t
<1>6. session \in Sessions /\ lost \in [Paths -> size_t \cup {nullopt}]
  BY DEF Init, Sessions
<1> QED BY <1>1, <1>2, <1>4, <1>5, <1>6 DEF Init, TypeOK, IndexTypeOK, IndexInit, Sessions

\* Every component of the engine's state stays in the range of its type, in
\* particular the word arithmetic on sizes and offsets, whatever the clients,
\* the disk and the power supply do.
THEOREM EngineTypeOK == Spec => []TypeOK
<1>1. Init => TypeOK
  BY EngineInit
<1>2. TypeOK /\ [Next]_vars => TypeOK'
  BY EngineStep
<1> QED BY <1>1, <1>2, PTL DEF Spec

\* Every callback is at most one call on the index.
LEMMA EngineIndexSteps == Spec => IndexSpec
<1>1. Init => IndexInit
  BY EngineInit
<1>2. TypeOK /\ [Next]_vars => [IndexNext]_indexVars
  BY EngineStep
<1> QED BY <1>1, <1>2, EngineTypeOK, PTL DEF Spec, IndexSpec

\* Hence the total that wouldFit consults is always the sum of the indexed
\* sizes modulo the word, also after contended uploads, aborts, lost
\* connections and restarts.
THEOREM EngineTotalMatchesIndex == Spec => []TotalMatchesIndex
  BY EngineIndexSteps, IndexCorrect, PTL
=============================================================================
