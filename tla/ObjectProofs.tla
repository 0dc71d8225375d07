---------------------------- MODULE ObjectProofs ----------------------------
(***************************************************************************)
(* Proofs about the objects the storage engine keeps.                      *)
(***************************************************************************)
EXTENDS BoundedObjectStorageProofs

-----------------------------------------------------------------------------
(* The bytes of a value *)

\* The first k bytes of v.
prefix(v, k) == [j \in 1 .. k |-> v]

\* Part of a value is as many copies of it as the part is long.
LEMMA PartOfValue ==
    ASSUME NEW v \in Values, NEW a \in Nat, NEW k \in Nat, a + k <= sizeOf[v]
    PROVE  SubSeq(whole(v), a + 1, a + k) = prefix(v, k)
<1>1. sizeOf[v] \in Nat
  BY WholeType
<1>2. SubSeq(whole(v), a + 1, a + k) = [j \in 1 .. k |-> whole(v)[a + j]]
  BY <1>1, WholeType, SubSeqProperties
<1>3. \A j \in 1 .. k : whole(v)[a + j] = v
  BY <1>1 DEF whole
<1> QED BY <1>2, <1>3 DEF prefix

\* The bytes of a prefix.
LEMMA PrefixType ==
    ASSUME NEW v \in Values, NEW k \in Nat
    PROVE  prefix(v, k) \in Seq(Bytes) /\ Len(prefix(v, k)) = k
<1>1. v \in Bytes
  BY DiskAssumption
<1>2. prefix(v, k) \in [1 .. k -> Bytes]
  BY <1>1 DEF prefix
<1>3. prefix(v, k) \in Seq(Bytes)
  BY <1>2, SeqDef
<1>4. 1 .. Len(prefix(v, k)) = 1 .. k /\ Len(prefix(v, k)) \in Nat
  BY <1>2, <1>3, LenProperties
<1> QED BY <1>3, <1>4

\* Writing the next k bytes behind the first w leaves the first w + k.
LEMMA OverlayExtends ==
    ASSUME NEW v \in Values, NEW w \in Nat, NEW k \in Nat
    PROVE  overlay(prefix(v, w), w, prefix(v, k)) = prefix(v, w + k)
<1>1. Len(prefix(v, w)) = w /\ Len(prefix(v, k)) = k
  BY PrefixType
<1>2. overlay(prefix(v, w), w, prefix(v, k))
        = [j \in 1 .. (w + k) |->
             IF w < j /\ j <= w + k THEN prefix(v, k)[j - w]
             ELSE IF j <= w THEN prefix(v, w)[j] ELSE Hole]
  BY <1>1 DEF overlay
<1>3. \A j \in 1 .. (w + k) :
          (IF w < j /\ j <= w + k THEN prefix(v, k)[j - w]
           ELSE IF j <= w THEN prefix(v, w)[j] ELSE Hole) = v
  BY DEF prefix
<1> QED BY <1>2, <1>3 DEF prefix

\* An empty file is the prefix of no bytes.
LEMMA PrefixEnds ==
    ASSUME NEW v \in Values
    PROVE  prefix(v, 0) = <<>> /\ prefix(v, sizeOf[v]) = whole(v)
<1>1. prefix(v, 0) \in Seq(Bytes) /\ Len(prefix(v, 0)) = 0
  BY PrefixType
<1> QED BY <1>1, EmptySeq DEF prefix, whole

-----------------------------------------------------------------------------
(***************************************************************************)
(* Three things can happen to the names of a file system d, and e is the   *)
(* outcome.  The operators hide how inodes are found and how ancestors     *)
(* become directories: no file is affected by that.                        *)
(***************************************************************************)

\* Every file but those of the names N is bound in e as it is in d.
sameFiles(d, e, N) ==
    \A m \in Names \ N :
        d.dir[m] \in Inodes \/ e.dir[m] \in Inodes => e.dir[m] = d.dir[m]

sameBytes(d, e, I) == \A j \in Inodes \ I : e.data[j] = d.data[j]

\* n is opened as inode i, its own or one that nobody uses, and then holds
\* the bytes given.
Opens(d, e, n, i, bytes, open) ==
    /\ i \in Inodes
    /\ d.dir[n] = i \/ (i \notin open /\ \A m \in Names : d.dir[m] # i)
    /\ e.dir[n] = i /\ e.data[i] = bytes
    /\ sameFiles(d, e, {n}) /\ sameBytes(d, e, {i})

\* n is removed.
Unbinds(d, e, n) ==
    e.dir[n] = Missing /\ sameFiles(d, e, {n}) /\ sameBytes(d, e, {})

\* The file from takes the name to.
Renames(d, e, from, to) ==
    /\ from # to /\ d.dir[from] \in Inodes
    /\ e.dir[from] = Missing /\ e.dir[to] = d.dir[from]
    /\ sameFiles(d, e, {from, to}) /\ sameBytes(d, e, {})

\* An upload's bytes go to inode i and nowhere else.
Writes(d, e, i, bytes) ==
    e.dir = d.dir /\ e.data[i] = bytes /\ sameBytes(d, e, {i})

\* A put that is admitted opens its file and writes to it.
LEMMA PutOpens ==
    ASSUME TypeOK, NEW path \in Paths, NEW v \in Values, putAdmitted(path, v),
           NEW i \in putInodes(path), NEW k \in 0 .. sizeOf[v]
    PROVE  Opens(disk, putBytes(path, i, v, k), mapPath[path], i, prefix(v, k),
                 held(session))
<1> DEFINE n == mapPath[path]
           made == create_directories(disk, n)
           opened == openTrunc(made, n, i)
           e == putBytes(path, i, v, k)
<1>1. n \in Names /\ disk \in FileSystems
  BY DiskAssumption DEF putAdmitted, putOpens, resolves, TypeOK
<1>2. i \in Inodes
  BY <1>1, OpenableType DEF putInodes
<1>3. disk.dir[n] = i \/ (i \notin held(session) /\ \A m \in Names : disk.dir[m] # i)
  BY <1>1 DEF putInodes, openable, unused, is_regular_file
<1>4. \A m \in Names : m \in Ancestors[n] => disk.dir[m] \notin Inodes
  BY <1>1, FileSystemAssumption
     DEF putAdmitted, putOpens, parentsCreatable, is_regular_file
<1>5. /\ opened.dir = [made.dir EXCEPT ![n] = i]
      /\ opened.data = [disk.data EXCEPT ![i] = <<>>]
      /\ made.dir = [m \in Names |-> IF m \in Ancestors[n] THEN Directory ELSE disk.dir[m]]
  BY <1>1 DEF openTrunc, create_directories, FileSystems
<1>6. SubSeq(whole(v), 1, k) = prefix(v, k) /\ overlay(<<>>, 0, prefix(v, k)) = prefix(v, k)
  <2>1. k \in Nat /\ 0 + k <= sizeOf[v] /\ sizeOf[v] \in Nat
    BY WholeType
  <2>2. SubSeq(whole(v), 0 + 1, 0 + k) = prefix(v, k)
    BY <2>1, PartOfValue
  <2>3. overlay(prefix(v, 0), 0, prefix(v, k)) = prefix(v, 0 + k)
    BY <2>1, OverlayExtends
  <2> QED BY <2>1, <2>2, <2>3, PrefixEnds
<1>7. /\ e.dir = opened.dir
      /\ e.data = [opened.data EXCEPT ![i] = overlay(opened.data[i], 0, prefix(v, k))]
  BY <1>6 DEF putBytes, write, openTrunc
<1>8. opened.data[i] = <<>> /\ DOMAIN disk.data = Inodes
  BY <1>1, <1>2, <1>5 DEF FileSystems
<1>9. e.data = [opened.data EXCEPT ![i] = prefix(v, k)]
  BY <1>6, <1>7, <1>8
<1>10. e.dir[n] = i /\ e.data[i] = prefix(v, k) /\ sameBytes(disk, e, {i})
  BY <1>1, <1>2, <1>5, <1>7, <1>8, <1>9, ZenonT(30) DEF sameBytes
<1>11. sameFiles(disk, e, {n})
  BY <1>1, <1>4, <1>5, <1>7, FileSystemAssumption, ZenonT(30) DEF sameFiles
<1> HIDE DEF e, n
<1>12. Opens(disk, e, n, i, prefix(v, k), held(session))
  BY <1>2, <1>3, <1>10, <1>11 DEF Opens
<1> QED BY <1>12 DEF e, n

\* beginPut opens the temporary, empty.
LEMMA BeginPutOpens ==
    ASSUME TypeOK, NEW n \in DOMAIN tempOf, parentsCreatable(disk, n),
           NEW i \in tempInodes(n, held(session))
    PROVE  Opens(disk, openTemp(n, i), tempOf[n], i, <<>>, held(session))
<1> DEFINE made == create_directories(disk, n)
           t == tempOf[n]
           e == openTemp(n, i)
<1>1. n \in Names /\ t \in Names /\ disk \in FileSystems /\ made \in FileSystems
  BY DiskAssumption, CreateDirectoriesType DEF TypeOK
<1>2. i \in Inodes
  BY <1>1, OpenableType DEF tempInodes
<1>3. \A m \in Names : m \in Ancestors[n] => disk.dir[m] \notin Inodes
  BY <1>1, FileSystemAssumption DEF parentsCreatable, is_regular_file
<1>4. /\ made.dir = [m \in Names |-> IF m \in Ancestors[n] THEN Directory ELSE disk.dir[m]]
      /\ made.data = disk.data
  BY <1>1 DEF create_directories, FileSystems
<1>5. made.dir[t] = i \/ (i \notin held(session) /\ \A m \in Names : made.dir[m] # i)
  BY <1>1 DEF tempInodes, openable, unused, is_regular_file
<1>6. disk.dir[t] = i \/ (i \notin held(session) /\ \A m \in Names : disk.dir[m] # i)
  BY <1>1, <1>2, <1>3, <1>4, <1>5, FileSystemAssumption
<1>7. e.dir = [made.dir EXCEPT ![t] = i] /\ e.data = [disk.data EXCEPT ![i] = <<>>]
  BY <1>1, <1>4 DEF openTemp, openTrunc
<1>8. e.dir[t] = i /\ e.data[i] = <<>> /\ sameBytes(disk, e, {i})
  BY <1>1, <1>2, <1>4, <1>7 DEF sameBytes, FileSystems
<1>9. sameFiles(disk, e, {t})
  BY <1>1, <1>3, <1>4, <1>7, FileSystemAssumption DEF sameFiles
<1> HIDE DEF e, t
<1>10. Opens(disk, e, t, i, <<>>, held(session))
  BY <1>2, <1>6, <1>8, <1>9 DEF Opens
<1> QED BY <1>10 DEF e, t

\* Making the directories above a name affects no file.
LEMMA DirectoriesOnly ==
    ASSUME NEW d \in FileSystems, NEW n \in Names, parentsCreatable(d, n)
    PROVE  sameFiles(d, create_directories(d, n), {})
           /\ create_directories(d, n).data = d.data
  BY FileSystemAssumption
     DEF create_directories, sameFiles, parentsCreatable, is_regular_file, FileSystems

\* A chunk behind the first w bytes of a value leaves the first w + k.
LEMMA ChunkWrites ==
    ASSUME NEW d \in FileSystems, d = disk, NEW i \in Inodes, NEW v \in Values,
           NEW w \in Nat, NEW k \in Nat, w + k <= sizeOf[v], d.data[i] = prefix(v, w)
    PROVE  Writes(d, chunk(i, v, w, k), i, prefix(v, w + k))
<1>1. chunk(i, v, w, k) = [d EXCEPT !.data = [d.data EXCEPT ![i] = prefix(v, w + k)]]
  BY PartOfValue, OverlayExtends, ZenonT(30) DEF chunk, write
<1> QED BY <1>1 DEF Writes, sameBytes, FileSystems

\* Removing a name, and renaming a file.
LEMMA UnbindAndRename ==
    ASSUME NEW d \in FileSystems, NEW n \in Names, NEW m \in Names
    PROVE  /\ Unbinds(d, unbind(d, n), n)
           /\ m # n /\ is_regular_file(d, m) => Renames(d, rename(d, m, n), m, n)
<1>1. Unbinds(d, unbind(d, n), n)
  BY DEF Unbinds, unbind, sameFiles, sameBytes, FileSystems
<1>2. ASSUME m # n, is_regular_file(d, m) PROVE Renames(d, rename(d, m, n), m, n)
  BY <1>2 DEF Renames, rename, sameFiles, sameBytes, is_regular_file, FileSystems
<1> QED BY <1>1, <1>2

\* A temporary is removed, or was missing.
LEMMA RemoveUnbinds ==
    ASSUME NEW d \in FileSystems, NEW n \in DOMAIN tempOf
    PROVE  Unbinds(d, removeTemp(d, n), tempOf[n])
<1>1. tempOf[n] \in TempNames /\ tempOf[n] \in Names
  BY DiskAssumption
<1>2. \A m \in Names : tempOf[n] \notin Ancestors[m]
  BY <1>1, DiskAssumption
<1>3. CASE exists(d, tempOf[n])
  <2>1. removable(d, tempOf[n])
    BY <1>2, <1>3 DEF removable
  <2> QED BY <1>1, <2>1, UnbindAndRename DEF removeTemp, remove
<1>4. CASE ~exists(d, tempOf[n])
  BY <1>1, <1>4 DEF exists, removeTemp, remove, removable, Unbinds, sameFiles, sameBytes
<1> QED BY <1>3, <1>4

\* Reclaiming keeps every name, and the bytes of files that are bound or open.
LEMMA ReclaimKeeps ==
    ASSUME NEW d \in FileSystems, NEW open
    PROVE  /\ reclaim(d, open).dir = d.dir
           /\ \A n \in Names : d.dir[n] \in Inodes =>
                  reclaim(d, open).data[d.dir[n]] = d.data[d.dir[n]]
           /\ \A i \in Inodes \cap open : reclaim(d, open).data[i] = d.data[i]
  BY DEF reclaim, unused, FileSystems

-----------------------------------------------------------------------------
(***************************************************************************)
(* The invariant, of a disk d and the open streams s.                      *)
(***************************************************************************)

\* No two uploads on one file at a time, and no other request on a file that
\* an upload is using.
Uncontended == "contend" \notin Env

\* What a put writes is on the disk when it returns.
PutsWhole ==
    \/ "fault" \notin Env /\ "crash" \notin Env
    \/ \A v \in Values : sizeOf[v] > kStreamingThreshold

\* No put to a file that is being read, and no client reads temporaries.
ReadsStable ==
    "overwrite" \notin Env /\ \A path \in Paths : mapPath[path] \notin TempNames

isUpload(s, c) == s[c].kind = "upload"
isDownload(s, c) == s[c].kind = "download"
used(u) == {u.name, tempOf[u.name]}
quietIn(s, n) == \A c \in Conns : isUpload(s, c) => n \notin used(s[c])

\* A file has one name.
Distinct(d) ==
    \A m, n \in Names : d.dir[m] \in Inodes /\ d.dir[m] = d.dir[n] => m = n

\* Uploads use different names.
Apart(s) ==
    \A b, c \in Conns : isUpload(s, b) /\ isUpload(s, c) /\ b # c =>
        used(s[b]) \cap used(s[c]) = {}

\* The temporary of an upload is the file its stream writes to, and holds the
\* bytes written so far.  An upload by SETNX has found no object, and there is
\* none yet.
goodUpload(d, u) ==
    /\ u.name = mapPath[u.path] /\ u.written <= sizeOf[u.value]
    /\ u.inode # nullopt =>
           d.dir[tempOf[u.name]] = u.inode /\ d.data[u.inode] = prefix(u.value, u.written)
    /\ u.isSetNx => d.dir[u.name] \notin Inodes

\* The file of a download is no temporary and has the bytes it had at first;
\* some of them are delivered, and all of them at the end of the file.
goodDownload(d, r) ==
    /\ d.data[r.inode] = r.want /\ r.announced = Len(r.want)
    /\ Len(r.got) <= Len(r.want) /\ r.got = SubSeq(r.want, 1, Len(r.got))
    /\ r.eof => Len(r.got) = Len(r.want)
    /\ \A t \in TempNames : d.dir[t] # r.inode

\* Every file that is no temporary is a value.
Whole(d) ==
    \A n \in Names \ TempNames : d.dir[n] \in Inodes =>
        \E v \in Values : d.data[d.dir[n]] = whole(v)

ObjectInv(d, s) ==
    /\ Distinct(d) /\ Apart(s)
    /\ \A c \in Conns : isUpload(s, c) => goodUpload(d, s[c])
    /\ ReadsStable => \A c \in Conns : isDownload(s, c) => goodDownload(d, s[c])
    /\ PutsWhole => Whole(d)

-----------------------------------------------------------------------------
(* What keeps the invariant *)

\* Opening a file that no upload uses, and no download reads.
LEMMA OpensKeeps ==
    ASSUME NEW d \in FileSystems, NEW e \in FileSystems, NEW s \in Sessions,
           NEW n \in Names, NEW i \in Inodes, NEW bytes,
           ObjectInv(d, s), Opens(d, e, n, i, bytes, held(s)), quietIn(s, n),
           ReadsStable => \A c \in Conns : isDownload(s, c) => s[c].inode # i,
           PutsWhole => n \in TempNames \/ \E v \in Values : bytes = whole(v)
    PROVE  ObjectInv(e, s)
<1>1. Distinct(e)
  BY DEF ObjectInv, Distinct, Opens, sameFiles, FileSystems
<1>2. ASSUME NEW c \in Conns, isUpload(s, c) PROVE goodUpload(e, s[c])
  <2> DEFINE u == s[c]
             t == tempOf[u.name]
  <2>1. u \in Uploads /\ u.name \in Names /\ t \in Names /\ goodUpload(d, u)
    BY <1>2, DiskAssumption DEF Sessions, Uploads, Downloads, Idle, isUpload, ObjectInv
  <2>2. t # n /\ u.name # n
    BY <1>2 DEF quietIn, used
  <2>3. ASSUME u.inode # nullopt
        PROVE  e.dir[t] = u.inode /\ e.data[u.inode] = prefix(u.value, u.written)
    <3>1. u.inode \in Inodes /\ d.dir[t] = u.inode
      BY <2>1, <2>3 DEF Uploads, goodUpload
    <3>2. u.inode # i
      BY <2>1, <2>2, <3>1 DEF Opens, ObjectInv, Distinct
    <3> QED BY <2>1, <2>2, <2>3, <3>1, <3>2 DEF Opens, sameFiles, sameBytes, goodUpload
  <2>4. u.isSetNx => e.dir[u.name] \notin Inodes
    BY <2>1, <2>2 DEF goodUpload, Opens, sameFiles
  <2> QED BY <2>1, <2>3, <2>4 DEF goodUpload
<1>3. ASSUME ReadsStable, NEW c \in Conns, isDownload(s, c)
      PROVE  goodDownload(e, s[c])
  <2>1. s[c] \in Downloads /\ goodDownload(d, s[c]) /\ s[c].inode # i
    BY <1>3 DEF Sessions, Uploads, Downloads, Idle, isDownload, ObjectInv
  <2>2. s[c].inode \in Inodes
    BY <2>1 DEF Downloads
  <2>3. \A t \in TempNames : e.dir[t] # s[c].inode
    BY <2>1, <2>2, DiskAssumption DEF goodDownload, Opens, sameFiles
  <2> QED BY <2>1, <2>2, <2>3 DEF goodDownload, Opens, sameBytes
<1>4. ASSUME PutsWhole PROVE Whole(e)
  <2> SUFFICES ASSUME NEW m \in Names \ TempNames, e.dir[m] \in Inodes
               PROVE  \E v \in Values : e.data[e.dir[m]] = whole(v)
    BY DEF Whole
  <2>1. CASE m = n
    BY <1>4, <2>1 DEF Opens
  <2>2. CASE m # n
    <3>1. e.dir[m] = d.dir[m]
      BY <2>2 DEF Opens, sameFiles
    <3>2. d.dir[m] # i
      BY <2>2, <3>1 DEF Opens, ObjectInv, Distinct
    <3> QED BY <1>4, <3>1, <3>2 DEF Opens, sameBytes, ObjectInv, Whole
  <2> QED BY <2>1, <2>2
<1> QED BY <1>1, <1>2, <1>3, <1>4 DEF ObjectInv

\* Making directories.
LEMMA DirectoriesKeep ==
    ASSUME NEW d \in FileSystems, NEW e \in FileSystems, NEW s \in Sessions,
           ObjectInv(d, s), sameFiles(d, e, {}), e.data = d.data
    PROVE  ObjectInv(e, s)
<1>1. Distinct(e)
  BY DEF ObjectInv, Distinct, sameFiles
<1>2. ASSUME NEW c \in Conns, isUpload(s, c) PROVE goodUpload(e, s[c])
  <2>1. s[c] \in Uploads /\ s[c].name \in Names /\ tempOf[s[c].name] \in Names
    BY <1>2, DiskAssumption DEF Sessions, Uploads, Downloads, Idle, isUpload
  <2> QED BY <1>2, <2>1 DEF ObjectInv, goodUpload, sameFiles, Uploads
<1>3. ASSUME ReadsStable, NEW c \in Conns, isDownload(s, c)
      PROVE  goodDownload(e, s[c])
  <2>1. s[c] \in Downloads /\ s[c].inode \in Inodes
    BY <1>3 DEF Sessions, Uploads, Downloads, Idle, isDownload
  <2> QED BY <1>3, <2>1, DiskAssumption DEF ObjectInv, goodDownload, sameFiles
<1>4. PutsWhole => Whole(e)
  BY DEF ObjectInv, Whole, sameFiles
<1> QED BY <1>1, <1>2, <1>3, <1>4 DEF ObjectInv

\* Removing a name that no upload uses.
LEMMA UnbindsKeeps ==
    ASSUME NEW d \in FileSystems, NEW e \in FileSystems, NEW s \in Sessions,
           NEW n \in Names, ObjectInv(d, s), Unbinds(d, e, n), quietIn(s, n)
    PROVE  ObjectInv(e, s)
<1>0. Missing \notin Inodes /\ \A j \in Inodes : e.data[j] = d.data[j]
  BY FileSystemAssumption DEF Unbinds, sameBytes
<1>1. Distinct(e)
  BY <1>0 DEF ObjectInv, Distinct, Unbinds, sameFiles
<1>2. ASSUME NEW c \in Conns, isUpload(s, c) PROVE goodUpload(e, s[c])
  <2>1. s[c] \in Uploads /\ s[c].name \in Names /\ tempOf[s[c].name] \in Names
    BY <1>2, DiskAssumption DEF Sessions, Uploads, Downloads, Idle, isUpload
  <2>2. s[c].name # n /\ tempOf[s[c].name] # n
    BY <1>2 DEF quietIn, used
  <2> QED BY <1>0, <1>2, <2>1, <2>2
          DEF ObjectInv, goodUpload, Unbinds, sameFiles, Uploads
<1>3. ASSUME ReadsStable, NEW c \in Conns, isDownload(s, c)
      PROVE  goodDownload(e, s[c])
  <2>1. s[c] \in Downloads /\ s[c].inode \in Inodes /\ goodDownload(d, s[c])
    BY <1>3 DEF Sessions, Uploads, Downloads, Idle, isDownload, ObjectInv
  <2>2. \A t \in TempNames : e.dir[t] # s[c].inode
    BY <1>0, <2>1, DiskAssumption DEF goodDownload, Unbinds, sameFiles
  <2> QED BY <1>0, <2>1, <2>2 DEF goodDownload
<1>4. PutsWhole => Whole(e)
  BY <1>0 DEF ObjectInv, Whole, Unbinds, sameFiles
<1> QED BY <1>1, <1>2, <1>3, <1>4 DEF ObjectInv

\* Renaming a temporary that no upload uses any more.
LEMMA RenamesKeeps ==
    ASSUME NEW d \in FileSystems, NEW e \in FileSystems, NEW s \in Sessions,
           NEW t \in TempNames, NEW n \in Names, ObjectInv(d, s), Renames(d, e, t, n),
           quietIn(s, t), quietIn(s, n), \E v \in Values : d.data[d.dir[t]] = whole(v)
    PROVE  ObjectInv(e, s)
<1>0. /\ Missing \notin Inodes /\ \A j \in Inodes : e.data[j] = d.data[j]
      /\ t \in Names /\ d.dir[t] \in Inodes /\ e.dir[n] = d.dir[t] /\ e.dir[t] = Missing
      /\ t # n
  BY FileSystemAssumption, DiskAssumption DEF Renames, sameBytes
<1>1. Distinct(e)
  BY <1>0 DEF ObjectInv, Distinct, Renames, sameFiles
<1>2. ASSUME NEW c \in Conns, isUpload(s, c) PROVE goodUpload(e, s[c])
  <2>1. s[c] \in Uploads /\ s[c].name \in Names /\ tempOf[s[c].name] \in Names
    BY <1>2, DiskAssumption DEF Sessions, Uploads, Downloads, Idle, isUpload
  <2>2. /\ s[c].name # n /\ tempOf[s[c].name] # n
        /\ s[c].name # t /\ tempOf[s[c].name] # t
    BY <1>2 DEF quietIn, used
  <2> QED BY <1>0, <1>2, <2>1, <2>2
          DEF ObjectInv, goodUpload, Renames, sameFiles, Uploads
<1>3. ASSUME ReadsStable, NEW c \in Conns, isDownload(s, c)
      PROVE  goodDownload(e, s[c])
  <2>1. s[c] \in Downloads /\ s[c].inode \in Inodes /\ goodDownload(d, s[c])
    BY <1>3 DEF Sessions, Uploads, Downloads, Idle, isDownload, ObjectInv
  <2>2. ASSUME NEW m \in TempNames PROVE e.dir[m] # s[c].inode
    <3>1. m \in Names /\ d.dir[m] # s[c].inode /\ d.dir[t] # s[c].inode
      BY <2>1, DiskAssumption DEF goodDownload
    <3>2. CASE m = n \/ m = t
      BY <1>0, <2>1, <3>1, <3>2
    <3>3. CASE m # n /\ m # t
      BY <2>1, <3>1, <3>3 DEF Renames, sameFiles
    <3> QED BY <3>2, <3>3
  <2> QED BY <1>0, <2>1, <2>2 DEF goodDownload
<1>4. PutsWhole => Whole(e)
  BY <1>0 DEF ObjectInv, Whole, Renames, sameFiles
<1> QED BY <1>1, <1>2, <1>3, <1>4 DEF ObjectInv

\* Writing to a temporary that no upload uses any more.
LEMMA WritesKeeps ==
    ASSUME NEW d \in FileSystems, NEW e \in FileSystems, NEW s \in Sessions,
           NEW t \in TempNames, NEW bytes, ObjectInv(d, s), d.dir[t] \in Inodes,
           Writes(d, e, d.dir[t], bytes), quietIn(s, t)
    PROVE  ObjectInv(e, s)
<1>0. t \in Names /\ e.dir = d.dir /\ \A j \in Inodes : j # d.dir[t] => e.data[j] = d.data[j]
  BY DiskAssumption DEF Writes, sameBytes
<1>1. Distinct(e)
  BY <1>0 DEF ObjectInv, Distinct
<1>2. ASSUME NEW c \in Conns, isUpload(s, c) PROVE goodUpload(e, s[c])
  <2>1. s[c] \in Uploads /\ s[c].name \in Names /\ tempOf[s[c].name] \in Names
    BY <1>2, DiskAssumption DEF Sessions, Uploads, Downloads, Idle, isUpload
  <2>2. tempOf[s[c].name] # t
    BY <1>2 DEF quietIn, used
  <2>3. s[c].inode # nullopt => s[c].inode \in Inodes /\ s[c].inode # d.dir[t]
    BY <1>0, <1>2, <2>1, <2>2 DEF ObjectInv, goodUpload, Distinct, Uploads
  <2> QED BY <1>0, <1>2, <2>1, <2>3 DEF ObjectInv, goodUpload
<1>3. ASSUME ReadsStable, NEW c \in Conns, isDownload(s, c)
      PROVE  goodDownload(e, s[c])
  <2>1. s[c] \in Downloads /\ s[c].inode \in Inodes /\ goodDownload(d, s[c])
    BY <1>3 DEF Sessions, Uploads, Downloads, Idle, isDownload, ObjectInv
  <2> QED BY <1>0, <2>1 DEF goodDownload
<1>4. PutsWhole => Whole(e)
  BY <1>0 DEF ObjectInv, Whole, Distinct
<1> QED BY <1>1, <1>2, <1>3, <1>4 DEF ObjectInv

\* Reclaiming what is neither bound nor open.
LEMMA ReclaimKeepsInv ==
    ASSUME NEW d \in FileSystems, NEW s \in Sessions, ObjectInv(d, s)
    PROVE  ObjectInv(reclaim(d, held(s)), s)
<1> DEFINE e == reclaim(d, held(s))
<1>0. /\ e.dir = d.dir
      /\ \A n \in Names : d.dir[n] \in Inodes => e.data[d.dir[n]] = d.data[d.dir[n]]
      /\ \A i \in Inodes \cap held(s) : e.data[i] = d.data[i]
  BY ReclaimKeeps
<1> HIDE DEF e
<1>1. Distinct(e)
  BY <1>0 DEF ObjectInv, Distinct
<1>2. ASSUME NEW c \in Conns, isUpload(s, c) PROVE goodUpload(e, s[c])
  <2>1. s[c] \in Uploads /\ s[c].name \in Names /\ tempOf[s[c].name] \in Names
    BY <1>2, DiskAssumption DEF Sessions, Uploads, Downloads, Idle, isUpload
  <2> QED BY <1>0, <1>2, <2>1 DEF ObjectInv, goodUpload, Uploads
<1>3. ASSUME ReadsStable, NEW c \in Conns, isDownload(s, c)
      PROVE  goodDownload(e, s[c])
  <2>1. s[c] \in Downloads /\ s[c].inode \in Inodes /\ goodDownload(d, s[c])
    BY <1>3 DEF Sessions, Uploads, Downloads, Idle, isDownload, ObjectInv
  <2>2. s[c].inode \in held(s)
    BY <1>3 DEF held, isDownload, Idle
  <2> QED BY <1>0, <2>1, <2>2 DEF goodDownload
<1>4. PutsWhole => Whole(e)
  BY <1>0 DEF ObjectInv, Whole
<1> QED BY <1>1, <1>2, <1>3, <1>4 DEF ObjectInv, e

\* A connection's stream changes, is opened or is closed.
LEMMA StreamKeeps ==
    ASSUME NEW d \in FileSystems, NEW s \in Sessions, NEW c \in Conns,
           NEW x \in {Idle} \cup Uploads \cup Downloads, ObjectInv(d, s),
           x.kind = "upload" =>
               /\ goodUpload(d, x)
               /\ \A b \in Conns \ {c} : isUpload(s, b) => used(s[b]) \cap used(x) = {},
           ReadsStable /\ x.kind = "download" => goodDownload(d, x)
    PROVE  ObjectInv(d, [s EXCEPT ![c] = x]) /\ [s EXCEPT ![c] = x] \in Sessions
<1> DEFINE s2 == [s EXCEPT ![c] = x]
<1>1. s2 \in Sessions /\ s2[c] = x /\ \A b \in Conns \ {c} : s2[b] = s[b]
  BY DEF Sessions
<1> HIDE DEF s2
<1>2. Apart(s2)
  <2> SUFFICES ASSUME NEW a \in Conns, NEW b \in Conns, a # b,
                      isUpload(s2, a), isUpload(s2, b)
               PROVE  used(s2[a]) \cap used(s2[b]) = {}
    BY DEF Apart
  <2>1. CASE a = c
    BY <1>1, <2>1 DEF isUpload
  <2>2. CASE b = c
    BY <1>1, <2>2 DEF isUpload
  <2>3. CASE a # c /\ b # c
    BY <1>1, <2>3 DEF ObjectInv, Apart, isUpload
  <2> QED BY <2>1, <2>2, <2>3
<1>3. \A b \in Conns : isUpload(s2, b) => goodUpload(d, s2[b])
  BY <1>1 DEF ObjectInv, isUpload
<1>4. ReadsStable => \A b \in Conns : isDownload(s2, b) => goodDownload(d, s2[b])
  BY <1>1 DEF ObjectInv, isDownload
<1>5. ObjectInv(d, s2)
  BY <1>2, <1>3, <1>4 DEF ObjectInv
<1> QED BY <1>1, <1>5 DEF s2

\* A closed upload leaves its names to the others.
LEMMA CloseKeeps ==
    ASSUME NEW d \in FileSystems, NEW s \in Sessions, NEW c \in Conns, ObjectInv(d, s)
    PROVE  /\ ObjectInv(d, [s EXCEPT ![c] = Idle]) /\ [s EXCEPT ![c] = Idle] \in Sessions
           /\ isUpload(s, c) => \A n \in used(s[c]) : quietIn([s EXCEPT ![c] = Idle], n)
<1>1. Idle.kind = "idle"
  BY DEF Idle
<1>2. ObjectInv(d, [s EXCEPT ![c] = Idle]) /\ [s EXCEPT ![c] = Idle] \in Sessions
  BY <1>1, StreamKeeps
<1>3. ASSUME isUpload(s, c), NEW n \in used(s[c]), NEW b \in Conns,
             isUpload([s EXCEPT ![c] = Idle], b)
      PROVE  n \notin used([s EXCEPT ![c] = Idle][b])
  <2>1. b # c /\ [s EXCEPT ![c] = Idle][b] = s[b]
    BY <1>1, <1>3 DEF isUpload, Sessions
  <2>2. used(s[b]) \cap used(s[c]) = {}
    BY <1>3, <2>1 DEF ObjectInv, Apart, isUpload
  <2> QED BY <1>3, <2>1, <2>2
<1> QED BY <1>2, <1>3 DEF quietIn

\* All streams are closed.
LEMMA CloseAllKeeps ==
    ASSUME NEW d \in FileSystems, NEW s \in Sessions, ObjectInv(d, s)
    PROVE  ObjectInv(d, [c \in Conns |-> Idle]) /\ [c \in Conns |-> Idle] \in Sessions
<1> DEFINE s2 == [c \in Conns |-> Idle]
<1>1. \A c \in Conns : ~isUpload(s2, c) /\ ~isDownload(s2, c)
  BY DEF isUpload, isDownload, Idle
<1>2. s2 \in Sessions
  BY DEF Sessions
<1> HIDE DEF s2
<1>3. ObjectInv(d, s2)
  BY <1>1 DEF ObjectInv, Apart
<1> QED BY <1>2, <1>3 DEF s2

-----------------------------------------------------------------------------
(* Steps of the engine *)

\* A put that is admitted, as far as it gets.
LEMMA PutKeeps ==
    ASSUME Uncontended, TypeOK, ObjectInv(disk, session), NEW path \in Paths,
           NEW v \in Values, putAdmitted(path, v), NEW i \in putInodes(path),
           NEW k \in 0 .. sizeOf[v], PutsWhole => k = sizeOf[v]
    PROVE  ObjectInv(putBytes(path, i, v, k), session)
<1> DEFINE n == mapPath[path]
           e == putBytes(path, i, v, k)
<1>1. disk \in FileSystems /\ session \in Sessions /\ e \in FileSystems
  BY PutBytesType DEF TypeOK, Sessions
<1>2. n \in Names /\ i \in Inodes
  BY DiskAssumption, <1>1, OpenableType DEF putAdmitted, putOpens, resolves, putInodes
<1>3. Opens(disk, e, n, i, prefix(v, k), held(session))
  BY PutOpens
<1>4. quietIn(session, n)
  BY DEF putAdmitted, quiet, Uncontended, quietIn, used, isUpload, uploading
<1>5. ASSUME ReadsStable, NEW c \in Conns, isDownload(session, c)
      PROVE  session[c].inode # i
  <2>1. session[c].inode \in held(session)
    BY <1>5 DEF held, isDownload, Idle
  <2>2. session[c].inode # disk.dir[n]
    BY <1>5 DEF ReadsStable, putAdmitted, unread, isDownload, downloading
  <2> QED BY <1>3, <2>1, <2>2 DEF Opens
<1>6. PutsWhole => prefix(v, k) = whole(v)
  BY PrefixEnds
<1> HIDE DEF e, n
<1>7. ObjectInv(e, session)
  BY <1>1, <1>2, <1>3, <1>4, <1>5, <1>6, OpensKeeps
<1> QED BY <1>7 DEF e

\* A put that stops half way needs a value at or below the threshold.
LEMMA PartialPut ==
    ASSUME NEW path \in Paths, NEW v \in Values, putAdmitted(path, v), PutsWhole
    PROVE  "fault" \notin Env /\ "crash" \notin Env
  BY WholeType, BoundedAssumption DEF PutsWhole, putAdmitted

\* Whole-object requests.
LEMMA PutStepsKeep ==
    ASSUME Uncontended, TypeOK, ObjectInv(disk, session), NEW path \in Paths,
           NEW v \in Values,
           Put(path, v) \/ PutFails(path, v) \/ SetNx(path, v) \/ SetNxFails(path, v)
    PROVE  ObjectInv(disk', session')
<1>1. /\ putAdmitted(path, v) /\ session' = session
      /\ \E i \in putInodes(path), k \in 0 .. sizeOf[v] :
             /\ disk' = reclaim(putBytes(path, i, v, k), held(session))
             /\ PutsWhole => k = sizeOf[v]
  <2>0. sizeOf[v] \in Nat /\ sizeOf[v] \in 0 .. sizeOf[v]
        /\ 0 .. (sizeOf[v] - 1) \subseteq 0 .. sizeOf[v]
    BY WholeType
  <2>1. CASE Put(path, v) \/ SetNx(path, v)
    BY <2>0, <2>1 DEF Put, SetNx
  <2>2. CASE PutFails(path, v)
    BY <2>0, <2>2, PartialPut DEF PutFails
  <2>3. CASE SetNxFails(path, v)
    BY <2>0, <2>3, PartialPut DEF SetNxFails
  <2> QED BY <2>1, <2>2, <2>3
<1>2. PICK i \in putInodes(path), k \in 0 .. sizeOf[v] :
          /\ disk' = reclaim(putBytes(path, i, v, k), held(session))
          /\ PutsWhole => k = sizeOf[v]
  BY <1>1
<1>3. putBytes(path, i, v, k) \in FileSystems /\ session \in Sessions
  BY <1>1, PutBytesType DEF TypeOK, Sessions
<1>4. ObjectInv(putBytes(path, i, v, k), session)
  BY <1>1, <1>2, PutKeeps
<1> QED BY <1>1, <1>2, <1>3, <1>4, ReclaimKeepsInv

\* Starting the server.
LEMMA RestartKeeps ==
    ASSUME NEW d \in FileSystems, session \in Sessions, ObjectInv(d, session), restartFrom(d)
    PROVE  ObjectInv(disk', session')
<1> DEFINE s2 == [c \in Conns |-> Idle]
<1>1. ObjectInv(d, s2) /\ s2 \in Sessions
  BY CloseAllKeeps
<1>2. held(s2) = {}
  BY DEF held
<1>3. disk' = reclaim(d, held(s2)) /\ session' = s2
  BY <1>2 DEF restartFrom
<1> QED BY <1>1, <1>3, ReclaimKeepsInv

\* The directories of a put.
LEMMA PutDirectories ==
    ASSUME TypeOK, ObjectInv(disk, session), NEW path \in Paths, NEW v \in Values,
           putAdmitted(path, v)
    PROVE  /\ create_directories(disk, mapPath[path]) \in FileSystems
           /\ ObjectInv(create_directories(disk, mapPath[path]), session)
<1> DEFINE n == mapPath[path]
           e == create_directories(disk, n)
<1>1. n \in Names /\ parentsCreatable(disk, n) /\ disk \in FileSystems /\ session \in Sessions
  BY DiskAssumption DEF putAdmitted, putOpens, resolves, TypeOK, Sessions
<1>2. e \in FileSystems
  BY <1>1, CreateDirectoriesType
<1>3. sameFiles(disk, e, {}) /\ e.data = disk.data
  BY <1>1, DirectoriesOnly
<1> HIDE DEF e
<1>4. ObjectInv(e, session)
  BY <1>1, <1>2, <1>3, DirectoriesKeep
<1> QED BY <1>2, <1>4 DEF e

\* Killing the server in a put.
LEMMA CrashKeeps ==
    ASSUME Uncontended, TypeOK, ObjectInv(disk, session), NEW path \in Paths,
           NEW v \in Values, CrashInPut(path, v)
    PROVE  ObjectInv(disk', session')
<1>1. putAdmitted(path, v) /\ "crash" \in Env /\ session \in Sessions
  BY DEF CrashInPut, TypeOK, Sessions
<1>2. ~PutsWhole
  BY <1>1, PartialPut
<1>3. ASSUME NEW i \in putInodes(path), NEW k \in 0 .. sizeOf[v],
             restartFrom(putBytes(path, i, v, k))
      PROVE  ObjectInv(disk', session')
  <2>1. putBytes(path, i, v, k) \in FileSystems
    BY <1>1, PutBytesType DEF TypeOK
  <2>2. ObjectInv(putBytes(path, i, v, k), session)
    BY <1>1, <1>2, PutKeeps
  <2> QED BY <1>1, <1>3, <2>1, <2>2, RestartKeeps
<1>4. CASE restartFrom(create_directories(disk, mapPath[path]))
  BY <1>1, <1>4, PutDirectories, RestartKeeps
<1> QED BY <1>3, <1>4 DEF CrashInPut

\* A put whose file does not open.
LEMMA OpenFailsKeeps ==
    ASSUME TypeOK, ObjectInv(disk, session), NEW path \in Paths, NEW v \in Values,
           OpenFails(path, v)
    PROVE  ObjectInv(disk', session')
  BY PutDirectories DEF OpenFails

\* Deleting an object.
LEMMA DelKeeps ==
    ASSUME Uncontended, TypeOK, ObjectInv(disk, session), NEW path \in Paths, Del(path)
    PROVE  ObjectInv(disk', session')
<1> DEFINE n == mapPath[path]
<1>1. n \in Names /\ disk \in FileSystems /\ session \in Sessions
  BY DiskAssumption DEF Del, delSucceeds, resolves, TypeOK, Sessions
<1>2. quietIn(session, n)
  BY DEF Del, quiet, Uncontended, quietIn, used, isUpload, uploading
<1>3. disk' = reclaim(unbind(disk, n), held(session)) /\ session' = session
  BY DEF Del
<1>4. unbind(disk, n) \in FileSystems /\ Unbinds(disk, unbind(disk, n), n)
  BY <1>1, RemoveType, UnbindAndRename
<1> HIDE DEF n
<1>5. ObjectInv(unbind(disk, n), session)
  BY <1>1, <1>2, <1>4, UnbindsKeeps
<1> QED BY <1>1, <1>3, <1>4, <1>5, ReclaimKeepsInv

\* Beginning an upload.
LEMMA BeginPutKeeps ==
    ASSUME Uncontended, TypeOK, ObjectInv(disk, session), NEW c \in Conns,
           NEW path \in Paths, NEW v \in Values, NEW isSetNx \in BOOLEAN,
           BeginPut(c, path, v, isSetNx)
    PROVE  ObjectInv(disk', session')
<1> DEFINE n == mapPath[path]
           t == tempOf[n]
           u(i) == [kind |-> "upload", path |-> path, name |-> n,
                    value |-> v, isSetNx |-> isSetNx, written |-> 0,
                    inode |-> i, previousSize |-> objectSize(path)]
<1>1. disk \in FileSystems /\ session \in Sessions
  BY DEF TypeOK, Sessions
<1>2. n \in Names /\ n \in DOMAIN tempOf /\ t \in Names /\ t \in TempNames /\ t # n
  BY DiskAssumption DEF BeginPut, beginPutOpens, resolves
<1>3. PICK i \in tempInodes(n, held(session)) \cup {nullopt} :
          /\ session' = [session EXCEPT ![c] = u(i)]
          /\ disk' = reclaim(IF i = nullopt THEN create_directories(disk, n)
                                            ELSE openTemp(n, i),
                             held(session'))
  BY DEF BeginPut
<1>4. parentsCreatable(disk, n) /\ create_directories(disk, n) \in FileSystems
  BY <1>1, <1>2, CreateDirectoriesType DEF BeginPut, beginPutOpens
<1>5. i # nullopt => i \in Inodes /\ i \in tempInodes(n, held(session))
  BY <1>2, <1>4, OpenableType DEF tempInodes
<1>6. quietIn(session, n) /\ quietIn(session, t) /\ session[c] = Idle
  BY DEF BeginPut, quiet, Uncontended, quietIn, used, isUpload, uploading
<1>7. /\ u(i).name = n /\ u(i).path = path /\ u(i).written = 0 /\ u(i).inode = i
      /\ u(i).value = v /\ u(i).isSetNx = isSetNx /\ u(i).kind = "upload"
  OBVIOUS
<1>8. isSetNx => disk.dir[n] \notin Inodes
  BY <1>2 DEF BeginPut, setNxProceeds, stored, is_regular_file, BeginPut,
              beginPutOpens
<1> DEFINE e == IF i = nullopt THEN create_directories(disk, n) ELSE openTemp(n, i)
<1>9. /\ e \in FileSystems /\ ObjectInv(e, session)
      /\ i # nullopt => e.dir[t] = i /\ e.data[i] = prefix(v, 0)
      /\ isSetNx => e.dir[n] \notin Inodes
  <2>1. CASE i = nullopt
    <3>1. e = create_directories(disk, n) /\ e \in FileSystems
      BY <1>4, <2>1
    <3>2. sameFiles(disk, e, {}) /\ e.data = disk.data
      BY <1>1, <1>2, <1>4, <3>1, DirectoriesOnly
    <3>3. ObjectInv(e, session)
      BY <1>1, <3>1, <3>2, DirectoriesKeep
    <3>4. isSetNx => e.dir[n] \notin Inodes
      BY <1>2, <1>8, <3>2 DEF sameFiles
    <3> QED BY <2>1, <3>1, <3>3, <3>4
  <2>2. CASE i # nullopt
    <3>1. e = openTemp(n, i) /\ e \in FileSystems
      BY <1>2, <1>4, <1>5, <2>2, OpenTruncType DEF openTemp
    <3>2. Opens(disk, e, t, i, <<>>, held(session))
      BY <1>2, <1>4, <1>5, <2>2, <3>1, BeginPutOpens
    <3>3. ASSUME ReadsStable, NEW b \in Conns, isDownload(session, b)
          PROVE  session[b].inode # i
      <4>1. session[b].inode \in held(session)
        BY <3>3 DEF held, isDownload, Idle
      <4>2. session[b].inode # disk.dir[t]
        BY <1>2, <3>3 DEF ObjectInv, goodDownload
      <4> QED BY <3>2, <4>1, <4>2 DEF Opens
    <3> HIDE DEF e, t, n
    <3>4. ObjectInv(e, session)
      BY <1>1, <1>2, <1>5, <1>6, <2>2, <3>1, <3>2, <3>3, OpensKeeps
    <3>5. isSetNx => e.dir[n] \notin Inodes
      BY <1>2, <1>8, <3>2 DEF Opens, sameFiles
    <3>6. e.dir[t] = i /\ e.data[i] = prefix(v, 0)
      BY <3>2, PrefixEnds DEF Opens
    <3> QED BY <3>1, <3>4, <3>5, <3>6
  <2> QED BY <2>1, <2>2
<1> HIDE DEF e
<1>10. goodUpload(e, u(i))
  BY <1>7, <1>9, WholeType DEF goodUpload
<1>11. \A b \in Conns \ {c} : isUpload(session, b) => used(session[b]) \cap used(u(i)) = {}
  BY <1>6, <1>7 DEF quietIn, used
<1>12. u(i) \in Uploads
  <2>1. 0 \in size_t /\ objectSize(path) \in size_t \cup {nullopt}
    BY WAssumption, ObjectSizeType DEF TypeOK, size_t
  <2> QED BY <1>2, <1>5, <2>1 DEF Uploads
<1> HIDE DEF u
<1>13. ObjectInv(e, session') /\ session' \in Sessions
  BY <1>1, <1>3, <1>7, <1>9, <1>10, <1>11, <1>12, StreamKeeps
<1> QED BY <1>3, <1>9, <1>13, ReclaimKeepsInv DEF e

\* What is known of an upload and of the others when it is closed.
LEMMA OpenUpload ==
    ASSUME TypeOK, ObjectInv(disk, session), NEW c \in Conns, uploading(c)
    PROVE  LET u == session[c]
               s == [session EXCEPT ![c] = Idle]
           IN  /\ disk \in FileSystems /\ u \in Uploads /\ s \in Sessions
               /\ u.value \in Values /\ sizeOf[u.value] \in Nat
               /\ u.written \in Nat /\ u.written <= sizeOf[u.value]
               /\ u.name \in DOMAIN tempOf /\ u.name \in Names
               /\ tempOf[u.name] \in TempNames /\ tempOf[u.name] \in Names
               /\ tempOf[u.name] # u.name
               /\ goodUpload(disk, u) /\ ObjectInv(disk, s)
               /\ quietIn(s, u.name) /\ quietIn(s, tempOf[u.name])
               /\ u.inode # nullopt =>
                      /\ u.inode \in Inodes /\ disk.dir[tempOf[u.name]] = u.inode
                      /\ disk.data[u.inode] = prefix(u.value, u.written)
<1> DEFINE u == session[c]
           s == [session EXCEPT ![c] = Idle]
<1>1. disk \in FileSystems /\ session \in Sessions
  BY DEF TypeOK, Sessions
<1>2. u \in Uploads /\ isUpload(session, c)
  BY <1>1, SessionKinds DEF isUpload, uploading
<1>3. /\ u.value \in Values /\ sizeOf[u.value] \in Nat /\ u.written \in Nat
      /\ u.name \in DOMAIN tempOf /\ u.name \in Names
      /\ tempOf[u.name] \in TempNames /\ tempOf[u.name] \in Names
      /\ tempOf[u.name] # u.name
  BY <1>2, WholeType, WAssumption, DiskAssumption DEF Uploads, size_t
<1>4. goodUpload(disk, u)
  BY <1>2 DEF ObjectInv
<1>5. ObjectInv(disk, s) /\ s \in Sessions
      /\ quietIn(s, u.name) /\ quietIn(s, tempOf[u.name])
  BY <1>1, <1>2, CloseKeeps DEF used
<1>6. u.inode # nullopt => u.inode \in Inodes
  BY <1>2 DEF Uploads
<1> QED BY <1>1, <1>2, <1>3, <1>4, <1>5, <1>6 DEF goodUpload

\* A chunk of an upload, apart from the upload itself.
LEMMA ChunkKeeps ==
    ASSUME TypeOK, ObjectInv(disk, session), NEW c \in Conns, uploading(c),
           session[c].inode # nullopt, NEW k \in Nat,
           session[c].written + k <= sizeOf[session[c].value]
    PROVE  LET u == session[c]
               e == chunk(u.inode, u.value, u.written, k)
           IN  /\ e \in FileSystems /\ ObjectInv(e, [session EXCEPT ![c] = Idle])
               /\ e.dir = disk.dir /\ e.data[u.inode] = prefix(u.value, u.written + k)
<1> DEFINE u == session[c]
           e == chunk(u.inode, u.value, u.written, k)
           s == [session EXCEPT ![c] = Idle]
           t == tempOf[u.name]
<1>1. /\ disk \in FileSystems /\ s \in Sessions /\ u.value \in Values
      /\ u.written \in Nat /\ t \in TempNames /\ ObjectInv(disk, s)
      /\ quietIn(s, t) /\ u.inode \in Inodes /\ disk.dir[t] = u.inode
      /\ disk.data[u.inode] = prefix(u.value, u.written)
  BY OpenUpload
<1>2. e \in FileSystems
  BY <1>1, ChunkType
<1>3. Writes(disk, e, u.inode, prefix(u.value, u.written + k))
  BY <1>1, ChunkWrites
<1> HIDE DEF e, s, t, u
<1>4. ObjectInv(e, s)
  BY <1>1, <1>2, <1>3, WritesKeeps
<1> QED BY <1>2, <1>3, <1>4 DEF Writes, e, s, u

\* The steps of an open upload, to its end.
LEMMA UploadStepsKeep ==
    ASSUME Uncontended, TypeOK, ObjectInv(disk, session), NEW c \in Conns,
           WriteChunk(c) \/ WriteFails(c) \/ Finish(c) \/ FinishFails(c)
    PROVE  ObjectInv(disk', session')
<1> DEFINE u == session[c]
           s == [session EXCEPT ![c] = Idle]
           t == tempOf[u.name]
<1>0. uploading(c)
  BY DEF WriteChunk, WriteFails, Finish, FinishFails
<1>1. /\ disk \in FileSystems /\ u \in Uploads /\ s \in Sessions /\ session \in Sessions
      /\ u.value \in Values /\ sizeOf[u.value] \in Nat
      /\ u.written \in Nat /\ u.written <= sizeOf[u.value]
      /\ u.name \in DOMAIN tempOf /\ u.name \in Names
      /\ t \in TempNames /\ t \in Names /\ t # u.name
      /\ goodUpload(disk, u) /\ ObjectInv(disk, s)
      /\ quietIn(s, u.name) /\ quietIn(s, t)
      /\ u.inode # nullopt =>
             /\ u.inode \in Inodes /\ disk.dir[t] = u.inode
             /\ disk.data[u.inode] = prefix(u.value, u.written)
  BY <1>0, OpenUpload DEF TypeOK, Sessions
<1>2. ASSUME NEW d \in FileSystems, ObjectInv(d, s)
      PROVE  ObjectInv(reclaim(removeTemp(d, u.name), held(s)), s)
  <2> DEFINE e == removeTemp(d, u.name)
  <2>1. e \in FileSystems /\ Unbinds(d, e, t)
    BY <1>1, <1>2, RemoveType, RemoveUnbinds DEF removeTemp
  <2> HIDE DEF e, s, t
  <2>2. ObjectInv(e, s)
    BY <1>1, <1>2, <2>1, UnbindsKeeps
  <2> QED BY <1>1, <2>1, <2>2, ReclaimKeepsInv DEF e
<1>3. CASE WriteChunk(c)
  <2>1. PICK k \in 1 .. (sizeOf[u.value] - u.written) :
            /\ disk' = chunk(u.inode, u.value, u.written, k)
            /\ session' = [session EXCEPT ![c].written = u.written + k]
    BY <1>3 DEF WriteChunk
  <2> DEFINE u2 == [u EXCEPT !.written = u.written + k]
             e == chunk(u.inode, u.value, u.written, k)
  <2>2. k \in Nat /\ u.written + k <= sizeOf[u.value] /\ u.inode # nullopt
    BY <1>1, <1>3 DEF WriteChunk
  <2>3. /\ e \in FileSystems /\ ObjectInv(e, s)
        /\ e.dir = disk.dir /\ e.data[u.inode] = prefix(u.value, u.written + k)
    BY <1>0, <2>2, ChunkKeeps
  <2>4. u2 \in Uploads
    <3>1. u.written + k \in size_t
      BY <1>1, <2>2, WholeType, WAssumption DEF size_t
    <3> QED BY <1>1, <3>1 DEF Uploads
  <2>5. /\ u2.kind = "upload" /\ u2.name = u.name /\ u2.path = u.path /\ u2.inode = u.inode
        /\ u2.value = u.value /\ u2.isSetNx = u.isSetNx /\ u2.written = u.written + k
    BY <1>1 DEF Uploads
  <2>6. session' = [s EXCEPT ![c] = u2]
    BY <1>1, <2>1 DEF Sessions
  <2> HIDE DEF e, u2
  <2>7. goodUpload(e, u2)
    BY <1>1, <2>2, <2>3, <2>5 DEF goodUpload
  <2>8. \A b \in Conns \ {c} : isUpload(s, b) => used(s[b]) \cap used(u2) = {}
    BY <1>1, <2>5 DEF quietIn, used
  <2> HIDE DEF s
  <2>9. ObjectInv(e, session')
    BY <1>1, <2>3, <2>4, <2>5, <2>6, <2>7, <2>8, StreamKeeps
  <2> QED BY <2>1, <2>9 DEF e
<1>4. CASE WriteFails(c)
  <2>1. PICK k \in 0 .. (sizeOf[u.value] - u.written - 1) :
            disk' = reclaim(removeTemp(IF u.inode = nullopt THEN disk
                                       ELSE chunk(u.inode, u.value, u.written, k),
                                       u.name),
                            held(session'))
    BY <1>4 DEF WriteFails
  <2>2. k \in Nat /\ u.written + k <= sizeOf[u.value] /\ session' = s
    BY <1>1, <1>4 DEF WriteFails
  <2>3. CASE u.inode = nullopt
    BY <1>1, <1>2, <2>1, <2>2, <2>3
  <2>4. CASE u.inode # nullopt
    <3> DEFINE e == chunk(u.inode, u.value, u.written, k)
    <3>1. e \in FileSystems /\ ObjectInv(e, s)
      BY <1>0, <2>2, <2>4, ChunkKeeps
    <3>2. disk' = reclaim(removeTemp(e, u.name), held(s))
      BY <2>1, <2>2, <2>4
    <3> HIDE DEF e
    <3> QED BY <1>2, <2>2, <3>1, <3>2
  <2> QED BY <2>3, <2>4
<1>5. CASE Finish(c)
  <2> DEFINE e == renameTemp(u.name)
  <2>1. /\ disk' = reclaim(e, held(s)) /\ session' = s /\ u.inode # nullopt
        /\ u.written = sizeOf[u.value] /\ is_regular_file(disk, t)
    BY <1>5 DEF Finish, renameSucceeds, renamable
  <2>2. e \in FileSystems /\ Renames(disk, e, t, u.name)
    BY <1>1, <2>1, RenameType, UnbindAndRename DEF renameTemp
  <2>3. disk.data[disk.dir[t]] = whole(u.value)
    BY <1>1, <2>1, PrefixEnds
  <2> HIDE DEF e, s, t
  <2>4. ObjectInv(e, s)
    BY <1>1, <2>2, <2>3, RenamesKeeps
  <2> QED BY <1>1, <2>1, <2>2, <2>4, ReclaimKeepsInv
<1>6. CASE FinishFails(c)
  <2>1. disk' = reclaim(removeTemp(disk, u.name), held(s)) /\ session' = s
    BY <1>6 DEF FinishFails
  <2> QED BY <1>1, <1>2, <2>1
<1> QED BY <1>3, <1>4, <1>5, <1>6

\* What the next chunk of a download adds to what it has delivered.
LEMMA ChunkExtends ==
    ASSUME TypeOK, NEW r \in Downloads, goodDownload(disk, r), nextChunk(r) # <<>>
    PROVE  LET got2 == r.got \o nextChunk(r)
           IN  /\ Len(got2) <= Len(r.want) /\ got2 = SubSeq(r.want, 1, Len(got2))
               /\ Len(nextChunk(r)) < kReadChunkSize => Len(got2) = Len(r.want)
<1> DEFINE L == Len(r.got)
           N == Len(r.want)
           m == IF L + kReadChunkSize < N THEN L + kReadChunkSize ELSE N
<1>1. /\ r.got \in Seq(Bytes) /\ r.want \in Seq(Bytes) /\ L \in Nat /\ N \in Nat
      /\ L <= N /\ kReadChunkSize \in Nat \ {0} /\ r.got = SubSeq(r.want, 1, L)
      /\ disk.data[r.inode] = r.want
  BY BoundedAssumption, LenProperties DEF Downloads, goodDownload
<1>2. nextChunk(r) = SubSeq(r.want, L + 1, m)
  <2>1. r.eof => nextChunk(r) = <<>>
    BY DEF nextChunk
  <2> QED BY <1>1, <2>1 DEF nextChunk
<1> HIDE DEF L, N
<1>3. m \in Nat /\ L <= m /\ m <= N /\ (m - L < kReadChunkSize => m = N)
  BY <1>1
<1> HIDE DEF m
<1>4. r.got \o nextChunk(r) = SubSeq(r.want, 1, m)
  <2>1. 1 \in 1 .. (Len(r.want) + 1) /\ L \in 1 - 1 .. Len(r.want) /\ m \in L .. Len(r.want)
    BY <1>1, <1>3 DEF N
  <2>2. SubSeq(r.want, 1, L) \o SubSeq(r.want, L + 1, m) = SubSeq(r.want, 1, m)
    BY <1>1, <2>1, ConcatAdjacentSubSeq
  <2> QED BY <1>1, <1>2, <2>2
<1>5. \A j \in 1 .. N : r.want[j] \in Bytes
  BY <1>1, ElementOfSeq DEF N
<1>6. Len(SubSeq(r.want, 1, m)) = m
  BY <1>1, <1>3, <1>5, SubSeqProperties
<1>7. Len(SubSeq(r.want, L + 1, m)) = m - L
  BY <1>1, <1>3, <1>5, SubSeqProperties
<1> QED BY <1>2, <1>3, <1>4, <1>6, <1>7 DEF N

\* The steps of a download, and the loss of a connection.
LEMMA DownloadStepsKeep ==
    ASSUME TypeOK, ObjectInv(disk, session), NEW c \in Conns,
           \/ \E path \in Paths : BeginGet(c, path)
           \/ ReadChunk(c)
           \/ EndGet(c)
           \/ Disconnect(c)
    PROVE  ObjectInv(disk', session')
<1>1. disk \in FileSystems /\ session \in Sessions
  BY DEF TypeOK, Sessions
<1>2. ASSUME NEW path \in Paths, BeginGet(c, path)
      PROVE  ObjectInv(disk', session')
  <2> DEFINE n == mapPath[path]
             new == [kind |-> "download", inode |-> disk.dir[n],
                     announced |-> Len(get(path)), want |-> get(path),
                     got |-> <<>>, eof |-> FALSE]
  <2>1. n \in Names /\ disk.dir[n] \in Inodes
    BY <1>2, DiskAssumption DEF BeginGet, stored, resolves, is_regular_file
  <2>2. get(path) \in Seq(Bytes) /\ get(path) = disk.data[disk.dir[n]]
    BY <1>1, <1>2, <2>1 DEF BeginGet, get, contents, FileSystems
  <2>3. new \in Downloads
    BY <2>1, <2>2, LenProperties, EmptySeq DEF Downloads
  <2>4. session' = [session EXCEPT ![c] = new] /\ disk' = disk
    BY <1>2 DEF BeginGet
  <2>5. /\ new.kind = "download" /\ new.inode = disk.dir[n] /\ new.got = <<>>
        /\ new.want = disk.data[new.inode] /\ new.announced = Len(new.want)
        /\ new.eof = FALSE
    BY <2>2
  <2> HIDE DEF new
  <2>6. /\ Len(<<>>) = 0 /\ Len(new.want) \in Nat /\ SubSeq(new.want, 1, 0) = <<>>
    BY <2>2, <2>5, LenProperties, EmptySeq, SubSeqEmpty
  <2>7. ReadsStable => \A t \in TempNames : disk.dir[t] # new.inode
    BY <2>1, <2>5, DiskAssumption DEF ReadsStable, ObjectInv, Distinct
  <2>8. ReadsStable => goodDownload(disk, new)
    BY <2>5, <2>6, <2>7 DEF goodDownload
  <2> QED BY <1>1, <2>3, <2>4, <2>5, <2>8, StreamKeeps
<1>3. CASE ReadChunk(c)
  <2> DEFINE r == session[c]
             got2 == r.got \o nextChunk(r)
             short == Len(nextChunk(r)) < kReadChunkSize
             r2 == [r EXCEPT !.got = got2, !.eof = short]
  <2>1. r \in Downloads /\ isDownload(session, c) /\ nextChunk(r) # <<>> /\ disk' = disk
    BY <1>1, <1>3, SessionKinds DEF ReadChunk, isDownload, downloading
  <2>2. got2 \in Seq(Bytes)
    BY <1>1, <2>1, NextChunkType, ConcatProperties DEF Downloads
  <2>3. session' = [session EXCEPT ![c] = r2]
    BY <1>1, <1>3 DEF ReadChunk, Sessions
  <2>4. ReadsStable => goodDownload(disk, r)
    BY <2>1 DEF ObjectInv
  <2>5. ReadsStable => /\ Len(got2) <= Len(r.want) /\ got2 = SubSeq(r.want, 1, Len(got2))
                       /\ short => Len(got2) = Len(r.want)
    BY <2>1, <2>4, ChunkExtends
  <2>6. short \in BOOLEAN
    OBVIOUS
  <2> HIDE DEF got2, short, r
  <2>7. /\ r2 \in Downloads /\ r2.kind = "download" /\ r2.got = got2 /\ r2.eof = short
        /\ r2.want = r.want /\ r2.inode = r.inode /\ r2.announced = r.announced
    BY <2>1, <2>2, <2>6 DEF Downloads
  <2> HIDE DEF r2
  <2>8. ReadsStable => goodDownload(disk, r2)
    BY <2>4, <2>5, <2>7 DEF goodDownload
  <2> QED BY <1>1, <2>1, <2>3, <2>7, <2>8, StreamKeeps
<1>4. CASE EndGet(c) \/ Disconnect(c)
  <2> DEFINE s == [session EXCEPT ![c] = Idle]
  <2>1. session' = s /\ disk' = reclaim(disk, held(s))
    BY <1>4 DEF EndGet, Disconnect
  <2>2. ObjectInv(disk, s) /\ s \in Sessions
    BY <1>1, CloseKeeps
  <2> QED BY <1>1, <2>1, <2>2, ReclaimKeepsInv
<1> QED BY <1>2, <1>3, <1>4

\* Any step of the engine.
LEMMA StepKeepsObjects ==
    ASSUME Uncontended, TypeOK, ObjectInv(disk, session), [Next]_vars
    PROVE  ObjectInv(disk', session')
<1>1. ASSUME NEW path \in Paths, NEW v \in Values,
             Put(path, v) \/ PutFails(path, v) \/ SetNx(path, v) \/ SetNxFails(path, v)
      PROVE  ObjectInv(disk', session')
  BY <1>1, PutStepsKeep
<1>2. ASSUME NEW path \in Paths, NEW v \in Values, CrashInPut(path, v)
      PROVE  ObjectInv(disk', session')
  BY <1>2, CrashKeeps
<1>9. ASSUME NEW path \in Paths, NEW v \in Values, OpenFails(path, v)
      PROVE  ObjectInv(disk', session')
  BY <1>9, OpenFailsKeeps
<1>3. ASSUME NEW path \in Paths, NEW v \in Values, NEW c \in Conns,
             NEW isSetNx \in BOOLEAN, BeginPut(c, path, v, isSetNx)
      PROVE  ObjectInv(disk', session')
  BY <1>3, BeginPutKeeps
<1>4. ASSUME NEW path \in Paths, Del(path)
      PROVE  ObjectInv(disk', session')
  BY <1>4, DelKeeps
<1>5. ASSUME NEW c \in Conns,
             WriteChunk(c) \/ WriteFails(c) \/ Finish(c) \/ FinishFails(c)
      PROVE  ObjectInv(disk', session')
  BY <1>5, UploadStepsKeep
<1>6. ASSUME NEW c \in Conns,
             \/ \E path \in Paths : BeginGet(c, path)
             \/ ReadChunk(c)
             \/ EndGet(c)
             \/ Disconnect(c)
      PROVE  ObjectInv(disk', session')
  BY <1>6, DownloadStepsKeep
<1>7. CASE Restart
  BY <1>7, RestartKeeps DEF Restart, TypeOK, Sessions
<1>8. CASE UNCHANGED vars
  BY <1>8 DEF vars
<1> QED BY <1>1, <1>2, <1>3, <1>4, <1>5, <1>6, <1>7, <1>8, <1>9 DEF Next

\* The engine starts without files or streams.
LEMMA InitKeepsObjects ==
    ASSUME Init
    PROVE  ObjectInv(disk, session)
<1>1. /\ \A n \in Names : disk.dir[n] \notin Inodes
      /\ \A c \in Conns : ~isUpload(session, c) /\ ~isDownload(session, c)
  BY FileSystemAssumption DEF Init, emptyRoot, isUpload, isDownload, Idle
<1> QED BY <1>1 DEF ObjectInv, Distinct, Apart, Whole

-----------------------------------------------------------------------------
(* What the invariant says about objects and downloads *)

\* Without contention the invariant holds at all times.
LEMMA ObjectInvHolds ==
    ASSUME Uncontended
    PROVE  Spec => [](TypeOK /\ ObjectInv(disk, session))
<1> DEFINE I == TypeOK /\ ObjectInv(disk, session)
<1>1. Init => I
  BY EngineInit, InitKeepsObjects
<1>2. I /\ [Next]_vars => I'
  BY EngineStep, StepKeepsObjects
<1> QED BY <1>1, <1>2, PTL DEF Spec

\* Every listed object is a value some client stored, whole: when no two
\* requests contend for a file, and no fault or crash can cut short a put in
\* place (either there are none, or every value goes through a temporary).
\* Lost connections, restarts and failing uploads are all admitted.
THEOREM EngineObjectsWhole ==
    Uncontended /\ PutsWhole => (Spec => []ObjectsWhole)
<1> SUFFICES ASSUME Uncontended, PutsWhole PROVE Spec => []ObjectsWhole
  OBVIOUS
<1>1. TypeOK /\ ObjectInv(disk, session) => ObjectsWhole
  BY DEF ObjectInv, Whole, ObjectsWhole, keys, is_regular_file, isTempFile, contents
<1> QED BY <1>1, ObjectInvHolds, PTL

\* A download delivers the object it announced, whatever is replaced, deleted,
\* lost or restarted meanwhile: when no put truncates a file that is being
\* read and clients cannot name temporaries.
THEOREM EngineReadIsSnapshot ==
    Uncontended /\ ReadsStable => (Spec => []ReadIsSnapshot)
<1> SUFFICES ASSUME Uncontended, ReadsStable PROVE Spec => []ReadIsSnapshot
  OBVIOUS
<1>1. ASSUME TypeOK, ObjectInv(disk, session), NEW c \in Conns, downloading(c)
      PROVE  LET r == session[c]
             IN  /\ Len(r.got) <= Len(r.want)
                 /\ r.got = SubSeq(r.want, 1, Len(r.got))
                 /\ nextChunk(r) = <<>> => Len(r.got) = r.announced
  <2> DEFINE r == session[c]
             L == Len(r.got)
             N == Len(r.want)
             m == IF L + kReadChunkSize < N THEN L + kReadChunkSize ELSE N
  <2>1. r \in Downloads /\ goodDownload(disk, r)
    BY <1>1, SessionKinds DEF TypeOK, Sessions, ObjectInv, isDownload, downloading
  <2>2. /\ r.want \in Seq(Bytes) /\ L \in Nat /\ N \in Nat /\ L <= N
        /\ kReadChunkSize \in Nat \ {0} /\ disk.data[r.inode] = r.want
        /\ r.announced = N /\ (r.eof => L = N)
    BY <2>1, BoundedAssumption, LenProperties DEF Downloads, goodDownload
  <2>3. ~r.eof => nextChunk(r) = SubSeq(r.want, L + 1, m)
    BY <2>2 DEF nextChunk
  <2>4. \A j \in 1 .. N : r.want[j] \in Bytes
    BY <2>2, ElementOfSeq
  <2> HIDE DEF L, N, r
  <2>5. m \in Nat /\ L <= m /\ m <= N /\ (m = L => L = N)
    BY <2>2
  <2> HIDE DEF m
  <2>6. Len(SubSeq(r.want, L + 1, m)) = m - L
    BY <2>2, <2>4, <2>5, SubSeqProperties
  <2>7. nextChunk(r) = <<>> => L = N
    BY <2>2, <2>3, <2>5, <2>6, EmptySeq
  <2> QED BY <2>1, <2>2, <2>7 DEF goodDownload, L, r
<1>2. TypeOK /\ ObjectInv(disk, session) => ReadIsSnapshot
  BY <1>1 DEF ReadIsSnapshot
<1> QED BY <1>2, ObjectInvHolds, PTL

-----------------------------------------------------------------------------
(***************************************************************************)
(* The engine implements the in-memory map.  view(d) is the map that a     *)
(* disk d stands for.                                                      *)
(***************************************************************************)
viewed(d) == {n \in Names : d.dir[n] \in Inodes /\ n \notin TempNames}
view(d) == [n \in viewed(d) |-> d.data[d.dir[n]]]

\* One object more or replaced, one object less.
Puts(f, g, n, bytes) ==
    g = [k \in DOMAIN f \cup {n} |-> IF k = n THEN bytes ELSE f[k]]
Drops(f, g, n) == n \in DOMAIN f /\ g = [k \in DOMAIN f \ {n} |-> f[k]]

\* A step of the map from f to g, or a stutter.
MapStep(f, g) ==
    \/ g = f
    \/ \E n \in Names \ TempNames : \E v \in Values : Puts(f, g, n, whole(v))
    \/ \E n \in Names \ TempNames : Drops(f, g, n)

\* Reclaiming and making directories are not seen.
LEMMA ViewStays ==
    ASSUME NEW d \in FileSystems
    PROVE  /\ \A open : view(reclaim(d, open)) = view(d)
           /\ \A e \in FileSystems :
                  sameFiles(d, e, {}) /\ e.data = d.data => view(e) = view(d)
           /\ \A e \in FileSystems, t \in TempNames : \A bytes :
                  Distinct(d) /\ d.dir[t] \in Inodes /\ Writes(d, e, d.dir[t], bytes)
                      => view(e) = view(d)
<1>1. ASSUME NEW open PROVE view(reclaim(d, open)) = view(d)
  <2>1. /\ reclaim(d, open).dir = d.dir
        /\ \A n \in Names : d.dir[n] \in Inodes =>
               reclaim(d, open).data[d.dir[n]] = d.data[d.dir[n]]
    BY ReclaimKeeps
  <2> QED BY <2>1 DEF view, viewed
<1>2. ASSUME NEW e \in FileSystems, sameFiles(d, e, {}), e.data = d.data
      PROVE  view(e) = view(d)
  <2>1. viewed(e) = viewed(d) /\ \A n \in viewed(d) : e.dir[n] = d.dir[n]
    BY <1>2 DEF viewed, sameFiles
  <2> QED BY <1>2, <2>1 DEF view
<1>3. ASSUME NEW e \in FileSystems, NEW t \in TempNames, NEW bytes,
             Distinct(d), d.dir[t] \in Inodes, Writes(d, e, d.dir[t], bytes)
      PROVE  view(e) = view(d)
  <2>1. viewed(e) = viewed(d) /\ \A n \in viewed(d) : e.dir[n] = d.dir[n]
    BY <1>3 DEF viewed, Writes
  <2>2. \A n \in viewed(d) : e.data[d.dir[n]] = d.data[d.dir[n]]
    BY <1>3, DiskAssumption DEF viewed, Writes, sameBytes, Distinct
  <2> QED BY <2>1, <2>2 DEF view
<1> QED BY <1>1, <1>2, <1>3

\* Opening a file stores its bytes, if it is no temporary.
LEMMA ViewOpens ==
    ASSUME NEW d \in FileSystems, NEW e \in FileSystems, NEW n \in Names, NEW i,
           NEW bytes, NEW open, Distinct(d), Opens(d, e, n, i, bytes, open)
    PROVE  IF n \in TempNames THEN view(e) = view(d)
                              ELSE Puts(view(d), view(e), n, bytes)
<1>1. \A m \in Names \ {n} : d.dir[m] \in Inodes => d.dir[m] # i
  BY DEF Opens, Distinct
<1>2. \A m \in Names \ {n} : d.dir[m] \in Inodes \/ e.dir[m] \in Inodes =>
          e.dir[m] = d.dir[m] /\ e.data[e.dir[m]] = d.data[d.dir[m]]
  BY <1>1 DEF Opens, sameFiles, sameBytes
<1>3. CASE n \in TempNames
  <2>1. viewed(e) = viewed(d) /\ \A m \in viewed(d) : e.data[e.dir[m]] = d.data[d.dir[m]]
    BY <1>2, <1>3 DEF viewed
  <2> QED BY <1>3, <2>1 DEF view
<1>4. CASE n \notin TempNames
  <2>1. viewed(e) = viewed(d) \cup {n}
    BY <1>2, <1>4 DEF viewed, Opens
  <2>2. \A m \in viewed(e) :
            e.data[e.dir[m]] = IF m = n THEN bytes ELSE view(d)[m]
    BY <1>2, <2>1 DEF viewed, view, Opens
  <2> QED BY <1>4, <2>1, <2>2 DEF view, Puts
<1> QED BY <1>3, <1>4

\* Removing a file removes its object, if it was one.
LEMMA ViewUnbinds ==
    ASSUME NEW d \in FileSystems, NEW e \in FileSystems, NEW n \in Names,
           Unbinds(d, e, n)
    PROVE  IF n \in viewed(d) THEN Drops(view(d), view(e), n) ELSE view(e) = view(d)
<1>1. \A m \in Names \ {n} : d.dir[m] \in Inodes \/ e.dir[m] \in Inodes =>
          e.dir[m] = d.dir[m] /\ e.data[e.dir[m]] = d.data[d.dir[m]]
  BY DEF Unbinds, sameFiles, sameBytes
<1>2. viewed(e) = viewed(d) \ {n}
  BY <1>1, FileSystemAssumption DEF viewed, Unbinds
<1>3. \A m \in viewed(e) : e.data[e.dir[m]] = view(d)[m]
  BY <1>1, <1>2 DEF viewed, view
<1>4. CASE n \in viewed(d)
  BY <1>2, <1>3, <1>4 DEF view, Drops
<1>5. CASE n \notin viewed(d)
  BY <1>2, <1>3, <1>5 DEF view
<1> QED BY <1>4, <1>5

\* Renaming a temporary stores its bytes.
LEMMA ViewRenames ==
    ASSUME NEW d \in FileSystems, NEW e \in FileSystems, NEW t \in TempNames,
           NEW n \in Names, Renames(d, e, t, n)
    PROVE  IF n \in TempNames THEN view(e) = view(d)
                              ELSE Puts(view(d), view(e), n, d.data[d.dir[t]])
<1>0. t \in Names /\ e.dir[t] \notin Inodes /\ e.dir[n] \in Inodes /\ e.dir[n] = d.dir[t]
  BY FileSystemAssumption, DiskAssumption DEF Renames
<1>1. \A m \in Names \ {t, n} : d.dir[m] \in Inodes \/ e.dir[m] \in Inodes =>
          e.dir[m] = d.dir[m] /\ e.data[e.dir[m]] = d.data[d.dir[m]]
  BY DEF Renames, sameFiles, sameBytes
<1>2. CASE n \in TempNames
  <2>1. viewed(e) = viewed(d) /\ \A m \in viewed(d) : e.data[e.dir[m]] = d.data[d.dir[m]]
    BY <1>1, <1>2 DEF viewed
  <2> QED BY <1>2, <2>1 DEF view
<1>3. CASE n \notin TempNames
  <2>1. viewed(e) = viewed(d) \cup {n}
    BY <1>0, <1>1, <1>3 DEF viewed
  <2>2. \A m \in viewed(e) :
            e.data[e.dir[m]] = IF m = n THEN d.data[d.dir[t]] ELSE view(d)[m]
    BY <1>0, <1>1, <2>1 DEF viewed, view, Renames, sameBytes
  <2> QED BY <1>3, <2>1, <2>2 DEF view, Puts
<1> QED BY <1>2, <1>3

\* A put that is admitted stores its value.
LEMMA PutView ==
    ASSUME PutsWhole, TypeOK, ObjectInv(disk, session), NEW path \in Paths,
           NEW v \in Values,
           Put(path, v) \/ PutFails(path, v) \/ SetNx(path, v) \/ SetNxFails(path, v)
    PROVE  IF mapPath[path] \in TempNames THEN view(disk') = view(disk)
           ELSE Puts(view(disk), view(disk'), mapPath[path], whole(v))
<1>0. disk \in FileSystems /\ Distinct(disk)
  BY DEF TypeOK, ObjectInv
<1>1. putAdmitted(path, v)
  BY DEF Put, PutFails, SetNx, SetNxFails
<1>2. PICK i \in putInodes(path) :
          disk' = reclaim(putBytes(path, i, v, sizeOf[v]), held(session))
  BY <1>1, PartialPut DEF Put, PutFails, SetNx, SetNxFails
<1> DEFINE e == putBytes(path, i, v, sizeOf[v])
           n == mapPath[path]
<1>3. sizeOf[v] \in 0 .. sizeOf[v] /\ n \in Names
  BY <1>1, WholeType, DiskAssumption DEF putAdmitted, putOpens, resolves
<1>4. e \in FileSystems
  BY <1>0, <1>1, <1>3, PutBytesType
<1>5. Opens(disk, e, n, i, whole(v), held(session))
  BY <1>1, <1>3, PutOpens, PrefixEnds
<1> HIDE DEF e, n
<1>6. view(disk') = view(e)
  BY <1>2, <1>4, ViewStays DEF e
<1>7. IF n \in TempNames THEN view(e) = view(disk)
                         ELSE Puts(view(disk), view(e), n, whole(v))
  BY <1>0, <1>3, <1>4, <1>5, ViewOpens
<1> QED BY <1>6, <1>7 DEF n

\* Beginning an upload stores nothing.
LEMMA BeginPutView ==
    ASSUME TypeOK, ObjectInv(disk, session), NEW path \in Paths, NEW v \in Values,
           NEW c \in Conns, NEW isSetNx \in BOOLEAN, BeginPut(c, path, v, isSetNx)
    PROVE  view(disk') = view(disk)
<1> DEFINE n == mapPath[path]
           t == tempOf[n]
<1>0. disk \in FileSystems /\ Distinct(disk)
  BY DEF TypeOK, ObjectInv
<1>1. n \in Names /\ n \in DOMAIN tempOf /\ t \in Names /\ t \in TempNames
  BY DiskAssumption DEF BeginPut, beginPutOpens, resolves
<1>2. PICK i \in tempInodes(n, held(session)) \cup {nullopt} :
          disk' = reclaim(IF i = nullopt THEN create_directories(disk, n)
                                         ELSE openTemp(n, i),
                          held(session'))
  BY DEF BeginPut
<1>3. parentsCreatable(disk, n) /\ create_directories(disk, n) \in FileSystems
  BY <1>0, <1>1, CreateDirectoriesType DEF BeginPut, beginPutOpens
<1>4. CASE i = nullopt
  <2>1. /\ sameFiles(disk, create_directories(disk, n), {})
        /\ create_directories(disk, n).data = disk.data
    BY <1>0, <1>1, <1>3, DirectoriesOnly
  <2> QED BY <1>0, <1>2, <1>3, <1>4, <2>1, ViewStays
<1>5. CASE i # nullopt
  <2> DEFINE e == openTemp(n, i)
  <2>1. i \in Inodes /\ i \in tempInodes(n, held(session))
    BY <1>1, <1>3, <1>5, OpenableType DEF tempInodes
  <2>2. e \in FileSystems
    BY <1>1, <1>3, <2>1, OpenTruncType DEF openTemp
  <2>3. Opens(disk, e, t, i, <<>>, held(session))
    BY <1>1, <1>3, <2>1, BeginPutOpens
  <2>4. disk' = reclaim(e, held(session'))
    BY <1>2, <1>5
  <2> HIDE DEF e, t
  <2>5. view(e) = view(disk)
    BY <1>0, <1>1, <2>2, <2>3, ViewOpens
  <2> QED BY <2>2, <2>4, <2>5, ViewStays
<1> QED BY <1>4, <1>5

\* Deleting removes the object, if the path names one.
LEMMA DelView ==
    ASSUME TypeOK, NEW path \in Paths, Del(path)
    PROVE  /\ mapPath[path] \in Names
           /\ IF mapPath[path] \in viewed(disk)
              THEN Drops(view(disk), view(disk'), mapPath[path])
              ELSE view(disk') = view(disk)
<1> DEFINE n == mapPath[path]
           e == unbind(disk, n)
<1>1. disk \in FileSystems /\ n \in Names /\ disk' = reclaim(e, held(session))
  BY DiskAssumption DEF Del, delSucceeds, resolves, TypeOK
<1>2. e \in FileSystems /\ Unbinds(disk, e, n)
  BY <1>1, RemoveType, UnbindAndRename
<1> HIDE DEF e, n
<1>3. IF n \in viewed(disk) THEN Drops(view(disk), view(e), n) ELSE view(e) = view(disk)
  BY <1>1, <1>2, ViewUnbinds
<1>4. view(disk') = view(e)
  BY <1>1, <1>2, ViewStays
<1> QED BY <1>1, <1>3, <1>4 DEF n

\* An upload stores its value when it is finished, and nothing before or
\* otherwise.
LEMMA UploadView ==
    ASSUME TypeOK, ObjectInv(disk, session), NEW c \in Conns
    PROVE  /\ WriteChunk(c) \/ WriteFails(c) \/ FinishFails(c) => view(disk') = view(disk)
           /\ Finish(c) => IF session[c].name \in TempNames THEN view(disk') = view(disk)
                           ELSE Puts(view(disk), view(disk'), session[c].name,
                                     whole(session[c].value))
<1> SUFFICES ASSUME WriteChunk(c) \/ WriteFails(c) \/ Finish(c) \/ FinishFails(c)
             PROVE  /\ WriteChunk(c) \/ WriteFails(c) \/ FinishFails(c)
                           => view(disk') = view(disk)
                    /\ Finish(c) =>
                           IF session[c].name \in TempNames THEN view(disk') = view(disk)
                           ELSE Puts(view(disk), view(disk'), session[c].name,
                                     whole(session[c].value))
  OBVIOUS
<1> DEFINE u == session[c]
           t == tempOf[u.name]
<1>0. disk \in FileSystems /\ Distinct(disk) /\ uploading(c)
  BY DEF TypeOK, ObjectInv, WriteChunk, WriteFails, Finish, FinishFails
<1>1. /\ u.value \in Values /\ sizeOf[u.value] \in Nat
      /\ u.written \in Nat /\ u.written <= sizeOf[u.value]
      /\ u.name \in DOMAIN tempOf /\ u.name \in Names
      /\ t \in TempNames /\ t \in Names /\ t # u.name
      /\ u.inode # nullopt =>
             /\ u.inode \in Inodes /\ disk.dir[t] = u.inode
             /\ disk.data[u.inode] = prefix(u.value, u.written)
  BY <1>0, OpenUpload
<1>2. ASSUME NEW k \in Nat, u.written + k <= sizeOf[u.value], u.inode # nullopt
      PROVE  LET e == chunk(u.inode, u.value, u.written, k)
             IN  e \in FileSystems /\ view(e) = view(disk)
  <2> DEFINE e == chunk(u.inode, u.value, u.written, k)
  <2>1. e \in FileSystems
    BY <1>0, <1>1, <1>2, ChunkType
  <2>2. Writes(disk, e, disk.dir[t], prefix(u.value, u.written + k))
    BY <1>0, <1>1, <1>2, ChunkWrites
  <2> HIDE DEF e, t
  <2>3. view(e) = view(disk)
    BY <1>0, <1>1, <1>2, <2>1, <2>2, ViewStays
  <2> QED BY <2>1, <2>3 DEF e
<1>3. ASSUME NEW d \in FileSystems, NEW open
      PROVE  view(reclaim(removeTemp(d, u.name), open)) = view(d)
  <2> DEFINE e == removeTemp(d, u.name)
  <2>1. e \in FileSystems /\ Unbinds(d, e, t)
    BY <1>1, RemoveType, RemoveUnbinds DEF removeTemp
  <2> HIDE DEF e, t
  <2>2. t \notin viewed(d)
    BY <1>1 DEF viewed
  <2>3. view(e) = view(d)
    BY <1>1, <2>1, <2>2, ViewUnbinds
  <2> QED BY <2>1, <2>3, ViewStays DEF e
<1>4. ASSUME WriteChunk(c) PROVE view(disk') = view(disk)
  <2>1. PICK k \in 1 .. (sizeOf[u.value] - u.written) :
            disk' = chunk(u.inode, u.value, u.written, k)
    BY <1>4 DEF WriteChunk
  <2>2. k \in Nat /\ u.written + k <= sizeOf[u.value] /\ u.inode # nullopt
    BY <1>1, <1>4 DEF WriteChunk
  <2> QED BY <1>2, <2>1, <2>2
<1>5. ASSUME WriteFails(c) PROVE view(disk') = view(disk)
  <2>1. PICK k \in 0 .. (sizeOf[u.value] - u.written - 1) :
            disk' = reclaim(removeTemp(IF u.inode = nullopt THEN disk
                                       ELSE chunk(u.inode, u.value, u.written, k),
                                       u.name),
                            held(session'))
    BY <1>5 DEF WriteFails
  <2>2. k \in Nat /\ u.written + k <= sizeOf[u.value]
    BY <1>1
  <2>3. CASE u.inode = nullopt
    BY <1>0, <1>3, <2>1, <2>3
  <2>4. CASE u.inode # nullopt
    <3> DEFINE e == chunk(u.inode, u.value, u.written, k)
    <3>1. e \in FileSystems /\ view(e) = view(disk)
      BY <1>2, <2>2, <2>4
    <3>2. disk' = reclaim(removeTemp(e, u.name), held(session'))
      BY <2>1, <2>4
    <3> HIDE DEF e
    <3> QED BY <1>3, <3>1, <3>2
  <2> QED BY <2>3, <2>4
<1>6. ASSUME FinishFails(c) PROVE view(disk') = view(disk)
  <2>1. disk' = reclaim(removeTemp(disk, u.name), held(session'))
    BY <1>6 DEF FinishFails
  <2> QED BY <1>0, <1>3, <2>1
<1>7. ASSUME Finish(c)
      PROVE  IF u.name \in TempNames THEN view(disk') = view(disk)
             ELSE Puts(view(disk), view(disk'), u.name, whole(u.value))
  <2> DEFINE e == renameTemp(u.name)
  <2>1. /\ disk' = reclaim(e, held(session')) /\ u.inode # nullopt
        /\ u.written = sizeOf[u.value] /\ is_regular_file(disk, t)
    BY <1>7 DEF Finish, renameSucceeds, renamable
  <2>2. e \in FileSystems /\ Renames(disk, e, t, u.name)
    BY <1>0, <1>1, <2>1, RenameType, UnbindAndRename DEF renameTemp
  <2>3. disk.data[disk.dir[t]] = whole(u.value)
    BY <1>1, <2>1, PrefixEnds
  <2> HIDE DEF e, t, u
  <2>4. IF u.name \in TempNames THEN view(e) = view(disk)
                                ELSE Puts(view(disk), view(e), u.name, whole(u.value))
    BY <1>0, <1>1, <2>2, <2>3, ViewRenames
  <2>5. view(disk') = view(e)
    BY <2>1, <2>2, ViewStays
  <2> QED BY <2>4, <2>5
<1> QED BY <1>4, <1>5, <1>6, <1>7

\* Downloads, lost connections and restarts store nothing.
LEMMA QuietView ==
    ASSUME TypeOK,
           \/ \E c \in Conns : \/ \E path \in Paths : BeginGet(c, path)
                               \/ ReadChunk(c)
                               \/ EndGet(c)
                               \/ Disconnect(c)
           \/ Restart
           \/ UNCHANGED vars
    PROVE  view(disk') = view(disk)
<1>1. \/ disk' = disk \/ disk' = reclaim(disk, held(session')) \/ disk' = reclaim(disk, {})
  BY DEF BeginGet, ReadChunk, EndGet, Disconnect, Restart, restartFrom, vars
<1> QED BY <1>1, ViewStays DEF TypeOK

\* Every step of the engine is a step of the map, or none.
LEMMA EngineMapStep ==
    ASSUME PutsWhole, TypeOK, ObjectInv(disk, session), [Next]_vars
    PROVE  MapStep(view(disk), view(disk'))
<1>1. ASSUME NEW path \in Paths, NEW v \in Values,
             Put(path, v) \/ PutFails(path, v) \/ SetNx(path, v) \/ SetNxFails(path, v)
      PROVE  MapStep(view(disk), view(disk'))
  <2>1. mapPath[path] \in Names
    BY <1>1, DiskAssumption
       DEF Put, PutFails, SetNx, SetNxFails, putAdmitted, putOpens, resolves
  <2> QED BY <1>1, <2>1, PutView DEF MapStep
<1>2. ASSUME NEW path \in Paths, NEW v \in Values,
             CrashInPut(path, v) \/ OpenFails(path, v)
      PROVE  FALSE
  BY <1>2, PartialPut DEF CrashInPut, OpenFails
<1>3. ASSUME NEW path \in Paths, NEW v \in Values, NEW c \in Conns,
             NEW isSetNx \in BOOLEAN, BeginPut(c, path, v, isSetNx)
      PROVE  view(disk') = view(disk)
  BY <1>3, BeginPutView
<1>4. ASSUME NEW path \in Paths, Del(path)
      PROVE  MapStep(view(disk), view(disk'))
  <2>1. viewed(disk) \subseteq Names \ TempNames
    BY DEF viewed
  <2> QED BY <1>4, <2>1, DelView DEF MapStep
<1>5. ASSUME NEW c \in Conns, WriteChunk(c) \/ WriteFails(c) \/ FinishFails(c)
      PROVE  view(disk') = view(disk)
  BY <1>5, UploadView
<1>6. ASSUME NEW c \in Conns, Finish(c)
      PROVE  MapStep(view(disk), view(disk'))
  <2>1. session[c].name \in Names /\ session[c].value \in Values
    BY <1>6, OpenUpload DEF Finish
  <2> QED BY <1>6, <2>1, UploadView DEF MapStep
<1>7. ASSUME \/ \E c \in Conns : \/ \E path \in Paths : BeginGet(c, path)
                                 \/ ReadChunk(c)
                                 \/ EndGet(c)
                                 \/ Disconnect(c)
             \/ Restart
             \/ UNCHANGED vars
      PROVE  view(disk') = view(disk)
  BY <1>7, QuietView
<1>8. view(disk') = view(disk) => MapStep(view(disk), view(disk'))
  BY DEF MapStep
<1> QED BY <1>1, <1>2, <1>3, <1>4, <1>5, <1>6, <1>7, <1>8 DEF Next

\* Seen through its listed files the engine is the map of ObjectStorage.cpp:
\* under the conditions of EngineObjectsWhole every callback stores one whole
\* object, deletes one or changes nothing that a client can list.
THEOREM EngineImplementsObjectStorage ==
    Uncontended /\ PutsWhole => (Spec => ImplementsObjectStorage)
<1> SUFFICES ASSUME Uncontended, PutsWhole PROVE Spec => ImplementsObjectStorage
  OBVIOUS
<1> DEFINE m == [n \in keys |-> contents(disk, n)]
<1>1. m = view(disk) /\ m' = view(disk')
  BY DEF keys, contents, is_regular_file, isTempFile, view, viewed
<1>2. Init => Abstract!ObjectStorageInit
  <2> SUFFICES ASSUME Init PROVE m = [k \in {} |-> {}]
    BY DEF Abstract!ObjectStorageInit
  <2>1. keys = {}
    BY FileSystemAssumption DEF Init, emptyRoot, keys, is_regular_file
  <2> QED BY <2>1
<1>3. TypeOK /\ ObjectInv(disk, session) /\ [Next]_vars => [Abstract!ObjectStorageNext]_m
  <2> SUFFICES ASSUME TypeOK, ObjectInv(disk, session), [Next]_vars
               PROVE  [Abstract!ObjectStorageNext]_m
    OBVIOUS
  <2>1. MapStep(m, m')
    BY <1>1, EngineMapStep
  <2> HIDE DEF m
  <2>2. ASSUME NEW n \in Names \ TempNames, NEW v \in Values, Puts(m, m', n, whole(v))
        PROVE  Abstract!ObjectStorageNext
    BY <2>2 DEF Abstract!ObjectStorageNext, Abstract!put, Puts, m
  <2>3. ASSUME NEW n \in Names \ TempNames, Drops(m, m', n)
        PROVE  Abstract!ObjectStorageNext
    BY <2>3 DEF Abstract!ObjectStorageNext, Abstract!del, Drops, m
  <2> QED BY <2>1, <2>2, <2>3 DEF MapStep
<1> QED BY <1>2, <1>3, ObjectInvHolds, PTL
        DEF Spec, ImplementsObjectStorage, Abstract!ObjectStorageSpec
=============================================================================
