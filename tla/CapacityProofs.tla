--------------------------- MODULE CapacityProofs ---------------------------
(***************************************************************************)
(* Proofs that the size index describes the objects on disk, and that the  *)
(* capacity admitted against the index holds for the disk.                 *)
(***************************************************************************)
EXTENDS ObjectProofs

-----------------------------------------------------------------------------
(***************************************************************************)
(* Hypotheses on the clients and the environment, beyond Uncontended and   *)
(* PutsWhole.                                                              *)
(***************************************************************************)

\* Clients use one spelling for each file, and do not name temporaries.
OneSpelling ==
    /\ \A p, q \in Paths : mapPath[p] # nullopt /\ mapPath[p] = mapPath[q] => p = q
    /\ \A p \in Paths : mapPath[p] \notin TempNames

\* The walk at start-up sees every file.
Readable == "unreadable" \notin Env

\* What IndexExact and LeaksAreReservations rest on.
Accountable == Uncontended /\ PutsWhole /\ OneSpelling /\ Readable

\* No connection is lost in the middle of an upload.
Connected == "disconnect" \notin Env

\* A full store has room in the word for one more value.
NoWrap == \A v \in Values : m_maxBytes + sizeOf[v] < W

-----------------------------------------------------------------------------
(***************************************************************************)
(* The invariant, for the sizes d that are due, the open streams s and the *)
(* index f.                                                                *)
(***************************************************************************)

\* The size of the object of a path, and the size in the index.
actual(o, path) == IF mapPath[path] \in DOMAIN o THEN Len(o[mapPath[path]]) ELSE nullopt
indexed(f, path) == IF path \in DOMAIN f THEN f[path] ELSE nullopt

\* What the index should say of a path without an upload: the reservation
\* that a lost upload left, or the size of the object.
due == [path \in Paths |-> IF lost[path] = nullopt THEN actual(view(disk), path)
                                                  ELSE lost[path]]

sendsTo(s, c, path) == isUpload(s, c) /\ s[c].path = path

\* No reservation of a lost upload is left.
NoneLost == lost = [path \in Paths |-> nullopt]

\* While a path has an upload, the index has the size it announced, and the
\* upload keeps the size that is due; afterwards the index has it.
SizesInv(d, s, f) ==
    \A path \in Paths :
        /\ \A c \in Conns : sendsTo(s, c, path) =>
               /\ indexed(f, path) = sizeOf[s[c].value]
               /\ s[c].previousSize = d[path]
        /\ (\A c \in Conns : ~sendsTo(s, c, path)) => indexed(f, path) = d[path]

\* upsert and erase affect one path.
LEMMA WithIndexed ==
    ASSUME NEW f, NEW path, NEW size
    PROVE  /\ indexed(With(f, path, size), path) = size
           /\ \A q : q # path => indexed(With(f, path, size), q) = indexed(f, q)
  BY DEF indexed, With

LEMMA WithoutIndexed ==
    ASSUME NEW f, NEW path
    PROVE  /\ indexed(Without(f, path), path) = nullopt
           /\ \A q : q # path => indexed(Without(f, path), q) = indexed(f, q)
  BY DEF indexed, Without

\* What storing a value does to the sizes.
LEMMA PutsSizes ==
    ASSUME OneSpelling, NEW path \in Paths, mapPath[path] # nullopt, NEW v \in Values,
           NEW o, NEW o2, Puts(o, o2, mapPath[path], whole(v))
    PROVE  /\ actual(o2, path) = sizeOf[v]
           /\ \A q \in Paths : q # path => actual(o2, q) = actual(o, q)
<1>1. \A q \in Paths : q # path => mapPath[q] # mapPath[path]
  BY DEF OneSpelling
<1> QED BY <1>1, WholeType DEF Puts, actual

\* What deleting an object does to the sizes.
LEMMA DropsSizes ==
    ASSUME OneSpelling, NEW path \in Paths, mapPath[path] # nullopt,
           NEW o, NEW o2, Drops(o, o2, mapPath[path])
    PROVE  /\ actual(o2, path) = nullopt
           /\ \A q \in Paths : q # path => actual(o2, q) = actual(o, q)
<1>1. \A q \in Paths : q # path => mapPath[q] # mapPath[path]
  BY DEF OneSpelling
<1> QED BY <1>1 DEF Drops, actual

\* A request that settles a path makes the size of its object due.
LEMMA DueSettled ==
    ASSUME TypeOK, NEW path \in Paths, settled(path),
           \A q \in Paths : q # path => actual(view(disk'), q) = actual(view(disk), q)
    PROVE  /\ due'[path] = actual(view(disk'), path)
           /\ \A q \in Paths : q # path => due'[q] = due[q]
<1>1. \A q \in Paths : lost'[q] = IF q = path THEN nullopt ELSE lost[q]
  BY DEF settled, TypeOK
<1> QED BY <1>1 DEF due

\* Where neither an object nor a loss is added, the same is due.
LEMMA DueStays ==
    ASSUME view(disk') = view(disk), lost' = lost
    PROVE  due' = due
  BY DEF due

\* An upload has its path to itself.
LEMMA OneUpload ==
    ASSUME ObjectInv(disk, session), NEW b \in Conns, NEW c \in Conns, NEW path,
           sendsTo(session, b, path), sendsTo(session, c, path)
    PROVE  b = c
<1>1. session[b].name = mapPath[path] /\ session[c].name = mapPath[path]
  BY DEF sendsTo, ObjectInv, goodUpload
<1> QED BY <1>1 DEF sendsTo, ObjectInv, Apart, used

\* A file that no upload uses belongs to a path without an upload.
LEMMA QuietPath ==
    ASSUME Uncontended, ObjectInv(disk, session), NEW path, quiet(mapPath[path])
    PROVE  \A c \in Conns : ~sendsTo(session, c, path)
<1>1. quietIn(session, mapPath[path])
  BY DEF quiet, Uncontended, quietIn, used, isUpload, uploading
<1> QED BY <1>1 DEF sendsTo, ObjectInv, goodUpload, quietIn, used

\* A change of one path without an upload, object and index together.
LEMMA PathSettles ==
    ASSUME NEW d, NEW d2, NEW s, NEW f, NEW f2, NEW path \in Paths, SizesInv(d, s, f),
           \A c \in Conns : ~sendsTo(s, c, path), indexed(f2, path) = d2[path],
           \A q \in Paths : q # path => d2[q] = d[q] /\ indexed(f2, q) = indexed(f, q)
    PROVE  SizesInv(d2, s, f2)
  BY DEF SizesInv

\* An upload ends, and its path settles.
LEMMA UploadSettles ==
    ASSUME NEW d, NEW d2, NEW f, NEW f2, NEW path \in Paths, NEW c \in Conns,
           session \in Sessions, ObjectInv(disk, session), SizesInv(d, session, f),
           sendsTo(session, c, path), indexed(f2, path) = d2[path],
           \A q \in Paths : q # path => d2[q] = d[q] /\ indexed(f2, q) = indexed(f, q)
    PROVE  SizesInv(d2, [session EXCEPT ![c] = Idle], f2)
<1> DEFINE s == [session EXCEPT ![c] = Idle]
<1>1. \A b \in Conns : s[b] = IF b = c THEN Idle ELSE session[b]
  BY DEF Sessions
<1> HIDE DEF s
<1>2. \A q \in Paths \ {path}, b \in Conns :
          /\ sendsTo(s, b, q) <=> sendsTo(session, b, q)
          /\ sendsTo(s, b, q) => s[b] = session[b]
  BY <1>1 DEF sendsTo, isUpload, Idle
<1>3. \A b \in Conns : ~sendsTo(s, b, path)
  BY <1>1, OneUpload DEF sendsTo, isUpload, Idle
<1>4. SizesInv(d2, s, f2)
  BY <1>2, <1>3 DEF SizesInv
<1> QED BY <1>4 DEF s

\* A stream changes that is no upload, before or after.
LEMMA OthersSettle ==
    ASSUME NEW d, NEW f, NEW s, NEW s2, SizesInv(d, s, f),
           \A b \in Conns : isUpload(s2, b) <=> isUpload(s, b),
           \A b \in Conns : isUpload(s, b) =>
               /\ s2[b].path = s[b].path /\ s2[b].value = s[b].value
               /\ s2[b].previousSize = s[b].previousSize
    PROVE  SizesInv(d, s2, f)
<1>1. \A q \in Paths, b \in Conns :
          /\ sendsTo(s2, b, q) <=> sendsTo(s, b, q)
          /\ sendsTo(s, b, q) => /\ s2[b].value = s[b].value
                                 /\ s2[b].previousSize = s[b].previousSize
  BY DEF sendsTo
<1> QED BY <1>1 DEF SizesInv

\* The walk at start-up finds the sizes of the objects: a value fits a word.
LEMMA ScanSizes ==
    ASSUME OneSpelling, NEW d \in FileSystems, Whole(d)
    PROVE  /\ DOMAIN scan(d) = viewed(d)
           /\ \A path \in Paths : indexed(scan(d), path) = actual(view(d), path)
<1>1. scan(d) = [n \in viewed(d) |-> Len(d.data[d.dir[n]]) % W]
  BY DEF scan, viewed, is_regular_file, isTempFile, contents
<1>2. ASSUME NEW n \in viewed(d) PROVE Len(d.data[d.dir[n]]) % W = Len(d.data[d.dir[n]])
  <2>1. PICK v \in Values : d.data[d.dir[n]] = whole(v)
    BY DEF viewed, Whole
  <2>2. Len(whole(v)) = sizeOf[v] /\ sizeOf[v] \in 0 .. (W - 1)
    BY WholeType DEF size_t
  <2>3. sizeOf[v] % W = sizeOf[v]
    BY <2>2, WAssumption
  <2> QED BY <2>1, <2>2, <2>3
<1>3. DOMAIN scan(d) = viewed(d) /\ DOMAIN view(d) = viewed(d)
  BY <1>1 DEF view
<1>4. ASSUME NEW path \in Paths PROVE indexed(scan(d), path) = actual(view(d), path)
  <2>1. path \in viewed(d) => mapPath[path] = path
    BY DiskAssumption DEF viewed
  <2>2. mapPath[path] \in viewed(d) => path \in viewed(d)
    <3> SUFFICES ASSUME mapPath[path] \in viewed(d) PROVE path \in viewed(d)
      OBVIOUS
    <3>1. /\ mapPath[path] # nullopt /\ mapPath[path] \in Paths
          /\ mapPath[mapPath[path]] = mapPath[path]
      BY DiskAssumption DEF viewed
    <3>2. mapPath[path] = path
      BY <3>1 DEF OneSpelling
    <3> QED BY <3>2
  <2>3. CASE path \in viewed(d)
    BY <1>1, <1>2, <2>1, <2>3 DEF indexed, actual, view
  <2>4. CASE path \notin viewed(d)
    BY <1>3, <2>2, <2>4 DEF indexed, actual
  <2> QED BY <2>3, <2>4
<1> QED BY <1>3, <1>4

\* A restart that can read everything indexes what the walk finds.
LEMMA RestartIndex ==
    ASSUME Readable, NEW d \in FileSystems, restartFrom(d)
    PROVE  m_sizes' = scan(d)
<1>1. m_sizes' = [n \in DOMAIN scan(d) |-> scan(d)[n]]
  BY DEF restartFrom, Readable, refresh
<1>2. scan(d) = [n \in DOMAIN scan(d) |-> scan(d)[n]]
  BY ScanType, IndexFacts
<1> QED BY <1>1, <1>2

-----------------------------------------------------------------------------
(* Steps of the engine *)

\* A put records the size of what it stores.
LEMMA PutSizes ==
    ASSUME Accountable, TypeOK, ObjectInv(disk, session), SizesInv(due, session, m_sizes),
           NEW path \in Paths, NEW v \in Values,
           Put(path, v) \/ PutFails(path, v) \/ SetNx(path, v) \/ SetNxFails(path, v)
    PROVE  SizesInv(due', session', m_sizes')
<1>1. /\ putAdmitted(path, v) /\ session' = session /\ settled(path)
      /\ m_sizes' = With(m_sizes, path, sizeOf[v])
  <2>1. putAdmitted(path, v)
    BY DEF Put, PutFails, SetNx, SetNxFails
  <2>2. "fault" \notin Env
    BY <2>1, PartialPut DEF Accountable
  <2> QED BY <2>1, <2>2 DEF Put, PutFails, SetNx, SetNxFails, upsert
<1>2. mapPath[path] # nullopt /\ quiet(mapPath[path]) /\ OneSpelling /\ Uncontended
  BY <1>1 DEF putAdmitted, putOpens, resolves, Accountable
<1>3. Puts(view(disk), view(disk'), mapPath[path], whole(v))
  BY PutView DEF Accountable, OneSpelling
<1>4. /\ actual(view(disk'), path) = sizeOf[v]
      /\ \A q \in Paths : q # path => actual(view(disk'), q) = actual(view(disk), q)
  BY <1>2, <1>3, PutsSizes
<1>5. \A c \in Conns : ~sendsTo(session, c, path)
  BY <1>2, QuietPath
<1>6. /\ indexed(m_sizes', path) = sizeOf[v]
      /\ \A q : q # path => indexed(m_sizes', q) = indexed(m_sizes, q)
  BY <1>1, WithIndexed
<1>7. due'[path] = sizeOf[v] /\ \A q \in Paths : q # path => due'[q] = due[q]
  BY <1>1, <1>4, DueSettled
<1>8. SizesInv(due', session, m_sizes')
  BY <1>5, <1>6, <1>7, PathSettles
<1> QED BY <1>1, <1>8

\* A delete forgets the size of what it removes.
LEMMA DelSizes ==
    ASSUME Accountable, TypeOK, ObjectInv(disk, session), SizesInv(due, session, m_sizes),
           NEW path \in Paths, Del(path)
    PROVE  SizesInv(due', session', m_sizes')
<1>1. /\ session' = session /\ m_sizes' = Without(m_sizes, path) /\ settled(path)
      /\ mapPath[path] # nullopt /\ quiet(mapPath[path]) /\ OneSpelling /\ Uncontended
  BY DEF Del, erase, delSucceeds, resolves, Accountable
<1>2. /\ actual(view(disk'), path) = nullopt
      /\ \A q \in Paths : q # path => actual(view(disk'), q) = actual(view(disk), q)
  <2>1. CASE mapPath[path] \in viewed(disk)
    BY <1>1, <2>1, DelView, DropsSizes
  <2>2. CASE mapPath[path] \notin viewed(disk)
    BY <2>2, DelView DEF actual, view
  <2> QED BY <2>1, <2>2
<1>3. \A c \in Conns : ~sendsTo(session, c, path)
  BY <1>1, QuietPath
<1>4. /\ indexed(m_sizes', path) = nullopt
      /\ \A q : q # path => indexed(m_sizes', q) = indexed(m_sizes, q)
  BY <1>1, WithoutIndexed
<1>5. due'[path] = nullopt /\ \A q \in Paths : q # path => due'[q] = due[q]
  BY <1>1, <1>2, DueSettled
<1>6. SizesInv(due', session, m_sizes')
  BY <1>3, <1>4, <1>5, PathSettles
<1> QED BY <1>1, <1>6

\* Beginning an upload reserves its size and remembers the one before.
LEMMA BeginPutSizes ==
    ASSUME Accountable, TypeOK, ObjectInv(disk, session), SizesInv(due, session, m_sizes),
           NEW c \in Conns, NEW path \in Paths, NEW v \in Values,
           NEW isSetNx \in BOOLEAN, BeginPut(c, path, v, isSetNx)
    PROVE  SizesInv(due', session', m_sizes')
<1>1. /\ session[c] = Idle /\ lost' = lost
      /\ m_sizes' = With(m_sizes, path, sizeOf[v])
      /\ quiet(mapPath[path]) /\ Uncontended
  BY DEF BeginPut, upsert, Accountable
<1>2. PICK i \in tempInodes(mapPath[path], held(session)) \cup {nullopt} :
          session' = [session EXCEPT ![c] =
              [kind |-> "upload", path |-> path, name |-> mapPath[path],
               value |-> v, isSetNx |-> isSetNx, written |-> 0,
               inode |-> i, previousSize |-> objectSize(path)]]
  BY DEF BeginPut
<1>3. session \in Sessions
  BY DEF TypeOK, Sessions
<1>4. /\ \A b \in Conns \ {c} : session'[b] = session[b]
      /\ session'[c].kind = "upload" /\ session'[c].path = path
      /\ session'[c].value = v /\ session'[c].previousSize = indexed(m_sizes, path)
  BY <1>2, <1>3 DEF Sessions, objectSize, contains, indexed
<1>5. \A b \in Conns : ~sendsTo(session, b, path)
  BY <1>1, QuietPath
<1>6. indexed(m_sizes, path) = due[path]
  BY <1>5 DEF SizesInv
<1>7. /\ indexed(m_sizes', path) = sizeOf[v]
      /\ \A q : q # path => indexed(m_sizes', q) = indexed(m_sizes, q)
  BY <1>1, WithIndexed
<1>8. /\ sendsTo(session', c, path)
      /\ \A b \in Conns : sendsTo(session', b, path) => b = c
      /\ \A q \in Paths \ {path}, b \in Conns :
             /\ sendsTo(session', b, q) <=> sendsTo(session, b, q)
             /\ sendsTo(session', b, q) => session'[b] = session[b]
  BY <1>1, <1>4, <1>5 DEF sendsTo, isUpload, Idle
<1>9. due' = due
  BY <1>1, BeginPutView, DueStays
<1>10. ASSUME NEW q \in Paths, q # path
      PROVE  /\ \A b \in Conns : sendsTo(session', b, q) =>
                    /\ indexed(m_sizes', q) = sizeOf[session'[b].value]
                    /\ session'[b].previousSize = due[q]
             /\ (\A b \in Conns : ~sendsTo(session', b, q)) =>
                    indexed(m_sizes', q) = due[q]
  BY <1>7, <1>8, <1>10 DEF SizesInv
<1> QED BY <1>1, <1>4, <1>6, <1>7, <1>8, <1>9, <1>10 DEF SizesInv

\* An upload that ends leaves the size it stored, or the one before.
LEMMA UploadSizes ==
    ASSUME Accountable, TypeOK, ObjectInv(disk, session), SizesInv(due, session, m_sizes),
           NEW c \in Conns,
           WriteChunk(c) \/ WriteFails(c) \/ Finish(c) \/ FinishFails(c)
    PROVE  SizesInv(due', session', m_sizes')
<1> DEFINE u == session[c]
           o == view(disk)
<1>0. session \in Sessions /\ uploading(c)
  BY DEF TypeOK, Sessions, WriteChunk, WriteFails, Finish, FinishFails
<1>1. /\ u \in Uploads /\ u.path \in Paths /\ u.value \in Values
      /\ u.name = mapPath[u.path] /\ u.name \in Names
  BY <1>0, OpenUpload DEF goodUpload, Uploads
<1>2. sendsTo(session, c, u.path)
  BY <1>0 DEF sendsTo, isUpload, uploading
<1>3. /\ indexed(m_sizes, u.path) = sizeOf[u.value]
      /\ u.previousSize = due[u.path]
  BY <1>1, <1>2 DEF SizesInv
<1>4. CASE WriteChunk(c)
  <2>1. m_sizes' = m_sizes /\ due' = due
    BY <1>4, UploadView, DueStays DEF WriteChunk
  <2>2. PICK w : session' = [session EXCEPT ![c] = [u EXCEPT !.written = w]]
    BY <1>0, <1>4 DEF WriteChunk, Sessions
  <2>3. /\ \A b \in Conns \ {c} : session'[b] = session[b]
        /\ session'[c].kind = u.kind /\ session'[c].path = u.path
        /\ session'[c].value = u.value /\ session'[c].previousSize = u.previousSize
    BY <1>0, <1>1, <2>2 DEF Sessions, Uploads
  <2>4. /\ \A b \in Conns : isUpload(session', b) <=> isUpload(session, b)
        /\ \A b \in Conns : isUpload(session, b) =>
               /\ session'[b].path = session[b].path /\ session'[b].value = session[b].value
               /\ session'[b].previousSize = session[b].previousSize
    BY <2>3 DEF isUpload
  <2>5. SizesInv(due, session', m_sizes)
    BY <2>4, OthersSettle
  <2> QED BY <2>1, <2>5
<1>5. CASE WriteFails(c) \/ FinishFails(c)
  <2>1. due' = due /\ session' = [session EXCEPT ![c] = Idle] /\ restore(u)
    BY <1>5, UploadView, DueStays DEF WriteFails, FinishFails
  <2>2. /\ indexed(m_sizes', u.path) = u.previousSize
        /\ \A q : q # u.path => indexed(m_sizes', q) = indexed(m_sizes, q)
    <3>1. CASE u.previousSize = nullopt
      BY <2>1, <3>1, WithoutIndexed DEF restore, erase
    <3>2. CASE u.previousSize # nullopt
      BY <2>1, <3>2, WithIndexed DEF restore, upsert
    <3> QED BY <3>1, <3>2
  <2> HIDE DEF u
  <2>3. SizesInv(due, [session EXCEPT ![c] = Idle], m_sizes')
    BY <1>0, <1>1, <1>2, <1>3, <2>2, UploadSettles
  <2> QED BY <2>1, <2>3
<1>6. CASE Finish(c)
  <2>1. m_sizes' = m_sizes /\ session' = [session EXCEPT ![c] = Idle] /\ settled(u.path)
    BY <1>6 DEF Finish, indexVars
  <2>2. u.name \notin TempNames /\ mapPath[u.path] # nullopt /\ OneSpelling
    BY <1>1, DiskAssumption DEF Accountable, OneSpelling
  <2>3. Puts(o, view(disk'), mapPath[u.path], whole(u.value))
    BY <1>1, <1>6, <2>2, UploadView
  <2> HIDE DEF o, u
  <2>4. /\ actual(view(disk'), u.path) = sizeOf[u.value]
        /\ \A q \in Paths : q # u.path => actual(view(disk'), q) = actual(o, q)
    BY <1>1, <2>2, <2>3, PutsSizes
  <2>5. /\ due'[u.path] = sizeOf[u.value]
        /\ \A q \in Paths : q # u.path => due'[q] = due[q]
    BY <1>1, <2>1, <2>4, DueSettled DEF o
  <2>6. SizesInv(due', [session EXCEPT ![c] = Idle], m_sizes)
    BY <1>0, <1>1, <1>2, <1>3, <2>5, UploadSettles
  <2> QED BY <2>1, <2>6
<1> QED BY <1>4, <1>5, <1>6

\* Downloads change no size; a lost upload leaves its reservation.
LEMMA DownloadSizes ==
    ASSUME Accountable, TypeOK, ObjectInv(disk, session), SizesInv(due, session, m_sizes),
           NEW c \in Conns,
           \/ \E path \in Paths : BeginGet(c, path)
           \/ ReadChunk(c)
           \/ EndGet(c)
           \/ Disconnect(c)
    PROVE  SizesInv(due', session', m_sizes')
<1>0. session \in Sessions /\ view(disk') = view(disk) /\ m_sizes' = m_sizes
  BY QuietView DEF TypeOK, Sessions, BeginGet, ReadChunk, EndGet, Disconnect, indexVars
<1>1. CASE Disconnect(c) /\ uploading(c)
  <2> DEFINE u == session[c]
  <2>1. /\ session' = [session EXCEPT ![c] = Idle]
        /\ lost' = [lost EXCEPT ![u.path] = sizeOf[u.value]]
    BY <1>1 DEF Disconnect
  <2>2. u.path \in Paths /\ u.value \in Values /\ sizeOf[u.value] \in Nat
    BY <1>0, <1>1, SessionKinds, WholeType DEF Uploads
  <2>3. sendsTo(session, c, u.path)
    BY <1>1 DEF sendsTo, isUpload, uploading
  <2>4. indexed(m_sizes, u.path) = sizeOf[u.value]
    BY <2>2, <2>3 DEF SizesInv
  <2> HIDE DEF u
  <2>5. \A q \in Paths : lost'[q] = IF q = u.path THEN sizeOf[u.value] ELSE lost[q]
    BY <2>1, <2>2 DEF TypeOK
  <2>6. /\ due'[u.path] = sizeOf[u.value]
        /\ \A q \in Paths : q # u.path => due'[q] = due[q]
    BY <1>0, <2>2, <2>5, NulloptAssumption DEF due
  <2>7. SizesInv(due', [session EXCEPT ![c] = Idle], m_sizes)
    BY <1>0, <2>2, <2>3, <2>4, <2>6, UploadSettles
  <2> QED BY <1>0, <2>1, <2>7
<1>2. CASE ~(Disconnect(c) /\ uploading(c))
  <2>1. ~isUpload(session, c) /\ \E x : session' = [session EXCEPT ![c] = x]
                                        /\ x.kind # "upload"
    <3>1. CASE \E path \in Paths : BeginGet(c, path)
      <4>1. PICK path \in Paths : BeginGet(c, path)
        BY <3>1
      <4> DEFINE x == [kind |-> "download", inode |-> disk.dir[mapPath[path]],
                       announced |-> Len(get(path)), want |-> get(path),
                       got |-> <<>>, eof |-> FALSE]
      <4>2. x.kind # "upload" /\ session' = [session EXCEPT ![c] = x]
        BY <4>1 DEF BeginGet
      <4>3. ~isUpload(session, c)
        BY <4>1 DEF BeginGet, isUpload, Idle
      <4> HIDE DEF x
      <4> QED BY <4>2, <4>3
    <3>2. CASE ReadChunk(c)
      <4>1. session[c] \in Downloads /\ downloading(c)
        BY <1>0, <3>2, SessionKinds DEF ReadChunk
      <4> DEFINE x == [session[c] EXCEPT !.got = @ \o nextChunk(session[c]),
                                         !.eof = Len(nextChunk(session[c])) < kReadChunkSize]
      <4>2. session' = [session EXCEPT ![c] = x]
        BY <1>0, <3>2 DEF ReadChunk, Sessions
      <4>3. x.kind = session[c].kind
        BY <4>1 DEF Downloads
      <4> HIDE DEF x
      <4> QED BY <4>1, <4>2, <4>3 DEF isUpload, downloading
    <3>3. CASE EndGet(c) \/ Disconnect(c)
      BY <1>2, <3>3 DEF EndGet, Disconnect, isUpload, uploading, downloading, Idle
    <3> QED BY <3>1, <3>2, <3>3
  <2>2. /\ \A b \in Conns : isUpload(session', b) <=> isUpload(session, b)
        /\ \A b \in Conns : isUpload(session, b) => session'[b] = session[b]
    BY <1>0, <2>1 DEF isUpload, Sessions
  <2>3. SizesInv(due, session', m_sizes)
    BY <2>2, OthersSettle
  <2>4. due' = due
    BY <1>0, <1>2, DueStays DEF BeginGet, ReadChunk, EndGet, Disconnect
  <2> QED BY <1>0, <2>3, <2>4
<1> QED BY <1>1, <1>2

\* A restart indexes the objects.
LEMMA RestartSizes ==
    ASSUME Accountable, TypeOK, ObjectInv(disk, session), Restart
    PROVE  SizesInv(due', session', m_sizes')
<1>1. view(disk') = view(disk)
  BY QuietView
<1>2. m_sizes' = scan(disk) /\ session' = [c \in Conns |-> Idle]
  BY RestartIndex DEF Accountable, Restart, restartFrom, TypeOK
<1>3. \A path \in Paths : indexed(m_sizes', path) = actual(view(disk), path)
  BY <1>2, ScanSizes DEF Accountable, TypeOK, ObjectInv
<1>4. \A path \in Paths, c \in Conns : ~sendsTo(session', c, path)
  BY <1>2 DEF sendsTo, isUpload, Idle
<1>5. \A path \in Paths : lost'[path] = nullopt
  BY DEF Restart, restartFrom
<1>6. \A path \in Paths : due'[path] = actual(view(disk), path)
  BY <1>1, <1>5 DEF due
<1> QED BY <1>3, <1>4, <1>6 DEF SizesInv

\* Any step of the engine.
LEMMA StepKeepsSizes ==
    ASSUME Accountable, TypeOK, ObjectInv(disk, session),
           SizesInv(due, session, m_sizes), [Next]_vars
    PROVE  SizesInv(due', session', m_sizes')
<1>1. ASSUME NEW path \in Paths, NEW v \in Values,
             Put(path, v) \/ PutFails(path, v) \/ SetNx(path, v) \/ SetNxFails(path, v)
      PROVE  SizesInv(due', session', m_sizes')
  BY <1>1, PutSizes
<1>2. ASSUME NEW path \in Paths, NEW v \in Values,
             CrashInPut(path, v) \/ OpenFails(path, v)
      PROVE  FALSE
  BY <1>2, PartialPut DEF CrashInPut, OpenFails, Accountable
<1>3. ASSUME NEW path \in Paths, NEW v \in Values, NEW c \in Conns,
             NEW isSetNx \in BOOLEAN, BeginPut(c, path, v, isSetNx)
      PROVE  SizesInv(due', session', m_sizes')
  BY <1>3, BeginPutSizes
<1>4. ASSUME NEW path \in Paths, Del(path)
      PROVE  SizesInv(due', session', m_sizes')
  BY <1>4, DelSizes
<1>5. ASSUME NEW c \in Conns,
             WriteChunk(c) \/ WriteFails(c) \/ Finish(c) \/ FinishFails(c)
      PROVE  SizesInv(due', session', m_sizes')
  BY <1>5, UploadSizes
<1>6. ASSUME NEW c \in Conns,
             \/ \E path \in Paths : BeginGet(c, path)
             \/ ReadChunk(c)
             \/ EndGet(c)
             \/ Disconnect(c)
      PROVE  SizesInv(due', session', m_sizes')
  BY <1>6, DownloadSizes
<1>7. CASE Restart
  BY <1>7, RestartSizes
<1>8. CASE UNCHANGED vars
  BY <1>8 DEF vars, due
<1> QED BY <1>1, <1>2, <1>3, <1>4, <1>5, <1>6, <1>7, <1>8 DEF Next

\* The engine starts with an empty index, right for an empty disk.
LEMMA InitKeepsSizes ==
    ASSUME Init
    PROVE  SizesInv(due, session, m_sizes)
<1>1. \A n \in Names : disk.dir[n] \notin Inodes
  BY FileSystemAssumption DEF Init, emptyRoot
<1>2. DOMAIN m_sizes = {} /\ DOMAIN view(disk) = {}
  BY <1>1 DEF Init, scan, is_regular_file, view, viewed
<1>3. \A path \in Paths, c \in Conns : ~sendsTo(session, c, path)
  BY DEF Init, sendsTo, isUpload, Idle
<1>4. \A path \in Paths : due[path] = nullopt
  BY <1>2 DEF Init, due, actual
<1> QED BY <1>2, <1>3, <1>4 DEF SizesInv, indexed

-----------------------------------------------------------------------------
(* What the invariant says about the index *)

\* The invariant holds at all times.
LEMMA SizesInvHolds ==
    ASSUME Accountable
    PROVE  Spec => [](/\ TypeOK /\ ObjectInv(disk, session)
                      /\ SizesInv(due, session, m_sizes))
<1> DEFINE I == SizesInv(due, session, m_sizes)
<1>1. Init => I
  BY InitKeepsSizes
<1>2. TypeOK /\ ObjectInv(disk, session) /\ I /\ [Next]_vars => I'
  BY StepKeepsSizes
<1>3. Spec => [](TypeOK /\ ObjectInv(disk, session))
  BY ObjectInvHolds DEF Accountable
<1> QED BY <1>1, <1>2, <1>3, PTL DEF Spec

\* actual and indexed are what the engine's own queries return.
LEMMA Queries ==
    ASSUME OneSpelling, TypeOK, NEW path \in Paths
    PROVE  /\ actual(view(disk), path) = IF stored(path) THEN Len(get(path)) ELSE nullopt
           /\ indexed(m_sizes, path) = objectSize(path)
           /\ stored(path) <=> actual(view(disk), path) # nullopt
           /\ contains(path) <=> indexed(m_sizes, path) # nullopt
           /\ uploadsOf(path) = {c \in Conns : sendsTo(session, c, path)}
<1>1. mapPath[path] \in viewed(disk) <=> stored(path)
  BY DiskAssumption DEF OneSpelling, viewed, stored, resolves, is_regular_file
<1>2. stored(path) => /\ get(path) = view(disk)[mapPath[path]]
                      /\ Len(get(path)) \in Nat
  <2> SUFFICES ASSUME stored(path)
               PROVE  get(path) = view(disk)[mapPath[path]] /\ Len(get(path)) \in Nat
    OBVIOUS
  <2>1. get(path) = disk.data[disk.dir[mapPath[path]]] /\ disk.dir[mapPath[path]] \in Inodes
    BY DEF get, stored, contents, is_regular_file
  <2>2. get(path) \in Seq(Bytes)
    BY <2>1 DEF TypeOK, FileSystems
  <2> QED BY <1>1, <2>1, <2>2, LenProperties DEF view
<1>3. contains(path) => m_sizes[path] \in Nat
  BY IndexFacts, WAssumption DEF TypeOK, IndexTypeOK, contains, size_t
<1> QED BY <1>1, <1>2, <1>3, NulloptAssumption
        DEF actual, indexed, view, objectSize, contains, uploadsOf, sendsTo, isUpload, uploading

\* If no connection is lost in an upload, there is no reservation to remember.
LEMMA NothingLost ==
    ASSUME Connected
    PROVE  Spec => []NoneLost
<1>1. Init => NoneLost
  BY DEF Init, NoneLost
<1>2. NoneLost /\ [Next]_vars => NoneLost'
  <2> SUFFICES ASSUME NoneLost, [Next]_vars PROVE NoneLost'
    OBVIOUS
  <2>1. ASSUME NEW path, settled(path) PROVE NoneLost'
    BY <2>1 DEF settled, NoneLost
  <2>2. ASSUME lost' = lost PROVE NoneLost'
    BY <2>2 DEF NoneLost
  <2>3. ASSUME NEW d, restartFrom(d) PROVE NoneLost'
    BY <2>3 DEF restartFrom, NoneLost
  <2>4. \/ \E path : settled(path)
        \/ lost' = lost
        \/ \E d : restartFrom(d)
    BY DEF Next, Put, PutFails, SetNx, SetNxFails, OpenFails, CrashInPut, BeginPut, Del,
           WriteChunk, WriteFails, Finish, FinishFails, Disconnect, Connected, ReadChunk,
           EndGet, BeginGet, Restart, vars
  <2> QED BY <2>1, <2>2, <2>3, <2>4
<1> QED BY <1>1, <1>2, PTL DEF Spec

\* Lost connections leak reservations and nothing else: a wrong entry of the
\* index is the size announced by the last upload of its path that was
\* dropped.  The clients may lose connections at any time, uploads may fail at
\* any point and the server may be restarted; they only do not contend for a
\* file or give it two names.
THEOREM EngineLeaksAreReservations ==
    Accountable => (Spec => []LeaksAreReservations)
<1> SUFFICES ASSUME Accountable PROVE Spec => []LeaksAreReservations
  OBVIOUS
<1>1. ASSUME TypeOK, SizesInv(due, session, m_sizes), NEW path \in Paths
      PROVE  IF uploadsOf(path) # {}
             THEN \A c \in uploadsOf(path) : objectSize(path) = sizeOf[session[c].value]
             ELSE objectSize(path) = IF lost[path] # nullopt THEN lost[path]
                                     ELSE IF stored(path) THEN Len(get(path)) ELSE nullopt
  <2>1. OneSpelling
    BY DEF Accountable
  <2>2. CASE uploadsOf(path) # {}
    BY <1>1, <2>1, <2>2, Queries DEF SizesInv
  <2>3. CASE uploadsOf(path) = {}
    <3>1. indexed(m_sizes, path) = due[path]
      BY <1>1, <2>1, <2>3, Queries DEF SizesInv
    <3> QED BY <1>1, <2>1, <2>3, <3>1, Queries DEF due
  <2> QED BY <2>2, <2>3
<1>2. TypeOK => DOMAIN m_sizes \subseteq Paths
  BY IndexFacts DEF TypeOK, IndexTypeOK
<1>3. TypeOK /\ SizesInv(due, session, m_sizes) => LeaksAreReservations
  BY <1>1, <1>2 DEF LeaksAreReservations
<1> QED BY <1>3, SizesInvHolds, PTL

\* If no connection is lost in an upload, the index is exact after every
\* callback, also after failed writes, failed renames and restarts.
THEOREM EngineIndexExact ==
    Accountable /\ Connected => (Spec => []IndexExact)
<1> SUFFICES ASSUME Accountable, Connected PROVE Spec => []IndexExact
  OBVIOUS
<1>1. LeaksAreReservations /\ NoneLost => IndexExact
  BY DEF LeaksAreReservations, NoneLost, IndexExact
<1> QED BY <1>1, NothingLost, EngineLeaksAreReservations, PTL

-----------------------------------------------------------------------------
(* The capacity *)

\* Opening, writing and closing files succeeds.
Faultless == "fault" \notin Env

\* The indexed sizes are within the capacity, and every upload has its file.
RoomInv(s, f) ==
    /\ TotalOf(f) <= m_maxBytes
    /\ \A c \in Conns : isUpload(s, c) => s[c].inode # nullopt

\* What wouldFit admits is within the capacity: nothing wraps around.
LEMMA FitsKeeps ==
    ASSUME NoWrap, TypeOK, TotalMatchesIndex, TotalOf(m_sizes) <= m_maxBytes,
           NEW path \in Paths, NEW v \in Values, wouldFit(path, sizeOf[v])
    PROVE  TotalOf(With(m_sizes, path, sizeOf[v])) <= m_maxBytes
<1> DEFINE T == TotalOf(m_sizes)
           old == sizeOrZero(path)
           size == sizeOf[v]
           T2 == TotalOf(With(m_sizes, path, size))
<1>1. m_sizes \in Indexes /\ size \in size_t /\ size \in Nat
  BY WholeType DEF TypeOK, IndexTypeOK
<1>2. T \in Nat /\ T2 \in Nat
  BY <1>1, TotalType, IndexUpdateType
<1>3. old \in Nat
  BY <1>1, IndexFacts, WAssumption DEF sizeOrZero, contains, size_t
<1>4. T2 = T - old + size
  BY <1>1, TotalWith DEF sizeOrZero, contains
<1>5. W \in Nat /\ W > 0 /\ m_maxBytes \in Nat /\ m_maxBytes < W /\ m_maxBytes + size < W
  BY WAssumption, BoundedAssumption DEF NoWrap, size_t
<1>6. m_totalBytes = T % W /\ (m_totalBytes - old + size) % W <= m_maxBytes
  BY DEF TotalMatchesIndex, wouldFit
<1>7. T <= m_maxBytes
  OBVIOUS
<1> HIDE DEF T, old, size, T2
<1>8. T % W = T
  BY <1>2, <1>5, <1>7
<1>9. T2 % W = T2
  <2>1. T2 < W
    BY <1>1, <1>2, <1>3, <1>4, <1>5, <1>7
  <2> QED BY <1>2, <1>5, <2>1
<1>10. T2 <= m_maxBytes
  BY <1>4, <1>6, <1>8, <1>9
<1> QED BY <1>10 DEF T2, size

\* Forgetting a size takes nothing.
LEMMA ForgetKeeps ==
    ASSUME TypeOK, TotalOf(m_sizes) <= m_maxBytes, NEW path \in Paths
    PROVE  TotalOf(Without(m_sizes, path)) <= m_maxBytes
<1>1. m_sizes \in Indexes /\ 0 \in size_t
  BY WAssumption DEF TypeOK, IndexTypeOK, size_t
<1>2. TotalOf(m_sizes) \in Nat /\ TotalOf(Without(m_sizes, path)) \in Nat
  BY <1>1, TotalType, IndexUpdateType
<1>3. path \in DOMAIN m_sizes => m_sizes[path] \in Nat
  BY <1>1, IndexFacts, WAssumption DEF size_t
<1>4. m_maxBytes \in Nat
  BY BoundedAssumption, WAssumption DEF size_t
<1> QED BY <1>1, <1>2, <1>3, <1>4, TotalWithout

\* Without uploads the index is what a restart would find.
LEMMA AtRest ==
    ASSUME Accountable, TypeOK, ObjectInv(disk, session),
           SizesInv(due, session, m_sizes), NoneLost,
           \A c \in Conns : ~uploading(c)
    PROVE  scan(disk) = m_sizes
<1>1. OneSpelling /\ disk \in FileSystems /\ Whole(disk)
  BY DEF Accountable, TypeOK, ObjectInv
<1>2. ASSUME NEW path \in Paths PROVE indexed(scan(disk), path) = indexed(m_sizes, path)
  <2>1. \A c \in Conns : ~sendsTo(session, c, path)
    BY DEF sendsTo, isUpload, uploading
  <2>2. indexed(m_sizes, path) = actual(view(disk), path)
    BY <2>1 DEF SizesInv, due, NoneLost
  <2> QED BY <1>1, <2>2, ScanSizes
<1>3. m_sizes \in Indexes /\ scan(disk) \in Indexes
  BY <1>1, ScanType DEF TypeOK, IndexTypeOK
<1>4. ASSUME NEW f \in Indexes, NEW path \in Paths
      PROVE  path \in DOMAIN f <=> indexed(f, path) # nullopt
  BY IndexFacts, WAssumption, NulloptAssumption DEF indexed, size_t
<1>5. DOMAIN scan(disk) = DOMAIN m_sizes
  BY <1>2, <1>3, <1>4, IndexFacts
<1>6. \A path \in DOMAIN m_sizes : scan(disk)[path] = m_sizes[path]
  BY <1>2, <1>3, <1>5, IndexFacts DEF indexed
<1>7. /\ m_sizes = [k \in DOMAIN m_sizes |-> m_sizes[k]]
      /\ scan(disk) = [k \in DOMAIN scan(disk) |-> scan(disk)[k]]
  BY <1>3, IndexFacts
<1> QED BY <1>5, <1>6, <1>7

\* Every step keeps the index within the capacity.
LEMMA StepKeepsRoom ==
    ASSUME Accountable, Connected, Faultless, NoWrap, TypeOK, ObjectInv(disk, session),
           SizesInv(due, session, m_sizes), NoneLost,
           TotalMatchesIndex, RoomInv(session, m_sizes), [Next]_vars
    PROVE  RoomInv(session', m_sizes')
<1>0. session \in Sessions /\ TotalOf(m_sizes) <= m_maxBytes
  BY DEF TypeOK, Sessions, RoomInv
<1>1. ASSUME NEW path \in Paths, NEW v \in Values,
             Put(path, v) \/ PutFails(path, v) \/ SetNx(path, v) \/ SetNxFails(path, v)
      PROVE  RoomInv(session', m_sizes')
  <2>1. /\ wouldFit(path, sizeOf[v]) /\ session' = session
        /\ m_sizes' = With(m_sizes, path, sizeOf[v])
    BY <1>1 DEF Put, PutFails, SetNx, SetNxFails, putAdmitted, upsert, Faultless
  <2> QED BY <1>0, <2>1, FitsKeeps DEF RoomInv
<1>2. ASSUME NEW path \in Paths, NEW v \in Values,
             CrashInPut(path, v) \/ OpenFails(path, v)
      PROVE  FALSE
  BY <1>2, PartialPut DEF CrashInPut, OpenFails, Accountable
<1>3. ASSUME NEW path \in Paths, NEW v \in Values, NEW c \in Conns,
             NEW isSetNx \in BOOLEAN, BeginPut(c, path, v, isSetNx)
      PROVE  RoomInv(session', m_sizes')
  <2>1. wouldFit(path, sizeOf[v]) /\ m_sizes' = With(m_sizes, path, sizeOf[v])
    BY <1>3 DEF BeginPut, upsert
  <2>2. mapPath[path] \in Names /\ tempOf[mapPath[path]] \in Names /\ disk \in FileSystems
    BY <1>3, DiskAssumption DEF BeginPut, beginPutOpens, resolves, TypeOK
  <2>3. PICK i \in tempInodes(mapPath[path], held(session)) :
            session' = [session EXCEPT ![c] =
                [kind |-> "upload", path |-> path, name |-> mapPath[path],
                 value |-> v, isSetNx |-> isSetNx, written |-> 0,
                 inode |-> i, previousSize |-> objectSize(path)]]
    BY <1>3 DEF BeginPut, Faultless
  <2>4. i # nullopt
    BY <2>2, CreateDirectoriesType, OpenableType, BoundedAssumption DEF tempInodes
  <2>5. session'[c].inode = i /\ \A b \in Conns \ {c} : session'[b] = session[b]
    BY <1>0, <2>3 DEF Sessions
  <2>6. \A b \in Conns : isUpload(session', b) => session'[b].inode # nullopt
    BY <2>4, <2>5 DEF RoomInv, isUpload
  <2> QED BY <1>0, <2>1, <2>6, FitsKeeps DEF RoomInv
<1>4. ASSUME NEW path \in Paths, Del(path)
      PROVE  RoomInv(session', m_sizes')
  BY <1>0, <1>4, ForgetKeeps DEF Del, erase, RoomInv
<1>5. ASSUME NEW c \in Conns, WriteChunk(c)
      PROVE  RoomInv(session', m_sizes')
  <2>1. m_sizes' = m_sizes /\ session[c].inode # nullopt /\ session[c] \in Uploads
    BY <1>0, <1>5, SessionKinds DEF WriteChunk, indexVars
  <2>2. PICK w : session' = [session EXCEPT ![c] = [session[c] EXCEPT !.written = w]]
    BY <1>0, <1>5 DEF WriteChunk, Sessions
  <2>3. /\ session'[c].inode = session[c].inode
        /\ \A b \in Conns \ {c} : session'[b] = session[b]
    BY <1>0, <2>1, <2>2 DEF Sessions, Uploads
  <2> QED BY <1>0, <2>1, <2>3 DEF RoomInv, isUpload
<1>6. ASSUME NEW c \in Conns, session' = [session EXCEPT ![c] = Idle],
             TotalOf(m_sizes') <= m_maxBytes
      PROVE  RoomInv(session', m_sizes')
  <2>1. \A b \in Conns : isUpload(session', b) => isUpload(session, b) /\ session'[b] = session[b]
    BY <1>0, <1>6 DEF Sessions, isUpload, Idle
  <2> QED BY <1>6, <2>1 DEF RoomInv
<1>7. ASSUME NEW c \in Conns, WriteFails(c)
      PROVE  FALSE
  BY <1>7 DEF WriteFails, Faultless, RoomInv, isUpload, uploading
<1>8. ASSUME NEW c \in Conns, Finish(c) \/ EndGet(c) \/ Disconnect(c)
      PROVE  RoomInv(session', m_sizes')
  BY <1>0, <1>6, <1>8 DEF Finish, EndGet, Disconnect, indexVars
<1>9. ASSUME NEW c \in Conns, FinishFails(c)
      PROVE  RoomInv(session', m_sizes')
  <2> DEFINE u == session[c]
             t == tempOf[u.name]
  <2>0. uploading(c) /\ u.inode # nullopt /\ ~renameSucceeds(u.name)
        /\ session' = [session EXCEPT ![c] = Idle] /\ restore(u)
    BY <1>9 DEF FinishFails, Faultless
  <2>1. /\ u \in Uploads /\ u.path \in Paths /\ u.name = mapPath[u.path]
        /\ u.name \in Names /\ disk.dir[t] \in Inodes
    BY <2>0, OpenUpload DEF goodUpload, Uploads
  <2>2. disk.dir[u.name] = Directory
    BY <2>0, <2>1 DEF renameSucceeds, renamable, is_regular_file
  <2>3. actual(view(disk), u.path) = nullopt
    BY <2>1, <2>2, FileSystemAssumption DEF actual, view, viewed
  <2>4. sendsTo(session, c, u.path)
    BY <2>0 DEF sendsTo, isUpload, uploading
  <2>5. u.previousSize = nullopt
    BY <2>1, <2>3, <2>4 DEF SizesInv, due, NoneLost
  <2>6. m_sizes' = Without(m_sizes, u.path)
    BY <2>0, <2>5 DEF restore, erase
  <2>7. TotalOf(m_sizes') <= m_maxBytes
    BY <1>0, <2>1, <2>6, ForgetKeeps
  <2> QED BY <1>6, <2>0, <2>7
<1>10. ASSUME NEW c \in Conns, ReadChunk(c) \/ \E path \in Paths : BeginGet(c, path)
       PROVE  RoomInv(session', m_sizes')
  <2>1. m_sizes' = m_sizes
    BY <1>10 DEF ReadChunk, BeginGet
  <2>2. /\ ~isUpload(session', c)
        /\ \A b \in Conns \ {c} : session'[b] = session[b]
    <3>1. CASE ReadChunk(c)
      <4>1. session[c] \in Downloads
        BY <1>0, <3>1, SessionKinds DEF ReadChunk
      <4>2. PICK g, e : session' = [session EXCEPT ![c] = [session[c] EXCEPT !.got = g, !.eof = e]]
        BY <1>0, <3>1 DEF ReadChunk, Sessions
      <4> QED BY <1>0, <4>1, <4>2 DEF Sessions, Downloads, isUpload
    <3>2. CASE \E path \in Paths : BeginGet(c, path)
      BY <1>0, <3>2 DEF BeginGet, Sessions, isUpload
    <3> QED BY <1>10, <3>1, <3>2
  <2> QED BY <1>0, <2>1, <2>2 DEF RoomInv, isUpload
<1>11. CASE Restart
  <2>1. m_sizes' = scan(disk) /\ session' = [c \in Conns |-> Idle]
    BY <1>11, RestartIndex DEF Accountable, Restart, restartFrom, TypeOK
  <2>2. scan(disk) = m_sizes
    BY <1>11, AtRest DEF Restart, Connected
  <2>3. \A c \in Conns : ~isUpload(session', c)
    BY <2>1 DEF isUpload, Idle
  <2> QED BY <1>0, <2>1, <2>2, <2>3 DEF RoomInv
<1>12. CASE UNCHANGED vars
  BY <1>12 DEF vars
<1> QED BY <1>1, <1>2, <1>3, <1>4, <1>5, <1>7, <1>8, <1>9, <1>10, <1>11, <1>12 DEF Next

\* The objects on disk never exceed the configured capacity when no upload is
\* in progress: if no connection is lost in an upload, the disk does not fail
\* and the word has room for one value above the capacity.
THEOREM EngineCapacityKept ==
    Accountable /\ Connected /\ Faultless /\ NoWrap => (Spec => []CapacityKept)
<1> SUFFICES ASSUME Accountable, Connected, Faultless, NoWrap
             PROVE  Spec => []CapacityKept
  OBVIOUS
<1> DEFINE I == RoomInv(session, m_sizes)
<1>1. Init => I
  <2> SUFFICES ASSUME Init PROVE I
    OBVIOUS
  <2>1. DOMAIN m_sizes = {}
    BY FileSystemAssumption DEF Init, emptyRoot, scan, is_regular_file
  <2>2. TotalOf(m_sizes) = 0
    BY <2>1, FS_EmptySet DEF TotalOf, BytesOf
  <2>3. 0 <= m_maxBytes
    BY BoundedAssumption, WAssumption DEF size_t
  <2> QED BY <2>2, <2>3 DEF Init, RoomInv, isUpload, Idle
<1>2. TypeOK /\ ObjectInv(disk, session) /\ SizesInv(due, session, m_sizes)
        /\ NoneLost /\ TotalMatchesIndex /\ I /\ [Next]_vars
          => I'
  BY StepKeepsRoom
<1>3. TypeOK /\ ObjectInv(disk, session) /\ SizesInv(due, session, m_sizes)
        /\ NoneLost /\ I
          => CapacityKept
  BY AtRest DEF CapacityKept, storedBytes, RoomInv
<1> QED BY <1>1, <1>2, <1>3, SizesInvHolds, NothingLost,
        EngineTotalMatchesIndex, PTL DEF Spec
=============================================================================
