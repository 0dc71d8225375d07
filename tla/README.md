# TLA+ models of obsto

obsto is an object store: one process that serves objects from a directory over
RESP and HTTP on one port. This directory holds TLA+ modules that model its core,
TLC configurations that check them on small instances, and TLAPS proofs of what
holds for every instance. `PROJECT.json` lists runs, theorems, hazards and, for
each definition, the source lines it models.

## 1. The system

| Part | State | Operations |
| --- | --- | --- |
| `StoragePersistency` | `m_sizes` (path to size), `m_totalBytes` | `upsert`, `erase`, `refresh` (rebuild from a directory walk), queries |
| `DiskObjectStorage` | the files below the root | `put`, `get`, `del`, `setnx`, `keys`, `exists`, `beginPut`, `beginGet` |
| `DiskWriteSession`, `DiskReadSession` | an open stream, the temporary's name | `writeChunk`, `finish` (close, rename), `abort`; `readChunk` |
| `BoundedObjectStorage`, `BoundedWriteSession` | the size index, the capacity | admission (`wouldFit`) in front of every write; reserves at `beginPut`, restores when an upload fails |
| `ObjectStorage` | a map in memory | the same interface, without streams |
| `RespProtocolHandler`, `RespParser` | input buffer, parsing state, upload, download, output buffer | `onBytesReceived`, `takeOutgoingBytes`, `hasMoreToSend` |
| `HttpProtocolHandler`, `HttpParser` | the same for HTTP | the same |
| `ProtocolDetectorHandler` | the handler chosen, if any | chooses by the first bytes, then delegates |
| `Session`, `Server` | socket, idle timer, read buffer | accept, read, write, drain, time out |
| `main`, `ArgumentParser` | - | composition, start-up |

How they interact. `Server` accepts a socket and gives it to a `Session` with a
new `ProtocolDetectorHandler`. A read completion passes the bytes to the handler;
the handler calls the storage and queues output; `Session` writes until the
handler has nothing more, then reads again. A large value is not collected: the
handler opens a write session on the storage and feeds it chunk by chunk, over as
many read completions as the value takes. An object that is read is sent chunk by
chunk from a read session, one chunk per write completion. All connections share
one storage, and `io_context::run` has one thread: a completion handler is atomic,
and everything else interleaves between the handlers.

What is hard here:

* uploads and downloads span callbacks, during which other connections replace,
  delete or upload the same object;
* the index is updated when an upload *begins*, the disk when it *ends*, and a
  failure in between has to undo the first;
* the server can be killed at any time and must come back from what is on the disk;
* bytes arrive in pieces cut anywhere, and the handler recurses on what is left of
  a piece;
* a connection has to end when its peer is silent, gone or refused, through one
  timer and several outstanding operations;
* sizes are `size_t` and wrap around.

What makes each part correct: the index's total is the sum of its sizes; the
index agrees with the disk; stored objects are whole values and together fit the
capacity; a download is a snapshot; SETNX replaces nothing; an upload is given its own
value, all of it and nothing else; requests are answered once and in order, whatever the fragmentation; a connection makes progress and is
released.

## 2. The modules

```
ObjectTypes      paths, size_t as 0 .. W-1, nullopt
  StoragePersistency        the size index
FileSystem       files by name and inode (external)
  DiskObjectStorage         what each storage call does to the files
    BoundedObjectStorage    the engine: index + disk + open streams
                                                   <- BoundedObjectStorageProofs
                                                   <- ObjectProofs <- CapacityProofs
ObjectStorage    the in-memory map: the abstract specification
Session          one connection, seen from the socket <- SessionProofs
Connection       client, session loop and output order around a handler
                                                   <- ConnectionProofs
  RespProtocolHandler       RESP input and output of one connection
                                                   <- RespProofs
  HttpProtocolHandler       the detector, HTTP input and output of one connection
                                                   <- HttpProofs
Text             strings and numbers of the standard library, on characters
  RespParser                parser, header of a large SET, replies
  HttpParser                parser, choice of a streamed body
  ProtocolDetectorHandler   matching of the first bytes
  PathMapping               DiskObjectStorage::mapPath
  ArgumentParser            the command line
    Parsers                 all of them on texts that grow
                                                   <- ParserProofs
MC*              instances for TLC
```

**StoragePersistency.** `m_sizes` is a function on the indexed paths,
`m_totalBytes` a number below `W`. `upsert` and `erase` change the total by
differences, as the code does; `refresh` computes it afresh. The sum is written
through the cardinality of the set of pairs (path, byte number), which makes it
provable without induction.

**FileSystem** is external: POSIX files as the code uses them. `dir` maps a name to
an inode, a directory or nothing; `data` maps an inode to its bytes. A stream keeps
its inode when the name is removed or replaced, which is what makes a download
survive a rename and a shared temporary dangerous.

**DiskObjectStorage** says what each call of `DiskObjectStorage.cpp` and the disk
sessions does to the file system. The value `v` is `sizeOf[v]` copies of `v`: a file
that mixes two values or lacks bytes is equal to no value. `mapPath` is a constant
function from paths to names.

**BoundedObjectStorage** is the engine `main.cpp` assembles. An action is one
call of the storage, or one callback of an upload or download: `Put`, `SetNx`, `Del`,
`BeginPut`, `WriteChunk`, `Finish`, `BeginGet`, `ReadChunk`, `EndGet`, `Restart`, with
`PutFails`, `SetNxFails`, `OpenFails`, `WriteFails`, `FinishFails`, `Disconnect` and
`CrashInPut` for what goes wrong. A refused request changes nothing and is a stuttering
step. Two things are history, read by no action: a download's `want`, the bytes it began
with, and `lost`, the size that the last upload to be dropped reserved for a path, until
that path is stored or deleted or the server restarts. The
constant `Env` says what the environment does:

| `Env` member | meaning |
| --- | --- |
| `contend` | requests on a file that an open upload is using |
| `overwrite` | a whole-object put to a file that a download is reading |
| `disconnect` | a connection lost, or the server killed, in the middle of an upload |
| `fault` | opening, writing or closing a file fails |
| `unreadable` | the directory walk at start-up misses files |
| `crash` | the server killed inside a put |

Properties that the code keeps only in some environments are checked in the largest
one they hold in; section 5 says what happens outside.

**ObjectStorage** is `ObjectStorage.cpp`, and the abstract specification of the
engine: `ImplementsObjectStorage` maps the map to the files that `keys()` lists.

**Session** models the operation outstanding on the socket, the wait on the idle
timer (also one that has completed but is not dispatched yet), the half-closed socket,
and the handler through `IProtocolHandler`. The peer may stop sending, stop reading
or leave at any time. The `post` in `doWrite` has no action behind it: it is the
operation `NeverSpins` shows to be out of reach.

**Connection** is what both handlers share. A byte is known by its request and its
offset in it; a client has a script of requests and either sends ahead of the answers
or waits for each. `Receives` takes any number of bytes up to `BufferSize`, which is
smaller than a large value, as Session's `m_buffer` of 4096 bytes is smaller than
`kStreamingThreshold`. `Returns`, `PassesOn` and `ReadsOn` are the ends of a callback and
Session's loop around the handler. The history variable `finished` of both handlers is
the last upload that was finished, with all the bytes it was given: that of the session
itself is gone with the session when the last chunk is written.

**RespProtocolHandler**: each call of the mutual recursion (`onBytesReceived`,
`tryBeginStreamingSetValue`, `continueStreamingValue`, `continueDiscardingValue`) is a step
with `data` as its argument; no read, write or other callback of the connection happens
in between. `view` is not 0 below `tryBeginStreamingSetValue`, whose `false` its caller
takes for "no upload begun". The storage's answers are free. `parse` gives the outcome of
`RespParser` by the kind of the request at the front of the buffer; when the handler has
lost its place inside a value, the outcome is any, and a value that contains the header of
another large SET is left out. `mayLosePlace` says for which clients that can happen:
`FramingKept`, and the exact part of `RepliesInOrder`, are about the others.

**HttpProtocolHandler** is built in the same way. The detector's decision is a step
of its own, on bytes that are then passed on (`Match`), let go (`NeedMoreData`) or refused
(`NoMatch`). The body that arrived with a header is a view into the cleared
`m_incomingBuffer`: `view` says where it starts there, and `AppendToBuffer` moves what
follows the body to the front of that storage. When the two overlap, `std::string` promises
nothing: the bytes are right or, with `garbled`, anything, and `FramingKept` and
`RepliesInOrder` say nothing of what follows.

**Text** and the modules above it work on sequences of characters. `stoi`, `stol` and
`stoul` read what the library functions read (leading blanks, a sign, a prefix of digits)
and throw where they throw; widths are the constants `INT_MAX` and `LONG_MAX`. Names that
matter only as a whole are shortened: SET and SETNX to `S` and `SN`, Content-Length to `l`,
the text of an error to one symbol. **PathMapping** has `lexically_normal` and the iteration
over a path's elements as external operators. **Parsers** feeds a text to an algorithm one
character at a time, as a connection would: the state is the text and how much of it has
arrived.

### Abstractions shared by the modules

* POSIX semantics: `rename` replaces an existing file, removing a name keeps open
  streams alive.
* A stream's bytes reach the file when written. The code's buffered streams write
  later; the failures this can hide are in `PutFails`, `SetNxFails` and `FinishFails`.
* Names with extension `.tmp` are leaves: no directory is called so.
* Mutexes are left out: one thread.
* `BoundedObjectStorage` without a `StoragePersistency` is used by unit tests only and
  left out.

## 3. The runs

| Run | Config | What it shows |
| --- | --- | --- |
| `orderly` | `MCOrderly` | Two objects, a name that can be an object or the directory of one, two streams, values of 0 to 3 bytes, capacity 4, `Env = {}`: every step implements the in-memory map (`ImplementsObjectStorage`), index and disk agree (`IndexExact`), the capacity holds (`CapacityKept`), downloads are snapshots (`ReadIsSnapshot`) |
| `streams` | `MCStreams` | `disconnect` and `fault`, all values streamed, two streams on one path: stored objects are whole, downloads are snapshots, every step implements the map, and an index entry is the stored length or exactly the size that the last dropped upload reserved (`LeaksAreReservations`); temporaries are never counted |
| `anything` | `MCAnything` | every member of `Env` at once, and clients that address the temporary by its name: types and total |
| `session` | `MCSession` | one connection, objects of up to 3 chunks |
| `resp` | `MCRespProtocolHandler` | scripts of up to three requests, pipelined and polite clients, every fragmentation, failing chunks; a backlog of seven short commands in front of an upload; input that the parser reports as an error, and input it takes for incomplete for ever (`stuck`) |
| `http` | `MCHttpProtocolHandler` | the same behind the detector, with failing writes and failing ends of uploads |
| `parsers` | `MCParsers` | pairs of all replies and requests, every text one character away from a large SET, an SETNX and two PUTs, all paths of six characters below eight roots, all command lines of three settings |
| `v_*` | `V*` | violations, section 5 |

Why the bounds are enough. Interference needs two streams and one object; capacity
needs two objects that together exceed it, and values of its exact size and one
less. Every value of two bytes or more is written in more than one chunk in some
behaviour and read in more than one (`kReadChunkSize` is 2, values have up to 3
bytes). There is always one inode more than files and open streams can hold. `W` is 16,
far above all sums, except in `anything`, where it is 3, so that totals wrap. In
`resp`, buffers have two bytes, headers one or two and large values three; in `http`,
three, two or three, and four, and `kMethodLength` is 2, so that a first buffer can end
within the method. So a cut can fall at, before and behind every boundary. Three
requests allow an upload between two others, and two uploads in a row, where counters left
over from the first would show. Since a value does not fit into a buffer, a whole upload
is in `m_incomingBuffer` at once only behind a backlog: one command is taken per buffer,
and six to ten short ones in front leave room for the value and what follows it.
`MaxChunks` is 1 in `resp`, 2 in `http` and 3 in `session`: none, one and several.

In `parsers`, `kStreamingThreshold` 2 < `INT_MAX` 7 < `kMaxBodySize` 9 < `LONG_MAX` 11, the
order of the real limits where `long` has 64 bits, so that one or two digits reach every
interval between them; `LimitsAssumption` states it. Arguments and bodies include CR, LF
and characters that begin another message.

The connections of `orderly` and `streams` differ in nothing but their names and are
symmetric.

Deadlock is checked for the engine, and not for connections, which end.

### Fairness

`Session`: weak fairness of each completion that is due (asio dispatches what has
completed), of time passing for an armed timer, and of writes while the peer reads.
Nothing obliges a peer to send or to close. The two protocol handlers: weak fairness
of the handler's own steps, and of `Receive` for a client that sends its script; without
the latter a client that stops in the middle of a request has no claim to an answer.
The engine has safety properties only.

## 4. The proofs

`BoundedObjectStorageProofs` has the proofs of the index and of the engine around it. Of
the index, for every finite set of paths and every word size `W`:

* **IndexCorrect**: `IndexSpec => [](IndexTypeOK /\ TotalMatchesIndex)`. The
  conjunction is inductive. The argument: the sum over an index is the cardinality of
  a set of pairs; adding a path adds a disjoint set of as many pairs as its size
  (`TotalWith`), removing one removes them (`TotalWithout`); differences may be taken
  modulo `W` (`ModAdd`, from uniqueness of quotient and remainder).

Of the engine, for every instance and every `Env`:

* **EngineTypeOK**: `Spec => []TypeOK`, one lemma per file-system operator, one step
  per action. `TypeOK` is inductive by itself: what makes the engine's types
  interesting is that sizes stay below `W` and that names of streams have a temporary.
* **EngineTotalMatchesIndex**: the engine's total is right in every environment. Every
  action is one `upsert`, one `erase`, one `refresh`, or leaves the index alone (the lemma
  `EngineIndexSteps`), and each keeps the total as in IndexCorrect.

`ObjectProofs` and `CapacityProofs`, for any number of paths, connections, values and
chunks. The engine keeps these properties only where clients and environment do not
trip over what section 5 describes, so each theorem names what it needs:

| Hypothesis | Says | Without it |
| --- | --- | --- |
| `Uncontended` | no `contend` | `v_contention`: two uploads share one temporary |
| `PutsWhole` | neither `fault` nor `crash`, or all values are streamed | a put in place is cut short |
| `ReadsStable` | no `overwrite`; no path names a temporary | a put truncates the file under a download |
| `OneSpelling` | one path for each file; no path names a temporary | `a` and `./a` have two index entries for one file |
| `Readable` | no `unreadable` | the walk at start-up misses files |
| `Connected` | no `disconnect` | a lost upload leaves its reservation |
| `Faultless` | no `fault` | `v_capacity_at_rest`: a failed upload restores the old size |
| `NoWrap` | the capacity and one value stay below `W` | `wouldFit` wraps around |

`Accountable` is the conjunction of `Uncontended`, `PutsWhole`, `OneSpelling` and
`Readable`. The instance of `orderly` satisfies all of them, that of `streams` all but
`Connected` and `Faultless`: no hypothesis is empty, and a property is proved at least
where it is checked.

* **EngineObjectsWhole**, **EngineReadIsSnapshot**: under `Uncontended`, with `PutsWhole` for the first and `ReadsStable` for the second. The
  inductive invariant is `ObjectInv`: a file has one name (`Distinct`), uploads use
  different names (`Apart`), the temporary of an upload is the file its stream writes to
  and holds the prefix of the value written so far, and an upload by SETNX has no object
  at its name (`goodUpload`); the file of a download still has the bytes it began with and
  is no temporary (`goodDownload`); every other file is a value (`Whole`). None of it is
  in the properties: that `finish` publishes a whole object needs the prefix, the prefix
  needs that no one else writes to that inode, and this needs `Distinct` and `Apart`.
  Each file-system operation is first brought into one of a few forms (opens a file, writes to
  one, renames, removes), and each form is shown to keep `ObjectInv`.
* **EngineImplementsObjectStorage**: under the conditions of the first. Every step of
  the engine is a step of the map or leaves the listed files alone.
* **EngineLeaksAreReservations** (`Accountable`): with `ObjectInv`, `SizesInv` is inductive.
  It speaks of `due`, what the index owes a path without an upload: the size in `lost` if its
  last upload was dropped, else the length of its file. While a path has an upload, the index
  has the size it announced and the upload keeps, in `previousSize`, what is due if it fails;
  otherwise the index has what is due.
* **EngineIndexExact** (and `Connected`): from the last, since nothing is ever lost
  (`NothingLost`).
* **EngineCapacityKept** (`Accountable`, `Connected`, `Faultless`, `NoWrap`): `RoomInv`, that
  the sum of the index, as a number and not modulo the word, is within the capacity, is
  kept by what `wouldFit` admits; an exact index carries it over to the disk.

`SessionProofs`, for objects of any number of chunks and whatever the handler answers:
**SessionTypeOK**, **SessionRequestsInOrder**, **SessionNeverSpins**. An object is left to
send only while a write is in progress: `doWrite` sends nothing, and Session reads on or
drains, only when `takeOutgoingBytes` has nothing left.

`RespProofs` and `HttpProofs`, for every script of requests, every way it is cut into
buffers of any size, every number of chunks and every answer of the storage:

* **RespTypeOK**, **RespUploadIsValue**, **HttpTypeOK**, **HttpUploadIsValue**: from
  `PlaceInv`, which is inductive by itself. What the handler has not consumed is one
  contiguous piece of the client's stream; while a value is streamed, the counters give the
  place of the next byte in it, and the session has been given all of the value before that
  byte; while one is discarded, the counter is what is left of its request. The types are not
  inductive without it: that the counters never become negative is a fact about places.
  For the second half of `UploadIsValue`, `FinishedInv` says that a finished upload was given
  its whole value and nothing more: the last chunk, cut by the counter, begins at that place
  and ends where the value does.
* **RespObjectsUnbroken**, **HttpObjectsUnbroken**: from `ObjectsInv`, which relates the last
  item sent to the parts of the object still to come.
* **RespFramingKept**, **RespRepliesInOrder**, **HttpFramingKept**, **HttpRepliesInOrder**,
  **HttpNothingFromTheMiddle**: from `OrderInv`. Parsing begins at the start of a request, and
  the requests before the next byte are those that have their reply. For RESP it has to say
  in addition what a client that waits for its answers may have sent (`DeliveredInv`), and
  what can be in the buffer below `tryBeginStreamingSetValue` (`ViewInv`), since there a
  failure is taken for success; for HTTP, what the detector has seen (`DetectInv`).

`ConnectionProofs` has the lemmas both need: where the requests of a script lie in its
stream (from the existence of a least number, in place of induction), what is left when
bytes are taken from or moved between buffers, and what an item does to the order of
what was sent. All these invariants were checked by TLC on the instances of the runs first.

`ParserProofs`, for texts of any length and for all limits that are in the order of the
real ones. The texts are sequences of any strings as characters, more than the runs have:

* **VerdictsAreFinal**: `Spec => VerdictsFinal`. The invariant is only that what was fed is a
  part of the text; the substance is what each reader does on a text and on a longer one that
  begins with it (`grows`). A position that `find` has found stays, so a line, a number, a bulk
  string and an element, once read, are read again; an array is the sequence of its elements
  (`reads`), read one after the other; and a header section, once terminated, is the same text.
* **StreamingAgreesAlways**: `Spec => []StreamingAgrees`. The one reading looks for the ends
  of lines itself, the other goes through the array reader; both come to the same header
  (`HeaderLine`, `BulkTurn`, `ThreeElements`). The two differ in how wide a number they read:
  `int`, `long` and `size_t` agree where the theorem says so because the widths are ordered
  (`RespNumbers`, `IntAndLong`, `HttpNumbers`).
* **PathsAreContained**: `Spec => []PathsContained`, for every root and every path. The names
  of a path are its runs between slashes (`WordsAreRuns`), so the test for `..` is the one on
  characters (`TraversesIs`). What `lexically_normal` leaves is in normal form, and names in
  normal form are left alone (`NormTurnsNormal`, `NormalFixed`); behind a root in normal form
  names without `..` are kept, but for `.` (`NormConcat`), so the root is in front of the result.
  Under any other root, a result with the root in front of it would make the root normal.
  Joining names with slashes and taking them apart again gives the same names (`KeyNames`).

The recursive functions of these modules are reasoned about by induction on the length of a
text. The prover cannot instantiate an induction rule over a predicate, so `Induct` is stated
over the set of the numbers that have the property, and `Recursion`, that a recursive function
exists, over a step that is itself a function; both come from the well-foundedness of the
naturals. The assumptions are `LimitsAssumption`, `JobsAssumption` (texts are sequences of
characters; the root is not empty, since `create_directories("")` in the constructor of
`DiskObjectStorage` throws) and `NoneAssumption` (an exception is not one of the values).

What the proofs changed: RESP's `FramingKept` was not provable as it stood. Malformed
input behind a whole large value, in one buffer with it, is dropped without closing the
connection, which then goes on behind what was dropped. The bounds of `resp` did not reach
it with a request behind the malformed one; now `mayLosePlace` states the case and the
backlog of `resp` contains it.

All theorems rest on the assumptions named in the modules: `Paths` is finite, `W` is a
positive natural number, `nullopt` is no size and no name, `mapPath`, `tempOf` and `sizeOf`
are functions with the stated domains and ranges, `None` is no operation and no download;
requests have the kinds and lengths that the handlers tell apart, and a large value does
not fit into Session's buffer.

Only model-checked:

* liveness under fairness, which is out of the prover's reach: `SessionReleased`,
  `SilentPeerDropped`, `ObjectSent`, `AllAnswered` of both handlers, `ErrorsClose` (RESP) and
  `MalformedRejected` (HTTP);
* `ReadsBack`: it compares the parsers with the messages a text was put together from. The
  instance builds the texts; a proof would need the encoders as well, and that reading a
  decimal number undoes writing it.

## 5. Where the code departs from what it says

Runs that end in a violation; `PROJECT.json` quotes the statement each one contradicts.

* `v_contention`: two uploads of one path share one temporary file. Opening it for the
  second empties what the first has written, and whoever finishes first publishes what is
  there by then: in the trace an empty file, which its client is told was stored.
* `v_setnx`: a streamed SETNX looks for the object only when it begins. What another
  request stores before it ends is replaced, and SETNX answers 1 (`SetNxReplacesNothing`).
* `v_capacity_at_rest`: an upload that replaces an object by a smaller one gives the
  difference away at once. When it fails, the old size returns to the index although the
  space has been given to another object: the store stays above its capacity.
* `v_idle`: `expires_after` cancels the wait on the idle timer and nobody waits again:
  after its first bytes a connection has no timeout.
* `v_stuck`: a bulk length that is no number is taken for one that has not arrived. The
  connection waits, neither answered nor closed (`MalformedRejected` of RESP); the input that
  the parser does report is what `ErrorsClose` is about.

Seen in the models, without a run of its own:

* while the first bytes of a connection are only part of an HTTP method, the detector waits
  for more and keeps none of them; the rest of the request matches nothing, and the
  connection is closed without a response. `NothingFromTheMiddle` shows that nothing worse
  follows;
* SETNX answers 0 where there is no object: for the directory of other objects, and for the
  reservation of a dropped upload, which `LeaksAreReservations` shows to stay in the index
  until the path is stored, deleted or the server restarted;
* with `crash`, `ObjectsWhole` fails: a put writes in place;
* an announced length so large that `wouldFit` wraps around is admitted;
* an object stored under a name that ends in `.tmp` is not listed by `keys()`;
* draining a refused connection ends only when the peer closes it;
* with `overwrite`, `ReadIsSnapshot` fails: `put` of a small value truncates the file in
  place, under a download;
* a second command in one buffer waits for more bytes to arrive, on both protocols
  (`AllAnswered` fails for clients that pipeline);
* malformed input in one buffer with the large SET before it is dropped, without reply or
  close, because `false` comes back through `tryBeginStreamingSetValue`
  (`ErrorsClose` fails for clients that pipeline). The connection goes on behind the
  dropped bytes, which may end in the middle of a request (`FramingKept` fails too);
* when the first write of a RESP upload fails (`"first" \in client.faults`), the connection
  stays open in the middle of the value and `FramingKept` fails (these two are `mayLosePlace`);
* an HTTP upload whose `finish` answers FailedToWrite gets no response (`unreported`);
* a request behind a streamed body may be garbled by an append that overlaps its own
  source (`garbled`);
* the two readings of Content-Length differ: a length above `kMaxBodySize`, or a minus
  sign behind a tab, is refused by `HttpParser::parse` and streamed all the same;
* a header section above its limit is accepted when its end arrives in the same buffer;
* PING echoes an argument with CRLF in a reply that ends at the first of them;
* below a storage root that is not spelled in normal form, or ends in a slash, `mapPath`
  refuses every object; two spellings of one path share the file and not the index entry.

## 6. What is left

A server composed of several connections, each with its handler, over one engine. The
engine already interleaves the callbacks of several connections, and the handlers are
checked against every answer of the storage, so that the composition would mainly
connect what a reply says with what was stored.

### Not modelled

* Status codes, texts and content types of HTTP responses: wording.
* `main`'s product of the capacity, banner and exit codes; the help text.
* `BoundedObjectStorage` without a `StoragePersistency` (unit tests only).
* asio itself, beyond which completion may follow which call.
* Windows: `rename` over an existing file, path separators and a `long` of 32 bits, with
  which `stol` refuses lengths that are accepted here.
