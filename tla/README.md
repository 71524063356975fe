# TLA+ verification of lucene-go

lucene-go is a Go port of Apache Lucene: an embedded search library. An
application opens an `IndexWriter` on a `Directory`, adds documents and commits;
readers open the commits and search them. This directory holds a TLA+ model of
the parts of it whose correctness is hard to see in a test: the commit protocol
and its crashes, readers that race with it, concurrent indexing and the lock
factories; the files of the text codec and the streams they are read through; the
finite state transducers of the term dictionary, the trees of points and the packed
integers; and what a search makes of a query.

Run `tlc -config X.cfg M` for the runs of `PROJECT.json` (each names its module
and configuration) and `tlapm M.tla` for the proofs.

## 1. The system

### Components, their state and operations

| component (source) | state | operations |
|---|---|---|
| IndexWriter (`core/index/indexwriter.go`) | `segmentInfos`, `changeCount` and the counts of the last and the pending commit, `pendingCommit`, `filesToCommit`, `closing` | `NewIndexWriter`, `AddDocument`, `UpdateDocument`, `Commit`, `Close`, `GetReader` |
| SegmentInfos (`segmentinfos.go`) | generation, last generation, version, segment name counter, segments | `prepareCommit`, `finishCommit`, `ReadCommit`, `FindSegmentsFile` |
| IndexFileDeleter (`indexfiledeleter.go`) with the deletion policy | reference count of every file, commits, files of the last checkpoint | construction (`inflateGens`), `IncRef`, `DecRef`, `Checkpoint`, `deleteFiles` |
| Directory (`core/store`) | files | `CreateOutput`, `Rename`, `DeleteFile`, `ListAll` |
| DirectoryReader (`standarddirectoryreader.go`) | the `SegmentInfos` it read, one reader for each segment | open, `IsCurrent` |
| DocumentsWriter and DWPT (`documentswriter*.go`) | `numDocsInRAM`, the pending number of documents, buffers of the indexing chain | `updateDocuments`, `flush` |
| Delete queue (`documentswriterdeletequeue.go`) | a linked list of delete nodes, slices of it, buffered updates | `Add`, `UpdateSlice`, `Apply`, `tryApplyGlobalSlice` |
| Lock factories (`core/store/lock.go`) | a set of names, or a lock file | `ObtainLock`, `EnsureValid`, `Close` |
| FST (`core/util/fst`) | the builder's frontier, frozen nodes, dedup table; the enumerator's path of arcs | `Add`, `Finish`; `Next`, `SeekCeil`, `SeekFloor`, `SeekExact` |
| FST storage (`bytestore.go`, `fst_utils.go`, `outputs.go`) | blocks of bytes, nodes in them, outputs on arcs | `Write`, `Reverse`, `Truncate`, `readArc`, `Sub`, `Add` |
| Field infos (`fieldinfos.go`) | the number and the properties of every field, for the index and for a segment | `AddOrGet`, `Finish` |
| Pending deletes (`pendingdeletes.go`) | live docs, shared with readers until they change; generations of the live docs file | `Delete`, `GetLiveDocs`, `WriteLiveDocs` |
| Text codec (`codecs/simpletext`) | files of labelled lines | a writer and a reader of stored fields, field infos, live docs, segment infos, compound files, terms and postings, points |
| Data streams (`core/store`) | a file and a place in it, a checksum | `Read*`, `Write*`, `Seek`, `Clone`, `Slice` |
| BKD (`core/util/bkd`) | points, leaves, the packed index of splits | `Add`, `Finish`, `Intersect`, `EstimatePointCount` |
| Packed integers (`core/util/packed`) | words | `Get`, `Set`, `GetBulk`, `SetBulk`, `Resize`, encoders and decoders |
| Pools (`core/util/bytesref`, `core/util/ints`) | blocks, slots of the hash, slices | `Add`, `Sort`, `Clear`; `WriteInt`, `ReadInt`, `Reset` |
| Automata, selectors (`core/util`) | arrays | `AddTransition`, `FinishState`, `Run`; `SelectK`, `Sort` |
| Search (`core/search`) | iterators, collectors, the best hits so far | `Rewrite`, `Search`, `ScoreRange`, `Collect`, `MergeTopDocs` |

`PROJECT.json` lists every part, the ones that are not modelled too, with the
reason.

### How they interact

The application calls the writer from several goroutines. `UpdateDocument`
goes to the one `DocumentsWriterPerThread`, which runs the indexing chain and the
delete queue without a lock of its own. `Commit` clones `SegmentInfos`, writes
`pending_segments_N`, renames it to `segments_N` and hands the commit to the
deleter, which deletes what the deletion policy drops. Other processes see only
the directory: readers list it and open what they found, another writer may
start after a crash (or, as nothing obtains the write lock, while the first one runs).

A flush hands the buffered documents to the codec, which writes one file for each
structure through the streams of the directory; a reader opens each with its own
reader, and a composite reader puts those of several segments behind each other.
Reading a field builds an FST of its terms; reading points walks the tree the
writer packed. A search rewrites the query until it stays the same, asks it for a
bulk scorer for every leaf and collects what that finds in a priority queue.

### What is hard

* crash and restart between any two steps of a commit or of a deletion;
* a commit that fails halfway and is tried again;
* readers whose listing is stale when they open the file;
* the same directory opened by one writer after another, in any open mode and at any
  older commit;
* goroutines inside one DWPT and inside one delete queue;
* check-then-act in both lock factories;
* the FST's incremental construction, in which frozen parts are shared and
  outputs move towards the root, and an enumerator that starts every seek where
  the last call, perhaps a failed one, left it;
* collection that stops looking at documents it takes for hopeless, over leaves that
  each start again from nothing, in a heap that is full of sentinels at first;
* files that a crash cut off anywhere, read by code that seldom looks at how much it
  read, and values that look like the format they are written in;
* encodings that depend on one another: prefixes against the value before, splits
  against the ancestors' splits, addresses left out because they are the next ones;
* values at the ends of words, blocks, pages and buffers, and differences that wrap
  around;
* rewriting that is repeated until nothing changes;
* two iterators that leapfrog, either of which may end first.

`PROJECT.json` lists these under "hazards", each at its line.

## 2. Modules

| module | models | state and actions |
|---|---|---|
| `IndexWriter` | writer, commit files, deleter, policy | Directory: `segments`, `pending`, `data`, `stored`. Writer and deleter: the fields of the Go structs under their names. `pc` is the place in `Commit`/`Close` between two accesses to the directory. One action for each of these: `NewIndexWriter`, `AddDocument`, `Commit`, `Close`, `PrepareCommit` / `PrepareCommitFails` / `PrepareNothing`, `ResumeCommit`, `FinishDecRef`, `RenamePending` / `RenameFails`, `Checkpoint`, `DeleteFile`, `FinishCommit`, `FlushOnClose`, `Crash`. `AddDocument` makes the file of stored fields (`CreateStoredFields`) of the segment it opens |
| `LatestCommit` | abstract: what a directory promises | `Publish` the next commit, in one step |
| `DirectoryReaders` | readers beside an `IndexWriter` (extends it) | `List`, `ReadSegments`, `OpenSegment`, `Opened`, `IsCurrentLists` and `IsCurrentReads`, between which other commits may come |
| `DocumentsWriter` | DWPT, delete queue, what the chain buffers, flush | one action for each access to shared state inside `UpdateDocument`, and `Flush` |
| `ExclusiveLock` | abstract: a lock | `Obtain`, `Release` |
| `SingleInstanceLocks` | `SingleInstanceLockFactory` | `ObtainLock`, `CloseReadsFlag`, `CloseDeletes` |
| `SimpleFSLocks` | `SimpleFSLockFactory` in several processes | one action for each system call, of processes that obtain, close and close again at any time; `Crash`, `RemovedByHand` |
| `FSTBuilder` | `Builder`, `NodeHash`, `FST.AddNode` | `AddEmpty`, `AddInts`, `Finish` |
| `FSTEnum` | `Enum` over a finished FST (extends `FSTBuilder`) | `Next`, `SeekCeil`, `SeekFloor`, `SeekExact` |
| `PriorityQueue` | the heap of `core/util/structure`, as operators | |
| `QueueClient` | a client of it | `AddItem`, `InsertItem`, `ChangeTop`, `PopItem`, `RemoveItem`, `ClearItems` |
| `TopDocsSearch` | `SearchTopN`, the simple top score collector, pages, `MergeTopDocs` | `SearchTopN`, `GetLeafCollector` (with `SetScorer`), `ScoreDoc` (with `Collect`), `LeafDone`, `Reduce`, `TopDocs`, `AskForPage`, `Merge` |
| `CompositeReader` | the readers of several segments as one | `AddSegment`, `OpenComposite`, `NumDocs`, `GetContext`, `Document` |
| `BooleanRewrite` | `IndexSearcher.Rewrite` over boolean, boost, constant-score and match queries; `CreateWeight` | `RewriteStep`, one call of `Rewrite`; `CreateWeight` |
| `Automata` | `Automaton`, `NewCompiledAutomaton`, `ByteRunAutomaton` | states and transitions added, finished, compiled; `Run` is an operator |
| `BulkScorers` | the set of documents a point query builds (`DocIdSetBuilder`); the bulk scorers of a leaf and the choice between them | `Grow`, adds, `Add` of an iterator, `Build`; one action for each bulk scorer over a range |
| `TextFile` | the lines of the text codec, with newlines, escapes, checksums, as operators | |
| `FieldInfos` | field numbers, the builder, the `.inf` file, over sessions | documents, doc values updates, flush, reopening, reading |
| `PendingDeletes` | deletes, snapshots and the `.liv` files of a segment | `Delete`, `GetLiveDocs`, `WriteLiveDocs` and its failure, commit, restart |
| `SegmentText` | stored fields, written, cut short, visited; the `.si` and the compound file | `StartDocument`, `WriteField`, `Finish`, death, `VisitDocument`; writing, with its errors and panics, death, reading, `ValidateIndexSort` |
| `PostingsText` | the file of fields, terms and postings, the index of its fields, the loading of a field's terms | writing, death, opening, `Terms` and its panic, the first move of a terms enumeration |
| `Selectors` | both selectors and the radix sorter, as operators, and a call of one | `Call` |
| `BKDTree` | the binary tree of points, as operators from points to files; reading it back and its text form, likewise; a tree of either form from its first point to a query | `Add`, `Finish`, open, `Intersect`, `EstimatePointCount` |
| `PackedArrays` | encoders and decoders of packed integers, every width, on named bits, as operators; arrays in memory, growable ones, their saved form, direct writers and readers | `Set`, `SetBulk`, `Fill`, `Clear`, `Resize`, `Save` |
| `LongValues` | block-packed, monotonic and paged sequences of longs; arrays in pages that are copied to grow | `Add`, `Finish`, `Next`, `Skip`, slices; set, grow, shrink |
| `ByteStore` | the blocks of an FST, saved and loaded; a reader that goes backwards and is used again, as operators | one action for each write, `Truncate`, `Finish`, reload |
| `FSTNode` | the bytes of one node and an `Arc` over them; the outputs of words, split along shared arcs, written and added up | freeze, first, last, next, by index, by label; `Add` of a word, freeze |
| `Pools` | the hash of terms; slices of ints | `Add`, `Sort`, `Clear`; new slices, `WriteInt`, `Reset` |
| `DataStreams` | values through outputs, inputs, clones, slices, checksums | write, crash, open, clone, slice, seek, skip, read |
| `IndexWriterProofs`, `DocumentsWriterProofs`, `LockProofs`, `QueueProofs`, `PendingProofs`, `SearchProofs` | proofs about the modules they are named after (`IndexWriterProofs`: the readers too; `LockProofs`: both lock factories; `SearchProofs`: `TopDocsSearch` and `CompositeReader`) | |
| `HeapProofs` | lemmas about the heap for any set of elements and any order of them, which `QueueProofs` and `SearchProofs` instantiate | |
| `Recursion` | lemmas about functions defined by recursion | |
| `MC*` | instances for TLC | |

The modules on `IndexWriter` compose components that interact. The others model
components that interact with the rest through files or calls only, and share a run
where they belong together: `Init` of its `MC` module
chooses the component of a behaviour, the others stay off.

What the data is abstracted to:

* A segment has two kinds of files. The first document that is added to it makes its
  file of stored fields, `_N.fld` (`stored`), which no commit names before the flush, and
  which the deleter of a later session does not know of. The others (`.si`, `.inf`, ...) are written at the flush and
  deleted together, and are one file (`data`). A commit's user data is left out. Names are kept where
  they matter: a generation is written in base 36 and parsed in base 10
  (`ParseGeneration`), so `segments_a` does not parse and `segments_10` is read
  as generation 10.
* A document is the number of the call that adds it; its fields are the order
  of the chain's steps: stored document first, then fields, then success or an
  error.
* A frozen FST node is its sequence of arcs; its address is its place in the
  order of freezing, so "the node frozen just before" (`BitTargetNext`) keeps its
  meaning. The thresholds for fixed-length arcs (3, 5 and 10 in the code) are
  constants, so that small words reach both kinds of nodes.

* A score is a natural number, a query the score of every document; the scorer is
  any scorer that keeps the contract of the interface. In `BooleanRewrite` a query is
  its tree, a leaf query has an identity, and boosts count in quarters.
* A text file is a sequence of tokens (labels, numbers, characters, checksums) and
  can be cut off after any of them; the newline and the escape are characters of
  values too. Formatting inside a token is left out.
* The bulk operations only shift and mask, so a bit is a name and a word a set of
  names at places: what holds of named bits holds of every value. Words have their
  64 bits there, four in `LongValues`, where differences wrap around, and three bits
  to a byte in `DataStreams`. Block, page and buffer sizes are constants.
* A file of points is a sequence of numbers, of which a variable-length one takes one
  place; bytes are 0 to `MaxByte`. The thresholds of the selectors and of the
  leaf encodings are constants.
* In `FSTNode` every byte says what it is of, so that a byte read for another one is
  an error; where it is about outputs the nodes are those of a trie and numbers have three
  bits.

Assumptions about the code around a module: the set of files of a `SegmentInfo` exists,
which `NewSegmentInfo` does not make; `core/search` is given iterators of the two kinds that
can be reached (all documents, and a bit set), because a field whose terms are not empty panics in
`PostingsText` before it has postings. A rune above 127, of which the term loader keeps a byte,
makes no difference there: what is added to the FST is never read.

Environment constants say what callers do, and the runs differ in them:

* `OpenModes` and `IndexCommits`: every mode and every older commit in the
  general runs, because `NewIndexWriter` implements them; only
  `CREATE_OR_APPEND` and none (`ShippedModes`, `ShippedCommits` of `MCDirectoryReaders`) in the runs that end in a
  counterexample, because no setter changes them: what those runs find can be
  met by an application today.
* `Serial` of `DocumentsWriter`: whether callers take turns. The two properties on
  delete terms are stated for callers that do, the others for all.
* `Closers` of `SingleInstanceLocks`: who closes a lock. One goroutine for each in the run.
* `DVUpdateTypes` of `FieldInfos`: the types that updates of doc values have. A session
  brings any field, and the segments of earlier ones any others, in any order.
* `CreateFile` of `SimpleFSLocks` assumes that the file system's clock ticks
  between two creations; `EnsureValid` compares nothing else.

## 3. Runs

Passing runs. Where a component promises several things that belong together, the
property a run checks is the conjunction of named ones; the text gives the parts.
All properties but one are safety properties, because nothing in the
modelled code waits for another party (the one loop that waits, in `shouldClose`, is
the state `hung`, which never ends). The exception is `RewriteEnds`, that the loop of
`IndexSearcher.Rewrite` ends; it assumes weak fairness of `RewriteStep`, one turn of
that loop, which holds because the loop runs on the caller's goroutine and `Rewrite`
returns only at its end. `CHECK_DEADLOCK FALSE` because every model stops at its
bounds.

**`index_writer`** (`MCDirectoryReaders`). One writer after another on an empty
directory, on an index with one commit and on one with two; every open mode;
crashes at every step; one failed rename for each writer; beside them a reader that
opens, fails, opens again and asks `IsCurrent`.
`LatestCommitComplete`: the newest `segments_N` never names a missing segment.
`RefCountsCoverHolders`: the deleter counts at least the holders of a file, up to
one reference for each failed rename. `SegmentsFlushedOnce`: no segment is flushed twice, also
after crashes, creates and failed flushes (that the *name* of a segment is fresh does not hold:
`leftover_stored_fields`). `VersionsFollowGenerations`, `SegmentsWriteOnce`. `RefinesLatestCommit`: seen
through the newest `segments_N`, the writer does nothing but publish the next
generation, with a larger version and name counter, in one step.
`ReaderSeesRecentCommit`, `CurrentWasNewest`: what the reader shows is no older than
its open, and when it is told to be current, it showed the newest commit at the time `IsCurrent` listed
the directory. By the time of the answer it may not, because `IsCurrent` lists and reads in two
accesses (`CurrentMeansNewest` in the table below).
Bounds: four generations, four segments, versions up to 8: a session publishes one commit, so this
is three sessions after the initial index, enough for create over a commit,
reopen, and a third writer to read what the second left. Readers do not affect each
other, so one is enough.

**`documents_writer`** (`DocumentsWriter`). Two goroutines and two terms; adds,
updates, failing documents, documents over the limit.
`UpdatesAreBuffered`, of `DeleteLimitIsNewestUpdate` and `GlobalHasEveryTerm` (five
calls by turns), and
`DocLimitKept` (four calls, interleaved at every access).

**`locks`** (`MCLocks`). Both factories side by side. `MutualExclusion`,
`HeldIsValid`, `ImplementsExclusiveLock`: `SingleInstanceLockFactory` with three lock objects and two
goroutines, one closer for each lock. `OnlyRacersShare`, `LostToRacersOnly`: `SimpleFSLockFactory`
with three processes that obtain, close, close again and crash at any time, and removal by hand,
without a restriction. The file lock is no mutual exclusion (`racing_obtain`); the two properties
say how far it goes. Two processes with valid locks were inside `ObtainFSLock` at the same time. A
valid lock is lost only by hand, to a process that raced for it, or to the `Close` of a
lock that is not valid any more.

**`fst`** (`MCFST`). All sorted sequences of up to four of eight words with two
outputs, then every sequence of calls on the enumerator with eleven targets. The
words are prefixes of one another, share prefixes and share suffixes, so nodes
are shared, follow one another in the bytes or not, and are of both kinds; the
cursor ranges over all positions. `FSTIsExactAndMinimal` (`AcceptsTheWords`,
`Minimal`), `NextInOrder` and `SeeksAnswerRight` (`SeekExactIsExact`,
`SeekCeilIsCeiling`, `SeekFloorIsFloor`) compare with the set of words added. Seeks to
a proper prefix of the current word are exempt from the last two (see below).

**`search`** (`MCSearch`). One component in each behaviour. *Searching*: a searcher over two leaves of two documents with
every combination of no match, three scores and a deleted match, then one over two
leaves of one, and the merge of both answers; and, in behaviours of its own, a client
of the priority queue with six elements, tied in two groups. The scorer may or may not
leave out what it was told is not competitive, which the contract of
`SetMinCompetitiveScore` allows. `AnswersAccurate`: `ScoreDocsAccurate`, `PageAccurate`
and `MergeAccurate` compare with a sort of all live matches, and `MinScoreSafe` says
that no minimum excludes a document of the answer. `CountHonest` is about `TotalHits`,
`QueueKeepsOrder` about the queue (`TopIsLeast`, `OverflowDropsLeast`).
The threshold is 1 instead of 1000, so that two or three hits reach it with
documents still to come in the same and in the next leaf. In behaviours of its own, a
composite reader over up to three sub readers of none to two documents:
`CompositeIsItsSubs` says that document numbers, leaves and sub readers agree
(`RoutesAgree`) and that counts and frequencies are sums (`StatisticsAddUp`).
*Rewriting* of all boolean queries with up to three
clauses of two leaves and of nested and boosted ones. `RewritingIsFaithful`:
`RewriteKeepsMeaning` compares matches and scores on every document,
`NoScoringKeepsMatches` the matches of a search without scores. `RewriteEnds` is the liveness property. *Automata* with two states
and three transitions (`PlainAutomataAreRight`: `PlainCompiledIsRight`,
`PlainDeterminism`). *Doc id sets* of three documents with buffers of five, and *bulk
scorers*: a leaf of three documents with every required clause (all documents, or any set), as a
filter or not, excluded clause and
deleted set. `LeafIsCollected`: what is collected is at any time the first of the matching live documents, in
order (`BulkCollectsRight`); without an error, and with one where nothing is excluded, it is all of them (`LossIsReported`);
`BuiltSetIsExact`. That an error is reported where there is none is in the table below: `disableScoring` wraps the scorer of a
filter in one that takes the end of the documents for an error.

**`segment_files`** (`MCSegmentFiles`). One component in each behaviour; the first five are of the text codec.
*Stored fields*: up to two documents of two fields whose values hold a newline, an
escape or the label that ends a file, a writer that dies after any token, a visitor
with any answers (`SegmentReadsBack`: `StoredReadBack`, `TornFieldsRefused`). *Field infos*: three
names, four types, three documents over three sessions, each of which may bring any field (`FieldsKeepNames`:
`SharedOnlyWithLoaded`, `InfosReadBack`, `StoredUnderName`). That a number has one name does not hold (`reused_number`);
`SharedOnlyWithLoaded` says that of two names that share a number one came with a segment of an earlier session.
*Pending deletes*: three documents, three generations, failed writes, commits
and two restarts (`DeletesAreKept`: `DelCountExact`, `DeletedStayDeleted`,
`CommittedFileUntouched`).
*Segment infos and compound files*: three files of which one looks like the
table, sorts with missing values of every type and with none (in `SegmentReadsBack` too:
`SegmentInfoReadBack`, `CompoundReadBack`). The sort of an integer field is read back with an
unsigned missing value: it is not the one that was written, the writer refuses it as changed when
it is opened again, and writing it once more panics, as does a sort without a missing value. The property
says what is read back, that Go type included. *Postings*: two fields with every index option, up to two terms
with none to three documents, three of which reach the block size of the skip list. `PostingsReadBack`: the reader finds the fields, with the statistics of their terms where
they can be loaded (`StatisticsReadBack`), and refuses what a crash cut short (`TornPostingsRefused`). Loading
a field with a term that is not empty panics.
*Byte store*: blocks of two and four, five bytes, every write at
every place, and one reader that reads at two places in turn (`StoreReadsBack`: `StoreKeepsContent`, and
`ReadsBackwards` as long as the reader's block is not stale). *Hash*: six texts
of which three collide, filled past its growth, cleared and shrunk, and *int pool*: two
slices that grow in turns over the end of a buffer (`PoolsReadBack`: `HashFindsKeys`,
`HashSorts`, `SlicesReadBack`).
*Streams*: two of fifteen values through an output with a small buffer, a crash, an
input and a clone or slice of it (`StreamsReadBack`: `ValuesReadBack`,
`ChecksumsCover`). *FST nodes* of
up to four arcs, as list and as array, and every sequence of moves of an Arc, and *FST
outputs*: up to three of five words with outputs of every kind (`NodesReadBack`:
`ArcIsRight`, `FindIsExact`, `WordsKeepOutputs`).

**`numbers`** (`MCNumbers`). One component in each behaviour. *Arrays* of every width from 1 to 64 with two values, and of
the widths that cross words or have loops of their own with 5 and 66, more than an
iteration of each; two calls with any index (`PackedReadsBack`: `ValuesKept`, `SavedReadsBack`,
`DirectReadsBack`, `BulkRoundTrip`). *Long values* of four bits in blocks of two, up to
five values with both ends of the range, and *paged arrays* of up to three pages
(`LongsReadBack`: `ValuesReadBack`, `IteratorInStep`, `WholePagesKeepContent`). *Selectors and sorter* on all arrays of up to six keys, tied, with
common prefixes and of different lengths (`SelectsAndSorts`: `SelectPartitions`, `SortOrders`); the
thresholds are 2, so that the fallbacks are taken. *Trees* of up to four points with
one and two dimensions and a data dimension, leaves of one to three points, in memory
and past its limit, and three ranges (`LeavesInTheirCells`; `QueriesFindPoints`:
`RunlessIntersectExact`, `TextIntersectExact`, `EstimateCovers`).

Runs that end in a counterexample; each quotes, in its finding, the sentence of
the repository that the code does not keep.

| run | what TLC finds |
|---|---|
| `close_loses_documents` | `Close` commits first and flushes the buffered documents afterwards: they are in no commit |
| `retried_rename` | two failed renames in one writer: each retry gives back the same references, and files of the newest commit are deleted |
| `leftover_stored_fields` | open, add, crash, open: the segment name counter is that of the commit, the name is taken by the `_N.fld` that was left, and no document can be added |
| `racing_obtain` | two processes between `os.Stat` and `os.Create` both get the file lock; when both read the file's time after the second `Create`, both find it valid |
| `reused_number` | a session keeps the numbers its segments bring, but its own search for a free number starts from the first and takes one that has a name |

The modules state more properties of this kind, next to the ones that hold: what a
comment, a doc or a caller of the code takes for granted and the code does not keep.
No run lists them. Each is violated when it takes the place of the properties in the
configuration named here, with the constants changed as said:

| configuration | property | what TLC finds |
|---|---|---|
| `CloseLosesDocuments.cfg` | `NextGenerationIsFree` | crash between `prepareCommit` and the rename; the next writer does not see `pending_segments_N`, picks the same generation, and `CreateOutput` fails on every commit |
| | `OnlyLastCommitRemains` | the old `segments_N` is never deleted, as every commit point names the segments file of the session's start |
| | `NewestCommitIsFound` with `InitialIndexes <- NinthCommit`, `MaxGen = 11`, `MaxVersion = 14` | `segments_a` does not parse, the index can no longer be opened |
| `DirectoryReaders.cfg` | `OpenSurvivesDeletion` with `MaxRenameFaults = 0` | `RunWithCommit` returns the first error and does not try again |
| | `CurrentMeansNewest` | a commit is renamed into place between the listing of `IsCurrent` and its read: it says yes of an old commit |
| `DocumentsWriter.cfg` | `AcceptedDocumentsFlushed` with `ActualMaxDocs = 4` | one failing document leaves an extra stored document, and the flush of all accepted ones fails |
| | `UniqueDocIDs` with `ActualMaxDocs = 4` | two callers in one DWPT share a doc id |
| | `SliceReachesTail` with `ActualMaxDocs = 4` | a lost link, and a slice runs off the list |
| | `IndexDocLimitKept` with `ExistingDocs = 1`, `ActualMaxDocs = 2` | documents already in the index are not counted |
| `Locks.cfg` | `SecondCloseHasNoEffect` with `Closers <- AnyCloser` | two goroutines inside `Close` of one lock release the next holder's |
| | `SecondCloseIsHarmless` | a second `Close` removes another process's lock file |
| `FST.cfg` | `SortedInputAccepted` | a sorted word is refused when an arc of the shared prefix has no output |
| | `SeekCeilAnywhere` | `rewindPrefix` does not compare the end of a target with the current arc |
| | `FinishReturnsWords` with `Outputs = {0}` | an empty word with no output is as if it had not been added |
| `Numbers.cfg` | `IntersectExact` | the point behind every run of a high-cardinality leaf is not written |
| | `PagesKeepContent` | `Resize` shortens the wrong pages |
| `SegmentFiles.cfg` | `LiveDocsPersisted` | the lines of the live docs file hold the size, no document is live when they are read |
| | `SnapshotKept` | live docs handed out change with the next delete |
| | `FailedWriteCleared` | the file of a failed write stays, and every retry fails |
| | `PointDimensionsKept`, `DocValuesTypeKept` | a field changes its dimensions, its doc values type |
| | `SameSortAccepted` | the sort that a writer wrote is refused as changed when it is opened again: a missing `int32` comes back as `uint32` |
| | `NilMissingIsDefault` | a sort field without a missing value panics the writer of the `.si` |
| | `TermsCanBeRead` | a field with a term that is not empty panics: the FST builder has no empty output |
| | `MissingFileRefused` | a name that is missing in a compound file opens another file |
| | `PoolStaysUsable` | a pool that was reset cannot go on to a second buffer |
| | `ReusedReaderReadsBack` | a reader that crossed a block and is set to a place in the next one reads the block it had |
| | `ReaderKnowsItsPlace` | after a crossing `GetPosition` is off by blocks, and so is a skip |
| | `WriteByteGoesOn` | `WriteByte` at the end of a full block panics |
| | `EveryStringReadsBack` | long strings, runes of several bytes, an empty string at the end |
| | `TornReadsFail` | half a value is read without an error |
| | `EveryKindFreezes` | the empty `PostingOutput` is nil |
| | `EveryNodeFreezes` with `Labels = 1..9` written out, `ArcShapes <- OneShape`, `MaxArcs = 9` | `Oversize` gives a node of nine arcs less room than it needs |
| `Search.cfg` | `OpensUnsorted` | a composite reader without a leaf sorter panics |
| | `StackedBoostsKeepMeaning` | an inner boost counts twice |
| | `EveryCompiledIsRight` | the sorters of transitions sort from the start of the array |
| | `EverySetIsExact`, `EverySetCanBeRead` | buffers are cut, the set of few documents has no iterator |
| | `AllMatchingCollected` | `ReqExclScorer` matches nothing, and no error says so |
| | `EndIsNoError` | the end of the excluding iterator, and of all documents below a filter, is reported as an error |

## 4. Proofs

TLAPS checks these for every value of the constants that satisfies the named
assumptions.

| theorem | statement |
|---|---|
| `IndexWriterProofs!TypeCorrect` | `Spec => []TypeOK` |
| `IndexWriterProofs!FlushedOnce` | `Spec => []SegmentsFlushedOnce` |
| `IndexWriterProofs!VersionsOrdered` | `Spec => []VersionsFollowGenerations` |
| `IndexWriterProofs!CommitsWrittenOnce` | `Spec => SegmentsWriteOnce` |
| `IndexWriterProofs!ImplementsLatestCommit` | `Spec => RefinesLatestCommit` |
| `IndexWriterProofs!HoldersCounted` | `Spec => []RefCountsCoverHolders` |
| `IndexWriterProofs!NewestCommitComplete` | `Spec => []LatestCommitComplete`, when `MaxRenameFaults <= 1` |
| `IndexWriterProofs!ReadersSeeRecentCommit` | `RSpec => []ReaderSeesRecentCommit` |
| `IndexWriterProofs!CurrentReadersWereNewest` | `RSpec => CurrentWasNewest` |
| `DocumentsWriterProofs!LimitHolds` | `Spec => []DocLimitKept` |
| `DocumentsWriterProofs!UpdatesBuffered` | `Spec => []UpdatesAreBuffered` |
| `LockProofs!Exclusion`, `HeldLocksValid`, `FactoryImplementsLock` | the three properties of `SingleInstanceLocks`, when every lock has one closer (`OneCloserEach`) |
| `LockProofs!SharersRaced` | `FSSpec => []OnlyRacersShare` |
| `LockProofs!LostToRacers` | `FSSpec => LostToRacersOnly` |
| `QueueProofs!QueueStaysOrdered` | `QueueSpec => QueueKeepsOrder` |
| `SearchProofs!SearchIsAccurate` | `SearchSpec => []AnswersAccurate` |
| `SearchProofs!SearchCountsHonestly` | `SearchSpec => []CountHonest` |
| `SearchProofs!CompositeAgrees` | `CompositeSpec => []CompositeIsItsSubs` |
| `PendingProofs!DeletesKept` | `PendingSpec => DeletesAreKept` |

Assumptions on the constants: bounds are naturals (`BoundsAssumption`,
`CallsAssumption`, `TimeAssumption`, `PendingAssumption`), file names have at most
three digits (`NameAssumption`), the first index is well formed
(`InitialIndexesAssumption`: complete commits, versions and counters that grow
with generations), `Closers`, `NoLock`, terms, the items of the queue and
what is searched have their types (`ClosersAssumption`, `NoLockAssumption`,
`TermsAssumption`, `SerialAssumption`, `ItemsAssumption`,
`SearchAssumption`, `CompositeAssumption`). TLC evaluates them on every
run. The two hypotheses in the table are more than types: each is needed, and a
configuration of section 3 shows what happens without it (`retried_rename`;
`SecondCloseHasNoEffect` under `Locks.cfg`).
Nothing bounds the goroutines, processes, readers, leaves, shards, terms, documents,
commits, queue sizes, pages or restarts. Every inductive invariant was checked with TLC before it was proved.

*The commit argument.* None of the commit properties is inductive: a commit that
is being prepared, or left behind by a failed rename, decides what the next step
publishes. `IndexWriterProofs` strengthens the first four to

    IInv == TypeInv /\ DiskInv /\ SessionInv /\ SegmentsFilesKept

`DiskInv` orders versions and counters of the commits on disk and bounds every data
file's name by some counter. `SessionInv` ties the open writer to the disk: before it
publishes, its version and counter are ahead of every commit (`Ahead`), and the
pending file it prepared is the next generation with its contents (`Prepared`);
after, its generation is the newest. `SegmentsFilesKept` says that only data files
can fall to zero references: all commit points of a session name the one
segments file it started from. Without it, deletion could take away the
newest commit and let the next writer start from an older generation. One lemma
(`ReadableName`) is arithmetic: a name that reads back as itself in base 10 has one
digit, so the commit a writer starts from is the newest.

*The deleter argument.* `RefCountsCoverHolders` counts the reference that
`prepareCommitInternal` took only while `finishCommit` gives it back. A rename that
fails leaves `filesToCommit` behind for the next `Commit`, which gives it back again:
`Covered` counts that one as well (`Owed`), and is inductive with `IInv`, for any
number of failed renames. Completeness of the newest commit then needs `Kept`: the
writer's segments are in the directory, are named by a registered commit and by the
last checkpoint, and are not in the list of files about to be deleted. Two holders and
at most one lost reference leave one, so the deleter does not reach them. With two
failed renames the count is used up, which is the counterexample of `retried_rename`.

*The reader argument.* `ReaderInv` says that a reader that has listed the directory
found a commit no older than the newest one when it began, and that what it read is
that commit; `IInv` keeps both true, because a published commit stays with its
contents. While `IsCurrent` is between its listing and its read, `CheckedRecent` says that the generation it
found was the newest of that moment (`newest`), if it can be read at all. `CurrentWasNewest` follows,
because the listed commit is still what it was, and versions are different for different commits; the same of
the moment of the answer does not.

*The documents writer argument.* `LimitInv` counts goroutines: those past their
reservation, those that give one back and the documents buffered are within
`pendingNumDocs`, and the first and the last within the limit; this holds for callers
that interleave at every access. `UpdatesAreBuffered` is about callers that take
turns: `BufferInv` says at every step of the one call under way where its delete node
and the two slices are, and that no buffered limit is beyond its document.

*The lock arguments.* `MutualExclusion` needs `LockedIffHeld` (the name is in the set
exactly when a lock is held) and `ClosingIsHeld` (who is inside `Close`, past the
unlocked test, still holds the lock). The second is where one closer for each lock
is needed: with two, the flag read is stale (`SecondCloseHasNoEffect` above). A file
lock is told from another by its creation time. `FInv` assumes nothing about who obtains or closes when:
no lock is older than the clock allows (`TimesPast`), a closed lock never has the time of the file
(`ClosedStale`), and any two processes that the file may belong to, because they are inside
`ObtainFSLock` or hold a lock with the file's time, were inside it together (`AttachedRaced`). A process
enters when there is no file, so that nobody holds a valid lock then: it can share the file only with
those that are inside already or that enter before it has left. That is all there is to
`OnlyRacersShare`; and since only a `Create` and a `Close` change the file, and a `Close` by a holder of
a valid lock is one by a sharer, also to `LostToRacersOnly`.

*The queue argument.* `upHeap` and `downHeap` are recursive functions: `Recursion` shows
that the path of places they visit exists and has the shape of a chain, from the
well-ordering of the naturals, so that a call is one shift along a path. `HeapProofs`
does the rest once, for any order that is irreflexive, transitive and total up to
ties: `InOrderBut` describes the heap with one element out of place, before the call,
and both ways restore the order (`UpHeapRestores`, `DownHeapRestores`). `QueueInv` says
that the heap is in order and that its slots hold exactly what the client put in, each
element once.

*The search argument.* `SearchProofs` instantiates the heap for the order of hits of
the collector, with its sentinels, and for the order of references in a merge, with
and without shard index. `SearchInv` says where the search is and what the collector
holds there: the best of the matches numbered below the current document (`Keeps`,
`CollectedBelow`), with a count that is exact or past the threshold. It is
inductive only with `Told`: the score that the scorer was told is at most every score
kept, and is nothing while the count is exact. So what a scorer leaves out is worse
than all that is kept, and would have been dropped (`LeavingOut`); an equal score is
worse too, because its document comes later. `Ranking` is the sequence of a set in its order:
it is unique where there are no ties, and popping a heap gives it backwards
(`PopsInOrder`, `RankingsAgree`). A page pops the hits after it and then its own,
which is a window of the ranking (`RankingsCut`). In a merge the queue
holds the next hit of every shard that has one, so that the hits taken so far are
earlier than all the others, and `hitUpto` counts them; with ties between
shards, when no shard index is set, only the scores are determined, and the
theorem says so. Documents are counted leaf by leaf (`Sums`, `DocBase`).

*The composite reader argument.* The binary search is a recursive function over the
ranges that are left; it exists because every range is narrower than the one before
(`SearchFunction`). Around a range, what starts before it starts before the document and
what starts behind it starts behind the document (`Around` in `SubIndexIs`): that is kept
by both halves, and leaves one sub reader when the range is empty. When the search meets
a start that is the document, sub readers of no documents may have the same start, and
the last of them is the one that has it (`LastMatchIs`; stopping at the first is the
mutant). So numbers and places of documents correspond (`NumberLeads`,
`PlaceIsNumbered`), and whatever is added up sub reader by sub reader is the size of a
set of numbers (`PartsCounted`, `PickedCounted`, `OccurrencesCounted`). The leaves of the
context come from a walk of their own, which gives each the base that its start is
(`ContextIs`). `CompositeInv` says that an open reader was made from its sub readers and
that the count of live documents and the leaves, which are computed late and only once,
are those of the same sub readers.

*The deletes argument.* It has two halves. The first is about the text codec: the tokens
of the file that `WriteLiveDocs` writes for any number of live documents
(`LiveDocsFileWritten`), and that `ReadLiveDocs` gets through it, footer included, and
finds at most the document `MaxDoc`, which does not exist, because every line holds the
size (`LiveDocsFileRead`); so no deleted document comes back, though no live one does
either (`LiveDocsPersisted` above). The second is the invariant `PendingInv`: counts are
cardinalities; the writeable bits, if there are any, are the documents that are not
deleted; bits without a writeable set come from a file, and are never changed; and the
generations of the writer and of the commit have their file. The file of a commit is
not written again because `CreateOutput` refuses names that exist.

What stays with TLC, and why:

* `RewriteEnds`: liveness under fairness.
* `FSTIsExactAndMinimal`, `NextInOrder`, `SeeksAnswerRight`, `LeavesInTheirCells`,
  `QueriesFindPoints`, `SelectsAndSorts`, `PackedReadsBack`, `LongsReadBack`, `RewritingIsFaithful`,
  `PlainAutomataAreRight`, `LeafIsCollected`, `StoreReadsBack`, `PoolsReadBack`, `StreamsReadBack` and `NodesReadBack`: their modules compute by `RECURSIVE` operators, which are out of
  the prover's reach, or compare with a reference that needs induction over the input.
* `FieldsKeepNames`, `SegmentReadsBack` and `PostingsReadBack`: no obstacle in principle. Recursive functions can be reasoned
  about as in `Recursion` and `PendingProofs`; the first two need the lemmas on lines of the latter
  for files of many different lines.

## 5. Not modelled

Code that cannot run, because it panics, or has no caller:

* merging (`updatePendingMerges`), near-real-time readers (`GetReader`, the reader
  pool), deletes by query;
* inverted fields through `IndexWriter` (`NewNormValuesWriter`); the text codec's
  writer of terms and the loading of them are modelled on inverted fields as such;
* doc values of documents (`indexDocValue` always reports an error) and term vectors;
* the in-memory index and the byte pool's slices under it; `RAMDirectory`'s outputs,
  whose length is nil; index sorting beyond the sort that a segment info carries;
* disjunctions, WAND, the generic conjunction and the collectors sorted by field in
  `core/search`; FST pruning and direct addressing, which no default chooses;
* closing a reader, whose `closed` flag is nil: so that reference counts of readers,
  which `TryIncRef` may lose, are never acted on.

Code that is left out although it runs:

* two writers at once on one directory (hazard at `indexwriter.go:120`): nothing keeps them apart, and what they do to
  each other's files is without a promise to check;
* the tenth commit of a directory (`segmentinfos.go:806`) and callers that run together inside one DWPT
  (`documentswriterperthread.go:109`) are in the models, but no run's property covers them, because the code
  withstands neither: the table of section 3 has what TLC finds (`NewestCommitIsFound`, `UniqueDocIDs`, `SliceReachesTail`);
* documents of a term, and all that reads postings: no term that has any can be loaded;
* floating-point scores, analyzers and Unicode, formatting inside a line of the text
  codec: sequential, and the properties would be about numbers and text;
* determinization, reversal and copying of automata; the merge and the one-dimension
  writer of BKD trees; recomputed bounds of more than two dimensions and groups of
  eight documents in a leaf, which the bounds of the run do not reach;
* words of ten labels and more, where the builder's frontier does not grow.

## 6. Plan

Done: commit protocol and readers, documents writer, locks, FST from words to bytes,
search from rewriting to merged answers, the text codec, points, packed integers, pools
and streams; the proofs above.

Next, proofs: `SharedOnlyWithLoaded` and `InfosReadBack` of `FieldInfos`, and the text of stored fields and of the compound file in `SegmentText` on the lemmas of
`PendingProofs`.
