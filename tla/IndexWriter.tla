----------------------------- MODULE IndexWriter -----------------------------
(* The life of one IndexWriter over a Directory: open, two-phase commit,      *)
(* reference-counted file deletion, close, crash and restart.                 *)
(*                                                                            *)
(* Sources: core/index/indexwriter.go, segmentinfos.go, indexfiledeleter.go,  *)
(* indexfilenames.go, keeponlylastcommitdeletionpolicy.go.                    *)
(*                                                                            *)
(* A segments_N file is named by its generation N.  The file of stored fields *)
(* (_N.fld) of a segment is made by its first document; the others (.si,      *)
(* .fnm, ...) are written by the flush, counted and deleted together and are  *)
(* one file here, named by the segment number (_0, _1, ...).                  *)
EXTENDS Integers, Sequences, FiniteSets

CONSTANTS
    InitialIndexes,   \* the indexes the first writer may find: [segments, data]
    OpenModes,        \* open modes an IndexWriterConfig may carry
    IndexCommits,     \* generations an IndexWriterConfig.commit may name; 0 is none
    MaxGen,           \* bound: largest generation a commit may write
    MaxSeg,           \* bound: largest segment number
    MaxVersion,       \* bound: largest SegmentInfos.version
    MaxRenameFaults   \* bound: failed Directory.Rename calls per writer

Gen == 0..MaxGen
SegName == 0..MaxSeg

(* File names the deleter counts references of. *)
SegmentsFile(g) == <<"segments", g>>
DataFile(s) == <<"data", s>>
File == ({"segments"} \X Gen) \cup ({"data"} \X SegName)

(* SegmentInfos: segmentinfos.go, type SegmentInfos. *)
SegmentInfos == [gen : Gen, lastGen : Gen, version : 0..MaxVersion,
                 counter : 0..(MaxSeg + 1), segs : SUBSET SegName]

Infos(g, last, v, c, segs) ==
    [gen |-> g, lastGen |-> last, version |-> v, counter |-> c, segs |-> segs]
NoCommit == Infos(0, 0, 0, 0, {})

(* What ReadCommit can reconstruct is what writeIndexOutput wrote: version,   *)
(* counter and segments.  The generation comes from the file name.            *)
Contents == [version : 0..MaxVersion, counter : 0..(MaxSeg + 1), segs : SUBSET SegName]
IsPartialFcn(f, S, T) == DOMAIN f \subseteq S /\ f \in [DOMAIN f -> T]

ASSUME BoundsAssumption ==
    /\ MaxGen \in Nat
    /\ MaxSeg \in Nat
    /\ MaxVersion \in Nat
    /\ MaxRenameFaults \in Nat
    /\ OpenModes \subseteq {"CREATE", "APPEND", "CREATE_OR_APPEND"}
    /\ IndexCommits \subseteq Gen

(* Names of at most three base-36 digits. *)
ASSUME NameAssumption == MaxGen < 36 * 36 * 36

(* An index is well formed when its commits are complete, its segments were   *)
(* named by a counter below the recorded one, and versions follow generations.*)
WellFormed(idx) ==
    /\ IsPartialFcn(idx.segments, Gen \ {0}, Contents)
    /\ idx.data \subseteq SegName
    /\ \A g \in DOMAIN idx.segments :
          /\ g < 10
          /\ idx.segments[g].segs \subseteq idx.data
          /\ \A h \in DOMAIN idx.segments :
                g < h => /\ idx.segments[g].version < idx.segments[h].version
                         /\ idx.segments[g].counter <= idx.segments[h].counter
    /\ \A s \in idx.data : \E g \in DOMAIN idx.segments : s < idx.segments[g].counter

ASSUME InitialIndexesAssumption == \A idx \in InitialIndexes : WellFormed(idx)

VARIABLES
    segments,      \* Directory: the segments_N files, generation -> contents
    pending,       \* Directory: the pending_segments_N files
    data,          \* Directory: the segments whose flush was completed
    stored,        \* Directory: the segments whose _N.fld exists
    pc,            \* where the writer is in its current call
    infos,         \* IndexWriter.segmentInfos
    changeCount, lastCommitChangeCount, pendingCommitChangeCount,
    pendingCommit, \* IndexWriter.pendingCommit
    filesToCommit, \* IndexWriter.filesToCommit
    refCounts,     \* IndexFileDeleter.refCounts; 0 is "no entry"
    commits,       \* IndexFileDeleter.commits
    lastFiles,     \* IndexFileDeleter.lastFiles
    toDelete,      \* files IndexFileDeleter.deleteFiles still has to delete
    closing,       \* IndexWriter.closing
    dwpt,          \* the one DocumentsWriterPerThread: segment name, docs in RAM
    renameFaults,  \* failed renames of this writer
    flushed        \* history: segments with documents a Close wrote

directory == <<segments, pending, data, stored>>
counts == <<changeCount, lastCommitChangeCount, pendingCommitChangeCount>>
deleter == <<refCounts, commits, lastFiles>>
vars == <<segments, pending, data, stored, pc, infos, changeCount, lastCommitChangeCount,
          pendingCommitChangeCount, pendingCommit, filesToCommit, refCounts, commits,
          lastFiles, toDelete, closing, dwpt, renameFaults, flushed>>

-----------------------------------------------------------------------------
(* File names.  FileNameFromGeneration writes the generation in base 36 and   *)
(* GenerationFromSegmentsFileName reads it back with ParseInt(v, 10, 64).     *)
Digit(g, weight) == (g \div weight) % 36
Parses(g) == \A weight \in {1, 36, 36 * 36} : Digit(g, weight) <= 9
ParseGeneration(g) == Digit(g, 1) + 10 * Digit(g, 36) + 100 * Digit(g, 36 * 36)

(* SegmentInfos.Files: the data files of its segments and, if asked for, the  *)
(* segments file named by lastGeneration.                                     *)
Files(sis, includeSegmentsFile) ==
    {DataFile(s) : s \in sis.segs} \cup
        IF includeSegmentsFile THEN {SegmentsFile(sis.lastGen)} ELSE {}

(* ReadCommit needs the file, a name that parses back to the generation (the  *)
(* header suffix is compared with it) and the .si of every segment.           *)
CanRead(g) ==
    /\ g \in DOMAIN segments
    /\ Parses(g) /\ ParseGeneration(g) = g
    /\ segments[g].segs \subseteq data
ReadCommit(g) ==
    Infos(g, g, segments[g].version, segments[g].counter, segments[g].segs)

(* GetLastCommitGeneration: one name that does not parse fails the listing.   *)
IsLastCommitGeneration(g) ==
    /\ \A h \in DOMAIN segments : Parses(h) /\ ParseGeneration(h) <= g
    /\ \E h \in DOMAIN segments : ParseGeneration(h) = g

(* IsIndexExists looks for a name with prefix "segments_": generation 0 is    *)
(* the plain name "segments".                                                 *)
IsIndexExists == \E g \in DOMAIN segments : g > 0

-----------------------------------------------------------------------------
(* Reference counts. *)
Count(b) == IF b THEN 1 ELSE 0
IncRef(rc, files) == [f \in File |-> rc[f] + Count(f \in files)]
DecRef(rc, files) == [f \in File |-> rc[f] - Count(f \in files)]
UnreferencedAtOne(rc, files) == {f \in files : rc[f] = 2}
Unreferenced(rc, files) == {f \in files : rc[f] = 1}

(* NIOFSDirectory.DeleteFile accepts a file that is already gone. *)
WithoutFiles(d, files) == {s \in d : DataFile(s) \notin files}

CommitPoint(sis) == [gen |-> sis.gen, files |-> Files(sis, TRUE)]

NoRefs == [f \in File |-> 0]

(* KeepOnlyLastCommitDeletionPolicy.OnCommit: how many of the oldest commits  *)
(* it deletes.                                                                *)
OnCommit(cs) == Len(cs) - 1

(* deleteCommits: one DecRef for each of the n deleted commits. *)
Drops(cs, n, f) == Cardinality({i \in 1..n : f \in cs[i].files})
DropRefsOfAll(rc, cs, n) == [f \in File |-> rc[f] - Drops(cs, Len(cs), f)]
DropRefs(rc, cs, n) == [f \in File |-> rc[f] - Drops(cs, n, f)]
DropFiles(rc, cs, n) == {f \in File : rc[f] \in 1..Drops(cs, n, f)}

-----------------------------------------------------------------------------
NoWriter ==
    /\ pc = "none"
    /\ infos = NoCommit
    /\ changeCount = 0 /\ lastCommitChangeCount = 0 /\ pendingCommitChangeCount = 0
    /\ pendingCommit = NoCommit /\ filesToCommit = {}
    /\ refCounts = NoRefs /\ commits = <<>> /\ lastFiles = {} /\ toDelete = {}
    /\ closing = "no"
    /\ dwpt = [name |-> 0, docs |-> FALSE]
    /\ renameFaults = 0

Init ==
    /\ \E idx \in InitialIndexes : segments = idx.segments /\ data = idx.data /\ stored = idx.data
    /\ pending = [g \in {} |-> NoCommit]
    /\ flushed = {}
    /\ NoWriter


-----------------------------------------------------------------------------
(* NewIndexWriter.  No step of it obtains the write lock.                     *)

(* The SegmentInfos the writer may start from: create starts empty but keeps  *)
(* generation, version and counter of the commit found; an IndexCommit swaps  *)
(* the segments and lastGeneration.                                           *)
AnyCommits == {g \in Gen : CanRead(g)}
LastCommits == {g \in Gen : IsLastCommitGeneration(g) /\ CanRead(g)}
CreateInfosForgets(n) ==
    {Infos(g, g, n, n, {}) : g \in LastCommits}
CreateInfosFromZero ==
    IF IsIndexExists THEN CreateInfosForgets(0) ELSE {Infos(0, 0, 1, 0, {})}
CreateInfos ==
    IF IsIndexExists
    THEN {Infos(g, g, segments[g].version + 1, segments[g].counter, {}) : g \in LastCommits}
    ELSE {Infos(0, 0, 1, 0, {})}
AppendInfos(at) ==
    IF at = 0
    THEN {ReadCommit(g) : g \in LastCommits}
    ELSE {Infos(g, at, segments[g].version + 1, segments[g].counter, segments[at].segs) :
             g \in {h \in LastCommits : CanRead(at)}}

(* newSegmentName: the name of the DWPT's segment. *)
NewSegmentNameKeepsCounter(sis) ==
    Infos(sis.gen, sis.lastGen, sis.version + 1, sis.counter, sis.segs)
NewSegmentName(sis) ==
    Infos(sis.gen, sis.lastGen, sis.version + 1, sis.counter + 1, sis.segs)

Larger(a, b) == IF a > b THEN a ELSE b

(* inflateGens over the files of the deleter: the generation is raised to the *)
(* segments file seen; the counter to one above the segment file the map      *)
(* iteration meets last, or the generation if that was met before and larger. *)
InflatedCounters(sis, files) ==
    LET segNames == {s \in SegName : DataFile(s) \in files}
        gens == {g \in Gen : SegmentsFile(g) \in files}
    IN IF segNames = {} THEN {sis.counter}
       ELSE {Larger(sis.counter, s + 1) : s \in segNames} \cup
            {Larger(sis.counter, Larger(g, s) + 1) : g \in gens, s \in segNames}

(* NewIndexFileDeleter: no file of the listing passes its filter, so the only *)
(* commit registered is the one read explicitly under its lastGeneration;     *)
(* then the incoming infos are protected with Checkpoint(segmentInfos, false).*)
InitDeleter(sis, indexExists) ==
    LET current == ReadCommit(sis.lastGen)
        cs == IF indexExists THEN <<CommitPoint(current)>> ELSE <<>>
        rc == IF indexExists THEN IncRef(NoRefs, Files(current, TRUE)) ELSE NoRefs
    IN /\ indexExists => CanRead(sis.lastGen)
       /\ commits' = cs
       /\ refCounts' = IncRef(rc, Files(sis, FALSE))
       /\ lastFiles' = Files(sis, FALSE)
       /\ \E c \in InflatedCounters(sis, IF indexExists THEN Files(current, TRUE) ELSE {}) :
             /\ c <= MaxSeg + 1
             /\ infos' = Infos(Larger(sis.gen, sis.lastGen), sis.lastGen, sis.version, c, sis.segs)

NewIndexWriter(mode, at) ==
    LET indexExists == mode = "APPEND" \/ IsIndexExists
        create == mode = "CREATE" \/ (mode = "CREATE_OR_APPEND" /\ ~indexExists)
    IN /\ pc = "none"
       /\ create => at = 0
       /\ \E sis \in IF create THEN CreateInfos ELSE AppendInfos(at) :
             /\ sis.version < MaxVersion /\ sis.counter <= MaxSeg
             /\ InitDeleter(NewSegmentName(sis), indexExists)
             /\ changeCount' = 1 + Count(create \/ at # 0)
             /\ dwpt' = [name |-> sis.counter, docs |-> FALSE]
       /\ pc' = "idle"
       /\ UNCHANGED <<directory, lastCommitChangeCount, pendingCommitChangeCount,
                      pendingCommit, filesToCommit, toDelete, closing, renameFaults, flushed>>

(* StoredFieldsConsumer.initStoredFieldsWriter: the file is made through the  *)
(* directory itself, not the wrapper that tracks the segment's files, so that *)
(* the deleter never counts it.  CreateOutput refuses a name that exists.     *)
CreateStoredFields(s) ==
    /\ s \notin stored
    /\ stored' = stored \cup {s}

(* AddDocument: the first one makes the file of stored fields; the document   *)
(* is buffered in the DWPT and changeCount is left alone.  When the file is   *)
(* there already the document is refused, and nothing changes.                *)
AddDocument ==
    /\ pc = "idle" /\ ~dwpt.docs
    /\ CreateStoredFields(dwpt.name)
    /\ dwpt' = [dwpt EXCEPT !.docs = TRUE]
    /\ UNCHANGED <<segments, pending, data, pc, infos, counts, pendingCommit, filesToCommit,
                   deleter, toDelete, closing, renameFaults, flushed>>


-----------------------------------------------------------------------------
(* Commit and the commit inside Close: prepareCommitInternal, startCommit and *)
(* finishCommit, split where they touch the Directory.                        *)

(* IndexWriter.shutdown up to its commitInternal.  A second Close spins in    *)
(* shouldClose: closed is never set and doWait returns at once.               *)
Close ==
    /\ pc = "idle" /\ pendingCommit = NoCommit
    /\ IF closing = "no"
       THEN pc' = "commit" /\ closing' = "running"
       ELSE pc' = "hung" /\ UNCHANGED closing
    /\ UNCHANGED <<directory, infos, counts, pendingCommit, filesToCommit, deleter, toDelete,
                   dwpt, renameFaults, flushed>>

Commit ==
    /\ pc = "idle"
    /\ pc' = "commit"
    /\ UNCHANGED <<directory, infos, counts, pendingCommit, filesToCommit, deleter, toDelete,
                   closing, dwpt, renameFaults, flushed>>

(* The caller's next step when commitInternal returns without / with an error. *)
Returned == IF closing = "running" THEN "flush" ELSE "idle"
Failed == /\ pc' = "idle"
          /\ closing' = IF closing = "running" THEN "failed" ELSE closing

(* There are changes to commit, and writing them is itself one more change. *)
AnyChange == changeCount # lastCommitChangeCount
ToCommitChangedTwice(g) == Infos(g, infos.lastGen, infos.version + 2, infos.counter, infos.segs)
ToCommit(g) == Infos(g, infos.lastGen, infos.version + 1, infos.counter, infos.segs)

(* startCommit finds pendingCommitChangeCount = lastCommitChangeCount: the    *)
(* references just taken are dropped and nothing is written.                  *)
PrepareNothing ==
    /\ pc = "commit" /\ pendingCommit = NoCommit /\ ~AnyChange
    /\ pendingCommitChangeCount' = changeCount
    /\ LET files == Files(infos, FALSE)
           rc == IncRef(refCounts, files)
       IN /\ refCounts' = DecRef(rc, files)
          /\ data' = WithoutFiles(data, Unreferenced(rc, files))
    /\ filesToCommit' = {}
    /\ pc' = Returned
    /\ UNCHANGED <<segments, pending, stored, commits, lastFiles, infos, changeCount, lastCommitChangeCount,
                   pendingCommit, toDelete, closing, dwpt, renameFaults, flushed>>

(* The part of prepareCommitInternal before startCommit's prepareCommit.  *)
Prepare ==
    /\ pc = "commit" /\ pendingCommit = NoCommit /\ AnyChange
    /\ infos.version < MaxVersion /\ infos.gen < MaxGen
    /\ changeCount' = changeCount + 1
    /\ pendingCommitChangeCount' = changeCount + 1
    /\ refCounts' = IncRef(refCounts, Files(infos, FALSE))
    /\ filesToCommit' = Files(infos, FALSE)
    /\ UNCHANGED <<segments, data, stored, lastCommitChangeCount, commits, lastFiles, toDelete, dwpt,
                   renameFaults, flushed>>

(* SegmentInfos.writeDir: pending_segments_N must not exist yet. *)
PrepareCommit ==
    /\ Prepare
    /\ infos.gen + 1 \notin DOMAIN pending
    /\ LET next == ToCommit(infos.gen + 1)
       IN /\ pending' = [g \in DOMAIN pending \cup {next.gen} |->
                           IF g = next.gen
                           THEN [version |-> next.version, counter |-> next.counter, segs |-> next.segs]
                           ELSE pending[g]]
          /\ pendingCommit' = next
          /\ infos' = next
    /\ pc' = "finish"
    /\ UNCHANGED closing

(* CreateOutput reports ErrExist: the clone's generation is lost, the changed *)
(* counters and the references taken stay.                                    *)
PrepareCommitFails ==
    /\ Prepare
    /\ infos.gen + 1 \in DOMAIN pending
    /\ infos' = ToCommit(infos.gen)
    /\ Failed
    /\ UNCHANGED <<pending, pendingCommit>>

(* commitInternal with a pendingCommit left by a failed finishCommit. *)
ResumeCommit ==
    /\ pc = "commit" /\ pendingCommit # NoCommit
    /\ pc' = "finish"
    /\ UNCHANGED <<directory, infos, counts, pendingCommit, filesToCommit, deleter, toDelete,
                   closing, dwpt, renameFaults, flushed>>

(* finishCommit gives back the references of prepareCommitInternal before the *)
(* rename, and does so again when a failed finishCommit is retried.           *)
FinishDecRef ==
    /\ pc = "finish"
    /\ refCounts' = DecRef(refCounts, filesToCommit)
    /\ data' = WithoutFiles(data, Unreferenced(refCounts, filesToCommit))
    /\ pc' = "rename"
    /\ UNCHANGED <<segments, pending, stored, infos, counts, pendingCommit, filesToCommit, commits,
                   lastFiles, toDelete, closing, dwpt, renameFaults, flushed>>

(* SegmentInfos.finishCommit: os.Rename replaces an existing destination. *)
RenamePending ==
    LET g == pendingCommit.gen
    IN /\ pc = "rename" /\ g \in DOMAIN pending
       /\ segments' = [h \in DOMAIN segments \cup {g} |->
                          IF h = g THEN pending[g] ELSE segments[h]]
       /\ pending' = [h \in DOMAIN pending \ {g} |-> pending[h]]
       /\ pc' = "checkpoint"
       /\ UNCHANGED <<data, stored, infos, counts, pendingCommit, filesToCommit, deleter, toDelete,
                      closing, dwpt, renameFaults, flushed>>

(* The rename reports an error: pendingCommit and filesToCommit stay set. *)
RenameFails ==
    /\ pc = "rename"
    /\ renameFaults < MaxRenameFaults
    /\ renameFaults' = renameFaults + 1
    /\ Failed
    /\ UNCHANGED <<directory, infos, counts, pendingCommit, filesToCommit, deleter, toDelete,
                   dwpt, flushed>>

(* IndexFileDeleter.Checkpoint(pendingCommit, true). *)
Checkpoint ==
    LET cp == CommitPoint(pendingCommit)
        cs == Append(commits, cp)
        n == OnCommit(cs)
        rc == IncRef(refCounts, cp.files)
    IN /\ pc = "checkpoint"
       /\ refCounts' = DropRefs(rc, cs, n)
       /\ toDelete' = DropFiles(rc, cs, n)
       /\ commits' = SubSeq(cs, n + 1, Len(cs))
       /\ pc' = "delete"
       /\ UNCHANGED <<directory, infos, counts, pendingCommit, filesToCommit, lastFiles,
                      closing, dwpt, renameFaults, flushed>>

(* deleteFiles: the segments files first. *)
DeleteFile(f) ==
    /\ pc = "delete" /\ f \in toDelete
    /\ f[1] = "data" => \A e \in toDelete : e[1] = "data"
    /\ toDelete' = toDelete \ {f}
    /\ segments' = [g \in {h \in DOMAIN segments : SegmentsFile(h) # f} |-> segments[g]]
    /\ data' = WithoutFiles(data, {f})
    /\ UNCHANGED <<pending, stored, pc, infos, counts, pendingCommit, filesToCommit, deleter, closing,
                   dwpt, renameFaults, flushed>>

FinishCommit ==
    /\ pc = "delete" /\ toDelete = {}
    /\ infos' = Infos(pendingCommit.gen, pendingCommit.lastGen, infos.version, infos.counter, infos.segs)
    /\ lastCommitChangeCount' = pendingCommitChangeCount
    /\ pendingCommit' = NoCommit
    /\ filesToCommit' = {}
    /\ pc' = Returned
    /\ UNCHANGED <<directory, changeCount, pendingCommitChangeCount, deleter, toDelete, closing,
                   dwpt, renameFaults, flushed>>

DropWriter ==
    /\ pc' = "none"
    /\ infos' = NoCommit
    /\ changeCount' = 0 /\ lastCommitChangeCount' = 0 /\ pendingCommitChangeCount' = 0
    /\ pendingCommit' = NoCommit /\ filesToCommit' = {}
    /\ refCounts' = NoRefs /\ commits' = <<>> /\ lastFiles' = {} /\ toDelete' = {}
    /\ closing' = "no"
    /\ dwpt' = [name |-> 0, docs |-> FALSE]
    /\ renameFaults' = 0

(* The end of shutdown: docWriter.Flush writes the DWPT's segment after the   *)
(* commit and swallows its error.  Without a document there is no writer of   *)
(* stored fields to finish: the flush panics and nothing is written.  The     *)
(* writer is gone either way.                                                 *)
FlushOnClose ==
    /\ pc = "flush"
    /\ LET written == {s \in {dwpt.name} : dwpt.docs}
       IN data' = data \cup written /\ flushed' = flushed \cup written
    /\ UNCHANGED <<segments, pending, stored>>
    /\ DropWriter

(* The process dies, or drops the writer without Close, at any point. *)
Crash ==
    /\ pc # "none"
    /\ DropWriter
    /\ UNCHANGED <<directory, flushed>>

Next ==
    \/ \E mode \in OpenModes, at \in IndexCommits : NewIndexWriter(mode, at)
    \/ AddDocument
    \/ Commit
    \/ Close
    \/ PrepareNothing
    \/ PrepareCommit
    \/ PrepareCommitFails
    \/ ResumeCommit
    \/ FinishDecRef
    \/ RenamePending
    \/ RenameFails
    \/ Checkpoint
    \/ \E f \in File : DeleteFile(f)
    \/ FinishCommit
    \/ FlushOnClose
    \/ Crash

Spec == Init /\ [][Next]_vars


-----------------------------------------------------------------------------
(* Directory, writer and deleter are well typed through every step, with      *)
(* versions, counters and generations within their bounds.                    *)
TypeOK ==
    /\ IsPartialFcn(segments, Gen, Contents)
    /\ IsPartialFcn(pending, Gen, Contents)
    /\ data \subseteq SegName
    /\ stored \subseteq SegName
    /\ pc \in {"none", "idle", "commit", "finish", "rename", "checkpoint", "delete", "flush", "hung"}
    /\ infos \in SegmentInfos
    /\ changeCount \in Nat /\ lastCommitChangeCount \in Nat /\ pendingCommitChangeCount \in Nat
    /\ pendingCommit \in SegmentInfos
    /\ filesToCommit \subseteq File
    /\ refCounts \in [File -> Int]
    /\ commits \in Seq([gen : Gen, files : SUBSET File])
    /\ lastFiles \subseteq File
    /\ toDelete \subseteq File
    /\ closing \in {"no", "running", "failed"}
    /\ dwpt \in [name : SegName, docs : BOOLEAN]
    /\ renameFaults \in 0..MaxRenameFaults
    /\ flushed \subseteq SegName

IsLatest(g) == g \in DOMAIN segments /\ \A h \in DOMAIN segments : h <= g

(* Commit atomicity: whatever the writer was doing when the process died, the *)
(* newest segments_N names only segments whose files exist.                   *)
LatestCommitComplete ==
    \A g \in DOMAIN segments : IsLatest(g) => segments[g].segs \subseteq data

(* The deleter never counts fewer references to a file than there are holders *)
(* (registered commits, the last checkpoint, the commit being prepared), up   *)
(* to one lost reference for every rename that failed.                        *)
Pending(f) == f \in filesToCommit /\ pc = "finish"
Holders(f) == Drops(commits, Len(commits), f) + Count(f \in lastFiles) + Count(Pending(f))
RefCountsCoverHolders ==
    pc # "none" => \A f \in File : refCounts[f] + renameFaults >= Holders(f)

(* The files of a segment that was flushed are never written again: the name  *)
(* handed out at open is not that of a complete segment, whichever writers    *)
(* committed, failed, closed or died before.                                  *)
SegmentsFlushedOnce == pc # "none" => dwpt.name \notin data

(* inflateGens: "Set all gens beyond what we currently see in the directory,  *)
(* to avoid double-write in cases where the previous IndexWriter did not      *)
(* gracefully close": a writer that has no document yet can make its files.   *)
FreshSegmentName == pc # "none" /\ ~dwpt.docs => dwpt.name \notin stored

(* A segments_N that was renamed into place is never written again. *)
SegmentsWriteOnce ==
    [][\A g \in DOMAIN segments \cap DOMAIN segments' : segments'[g] = segments[g]]_vars

(* A newer commit has the larger version, over all restarts. *)
VersionsFollowGenerations ==
    \A g, h \in DOMAIN segments : g < h => segments[g].version < segments[h].version

(* The same sentence, of the next pending_segments_N.                         *)
NextGenerationIsFree ==
    pc = "idle" /\ pendingCommit = NoCommit => infos.gen + 1 \notin DOMAIN pending

(* KeepOnlyLastCommitDeletionPolicy "keeps only the most recent commit and    *)
(* immediately removes all prior commits after a new commit is done".         *)
OnlyLastCommitRemains ==
    pc = "idle" /\ lastCommitChangeCount > 0 => Cardinality(DOMAIN segments) = 1

(* Whatever was committed, the newest commit can be found again: a name that  *)
(* FileNameFromGeneration writes in base 36 is parsed in base 10.             *)
NewestCommitIsFound == \A g \in DOMAIN segments : IsLatest(g) => g \in LastCommits

(* Close "will attempt to gracefully shut down by writing any changes,        *)
(* waiting for any running merges, committing, and closing": documents of a   *)
(* writer that was closed are in the latest commit.                           *)
ClosedDocumentsCommitted ==
    \A g \in DOMAIN segments : IsLatest(g) => flushed \subseteq segments[g].segs

(* Refinement: the latest commit as LatestCommit describes it. *)
LatestGen == IF \E g \in DOMAIN segments : IsLatest(g)
             THEN CHOOSE g \in DOMAIN segments : IsLatest(g) ELSE 0
LatestContents == IF LatestGen \in DOMAIN segments THEN segments[LatestGen]
                  ELSE [version |-> 0, counter |-> 0, segs |-> {}]
Latest == INSTANCE LatestCommit WITH
             MaxCounter <- MaxSeg + 1,
             gen <- LatestGen,
             version <- LatestContents.version,
             counter <- LatestContents.counter
(* Every behaviour of the writer is, seen through the newest segments_N, one  *)
(* of commits that appear one generation at a time and in one step.           *)
RefinesLatestCommit == Latest!Spec
=============================================================================
