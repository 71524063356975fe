----------------------------- MODULE PendingDeletes -----------------------------
(* The deletes of one segment: the bit set pendingDeletes changes in place,   *)
(* the snapshots it hands out, the .liv file of each generation and the       *)
(* generation a commit points to, over failed writes and restarts.            *)
(*                                                                            *)
(* Bit sets are objects: liveDocs and writeableLiveDocs hold the index of one *)
(* in "bits", 0 for nil. Hard deletes only: applySoftDeletes does not end.    *)
(*                                                                            *)
(* Sources: core/index/pendingdeletes.go, core/interface/index/               *)
(* segmentcommitinfo.go, codecs/simpletext/livedocsformat.go,                 *)
(* core/index/documentswriterperthread.go, core/store/niofsdirectory.go.      *)
EXTENDS TextFile, FiniteSets, Functions

CONSTANTS
    MaxDoc,         \* documents of the segment
    MaxDelGen,      \* generations of .liv files
    MaxRestarts

ASSUME PendingAssumption == MaxDoc \in Nat

VARIABLE pd

Docs == 0 .. MaxDoc - 1
Nil == 0
NoGen == -1

(* newSegmentCommitInfo. *)
NewSegmentCommitInfo(delCount, delGen) ==
    [delCount |-> delCount, delGen |-> delGen,
     nextWriteDelGen |-> IF delGen = NoGen THEN 1 ELSE delGen + 1]
HasDeletions(info) == info.delGen # NoGen

AdvanceDelGen(info) ==
    [info EXCEPT !.delGen = info.nextWriteDelGen, !.nextWriteDelGen = @ + 1]

(* NewPendingDeletesV1. *)
NewPendingDeletes(info) ==
    [bits |-> <<>>, liveDocs |-> Nil, writeableLiveDocs |-> Nil, pendingDeleteCount |-> 0,
     liveDocsInitialized |-> ~HasDeletions(info)]

GetDelCount == pd.info.delCount + pd.p.pendingDeleteCount
NumDocs == MaxDoc - GetDelCount
IsFullyDeleted == GetDelCount = MaxDoc

-----------------------------------------------------------------------------
(* A mutant: the running number in place of the document. *)
LiveLinesByPosition(live) ==
    FlattenSeq([i \in 1 .. Cardinality(live) |-> WriteLabel("  doc ", Num(i - 1))])

(* The .liv file. The line of a live document holds the size, not its number. *)
LiveLines(live) ==
    FlattenSeq([i \in 1 .. Cardinality(live) |-> WriteLabel("  doc ", Num(MaxDoc))])
WriteLiveDocsFile(live) ==
    WriteChecksum(WriteLabel("size ", Num(MaxDoc)) \o LiveLines(live) \o <<Label("END"), NEWLINE>>)

(* The line that was read at the end of the list, or one more document in     *)
(* front of the rest.                                                         *)
EndOfDocs(in, next) == IF CheckFooter(in, next) THEN [ok |-> TRUE, live |-> {}] ELSE Failed
WithDoc(value, rest) ==
    IF Parses("num", value) /\ rest.ok THEN [ok |-> TRUE, live |-> rest.live \cup {Parsed(value)}] ELSE Failed

ReadLiveDocs(in) ==
    LET size == ReadLabels(in, 1, <<"size ">>)
        from[p \in 1 .. Len(in) + 1] ==
            IF ~ReadLine(in, p).ok THEN Failed
            ELSE IF HasPrefix(ReadLine(in, p).line, "END") THEN EndOfDocs(in, ReadLine(in, p).next)
            ELSE WithDoc(Tail(ReadLine(in, p).line), from[ReadLine(in, p).next])
    IN  IF size.ok /\ Parses("num", size.values[1]) THEN from[size.next] ELSE Failed

-----------------------------------------------------------------------------
PendingInit ==
    LET info == NewSegmentCommitInfo(0, NoGen)
    IN  pd = [pc |-> "open", info |-> info, p |-> NewPendingDeletes(info), commit |-> info,
              files |-> <<>>, deleted |-> {}, committed |-> {}, snapshots |-> {},
              restarts |-> 0, failed |-> FALSE]

(* Copy on write when there is no writeable set yet; the bits of a file are   *)
(* of a type that GetMutableBits cannot clone.                                *)
GetMutableBits(p) ==
    IF p.writeableLiveDocs # Nil THEN p
    ELSE LET copy == Len(p.bits) + 1
         IN  [p EXCEPT !.bits = Append(@, [live |-> IF p.liveDocs = Nil THEN Docs ELSE p.bits[p.liveDocs].live,
                                           fromFile |-> FALSE]),
                       !.writeableLiveDocs = copy, !.liveDocs = copy]

ClonePanics(p) == p.writeableLiveDocs = Nil /\ p.liveDocs # Nil /\ p.bits[p.liveDocs].fromFile
(* A mutant: a document that was deleted already counts again. *)
DeleteCountsTwice(doc) ==
    /\ pd.pc = "open" /\ pd.p.liveDocsInitialized /\ ~ClonePanics(pd.p)
    /\ LET p == GetMutableBits(pd.p)
       IN  pd' = [pd EXCEPT !.p = [p EXCEPT !.bits[p.writeableLiveDocs].live = @ \ {doc},
                                            !.pendingDeleteCount = @ + 1],
                            !.deleted = @ \cup {doc}]

(* Callers hand over a reader first when the segment has deletes. *)
Delete(doc) ==
    /\ pd.pc = "open" /\ pd.p.liveDocsInitialized
    /\ LET p == GetMutableBits(pd.p)
           b == p.writeableLiveDocs
       IN  pd' = IF ClonePanics(pd.p) THEN [pd EXCEPT !.pc = "panicked"]
                 ELSE IF doc \notin p.bits[b].live THEN [pd EXCEPT !.p = p]
                 ELSE [pd EXCEPT !.p = [p EXCEPT !.bits[b].live = @ \ {doc},
                                                 !.pendingDeleteCount = @ + 1],
                                 !.deleted = @ \cup {doc}]

(* GetLiveDocs hands out the object itself. *)
GetLiveDocs ==
    /\ pd.pc = "open" /\ pd.p.liveDocs # Nil
    /\ pd' = [pd EXCEPT !.snapshots = @ \cup {[obj |-> pd.p.liveDocs,
                                               live |-> pd.p.bits[pd.p.liveDocs].live]}]

OnNewReader ==
    /\ pd.pc = "open" /\ ~pd.p.liveDocsInitialized
    /\ LET r == ReadLiveDocs(pd.files[pd.info.delGen])
       IN  pd' = IF ~r.ok THEN [pd EXCEPT !.pc = "refused"]
                 ELSE [pd EXCEPT !.p.bits = Append(@, [live |-> r.live, fromFile |-> TRUE]),
                                 !.p.liveDocs = Len(pd.p.bits) + 1,
                                 !.p.liveDocsInitialized = TRUE]

(* CreateOutput refuses a name that exists; a write that fails leaves what    *)
(* was written behind.                                                        *)
Exists(gen) == gen \in DOMAIN pd.files
PutFile(gen, file) == [g \in DOMAIN pd.files \cup {gen} |-> IF g = gen THEN file ELSE pd.files[g]]
LiveDocsFile == WriteLiveDocsFile(pd.p.bits[pd.p.liveDocs].live)
(* A mutant: the current generation is written over. *)
WriteLiveDocsInPlace ==
    /\ pd.pc = "open" /\ pd.p.pendingDeleteCount > 0
    /\ LET gen == IF HasDeletions(pd.info) THEN pd.info.delGen ELSE pd.info.nextWriteDelGen
       IN  pd' = [pd EXCEPT !.files = PutFile(gen, LiveDocsFile), !.info.delGen = gen,
                            !.info.delCount = @ + pd.p.pendingDeleteCount,
                            !.p.pendingDeleteCount = 0]

WriteLiveDocs ==
    /\ pd.pc = "open" /\ pd.p.pendingDeleteCount > 0
    /\ pd.info.nextWriteDelGen <= MaxDelGen
    /\ ~Exists(pd.info.nextWriteDelGen)
    /\ pd' = [pd EXCEPT !.files = PutFile(pd.info.nextWriteDelGen, LiveDocsFile),
                        !.info = [AdvanceDelGen(pd.info) EXCEPT !.delCount = @ + pd.p.pendingDeleteCount],
                        !.p.pendingDeleteCount = 0]

WriteLiveDocsFails ==
    /\ pd.pc = "open" /\ pd.p.pendingDeleteCount > 0
    /\ pd.info.nextWriteDelGen <= MaxDelGen
    /\ IF Exists(pd.info.nextWriteDelGen) THEN pd' = [pd EXCEPT !.failed = TRUE]
       ELSE \E n \in 0 .. Len(LiveDocsFile) - 1 :
                pd' = [pd EXCEPT !.files = PutFile(pd.info.nextWriteDelGen, SubSeq(LiveDocsFile, 1, n)),
                                 !.failed = TRUE]

(* The segments file of a commit holds delGen and delCount. *)
CommitDeletes ==
    /\ pd.pc = "open" /\ pd.p.pendingDeleteCount = 0
    /\ pd' = [pd EXCEPT !.commit = pd.info, !.committed = pd.deleted]

(* A new process opens the last commit; the file deleter drops what the       *)
(* commit does not hold.                                                      *)
Restart ==
    /\ pd.pc \in {"open", "panicked"} /\ pd.restarts < MaxRestarts
    /\ LET info == NewSegmentCommitInfo(pd.commit.delCount, pd.commit.delGen)
       IN  pd' = [pd EXCEPT !.pc = "open", !.info = info, !.p = NewPendingDeletes(info),
                            !.files = Restrict(@, DOMAIN @ \cap {info.delGen}),
                            !.deleted = pd.committed, !.snapshots = {}, !.failed = FALSE,
                            !.restarts = @ + 1]

PendingNext ==
    \/ \E doc \in Docs : Delete(doc)
    \/ GetLiveDocs \/ OnNewReader
    \/ WriteLiveDocs \/ WriteLiveDocsFails
    \/ CommitDeletes \/ Restart

PendingSpec == PendingInit /\ [][PendingNext]_pd

(******************************* Properties ********************************)

(* pendingdeletes.go GetDelCount: the deletes on disk and the pending ones    *)
(* together are the documents deleted, each counted once, over repeated       *)
(* deletes of a document, failed writes and restarts.                         *)
DelCountExact ==
    pd.pc \in {"open", "panicked"} =>
        /\ GetDelCount = Cardinality(pd.deleted)
        /\ NumDocs >= 0
        /\ IsFullyDeleted <=> pd.deleted = Docs

(* livedocsformat.go: a document deleted before a commit is never live for a  *)
(* reader of that commit, and the file the commit points to can be read       *)
(* whatever write failed before or after.                                     *)
DeletedStayDeleted ==
    pd.pc # "off" /\ HasDeletions(pd.commit) =>
        LET r == ReadLiveDocs(pd.files[pd.commit.delGen])
        IN  r.ok /\ r.live \cap pd.committed = {}

(* segmentcommitinfo.go nextWriteDelGen: the file a commit points to is never *)
(* written again; a newer generation goes to a file of its own.               *)
CommittedFileUntouched ==
    [][pd.pc # "off" /\ HasDeletions(pd.commit) =>
          pd'.files[pd.commit.delGen] = pd.files[pd.commit.delGen]]_pd

(* codec.go LiveDocsFormat, "Persist live docs bits": a document that was not *)
(* deleted is live for a reader of the commit.                                *)
LiveDocsPersisted ==
    pd.pc # "off" /\ HasDeletions(pd.commit) =>
        LET r == ReadLiveDocs(pd.files[pd.commit.delGen])
        IN  Docs \ pd.committed \subseteq r.live

(* pendingdeletes.go GetLiveDocs, "Returns a snapshot of the current live     *)
(* docs": a later delete does not show in it.                                 *)
SnapshotKept ==
    pd.pc # "off" => \A s \in pd.snapshots : pd.p.bits[s.obj].live = s.live

(* pendingdeletes.go WriteLiveDocs, "so we can delete any created files on    *)
(* exception": a failed write leaves the next generation free.                *)
FailedWriteCleared ==
    pd.pc = "open" /\ pd.failed => ~Exists(pd.info.nextWriteDelGen)

(* Deletes are counted once and survive commits, failed writes and restarts,  *)
(* and the file of a commit is not touched again.                             *)
DeletesAreKept == []DelCountExact /\ []DeletedStayDeleted /\ CommittedFileUntouched
================================================================================
