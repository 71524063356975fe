-------------------------- MODULE IndexWriterProofs --------------------------
(* Proofs about IndexWriter, for every directory content that is well formed, *)
(* every open mode and every bound, and about the DirectoryReaders of an      *)
(* index whose writer commits, crashes and reopens beside them, for any       *)
(* number of readers.                                                         *)
EXTENDS DirectoryReaders, FiniteSetTheorems, SequenceTheorems, TLAPS

(* The commit steps run with a pendingCommit. *)
TypeInv ==
    /\ TypeOK
    /\ pc \in {"finish", "rename", "checkpoint", "delete"} => pendingCommit # NoCommit

LEMMA FilesType ==
    ASSUME NEW sis \in SegmentInfos, NEW b \in BOOLEAN
    PROVE  Files(sis, b) \subseteq File
  BY DEF SegmentInfos, Files, File, DataFile, SegmentsFile

LEMMA CommitPointType ==
    ASSUME NEW sis \in SegmentInfos
    PROVE  CommitPoint(sis) \in [gen : Gen, files : SUBSET File]
  BY FilesType DEF CommitPoint, SegmentInfos

LEMMA RefType ==
    ASSUME NEW rc \in [File -> Int], NEW files
    PROVE  /\ IncRef(rc, files) \in [File -> Int]
           /\ DecRef(rc, files) \in [File -> Int]
           /\ NoRefs \in [File -> Int]
  BY DEF IncRef, DecRef, NoRefs, Count

LEMMA DropsType ==
    ASSUME NEW cs, NEW n \in Nat, NEW f
    PROVE  Drops(cs, n, f) \in Nat
  <1>1. IsFiniteSet(1..n)
    BY FS_Interval
  <1>2. IsFiniteSet({i \in 1..n : f \in cs[i].files})
    BY <1>1, FS_Subset
  <1>. QED  BY <1>2, FS_CardinalityType DEF Drops

LEMMA ReadCommitType ==
    ASSUME TypeOK, NEW g \in DOMAIN segments
    PROVE  ReadCommit(g) \in SegmentInfos
  BY DEF TypeOK, IsPartialFcn, ReadCommit, Infos, SegmentInfos, Contents


LEMMA InfosType ==
    ASSUME NEW g \in Gen, NEW last \in Gen, NEW v \in 0..MaxVersion,
           NEW c \in 0..(MaxSeg + 1), NEW segs \in SUBSET SegName
    PROVE  Infos(g, last, v, c, segs) \in SegmentInfos
  BY DEF Infos, SegmentInfos

LEMMA StartType ==
    ASSUME TypeOK, NEW at \in Gen, NEW sis,
           sis \in CreateInfos \/ sis \in AppendInfos(at),
           sis.version < MaxVersion, sis.counter <= MaxSeg
    PROVE  \E g \in Gen, last \in Gen, v \in 0..(MaxVersion - 1), c \in SegName, segs \in SUBSET SegName :
              sis = Infos(g, last, v, c, segs)
  <1>. USE BoundsAssumption
  <1>1. \A g \in LastCommits : /\ g \in Gen
                               /\ segments[g].version \in Nat
                               /\ segments[g].counter \in Nat
                               /\ segments[g].segs \in SUBSET SegName
    BY DEF LastCommits, CanRead, TypeOK, IsPartialFcn, Contents
  <1>2. CASE sis \in CreateInfos
    <2>1. CASE IsIndexExists
      <3>1. PICK g \in LastCommits : sis = Infos(g, g, segments[g].version + 1, segments[g].counter, {})
        BY <1>2, <2>1 DEF CreateInfos
      <3>2. segments[g].version + 1 < MaxVersion /\ segments[g].counter <= MaxSeg
        BY <3>1 DEF Infos
      <3>. QED  BY <1>1, <3>1, <3>2 DEF SegName
    <2>2. CASE ~IsIndexExists
      <3>1. sis = Infos(0, 0, 1, 0, {})
        BY <1>2, <2>2 DEF CreateInfos
      <3>2. 1 < MaxVersion /\ 0 <= MaxSeg
        BY <3>1 DEF Infos
      <3>. QED  BY <3>1, <3>2 DEF SegName, Gen
    <2>. QED  BY <2>1, <2>2
  <1>3. CASE sis \in AppendInfos(at) /\ at = 0
    <2>1. PICK g \in LastCommits : sis = Infos(g, g, segments[g].version, segments[g].counter, segments[g].segs)
      <3>1. sis \in {ReadCommit(h) : h \in LastCommits}
        BY <1>3, Zenon DEF AppendInfos
      <3>. QED  BY <3>1, Zenon DEF ReadCommit
    <2>2. segments[g].version < MaxVersion /\ segments[g].counter <= MaxSeg
      BY <2>1 DEF Infos
    <2>3. segments[g].version \in 0..(MaxVersion - 1) /\ segments[g].counter \in SegName
      BY <1>1, <2>2 DEF SegName
    <2>. QED  BY <1>1, <2>1, <2>3, Zenon
  <1>4. CASE sis \in AppendInfos(at) /\ at # 0
    <2>1. PICK g \in LastCommits :
             /\ CanRead(at)
             /\ sis = Infos(g, at, segments[g].version + 1, segments[g].counter, segments[at].segs)
      <3>1. sis \in {Infos(h, at, segments[h].version + 1, segments[h].counter, segments[at].segs) :
                        h \in {h \in LastCommits : CanRead(at)}}
        BY <1>4, Zenon DEF AppendInfos
      <3>. QED  BY <3>1, Zenon
    <2>2. segments[g].version + 1 < MaxVersion /\ segments[g].counter <= MaxSeg
      BY <2>1 DEF Infos
    <2>3. at \in Gen /\ segments[at].segs \in SUBSET SegName
      BY <2>1, <1>4 DEF CanRead, TypeOK, IsPartialFcn, Contents
    <2>4. segments[g].version + 1 \in 0..(MaxVersion - 1) /\ segments[g].counter \in SegName
      BY <1>1, <2>2 DEF SegName
    <2>. QED  BY <1>1, <2>1, <2>3, <2>4, Zenon
  <1>. QED  BY <1>2, <1>3, <1>4

LEMMA DropWriterType ==
    ASSUME TypeOK, DropWriter, UNCHANGED <<segments, pending, stored>>, data' \subseteq SegName, flushed' \subseteq SegName
    PROVE  TypeInv'
  <1>1. /\ NoCommit \in SegmentInfos
        /\ NoRefs \in [File -> Int]
        /\ 0 \in SegName
    BY BoundsAssumption DEF NoCommit, Infos, SegmentInfos, Gen, NoRefs, SegName
  <1>. QED  BY <1>1, BoundsAssumption DEF TypeInv, TypeOK, DropWriter, IsPartialFcn

LEMMA LargerBound ==
    ASSUME NEW a \in Nat, NEW b \in Nat
    PROVE  Larger(a, b) \in Nat /\ Larger(a, b) >= a
  BY DEF Larger

LEMMA InflatedBound ==
    ASSUME NEW sis, sis.counter \in Nat, NEW files, NEW k \in InflatedCounters(sis, files)
    PROVE  k \in Nat /\ k >= sis.counter
  <1>. DEFINE segNames == {s \in SegName : DataFile(s) \in files}
              gens == {g \in Gen : SegmentsFile(g) \in files}
  <1>1. segNames \subseteq Nat /\ gens \subseteq Nat
    BY BoundsAssumption DEF SegName, Gen
  <1>2. k \in (IF segNames = {} THEN {sis.counter}
              ELSE {Larger(sis.counter, s + 1) : s \in segNames} \cup
                   {Larger(sis.counter, Larger(g, s) + 1) : g \in gens, s \in segNames})
    BY DEF InflatedCounters, segNames, gens
  <1>. HIDE DEF segNames, gens
  <1>3. CASE k = sis.counter
    BY <1>3
  <1>4. ASSUME NEW s \in segNames, k = Larger(sis.counter, s + 1)
        PROVE  k \in Nat /\ k >= sis.counter
    <2>1. s + 1 \in Nat
      BY <1>1
    <2>. QED  BY <1>4, <2>1, LargerBound
  <1>5. ASSUME NEW g \in gens, NEW s \in segNames, k = Larger(sis.counter, Larger(g, s) + 1)
        PROVE  k \in Nat /\ k >= sis.counter
    <2>1. Larger(g, s) \in Nat
      BY <1>1, LargerBound
    <2>2. Larger(g, s) + 1 \in Nat
      BY <2>1
    <2>. QED  BY <1>5, <2>2, LargerBound
  <1>6. k = sis.counter \/ k \in {Larger(sis.counter, s + 1) : s \in segNames}
          \/ k \in {Larger(sis.counter, Larger(g, s) + 1) : g \in gens, s \in segNames}
    BY <1>2, SMT
  <1>. QED  BY <1>3, <1>4, <1>5, <1>6

LEMMA NewIndexWriterType ==
    ASSUME TypeInv, NEW mode \in OpenModes, NEW at \in IndexCommits, NewIndexWriter(mode, at)
    PROVE  TypeInv'
  <1>. USE BoundsAssumption
  <1>. DEFINE indexExists == mode = "APPEND" \/ IsIndexExists
              create == mode = "CREATE" \/ (mode = "CREATE_OR_APPEND" /\ ~indexExists)
  <1>1. PICK sis \in IF create THEN CreateInfos ELSE AppendInfos(at) :
           /\ sis.version < MaxVersion /\ sis.counter <= MaxSeg
           /\ InitDeleter(NewSegmentName(sis), indexExists)
           /\ changeCount' = 1 + Count(create \/ at # 0)
           /\ dwpt' = [name |-> sis.counter, docs |-> FALSE]
    BY Zenon DEF NewIndexWriter
  <1>2. PICK g \in Gen, last \in Gen, v \in 0..(MaxVersion - 1), c \in SegName, segs \in SUBSET SegName :
           sis = Infos(g, last, v, c, segs)
    <2>1. at \in Gen
      OBVIOUS
    <2>2. sis \in CreateInfos \/ sis \in AppendInfos(at)
      BY <1>1, Zenon
    <2>3. TypeOK
      BY Zenon DEF TypeInv
    <2>4. sis.version < MaxVersion /\ sis.counter <= MaxSeg
      BY <1>1, Zenon
    <2>. HIDE DEF indexExists, create
    <2>. QED  BY ONLY <2>1, <2>2, <2>3, <2>4, StartType, ZenonT(30)
  <1>. DEFINE start == Infos(g, last, v + 1, c + 1, segs)
  <1>3. NewSegmentName(sis) = start
    BY <1>2 DEF NewSegmentName, Infos
  <1>4. start \in SegmentInfos /\ start.gen = g /\ start.lastGen = last /\ start.version = v + 1
           /\ start.segs = segs
    BY <1>2 DEF Infos, SegmentInfos, SegName
  <1>. DEFINE loaded == ReadCommit(last)
  <1>5. indexExists => CanRead(last)
    BY <1>1, <1>3, <1>4 DEF InitDeleter
  <1>6. indexExists => loaded \in SegmentInfos
    BY <1>5, ReadCommitType DEF TypeInv, CanRead
  <1>7. /\ commits' = IF indexExists THEN <<CommitPoint(loaded)>> ELSE <<>>
        /\ refCounts' = IncRef(IF indexExists THEN IncRef(NoRefs, Files(loaded, TRUE)) ELSE NoRefs, Files(start, FALSE))
        /\ lastFiles' = Files(start, FALSE)
        /\ \E k \in InflatedCounters(start, IF indexExists THEN Files(loaded, TRUE) ELSE {}) :
             /\ k <= MaxSeg + 1
             /\ infos' = Infos(Larger(g, last), last, v + 1, k, segs)
    BY <1>1, <1>3, <1>4, Zenon DEF InitDeleter
  <1>8. commits' \in Seq([gen : Gen, files : SUBSET File])
    <2>1. CASE indexExists
      <3>1. CommitPoint(loaded) \in [gen : Gen, files : SUBSET File]
        BY <2>1, <1>6, CommitPointType
      <3>2. commits' = <<CommitPoint(loaded)>>
        BY <2>1, <1>7, Zenon
      <3>. HIDE DEF loaded
      <3>. QED  BY <3>1, <3>2
    <2>2. CASE ~indexExists
      BY <2>2, <1>7
    <2>. QED  BY <2>1, <2>2
  <1>9. refCounts' \in [File -> Int]
    <2>1. NoRefs \in [File -> Int]
      BY DEF NoRefs
    <2>2. IncRef(NoRefs, Files(loaded, TRUE)) \in [File -> Int]
      BY <2>1, RefType
    <2>. QED  BY <1>7, <2>1, <2>2, RefType
  <1>10. lastFiles' \subseteq File
    BY <1>4, <1>7, FilesType
  <1>11. infos' \in SegmentInfos
    <2>1. PICK k \in InflatedCounters(start, IF indexExists THEN Files(loaded, TRUE) ELSE {}) :
             k <= MaxSeg + 1 /\ infos' = Infos(Larger(g, last), last, v + 1, k, segs)
      BY <1>7
    <2>2. k \in Nat
      <3>1. start.counter \in Nat
        BY <1>2 DEF Infos, SegName
      <3>. QED  BY <3>1, InflatedBound
    <2>3. Larger(g, last) \in Gen /\ v + 1 \in 0..MaxVersion /\ k \in 0..(MaxSeg + 1)
      BY <1>2, <2>1, <2>2 DEF Larger, Gen
    <2>. QED  BY <1>2, <2>1, <2>3, InfosType
  <1>12. dwpt' \in [name : SegName, docs : BOOLEAN]
    BY <1>1, <1>2 DEF Infos
  <1>13. changeCount' \in Nat
    BY <1>1 DEF Count
  <1>. QED
    BY <1>8, <1>9, <1>10, <1>11, <1>12, <1>13
    DEF NewIndexWriter, TypeInv, TypeOK, IsPartialFcn, directory

LEMMA ToCommitType ==
    ASSUME TypeOK, infos.version < MaxVersion, NEW g \in Gen
    PROVE  ToCommit(g) \in SegmentInfos /\ ToCommit(g).gen = g
  <1>1. infos.version + 1 \in 0..MaxVersion
    BY BoundsAssumption DEF TypeOK, SegmentInfos
  <1>2. infos.lastGen \in Gen /\ infos.counter \in 0..(MaxSeg + 1) /\ infos.segs \in SUBSET SegName
    BY DEF TypeOK, SegmentInfos
  <1>3. ToCommit(g) \in SegmentInfos
    BY <1>1, <1>2, InfosType DEF ToCommit
  <1>. QED  BY <1>3 DEF ToCommit, Infos

LEMMA PrepareType ==
    ASSUME TypeOK, Prepare
    PROVE  /\ UNCHANGED <<segments, data, stored, lastCommitChangeCount, commits, lastFiles, toDelete, dwpt, renameFaults, flushed>>
           /\ changeCount' \in Nat /\ pendingCommitChangeCount' \in Nat
           /\ refCounts' \in [File -> Int]
           /\ filesToCommit' \subseteq File
           /\ infos.version < MaxVersion /\ infos.gen \in Gen /\ infos.gen + 1 \in Gen
  <1>1. refCounts' \in [File -> Int]
    BY RefType DEF TypeOK, Prepare
  <1>2. filesToCommit' \subseteq File
    BY FilesType DEF TypeOK, Prepare
  <1>3. infos.gen \in Gen /\ infos.gen + 1 \in Gen
    BY BoundsAssumption DEF TypeOK, SegmentInfos, Gen, Prepare
  <1>4. changeCount' \in Nat /\ pendingCommitChangeCount' \in Nat
    BY DEF TypeOK, Prepare
  <1>. QED  BY <1>1, <1>2, <1>3, <1>4 DEF Prepare

LEMMA ReturnedType ==
    ASSUME TypeOK
    PROVE  Returned \in {"idle", "flush"}
  BY DEF Returned

(* The commits left by the deletion policy are the last of those registered. *)
LEMMA CheckpointType ==
    ASSUME TypeInv, Checkpoint
    PROVE  TypeInv'
  <1>. DEFINE cp == CommitPoint(pendingCommit)
              cs == Append(commits, cp)
              n == OnCommit(cs)
              rc == IncRef(refCounts, cp.files)
  <1>1. /\ pc' = "delete" /\ pc = "checkpoint"
        /\ refCounts' = DropRefs(rc, cs, n)
        /\ toDelete' = DropFiles(rc, cs, n)
        /\ commits' = SubSeq(cs, n + 1, Len(cs))
        /\ UNCHANGED <<segments, pending, data, stored, infos, changeCount, lastCommitChangeCount,
                       pendingCommitChangeCount, pendingCommit, filesToCommit, lastFiles,
                       closing, dwpt, renameFaults, flushed>>
    BY DEF Checkpoint, directory, counts
  <1>2. cp \in [gen : Gen, files : SUBSET File]
    BY CommitPointType DEF TypeInv, TypeOK
  <1>3. cs \in Seq([gen : Gen, files : SUBSET File]) /\ Len(cs) = Len(commits) + 1
          /\ Len(commits) \in Nat
    <2>. HIDE DEF cp
    <2>. QED  BY <1>2 DEF TypeInv, TypeOK
  <1>4. n = Len(commits) /\ n \in Nat
    BY <1>3 DEF OnCommit
  <1>5. rc \in [File -> Int]
    BY RefType DEF TypeInv, TypeOK
  <1>. HIDE DEF cs, n, rc
  <1>6. DropRefs(rc, cs, n) \in [File -> Int]
    BY <1>4, <1>5, DropsType DEF DropRefs
  <1>7. DropFiles(rc, cs, n) \subseteq File
    BY DEF DropFiles
  <1>8. SubSeq(cs, n + 1, Len(cs)) \in Seq([gen : Gen, files : SUBSET File])
    <2>1. n + 1 \in Int /\ Len(cs) \in Int
          /\ \A i \in (n + 1)..Len(cs) : cs[i] \in [gen : Gen, files : SUBSET File]
      <3>. DEFINE T == [gen : Gen, files : SUBSET File]
      <3>1. cs \in Seq(T) /\ n \in Nat /\ Len(cs) \in Nat
        BY <1>3, <1>4
      <3>. HIDE DEF T
      <3>2. \A i \in (n + 1)..Len(cs) : cs[i] \in T
        BY <3>1
      <3>. QED  BY <3>1, <3>2 DEF T
    <2>. QED  BY <2>1, SubSeqProperties
  <1>. QED  BY <1>1, <1>6, <1>7, <1>8 DEF TypeInv, TypeOK, IsPartialFcn

LEMMA TypeStep ==
    ASSUME TypeInv, [Next]_vars
    PROVE  TypeInv'
  <1>. USE BoundsAssumption
  <1>1. ASSUME NEW mode \in OpenModes, NEW at \in IndexCommits, NewIndexWriter(mode, at)
        PROVE  TypeInv'
    BY <1>1, NewIndexWriterType
  <1>2. CASE AddDocument
    BY <1>2 DEF AddDocument, CreateStoredFields, counts, deleter, TypeInv, TypeOK, IsPartialFcn
  <1>3. CASE Commit
    BY <1>3 DEF Commit, directory, counts, deleter, TypeInv, TypeOK, IsPartialFcn
  <1>4. CASE Close
    BY <1>4 DEF Close, directory, counts, deleter, TypeInv, TypeOK, IsPartialFcn
  <1>5. CASE PrepareNothing
    <2>1. IncRef(refCounts, Files(infos, FALSE)) \in [File -> Int]
      BY RefType DEF TypeInv, TypeOK
    <2>2. refCounts' \in [File -> Int]
      BY <1>5, <2>1, RefType DEF PrepareNothing
    <2>3. data' \subseteq SegName
      BY <1>5 DEF PrepareNothing, WithoutFiles, TypeInv, TypeOK
    <2>. QED  BY <1>5, <2>2, <2>3, ReturnedType DEF PrepareNothing, TypeInv, TypeOK, IsPartialFcn
  <1>6. CASE PrepareCommit
    <2>. DEFINE next == ToCommit(infos.gen + 1)
    <2>1. next \in SegmentInfos /\ next.gen \in Gen
      BY <1>6, PrepareType, ToCommitType DEF PrepareCommit, TypeInv
    <2>2. IsPartialFcn(pending', Gen, Contents)
      BY <1>6, <2>1 DEF PrepareCommit, TypeInv, TypeOK, IsPartialFcn, Contents, SegmentInfos
    <2>3. infos' = next /\ pendingCommit' = next /\ pc' = "finish" /\ closing' = closing
      BY <1>6 DEF PrepareCommit
    <2>4. next # NoCommit
      BY <1>6, PrepareType DEF PrepareCommit, ToCommit, NoCommit, Infos, Gen, TypeInv
    <2>. HIDE DEF next
    <2>. QED  BY <1>6, <2>1, <2>2, <2>3, <2>4, PrepareType DEF PrepareCommit, TypeInv, TypeOK, IsPartialFcn
  <1>7. CASE PrepareCommitFails
    <2>1. infos' \in SegmentInfos
      BY <1>7, PrepareType, ToCommitType DEF PrepareCommitFails, TypeInv
    <2>. QED  BY <1>7, <2>1, PrepareType DEF PrepareCommitFails, Failed, TypeInv, TypeOK, IsPartialFcn
  <1>8. CASE ResumeCommit
    BY <1>8 DEF ResumeCommit, directory, counts, deleter, TypeInv, TypeOK, IsPartialFcn
  <1>9. CASE FinishDecRef
    <2>1. refCounts' \in [File -> Int]
      BY <1>9, RefType DEF FinishDecRef, TypeInv, TypeOK
    <2>2. data' \subseteq SegName
      BY <1>9 DEF FinishDecRef, WithoutFiles, TypeInv, TypeOK
    <2>. QED  BY <1>9, <2>1, <2>2 DEF FinishDecRef, counts, TypeInv, TypeOK, IsPartialFcn
  <1>10. CASE RenamePending
    <2>1. IsPartialFcn(segments', Gen, Contents) /\ IsPartialFcn(pending', Gen, Contents)
      BY <1>10 DEF RenamePending, TypeInv, TypeOK, IsPartialFcn
    <2>. QED  BY <1>10, <2>1 DEF RenamePending, counts, deleter, TypeInv, TypeOK
  <1>11. CASE RenameFails
    BY <1>11 DEF RenameFails, Failed, directory, counts, deleter, TypeInv, TypeOK, IsPartialFcn
  <1>12. CASE Checkpoint
    BY <1>12, CheckpointType
  <1>13. ASSUME NEW f \in File, DeleteFile(f)
         PROVE  TypeInv'
    <2>1. IsPartialFcn(segments', Gen, Contents)
      BY <1>13 DEF DeleteFile, TypeInv, TypeOK, IsPartialFcn
    <2>2. data' \subseteq SegName
      BY <1>13 DEF DeleteFile, WithoutFiles, TypeInv, TypeOK
    <2>. QED  BY <1>13, <2>1, <2>2 DEF DeleteFile, counts, deleter, TypeInv, TypeOK, IsPartialFcn
  <1>14. CASE FinishCommit
    <2>1. infos' \in SegmentInfos
      BY <1>14 DEF FinishCommit, Infos, SegmentInfos, TypeInv, TypeOK
    <2>2. NoCommit \in SegmentInfos
      BY InfosType DEF NoCommit, Infos, SegmentInfos, Gen
    <2>. QED  BY <1>14, <2>1, <2>2, ReturnedType DEF FinishCommit, directory, deleter, TypeInv, TypeOK, IsPartialFcn
  <1>15. CASE FlushOnClose
    <2>1. data' \subseteq SegName /\ flushed' \subseteq SegName
      BY <1>15 DEF FlushOnClose, TypeInv, TypeOK
    <2>. QED  BY <1>15, <2>1, DropWriterType DEF FlushOnClose, TypeInv
  <1>16. CASE Crash
    BY <1>16, DropWriterType DEF Crash, directory, TypeInv, TypeOK
  <1>17. CASE UNCHANGED vars
    BY <1>17 DEF vars, TypeInv, TypeOK, IsPartialFcn
  <1>. QED
    BY <1>1, <1>2, <1>3, <1>4, <1>5, <1>6, <1>7, <1>8, <1>9, <1>10, <1>11, <1>12, <1>13, <1>14,
       <1>15, <1>16, <1>17 DEF Next

LEMMA TypeInit == Init => TypeInv
  <1>. SUFFICES ASSUME Init PROVE TypeInv
    OBVIOUS
  <1>1. PICK idx \in InitialIndexes : segments = idx.segments /\ data = idx.data /\ stored = idx.data
    BY DEF Init
  <1>2. IsPartialFcn(segments, Gen, Contents) /\ data \subseteq SegName /\ stored \subseteq SegName
    BY <1>1, InitialIndexesAssumption DEF WellFormed, IsPartialFcn
  <1>3. NoCommit \in SegmentInfos /\ NoRefs \in [File -> Int] /\ 0 \in SegName
    BY BoundsAssumption DEF NoCommit, Infos, SegmentInfos, Gen, NoRefs, SegName
  <1>4. IsPartialFcn(pending, Gen, Contents)
    BY DEF Init, IsPartialFcn
  <1>. QED
    BY <1>2, <1>3, <1>4, BoundsAssumption DEF Init, NoWriter, TypeInv, TypeOK

(* Whatever the open modes, the IndexCommits and the bounds, the directory,   *)
(* the writer and its deleter stay well typed through every commit, failed    *)
(* rename, deletion, crash and reopen.                                        *)
THEOREM TypeCorrect == Spec => []TypeOK
  <1>1. TypeInv /\ [Next]_vars => TypeInv'
    BY TypeStep
  <1>2. TypeInv => TypeOK
    BY DEF TypeInv
  <1>. QED  BY TypeInit, <1>1, <1>2, PTL DEF Spec

------------------------------------------------------------------------------
(* The generations, versions and segment names of the commits a directory     *)
(* holds, for every bound, any number of failed renames and any crash.        *)

(* The directory between two steps of the writer. *)
DiskInv ==
    /\ 0 \notin DOMAIN segments
    /\ \A g, h \in DOMAIN segments : g < h =>
          /\ segments[g].version < segments[h].version
          /\ segments[g].counter <= segments[h].counter
    /\ \A s \in data : \E g \in DOMAIN segments : s < segments[g].counter

(* The writer's commit is in the directory; it writes no other. *)
Published == lastCommitChangeCount # 0 \/ pc \in {"checkpoint", "delete"}

NoneNewer == \A g \in DOMAIN segments : g <= infos.gen
Ahead == \A g \in DOMAIN segments : /\ segments[g].version < infos.version
                                    /\ segments[g].counter < infos.counter
OnNewest(g) == g \in DOMAIN segments \/ (g = 0 /\ DOMAIN segments = {})
ToWrite(sis) == [version |-> sis.version, counter |-> sis.counter, segs |-> sis.segs]
Prepared ==
    /\ infos.gen \in DOMAIN pending
    /\ infos.gen # 0
    /\ pending[infos.gen] = ToWrite(infos)
    /\ infos.gen \notin DOMAIN segments
    /\ OnNewest(infos.gen - 1)

Session ==
    /\ NoneNewer
    /\ ~Published => Ahead
    /\ Published => /\ infos.gen \in DOMAIN segments
                    /\ infos.counter <= segments[infos.gen].counter
    /\ ~Published /\ pendingCommit = NoCommit => OnNewest(infos.gen)
    /\ ~Published /\ pendingCommit # NoCommit => Prepared
    /\ pendingCommit # NoCommit => /\ pendingCommit = infos
                                   /\ lastCommitChangeCount = 0
                                   /\ pendingCommitChangeCount = changeCount
    /\ pc = "flush" => Published
    /\ changeCount > 0
    /\ lastCommitChangeCount # 0 => lastCommitChangeCount = changeCount
    /\ infos.version > 0
    /\ dwpt.name < infos.counter
    /\ dwpt.name \notin data
NoSession ==
    /\ pendingCommit = NoCommit /\ lastCommitChangeCount = 0
    /\ filesToCommit = {} /\ toDelete = {}
SessionInv == IF pc = "none" THEN NoSession ELSE Session

(* Only data files are counted down to zero: every registered commit names    *)
(* the segments file the session started from, and so does the next.          *)
SegmentsFilesKept ==
    /\ \A f \in filesToCommit \cup lastFiles \cup toDelete : f[1] = "data"
    /\ pc # "none" => \A g \in Gen :
          /\ refCounts[SegmentsFile(g)] = Drops(commits, Len(commits), SegmentsFile(g))
          /\ \A i \in 1..Len(commits) : SegmentsFile(g) \in commits[i].files => g = infos.lastGen

IInv == TypeInv /\ DiskInv /\ SessionInv /\ SegmentsFilesKept

-----------------------------------------------------------------------------
(* A name of base-36 digits that reads back as itself has one digit, and any  *)
(* name that reads back as no more than it is no later generation.            *)
LEMMA ReadableName ==
    ASSUME NEW L \in Nat, NEW h \in Nat, L < 36 * 36 * 36, h < 36 * 36 * 36,
           Parses(L), ParseGeneration(L) = L, Parses(h), ParseGeneration(h) <= L
    PROVE  h <= L
  BY DEF Parses, ParseGeneration, Digit

LEMMA SameName ==
    ASSUME NEW L \in Nat, NEW h \in Nat, L < 36 * 36 * 36, h < 36 * 36 * 36,
           Parses(L), ParseGeneration(L) = L, Parses(h), ParseGeneration(h) = L
    PROVE  h = L
  BY DEF Parses, ParseGeneration, Digit

LEMMA LastCommitIsNewest ==
    ASSUME TypeOK, NEW g \in LastCommits
    PROVE  g \in DOMAIN segments /\ \A h \in DOMAIN segments : h <= g
  <1>1. g \in Gen /\ CanRead(g) /\ IsLastCommitGeneration(g)
    BY DEF LastCommits
  <1>2. \A h \in Gen : h \in Nat /\ h < 36 * 36 * 36
    BY NameAssumption, BoundsAssumption DEF Gen
  <1>3. ASSUME NEW h \in DOMAIN segments PROVE h <= g
    <2>1. h \in Gen
      BY DEF TypeOK, IsPartialFcn
    <2>. QED  BY <1>1, <1>2, <2>1, ReadableName DEF CanRead, IsLastCommitGeneration
  <1>. QED  BY <1>1, <1>3 DEF CanRead

-----------------------------------------------------------------------------
LEMMA InvInit == Init => IInv
  <1>. SUFFICES ASSUME Init PROVE IInv
    OBVIOUS
  <1>1. PICK idx \in InitialIndexes : segments = idx.segments /\ data = idx.data
    BY DEF Init
  <1>2. DiskInv
    BY <1>1, InitialIndexesAssumption DEF WellFormed, IsPartialFcn, DiskInv
  <1>3. SessionInv
    BY DEF Init, NoWriter, SessionInv, Session, NoSession
  <1>4. SegmentsFilesKept
    BY DEF Init, NoWriter, SegmentsFilesKept
  <1>. QED  BY <1>2, <1>3, <1>4, TypeInit DEF IInv

LEMMA DataFilesOnly ==
    ASSUME NEW sis, NEW f \in Files(sis, FALSE)
    PROVE  f[1] = "data"
  BY DEF Files, DataFile

LEMMA SegmentsFileType ==
    ASSUME NEW g \in Gen
    PROVE  SegmentsFile(g) \in File /\ SegmentsFile(g)[1] # "data"
  BY DEF SegmentsFile, File

(* The reference counts of the segments files only change with the commits. *)
LEMMA OtherRefs ==
    ASSUME TypeOK, NEW files, \A f \in files : f[1] = "data", NEW g \in Gen,
           NEW rc \in [File -> Int]
    PROVE  /\ IncRef(rc, files)[SegmentsFile(g)] = rc[SegmentsFile(g)]
           /\ DecRef(rc, files)[SegmentsFile(g)] = rc[SegmentsFile(g)]
  BY SegmentsFileType DEF IncRef, DecRef, Count

LEMMA CallsKeepInv ==
    ASSUME IInv, AddDocument \/ Commit \/ Close \/ ResumeCommit \/ RenameFails
    PROVE  DiskInv' /\ SessionInv' /\ SegmentsFilesKept'
  <1>1. /\ UNCHANGED <<segments, data, pending, infos, changeCount, lastCommitChangeCount,
                       pendingCommitChangeCount, pendingCommit, filesToCommit, refCounts, commits,
                       lastFiles, toDelete>>
        /\ dwpt'.name = dwpt.name
        /\ pc # "none" /\ pc \notin {"checkpoint", "delete", "flush"}
        /\ pc' \notin {"none", "checkpoint", "delete", "flush"}
    BY DEF AddDocument, Commit, Close, ResumeCommit, RenameFails, Failed, directory, counts, deleter,
           IInv, TypeInv, TypeOK
  <1>2. DiskInv'
    BY <1>1 DEF DiskInv, IInv
  <1>3. SessionInv'
    BY <1>1 DEF SessionInv, Session, NoSession, IInv, Published, NoneNewer, Ahead, OnNewest, Prepared, ToWrite
  <1>4. SegmentsFilesKept'
    BY <1>1 DEF SegmentsFilesKept, IInv
  <1>. QED  BY <1>2, <1>3, <1>4

LEMMA PrepareNothingKeepsInv ==
    ASSUME IInv, PrepareNothing
    PROVE  DiskInv' /\ SessionInv' /\ SegmentsFilesKept'
  <1>. DEFINE files == Files(infos, FALSE)
              rc == IncRef(refCounts, files)
  <1>1. /\ UNCHANGED <<segments, pending, infos, changeCount, lastCommitChangeCount, pendingCommit,
                       commits, lastFiles, toDelete, dwpt>>
        /\ data' \subseteq data
        /\ pc = "commit" /\ pendingCommit = NoCommit
        /\ changeCount = lastCommitChangeCount
        /\ pc' \in {"idle", "flush"}
        /\ filesToCommit' = {}
        /\ refCounts' = DecRef(rc, files)
    BY ReturnedType DEF PrepareNothing, AnyChange, WithoutFiles, IInv, TypeInv
  <1>2. DiskInv'
    BY <1>1 DEF DiskInv, IInv
  <1>3. SessionInv'
    BY <1>1 DEF SessionInv, Session, NoSession, IInv, Published, NoneNewer
  <1>4. ASSUME NEW g \in Gen PROVE refCounts'[SegmentsFile(g)] = refCounts[SegmentsFile(g)]
    <2>1. rc \in [File -> Int] /\ refCounts \in [File -> Int] /\ TypeOK
      BY RefType DEF IInv, TypeInv, TypeOK
    <2>2. \A f \in files : f[1] = "data"
      BY DataFilesOnly
    <2>. HIDE DEF files
    <2>. QED  BY <1>1, <2>1, <2>2, OtherRefs
  <1>5. SegmentsFilesKept'
    BY <1>1, <1>4 DEF SegmentsFilesKept, IInv
  <1>. QED  BY <1>2, <1>3, <1>5

LEMMA PrepareKeepsRefs ==
    ASSUME IInv, Prepare, infos'.lastGen = infos.lastGen
    PROVE  SegmentsFilesKept'
  <1>1. /\ UNCHANGED <<commits, lastFiles, toDelete>>
        /\ pc = "commit"
        /\ filesToCommit' = Files(infos, FALSE)
        /\ refCounts' = IncRef(refCounts, Files(infos, FALSE))
    BY DEF Prepare
  <1>2. \A f \in Files(infos, FALSE) : f[1] = "data"
    BY DataFilesOnly
  <1>3. ASSUME NEW g \in Gen PROVE refCounts'[SegmentsFile(g)] = refCounts[SegmentsFile(g)]
    BY <1>1, <1>2, OtherRefs DEF IInv, TypeInv, TypeOK
  <1>. QED  BY <1>1, <1>2, <1>3 DEF SegmentsFilesKept, IInv

LEMMA PrepareState ==
    ASSUME IInv, Prepare
    PROVE  /\ UNCHANGED <<segments, data, lastCommitChangeCount, dwpt>>
           /\ pc = "commit" /\ pendingCommit = NoCommit
           /\ lastCommitChangeCount = 0
           /\ changeCount' > 0 /\ pendingCommitChangeCount' = changeCount'
           /\ NoneNewer /\ Ahead /\ OnNewest(infos.gen)
           /\ dwpt.name < infos.counter /\ dwpt.name \notin data
           /\ infos.version < MaxVersion /\ infos.gen < MaxGen
  BY DEF Prepare, AnyChange, IInv, TypeInv, TypeOK, SessionInv, Session, NoSession, Published

LEMMA PrepareCommitKeepsInv ==
    ASSUME IInv, PrepareCommit
    PROVE  DiskInv' /\ SessionInv' /\ SegmentsFilesKept'
  <1>1. Prepare /\ pc' = "finish"
    BY DEF PrepareCommit
  <1>2. /\ infos'.gen = infos.gen + 1 /\ infos'.lastGen = infos.lastGen
        /\ infos'.version = infos.version + 1
        /\ infos'.counter = infos.counter /\ infos'.segs = infos.segs
        /\ pendingCommit' = infos'
    BY DEF PrepareCommit, ToCommit, Infos
  <1>3. infos'.gen \in DOMAIN pending' /\ pending'[infos'.gen] = ToWrite(infos')
    BY <1>2 DEF PrepareCommit, ToWrite
  <1>4. infos.gen \in Nat /\ infos.version \in Nat /\ infos.counter \in Nat
    BY BoundsAssumption DEF IInv, TypeInv, TypeOK, SegmentInfos, Gen
  <1>5. \A g \in DOMAIN segments : g \in Nat /\ segments[g].version \in Nat
    BY BoundsAssumption DEF IInv, TypeInv, TypeOK, IsPartialFcn, Contents, Gen
  <1>6. DiskInv'
    BY <1>1, PrepareState DEF DiskInv, IInv
  <1>7. NoneNewer' /\ Ahead'
    BY <1>1, <1>2, <1>4, <1>5, PrepareState DEF NoneNewer, Ahead
  <1>8. Prepared'
    <2>1. infos'.gen \notin DOMAIN segments
      BY <1>1, <1>2, <1>4, <1>5, PrepareState DEF NoneNewer
    <2>2. infos'.gen - 1 = infos.gen /\ infos'.gen # 0
      BY <1>2, <1>4
    <2>3. OnNewest(infos.gen - 1)'
      BY <1>1, <2>2, PrepareState DEF OnNewest
    <2>. QED  BY <1>1, <1>3, <2>1, <2>2, <2>3, PrepareState DEF Prepared
  <1>9. SessionInv'
    <2>1. pc' = "finish" /\ pendingCommit' = infos' /\ lastCommitChangeCount' = 0
          /\ changeCount' > 0 /\ pendingCommitChangeCount' = changeCount'
          /\ dwpt'.name < infos'.counter /\ dwpt'.name \notin data' /\ infos'.version > 0
      BY <1>1, <1>2, <1>4, PrepareState
    <2>2. pendingCommit' # NoCommit
      BY <1>2, <1>4 DEF NoCommit, Infos
    <2>. QED  BY <1>7, <1>8, <2>1, <2>2 DEF SessionInv, Session, NoSession, Published
  <1>. QED  BY <1>1, <1>2, <1>6, <1>9, PrepareKeepsRefs

LEMMA PrepareCommitFailsKeepsInv ==
    ASSUME IInv, PrepareCommitFails
    PROVE  DiskInv' /\ SessionInv' /\ SegmentsFilesKept'
  <1>1. Prepare /\ pc' = "idle" /\ UNCHANGED <<pending, pendingCommit>>
    BY DEF PrepareCommitFails, Failed
  <1>2. /\ infos'.gen = infos.gen /\ infos'.lastGen = infos.lastGen
        /\ infos'.version = infos.version + 1
        /\ infos'.counter = infos.counter
    BY DEF PrepareCommitFails, ToCommit, Infos
  <1>3. infos.version \in Nat /\ \A g \in DOMAIN segments : segments[g].version \in Nat
    BY BoundsAssumption DEF IInv, TypeInv, TypeOK, SegmentInfos, IsPartialFcn, Contents
  <1>4. DiskInv'
    BY <1>1, PrepareState DEF DiskInv, IInv
  <1>5. NoneNewer' /\ Ahead' /\ OnNewest(infos.gen)'
    BY <1>1, <1>2, <1>3, PrepareState DEF NoneNewer, Ahead, OnNewest
  <1>6. SessionInv'
    BY <1>1, <1>2, <1>3, <1>5, PrepareState DEF SessionInv, Session, NoSession, Published, OnNewest
  <1>. QED  BY <1>1, <1>2, <1>4, <1>6, PrepareKeepsRefs

LEMMA FinishDecRefKeepsInv ==
    ASSUME IInv, FinishDecRef
    PROVE  DiskInv' /\ SessionInv' /\ SegmentsFilesKept'
  <1>1. /\ UNCHANGED <<segments, pending, infos, changeCount, lastCommitChangeCount, pendingCommitChangeCount,
                       pendingCommit, filesToCommit, commits, lastFiles, toDelete, dwpt>>
        /\ data' \subseteq data
        /\ pc = "finish" /\ pc' = "rename"
        /\ refCounts' = DecRef(refCounts, filesToCommit)
    BY DEF FinishDecRef, counts, WithoutFiles
  <1>2. DiskInv'
    BY <1>1 DEF DiskInv, IInv
  <1>3. SessionInv'
    BY <1>1 DEF SessionInv, Session, NoSession, IInv, Published, NoneNewer, Ahead, Prepared, OnNewest, ToWrite
  <1>4. ASSUME NEW g \in Gen PROVE refCounts'[SegmentsFile(g)] = refCounts[SegmentsFile(g)]
    BY <1>1, OtherRefs DEF SegmentsFilesKept, IInv, TypeInv, TypeOK
  <1>5. SegmentsFilesKept'
    BY <1>1, <1>4 DEF SegmentsFilesKept, IInv
  <1>. QED  BY <1>2, <1>3, <1>5

(* The rename publishes the next generation, with the larger version and the  *)
(* larger counter.                                                            *)
LEMMA RenameState ==
    ASSUME IInv, RenamePending
    PROVE  /\ infos.gen \notin DOMAIN segments
           /\ OnNewest(infos.gen - 1)
           /\ Ahead /\ NoneNewer
           /\ segments' = [h \in DOMAIN segments \cup {infos.gen} |->
                              IF h = infos.gen THEN ToWrite(infos) ELSE segments[h]]
           /\ pendingCommit = infos /\ pendingCommit # NoCommit
           /\ lastCommitChangeCount = 0
  <1>1. pc = "rename" /\ pendingCommit # NoCommit
    BY DEF RenamePending, IInv, TypeInv
  <1>2. lastCommitChangeCount = 0 /\ pendingCommit = infos
    BY <1>1 DEF IInv, SessionInv, Session, NoSession
  <1>3. ~Published
    BY <1>1, <1>2 DEF Published
  <1>4. Prepared /\ Ahead /\ NoneNewer
    BY <1>1, <1>3 DEF IInv, SessionInv, Session, NoSession
  <1>. QED  BY <1>1, <1>2, <1>4 DEF RenamePending, Prepared

LEMMA RenamePendingKeepsInv ==
    ASSUME IInv, RenamePending
    PROVE  DiskInv' /\ SessionInv' /\ SegmentsFilesKept'
  <1>1. /\ UNCHANGED <<data, infos, changeCount, lastCommitChangeCount, pendingCommitChangeCount,
                       pendingCommit, filesToCommit, refCounts, commits, lastFiles, toDelete, dwpt>>
        /\ pc = "rename" /\ pc' = "checkpoint"
    BY DEF RenamePending, counts, deleter
  <1>2. /\ DOMAIN segments' = DOMAIN segments \cup {infos.gen}
        /\ \A h \in DOMAIN segments : segments'[h] = segments[h]
        /\ segments'[infos.gen].version = infos.version
        /\ segments'[infos.gen].counter = infos.counter
    BY RenameState DEF ToWrite
  <1>3. infos.gen \in Nat /\ infos.version \in Nat /\ infos.counter \in Nat
    BY BoundsAssumption DEF IInv, TypeInv, TypeOK, SegmentInfos, Gen
  <1>4. \A g \in DOMAIN segments : g \in Nat /\ segments[g].version \in Nat /\ segments[g].counter \in Nat
    BY BoundsAssumption DEF IInv, TypeInv, TypeOK, IsPartialFcn, Contents, Gen
  <1>5. infos.gen # 0
    BY RenameState, <1>1 DEF IInv, SessionInv, Session, NoSession, Published, Prepared
  <1>6. \A g \in DOMAIN segments : g < infos.gen /\ segments[g].version < infos.version
                                  /\ segments[g].counter < infos.counter
    BY <1>3, <1>4, RenameState DEF NoneNewer, Ahead
  <1>7. DiskInv'
    <2>1. 0 \notin DOMAIN segments'
      BY <1>2, <1>5 DEF DiskInv, IInv
    <2>2. ASSUME NEW g \in DOMAIN segments', NEW h \in DOMAIN segments', g < h
          PROVE  segments'[g].version < segments'[h].version /\ segments'[g].counter <= segments'[h].counter
      <3>1. CASE h = infos.gen
        <4>1. g \in DOMAIN segments
          BY <1>2, <1>3, <2>2, <3>1
        <4>. QED  BY <1>2, <1>3, <1>4, <1>6, <3>1, <4>1
      <3>2. CASE h # infos.gen
        <4>1. h \in DOMAIN segments /\ g \in DOMAIN segments
          BY <1>2, <1>3, <1>4, <1>6, <2>2, <3>2
        <4>. QED  BY <1>2, <2>2, <4>1 DEF DiskInv, IInv
      <3>. QED  BY <3>1, <3>2
    <2>3. \A s \in data' : \E g \in DOMAIN segments' : s < segments'[g].counter
      BY <1>1, <1>2 DEF DiskInv, IInv
    <2>. QED  BY <2>1, <2>2, <2>3 DEF DiskInv
  <1>8. SessionInv'
    <2>1. NoneNewer'
      BY <1>1, <1>2, <1>3, <1>4, <1>6 DEF NoneNewer
    <2>2. infos'.gen \in DOMAIN segments' /\ infos'.counter <= segments'[infos'.gen].counter
      BY <1>1, <1>2, <1>3
    <2>. QED  BY <1>1, <2>1, <2>2 DEF SessionInv, Session, NoSession, IInv, Published
  <1>9. SegmentsFilesKept'
    BY <1>1 DEF SegmentsFilesKept, IInv
  <1>. QED  BY <1>7, <1>8, <1>9

LEMMA DeleteFileKeepsInv ==
    ASSUME IInv, NEW f \in File, DeleteFile(f)
    PROVE  DiskInv' /\ SessionInv' /\ SegmentsFilesKept' /\ segments' = segments
  <1>1. /\ UNCHANGED <<pending, pc, infos, changeCount, lastCommitChangeCount, pendingCommitChangeCount,
                       pendingCommit, filesToCommit, refCounts, commits, lastFiles, dwpt>>
        /\ data' \subseteq data
        /\ toDelete' \subseteq toDelete
        /\ f \in toDelete
        /\ segments' = [g \in {h \in DOMAIN segments : SegmentsFile(h) # f} |-> segments[g]]
    BY DEF DeleteFile, counts, deleter, WithoutFiles
  <1>2. f[1] = "data"
    BY <1>1 DEF SegmentsFilesKept, IInv
  <1>3. {h \in DOMAIN segments : SegmentsFile(h) # f} = DOMAIN segments
    BY <1>2 DEF SegmentsFile
  <1>4. segments' = segments
    BY <1>1, <1>3 DEF IInv, TypeInv, TypeOK, IsPartialFcn
  <1>5. DiskInv'
    BY <1>1, <1>4 DEF DiskInv, IInv
  <1>6. SessionInv'
    BY <1>1, <1>4 DEF SessionInv, Session, NoSession, IInv, Published, NoneNewer, Ahead, Prepared, OnNewest, ToWrite
  <1>7. SegmentsFilesKept'
    BY <1>1 DEF SegmentsFilesKept, IInv
  <1>. QED  BY <1>4, <1>5, <1>6, <1>7

LEMMA FinishCommitKeepsInv ==
    ASSUME IInv, FinishCommit
    PROVE  DiskInv' /\ SessionInv' /\ SegmentsFilesKept'
  <1>1. /\ UNCHANGED <<segments, pending, data, changeCount, pendingCommitChangeCount, refCounts, commits,
                       lastFiles, toDelete, dwpt>>
        /\ pc = "delete" /\ pc' \in {"idle", "flush"}
        /\ lastCommitChangeCount' = pendingCommitChangeCount
        /\ pendingCommit' = NoCommit /\ filesToCommit' = {}
        /\ infos' = Infos(pendingCommit.gen, pendingCommit.lastGen, infos.version, infos.counter, infos.segs)
    BY ReturnedType DEF FinishCommit, directory, deleter, IInv, TypeInv
  <1>2. pendingCommit = infos /\ pendingCommitChangeCount = changeCount /\ changeCount > 0
    BY <1>1 DEF IInv, TypeInv, SessionInv, Session, NoSession
  <1>3. /\ infos'.gen = infos.gen /\ infos'.lastGen = infos.lastGen
        /\ infos'.counter = infos.counter /\ infos'.version = infos.version
    BY <1>1, <1>2 DEF Infos
  <1>4. DiskInv'
    BY <1>1 DEF DiskInv, IInv
  <1>5. changeCount # 0
    BY <1>2 DEF IInv, TypeInv, TypeOK
  <1>6. SessionInv'
    BY <1>1, <1>2, <1>3, <1>5 DEF SessionInv, Session, NoSession, IInv, Published, NoneNewer
  <1>7. SegmentsFilesKept'
    BY <1>1, <1>3 DEF SegmentsFilesKept, IInv
  <1>. QED  BY <1>4, <1>6, <1>7

LEMMA DropWriterKeepsInv ==
    ASSUME DiskInv', DropWriter
    PROVE  DiskInv' /\ SessionInv' /\ SegmentsFilesKept'
  BY DEF DropWriter, SessionInv, Session, NoSession, SegmentsFilesKept

LEMMA FlushKeepsInv ==
    ASSUME IInv, FlushOnClose
    PROVE  DiskInv' /\ SessionInv' /\ SegmentsFilesKept'
  <1>1. /\ pc = "flush" /\ data' \subseteq data \cup {dwpt.name}
        /\ UNCHANGED segments
        /\ DropWriter
    BY DEF FlushOnClose
  <1>2. /\ infos.gen \in DOMAIN segments
        /\ infos.counter <= segments[infos.gen].counter
        /\ dwpt.name < infos.counter
    BY <1>1 DEF IInv, SessionInv, Session, NoSession
  <1>3. dwpt.name \in Nat /\ infos.counter \in Nat /\ segments[infos.gen].counter \in Nat
    BY <1>2, BoundsAssumption DEF IInv, TypeInv, TypeOK, IsPartialFcn, Contents, SegmentInfos, SegName
  <1>4. DiskInv'
    BY <1>1, <1>2, <1>3 DEF DiskInv, IInv
  <1>. QED  BY <1>1, <1>4, DropWriterKeepsInv

LEMMA DropsOfOne ==
    ASSUME NEW cs, Len(cs) = 1, NEW f
    PROVE  Drops(cs, Len(cs), f) = Count(f \in cs[1].files)
  <1>1. CASE f \in cs[1].files
    <2>1. {i \in 1..1 : f \in cs[i].files} = {1}
      BY <1>1
    <2>. QED  BY <1>1, <2>1, FS_Singleton DEF Drops, Count
  <1>2. CASE f \notin cs[1].files
    <2>1. {i \in 1..1 : f \in cs[i].files} = {}
      BY <1>2
    <2>. QED  BY <1>2, <2>1, FS_EmptySet DEF Drops, Count
  <1>. QED  BY <1>1, <1>2

LEMMA DropsOfNone ==
    ASSUME NEW f
    PROVE  Drops(<<>>, Len(<<>>), f) = 0
  <1>1. {i \in 1..0 : f \in <<>>[i].files} = {}
    OBVIOUS
  <1>. QED  BY <1>1, FS_EmptySet DEF Drops

LEMMA CommitPointNames ==
    ASSUME NEW sis, NEW g
    PROVE  SegmentsFile(g) \in CommitPoint(sis).files <=> g = sis.lastGen
  BY DEF CommitPoint, Files, SegmentsFile, DataFile

(* What Checkpoint leaves: the new commit point alone, one reference more for *)
(* each of its files and one less for each commit that named a file; a file   *)
(* is deleted when nothing else refers to it.                                 *)
LEMMA CheckpointState ==
    ASSUME IInv, Checkpoint
    PROVE  /\ pc' = "delete" /\ pc = "checkpoint" /\ pendingCommit = infos
           /\ UNCHANGED <<segments, pending, data, infos, changeCount, lastCommitChangeCount,
                          pendingCommitChangeCount, pendingCommit, filesToCommit, lastFiles,
                          closing, dwpt, renameFaults, flushed>>
           /\ Len(commits') = 1 /\ commits'[1] = CommitPoint(infos)
           /\ \A f \in File :
                /\ refCounts'[f] = refCounts[f] + Count(f \in CommitPoint(infos).files)
                                     - Drops(commits, Len(commits), f)
                /\ Drops(commits, Len(commits), f) \in Nat
           /\ toDelete' = {f \in File : refCounts[f] + Count(f \in CommitPoint(infos).files)
                                         \in 1..Drops(commits, Len(commits), f)}
  <1>. DEFINE cp == CommitPoint(pendingCommit)
              cs == Append(commits, cp)
              n == OnCommit(cs)
              rc == IncRef(refCounts, cp.files)
              T == [gen : Gen, files : SUBSET File]
  <1>1. /\ pc' = "delete" /\ pc = "checkpoint"
        /\ refCounts' = DropRefs(rc, cs, n)
        /\ toDelete' = DropFiles(rc, cs, n)
        /\ commits' = SubSeq(cs, n + 1, Len(cs))
        /\ UNCHANGED <<segments, pending, data, infos, changeCount, lastCommitChangeCount,
                       pendingCommitChangeCount, pendingCommit, filesToCommit, lastFiles,
                       closing, dwpt, renameFaults, flushed>>
    BY DEF Checkpoint, directory, counts
  <1>2. pendingCommit = infos
    BY <1>1 DEF IInv, TypeInv, SessionInv, Session, NoSession
  <1>3. commits \in Seq(T) /\ refCounts \in [File -> Int]
    BY DEF IInv, TypeInv, TypeOK
  <1>4. cp \in T
    BY CommitPointType DEF IInv, TypeInv, TypeOK
  <1>. HIDE DEF cp, T
  <1>5. /\ Len(commits) \in Nat /\ Len(cs) = Len(commits) + 1
        /\ \A i \in 1..Len(commits) : cs[i] = commits[i]
        /\ cs[Len(commits) + 1] = cp
        /\ cs \in Seq(T)
    BY <1>3, <1>4
  <1>6. n = Len(commits)
    BY <1>5 DEF OnCommit
  <1>. HIDE DEF cs, n
  <1>7. Len(commits') = 1 /\ commits'[1] = cp
    <2>. DEFINE m == Len(commits) + 1
    <2>1. commits' = SubSeq(cs, m, m) /\ m \in Int /\ cs[m] = cp
      BY <1>1, <1>5, <1>6
    <2>. HIDE DEF m
    <2>2. \A i \in m..m : cs[i] \in T
      BY <1>4, <2>1
    <2>3. /\ SubSeq(cs, m, m) \in Seq(T)
          /\ Len(SubSeq(cs, m, m)) = 1
          /\ SubSeq(cs, m, m)[1] = cs[m]
      BY <2>1, <2>2, SubSeqProperties
    <2>. QED  BY <2>1, <2>3
  <1>8. \A f : Drops(cs, n, f) = Drops(commits, Len(commits), f)
    <2>1. ASSUME NEW f
          PROVE  {i \in 1..Len(commits) : f \in cs[i].files} = {i \in 1..Len(commits) : f \in commits[i].files}
      BY <1>5
    <2>. QED  BY <1>6, <2>1 DEF Drops
  <1>9. \A f \in File : rc[f] = refCounts[f] + Count(f \in cp.files)
    BY DEF IncRef
  <1>10. \A f \in File : refCounts'[f] = rc[f] - Drops(commits, Len(commits), f)
    BY <1>1, <1>8 DEF DropRefs
  <1>11. toDelete' = {f \in File : rc[f] \in 1..Drops(commits, Len(commits), f)}
    BY <1>1, <1>8 DEF DropFiles
  <1>12. \A f \in File : Drops(commits, Len(commits), f) \in Nat
    BY <1>5, DropsType
  <1>13. cp = CommitPoint(infos)
    BY <1>2 DEF cp
  <1>14. \A f \in File : refCounts'[f] = refCounts[f] + Count(f \in cp.files) - Drops(commits, Len(commits), f)
    <2>1. \A f \in File : refCounts[f] \in Int /\ Count(f \in cp.files) \in Int
      BY <1>3 DEF Count
    <2>. HIDE DEF rc
    <2>. QED  BY <1>9, <1>10, <1>12, <2>1
  <1>15. toDelete' = {f \in File : refCounts[f] + Count(f \in cp.files) \in 1..Drops(commits, Len(commits), f)}
    BY <1>9, <1>11
  <1>. QED  BY <1>1, <1>2, <1>7, <1>12, <1>13, <1>14, <1>15, Zenon

LEMMA CheckpointKeepsInv ==
    ASSUME IInv, Checkpoint
    PROVE  DiskInv' /\ SessionInv' /\ SegmentsFilesKept'
  <1>. DEFINE cp == CommitPoint(infos)
  <1>1. /\ pc' = "delete" /\ pc = "checkpoint"
        /\ UNCHANGED <<segments, pending, data, infos, changeCount, lastCommitChangeCount,
                       pendingCommitChangeCount, pendingCommit, filesToCommit, lastFiles, dwpt>>
    BY CheckpointState
  <1>2. Len(commits') = 1 /\ commits'[1] = cp
    BY CheckpointState
  <1>3. ASSUME NEW f \in File
        PROVE  /\ refCounts'[f] = refCounts[f] + Count(f \in cp.files) - Drops(commits, Len(commits), f)
               /\ Drops(commits, Len(commits), f) \in Nat
               /\ f \in toDelete' => refCounts[f] + Count(f \in cp.files) \in 1..Drops(commits, Len(commits), f)
    BY CheckpointState
  <1>. HIDE DEF cp
  <1>4. ASSUME NEW g \in Gen
        PROVE  refCounts[SegmentsFile(g)] = Drops(commits, Len(commits), SegmentsFile(g))
    BY <1>1 DEF IInv, SegmentsFilesKept
  <1>5. ASSUME NEW g \in Gen
        PROVE  /\ refCounts'[SegmentsFile(g)] = Drops(commits', Len(commits'), SegmentsFile(g))
               /\ \A i \in 1..Len(commits') : SegmentsFile(g) \in commits'[i].files => g = infos'.lastGen
    <2>1. refCounts'[SegmentsFile(g)] = Count(SegmentsFile(g) \in cp.files)
      BY <1>3, <1>4, SegmentsFileType DEF Count
    <2>2. Drops(commits', Len(commits'), SegmentsFile(g)) = Count(SegmentsFile(g) \in cp.files)
      BY <1>2, DropsOfOne
    <2>3. \A i \in 1..Len(commits') : commits'[i] = cp
      BY <1>2
    <2>. QED  BY <1>1, <2>1, <2>2, <2>3, CommitPointNames DEF cp
  <1>6. ASSUME NEW f \in toDelete' PROVE f[1] = "data"
    <2>. SUFFICES ASSUME f[1] # "data" PROVE FALSE
      OBVIOUS
    <2>1. f \in File
      BY CheckpointState
    <2>2. PICK g \in Gen : f = SegmentsFile(g)
      BY <2>1 DEF File, SegmentsFile
    <2>3. /\ Drops(commits, Len(commits), f) + Count(f \in cp.files) \in 1..Drops(commits, Len(commits), f)
          /\ Drops(commits, Len(commits), f) \in Nat
      BY <1>3, <1>4, <2>1, <2>2
    <2>4. CASE f \in cp.files
      BY <2>3, <2>4 DEF Count
    <2>5. CASE f \notin cp.files
      <3>1. g # infos.lastGen
        BY <2>2, <2>5, CommitPointNames DEF cp
      <3>2. \A i \in 1..Len(commits) : f \notin commits[i].files
        BY <1>1, <2>2, <3>1 DEF IInv, SegmentsFilesKept
      <3>3. {i \in 1..Len(commits) : f \in commits[i].files} = {}
        BY <3>2
      <3>4. Drops(commits, Len(commits), f) = 0
        BY <3>3, FS_EmptySet DEF Drops
      <3>. QED  BY <2>3, <3>4
    <2>. QED  BY <2>4, <2>5
  <1>7. DiskInv'
    BY <1>1 DEF DiskInv, IInv
  <1>8. SessionInv'
    BY <1>1 DEF SessionInv, Session, NoSession, IInv, Published, NoneNewer, Ahead, Prepared, OnNewest, ToWrite
  <1>9. SegmentsFilesKept'
    BY <1>1, <1>5, <1>6 DEF SegmentsFilesKept, IInv
  <1>. QED  BY <1>7, <1>8, <1>9

(* A writer starts from the newest commit: no version and no counter on disk  *)
(* is larger than the ones it starts from.                                    *)
StartsFrom(sis, g, last, v, c, segs) ==
    /\ sis = Infos(g, last, v, c, segs)
    /\ OnNewest(g)
    /\ last <= g
    /\ \A h \in DOMAIN segments : h <= g /\ segments[h].version <= v /\ segments[h].counter <= c
    /\ segs = {} \/ (last \in DOMAIN segments /\ segs = segments[last].segs)

LEMMA NewestIsLargest ==
    ASSUME TypeOK, DiskInv, NEW g \in LastCommits
    PROVE  /\ g \in Gen /\ g \in Nat /\ segments[g].version \in Nat /\ segments[g].counter \in Nat
           /\ segments[g].segs \in SUBSET SegName
           /\ OnNewest(g)
           /\ \A h \in DOMAIN segments : /\ h <= g /\ h \in Gen
                                        /\ segments[h].version <= segments[g].version
                                        /\ segments[h].counter <= segments[g].counter
                                        /\ segments[h].segs \in SUBSET SegName
                                        /\ segments[h].version \in Nat
  <1>1. g \in DOMAIN segments /\ \A h \in DOMAIN segments : h <= g
    BY LastCommitIsNewest
  <1>2. \A h \in DOMAIN segments : /\ h \in Gen /\ h \in Nat
                                  /\ segments[h].version \in Nat /\ segments[h].counter \in Nat
                                  /\ segments[h].segs \in SUBSET SegName
    BY BoundsAssumption DEF TypeOK, IsPartialFcn, Contents, Gen
  <1>3. ASSUME NEW h \in DOMAIN segments
        PROVE  segments[h].version <= segments[g].version /\ segments[h].counter <= segments[g].counter
    <2>1. CASE h = g
      BY <1>1, <1>2, <2>1
    <2>2. CASE h # g
      <3>1. h < g
        BY <1>1, <1>2, <2>2
      <3>. QED  BY <1>1, <1>2, <3>1 DEF DiskInv
    <2>. QED  BY <2>1, <2>2
  <1>. QED  BY <1>1, <1>2, <1>3 DEF OnNewest

LEMMA StartState ==
    ASSUME TypeOK, DiskInv, NEW at \in Gen, NEW sis, sis \in CreateInfos \/ sis \in AppendInfos(at)
    PROVE  \E g \in Gen, last \in Gen, v \in Nat, c \in Nat, segs \in SUBSET SegName :
              StartsFrom(sis, g, last, v, c, segs)
  <1>. USE BoundsAssumption
  <1>1. CASE sis \in CreateInfos /\ IsIndexExists
    <2>1. PICK g \in LastCommits : sis = Infos(g, g, segments[g].version + 1, segments[g].counter, {})
      BY <1>1, Zenon DEF CreateInfos
    <2>2. StartsFrom(sis, g, g, segments[g].version + 1, segments[g].counter, {})
      BY <2>1, NewestIsLargest DEF StartsFrom
    <2>3. segments[g].version + 1 \in Nat /\ g \in Gen /\ segments[g].counter \in Nat
      BY NewestIsLargest
    <2>. QED  BY <2>2, <2>3, Zenon
  <1>2. CASE sis \in CreateInfos /\ ~IsIndexExists
    <2>1. sis = Infos(0, 0, 1, 0, {})
      BY <1>2 DEF CreateInfos
    <2>2. DOMAIN segments = {}
      <3>1. \A g \in DOMAIN segments : g \in Nat /\ g # 0 /\ ~(g > 0)
        BY <1>2 DEF IsIndexExists, TypeOK, IsPartialFcn, Gen, DiskInv
      <3>2. \A g \in DOMAIN segments : FALSE
        BY <3>1
      <3>. QED  BY <3>2, Zenon
    <2>3. StartsFrom(sis, 0, 0, 1, 0, {})
      BY <2>1, <2>2 DEF StartsFrom, OnNewest
    <2>4. 0 \in Gen
      BY DEF Gen
    <2>. QED  BY <2>3, <2>4
  <1>3. CASE sis \in AppendInfos(at) /\ at = 0
    <2>1. PICK g \in LastCommits : sis = Infos(g, g, segments[g].version, segments[g].counter, segments[g].segs)
      <3>1. sis \in {ReadCommit(h) : h \in LastCommits}
        BY <1>3, Zenon DEF AppendInfos
      <3>. QED  BY <3>1, Zenon DEF ReadCommit
    <2>2. StartsFrom(sis, g, g, segments[g].version, segments[g].counter, segments[g].segs)
      BY <2>1, NewestIsLargest, LastCommitIsNewest DEF StartsFrom
    <2>. QED  BY <2>2, NewestIsLargest, Zenon
  <1>4. CASE sis \in AppendInfos(at) /\ at # 0
    <2>1. PICK g \in LastCommits :
             /\ CanRead(at)
             /\ sis = Infos(g, at, segments[g].version + 1, segments[g].counter, segments[at].segs)
      <3>1. sis \in {Infos(h, at, segments[h].version + 1, segments[h].counter, segments[at].segs) :
                        h \in {h \in LastCommits : CanRead(at)}}
        BY <1>4, Zenon DEF AppendInfos
      <3>. QED  BY <3>1, Zenon
    <2>2. at \in DOMAIN segments
      BY <2>1 DEF CanRead
    <2>3. StartsFrom(sis, g, at, segments[g].version + 1, segments[g].counter, segments[at].segs)
      BY <2>1, <2>2, NewestIsLargest DEF StartsFrom
    <2>4. segments[g].version + 1 \in Nat /\ g \in Gen /\ segments[g].counter \in Nat /\ segments[at].segs \in SUBSET SegName
      BY <2>2, NewestIsLargest
    <2>. QED  BY <2>3, <2>4, Zenon
  <1>. QED  BY <1>1, <1>2, <1>3, <1>4

LEMMA OpenState ==
    ASSUME TypeOK, DiskInv, NEW mode \in OpenModes, NEW at \in IndexCommits, NewIndexWriter(mode, at)
    PROVE  \E g \in Gen, last \in Gen, v \in Nat, c \in Nat, segs \in SUBSET SegName, k \in Nat, exists \in BOOLEAN :
              /\ StartsFrom(Infos(g, last, v, c, segs), g, last, v, c, segs)
              /\ exists => CanRead(last)
              /\ IsIndexExists => exists
              /\ k >= c + 1
              /\ infos' = Infos(g, last, v + 1, k, segs)
              /\ dwpt' = [name |-> c, docs |-> FALSE]
              /\ changeCount' \in {1, 2}
              /\ commits' = IF exists THEN <<CommitPoint(ReadCommit(last))>> ELSE <<>>
              /\ refCounts' = IncRef(IF exists THEN IncRef(NoRefs, Files(ReadCommit(last), TRUE)) ELSE NoRefs,
                                     Files(Infos(g, last, v + 1, c + 1, segs), FALSE))
              /\ lastFiles' = Files(Infos(g, last, v + 1, c + 1, segs), FALSE)
  <1>. USE BoundsAssumption
  <1>. DEFINE indexExists == mode = "APPEND" \/ IsIndexExists
              create == mode = "CREATE" \/ (mode = "CREATE_OR_APPEND" /\ ~indexExists)
  <1>1. PICK sis \in IF create THEN CreateInfos ELSE AppendInfos(at) :
           /\ InitDeleter(NewSegmentName(sis), indexExists)
           /\ changeCount' = 1 + Count(create \/ at # 0)
           /\ dwpt' = [name |-> sis.counter, docs |-> FALSE]
    BY Zenon DEF NewIndexWriter
  <1>2. PICK g \in Gen, last \in Gen, v \in Nat, c \in Nat, segs \in SUBSET SegName :
           StartsFrom(sis, g, last, v, c, segs)
    <2>1. at \in Gen
      OBVIOUS
    <2>2. sis \in CreateInfos \/ sis \in AppendInfos(at)
      BY <1>1, Zenon
    <2>. QED  BY <2>1, <2>2, StartState, Zenon
  <1>3. sis = Infos(g, last, v, c, segs) /\ last <= g
    BY <1>2, Zenon DEF StartsFrom
  <1>. DEFINE start == Infos(g, last, v + 1, c + 1, segs)
              loaded == ReadCommit(last)
  <1>4. NewSegmentName(sis) = start
    BY <1>3 DEF NewSegmentName, Infos
  <1>5. start.gen = g /\ start.lastGen = last /\ start.version = v + 1 /\ start.segs = segs /\ start.counter = c + 1
    BY DEF Infos
  <1>6. /\ indexExists => CanRead(last)
        /\ commits' = IF indexExists THEN <<CommitPoint(loaded)>> ELSE <<>>
        /\ refCounts' = IncRef(IF indexExists THEN IncRef(NoRefs, Files(loaded, TRUE)) ELSE NoRefs, Files(start, FALSE))
        /\ lastFiles' = Files(start, FALSE)
        /\ \E k \in InflatedCounters(start, IF indexExists THEN Files(loaded, TRUE) ELSE {}) :
             infos' = Infos(Larger(g, last), last, v + 1, k, segs)
    BY <1>1, <1>4, <1>5, Zenon DEF InitDeleter
  <1>7. PICK k \in InflatedCounters(start, IF indexExists THEN Files(loaded, TRUE) ELSE {}) :
             infos' = Infos(Larger(g, last), last, v + 1, k, segs)
    BY <1>6
  <1>8. k \in Nat /\ k >= c + 1
    <2>1. start.counter \in Nat
      BY <1>5
    <2>. QED  BY <1>5, <2>1, InflatedBound
  <1>9. Larger(g, last) = g
    BY <1>3 DEF Larger, Gen
  <1>10. dwpt' = [name |-> c, docs |-> FALSE]
    BY <1>1, <1>3 DEF Infos
  <1>11. changeCount' \in {1, 2}
    BY <1>1 DEF Count
  <1>12. infos' = Infos(g, last, v + 1, k, segs)
    BY <1>7, <1>9
  <1>13. StartsFrom(Infos(g, last, v, c, segs), g, last, v, c, segs)
    BY <1>2, <1>3
  <1>14. indexExists \in BOOLEAN /\ (IsIndexExists => indexExists)
    OBVIOUS
  <1>. HIDE DEF indexExists
  <1>. QED  BY <1>6, <1>8, <1>10, <1>11, <1>12, <1>13, <1>14, Zenon

LEMMA NewIndexWriterKeepsInv ==
    ASSUME IInv, NEW mode \in OpenModes, NEW at \in IndexCommits, NewIndexWriter(mode, at)
    PROVE  DiskInv' /\ SessionInv' /\ SegmentsFilesKept'
  <1>. USE BoundsAssumption
  <1>1. /\ pc = "none" /\ pc' = "idle"
        /\ UNCHANGED <<segments, pending, data, lastCommitChangeCount, pendingCommitChangeCount,
                       pendingCommit, filesToCommit, toDelete>>
    BY DEF NewIndexWriter, directory
  <1>2. PICK g \in Gen, last \in Gen, v \in Nat, c \in Nat, segs \in SUBSET SegName, k \in Nat, exists \in BOOLEAN :
              /\ StartsFrom(Infos(g, last, v, c, segs), g, last, v, c, segs)
              /\ exists => CanRead(last)
              /\ IsIndexExists => exists
              /\ k >= c + 1
              /\ infos' = Infos(g, last, v + 1, k, segs)
              /\ dwpt' = [name |-> c, docs |-> FALSE]
              /\ changeCount' \in {1, 2}
              /\ commits' = IF exists THEN <<CommitPoint(ReadCommit(last))>> ELSE <<>>
              /\ refCounts' = IncRef(IF exists THEN IncRef(NoRefs, Files(ReadCommit(last), TRUE)) ELSE NoRefs,
                                     Files(Infos(g, last, v + 1, c + 1, segs), FALSE))
              /\ lastFiles' = Files(Infos(g, last, v + 1, c + 1, segs), FALSE)
    BY OpenState DEF IInv, TypeInv
  <1>3. infos'.gen = g /\ infos'.lastGen = last /\ infos'.version = v + 1 /\ infos'.counter = k
    BY <1>2 DEF Infos
  <1>4. OnNewest(g) /\ \A h \in DOMAIN segments : h <= g /\ segments[h].version <= v /\ segments[h].counter <= c
    BY <1>2 DEF StartsFrom
  <1>5. \A h \in DOMAIN segments : segments[h].version \in Nat /\ segments[h].counter \in Nat
    BY DEF IInv, TypeInv, TypeOK, IsPartialFcn, Contents
  <1>6. DiskInv'
    BY <1>1 DEF DiskInv, IInv
  <1>7. pendingCommit = NoCommit /\ lastCommitChangeCount = 0 /\ filesToCommit = {} /\ toDelete = {}
    BY <1>1 DEF IInv, SessionInv, NoSession
  <1>8. SessionInv'
    <2>1. NoneNewer' /\ Ahead' /\ OnNewest(infos.gen)'
      BY <1>1, <1>2, <1>3, <1>4, <1>5 DEF NoneNewer, Ahead, OnNewest
    <2>2. dwpt'.name < infos'.counter /\ dwpt'.name = c
      BY <1>2, <1>3
    <2>3. c \notin data
      <3>1. \A s \in data : s \in Nat /\ s < c
        <4>1. \A s \in data : s \in Nat
          BY DEF IInv, TypeInv, TypeOK, SegName
        <4>. QED  BY <1>2, <1>4, <1>5, <4>1 DEF DiskInv, IInv
      <3>. QED  BY <1>2, <3>1
    <2>4. changeCount' > 0 /\ infos'.version > 0
      BY <1>2, <1>3
    <2>. QED  BY <1>1, <1>7, <2>1, <2>2, <2>3, <2>4 DEF SessionInv, Session, NoSession, Published
  <1>9. SegmentsFilesKept'
    <2>. DEFINE start == Infos(g, last, v + 1, c + 1, segs)
                read == Files(ReadCommit(last), TRUE)
    <2>1. \A f \in Files(start, FALSE) : f[1] = "data"
      BY DataFilesOnly
    <2>2. \A f \in filesToCommit' \cup lastFiles' \cup toDelete' : f[1] = "data"
      BY <1>1, <1>2, <1>7, <2>1
    <2>3. ASSUME NEW h \in Gen
          PROVE  /\ refCounts'[SegmentsFile(h)] = Drops(commits', Len(commits'), SegmentsFile(h))
                 /\ \A i \in 1..Len(commits') : SegmentsFile(h) \in commits'[i].files => h = last
      <3>. DEFINE base == IF exists THEN IncRef(NoRefs, read) ELSE NoRefs
      <3>1. NoRefs \in [File -> Int] /\ base \in [File -> Int] /\ NoRefs[SegmentsFile(h)] = 0
        <4>1. NoRefs \in [File -> Int] /\ NoRefs[SegmentsFile(h)] = 0
          BY SegmentsFileType DEF NoRefs
        <4>2. IncRef(NoRefs, read) \in [File -> Int]
          BY <4>1, RefType
        <4>. QED  BY <4>1, <4>2
      <3>2. refCounts'[SegmentsFile(h)] = base[SegmentsFile(h)]
        <4>1. refCounts' = IncRef(base, Files(start, FALSE))
          BY <1>2, Zenon
        <4>2. TypeOK
          BY DEF IInv, TypeInv
        <4>. HIDE DEF base, start
        <4>. QED  BY <2>1, <3>1, <4>1, <4>2, OtherRefs
      <3>3. CASE exists
        <4>1. commits' = <<CommitPoint(ReadCommit(last))>>
          BY <1>2, <3>3, Zenon
        <4>2. Len(commits') = 1 /\ commits'[1] = CommitPoint(ReadCommit(last))
          BY <4>1
        <4>3. CommitPoint(ReadCommit(last)).files = read /\ ReadCommit(last).lastGen = last
          BY DEF CommitPoint, ReadCommit, Infos
        <4>4. refCounts'[SegmentsFile(h)] = Count(SegmentsFile(h) \in read)
          <5>1. base[SegmentsFile(h)] = NoRefs[SegmentsFile(h)] + Count(SegmentsFile(h) \in read)
            BY <3>3, SegmentsFileType DEF IncRef
          <5>2. NoRefs[SegmentsFile(h)] = 0 /\ refCounts'[SegmentsFile(h)] = base[SegmentsFile(h)]
            BY <3>1, <3>2
          <5>. HIDE DEF base, read
          <5>. QED  BY <5>1, <5>2 DEF Count
        <4>5. \A i \in 1..Len(commits') : commits'[i] = CommitPoint(ReadCommit(last))
          BY <4>2
        <4>6. Drops(commits', Len(commits'), SegmentsFile(h)) = Count(SegmentsFile(h) \in read)
          BY <4>2, <4>3, DropsOfOne
        <4>. QED  BY <4>3, <4>4, <4>5, <4>6, CommitPointNames
      <3>4. CASE ~exists
        <4>1. commits' = <<>> /\ refCounts'[SegmentsFile(h)] = 0
          BY <1>2, <3>1, <3>2, <3>4
        <4>. QED  BY <4>1, DropsOfNone
      <3>. QED  BY <3>3, <3>4
    <2>. QED  BY <1>3, <2>2, <2>3 DEF SegmentsFilesKept
  <1>. QED  BY <1>6, <1>8, <1>9

(* IInv is inductive. *)
LEMMA InvStep ==
    ASSUME IInv, [Next]_vars
    PROVE  IInv'
  <1>1. TypeInv'
    BY TypeStep DEF IInv
  <1>2. DiskInv' /\ SessionInv' /\ SegmentsFilesKept'
    <2>1. ASSUME NEW mode \in OpenModes, NEW at \in IndexCommits, NewIndexWriter(mode, at)
          PROVE  DiskInv' /\ SessionInv' /\ SegmentsFilesKept'
      BY <2>1, NewIndexWriterKeepsInv
    <2>2. CASE AddDocument \/ Commit \/ Close \/ ResumeCommit \/ RenameFails
      BY <2>2, CallsKeepInv
    <2>3. CASE PrepareNothing
      BY <2>3, PrepareNothingKeepsInv
    <2>4. CASE PrepareCommit
      BY <2>4, PrepareCommitKeepsInv
    <2>5. CASE PrepareCommitFails
      BY <2>5, PrepareCommitFailsKeepsInv
    <2>6. CASE FinishDecRef
      BY <2>6, FinishDecRefKeepsInv
    <2>7. CASE RenamePending
      BY <2>7, RenamePendingKeepsInv
    <2>8. CASE Checkpoint
      BY <2>8, CheckpointKeepsInv
    <2>9. ASSUME NEW f \in File, DeleteFile(f)
          PROVE  DiskInv' /\ SessionInv' /\ SegmentsFilesKept'
      BY <2>9, DeleteFileKeepsInv
    <2>10. CASE FinishCommit
      BY <2>10, FinishCommitKeepsInv
    <2>11. CASE FlushOnClose
      BY <2>11, FlushKeepsInv
    <2>12. CASE Crash
      <3>1. DiskInv'
        BY <2>12 DEF Crash, directory, DiskInv, IInv
      <3>. QED  BY <2>12, <3>1, DropWriterKeepsInv DEF Crash
    <2>13. CASE UNCHANGED vars
      BY <2>13 DEF vars, IInv, DiskInv, SessionInv, Session, NoSession, SegmentsFilesKept, Published, NoneNewer, Ahead,
                   OnNewest, Prepared, ToWrite
    <2>. QED
      BY <2>1, <2>2, <2>3, <2>4, <2>5, <2>6, <2>7, <2>8, <2>9, <2>10, <2>11, <2>12, <2>13 DEF Next
  <1>. QED  BY <1>1, <1>2 DEF IInv

LEMMA InvAlways == Spec => []IInv
  <1>1. IInv /\ [Next]_vars => IInv'
    BY InvStep
  <1>. QED  BY InvInit, <1>1, PTL DEF Spec

-----------------------------------------------------------------------------
(* newSegmentName never hands out the name of a segment whose files are in    *)
(* the directory, whichever writers crashed or closed before.                 *)
THEOREM FlushedOnce == Spec => []SegmentsFlushedOnce
  <1>1. IInv => SegmentsFlushedOnce
    BY DEF IInv, SessionInv, Session, SegmentsFlushedOnce
  <1>. QED  BY InvAlways, <1>1, PTL

(* Of two commits the one with the later generation has the larger version:   *)
(* what IsCurrent relies on when it compares versions.                        *)
THEOREM VersionsOrdered == Spec => []VersionsFollowGenerations
  <1>1. IInv => VersionsFollowGenerations
    BY DEF IInv, DiskInv, VersionsFollowGenerations
  <1>. QED  BY InvAlways, <1>1, PTL

(* Only the rename of pending_segments_N changes the commits in the directory. *)
LEMMA OnlyRenamePublishes ==
    ASSUME IInv, [Next]_vars, ~RenamePending
    PROVE  segments' = segments
  <1>1. ASSUME NEW f \in File, DeleteFile(f) PROVE segments' = segments
    BY <1>1, DeleteFileKeepsInv
  <1>2. CASE \E mode \in OpenModes, at \in IndexCommits : NewIndexWriter(mode, at)
    BY <1>2 DEF NewIndexWriter, directory
  <1>. QED
    BY <1>1, <1>2 DEF Next, vars, directory, AddDocument, Commit, Close, PrepareNothing, Prepare, PrepareCommit,
       PrepareCommitFails, ResumeCommit, FinishDecRef, RenameFails, Checkpoint, FinishCommit, FlushOnClose, Crash

(* SegmentInfos.finishCommit: the rename never replaces an existing file.     *)
THEOREM CommitsWrittenOnce == Spec => SegmentsWriteOnce
  <1>1. ASSUME IInv, [Next]_vars
        PROVE  [\A g \in DOMAIN segments \cap DOMAIN segments' : segments'[g] = segments[g]]_vars
    <2>1. CASE RenamePending
      BY <1>1, <2>1, RenameState
    <2>2. CASE ~RenamePending
      BY <1>1, <2>2, OnlyRenamePublishes
    <2>. QED  BY <2>1, <2>2
  <1>. QED  BY InvAlways, <1>1, PTL DEF Spec, SegmentsWriteOnce

LEMMA ChooseNewest ==
    ASSUME NEW D, D \subseteq Nat, NEW g \in D, \A h \in D : h <= g
    PROVE  (CHOOSE x \in D : x \in D /\ \A h \in D : h <= x) = g
  <1>1. \A x \in D : (\A h \in D : h <= x) => x = g
    BY SMT
  <1>. QED  BY <1>1, Zenon

(* The latest commit of a directory whose commits are D, the newest being g. *)
LEMMA LatestOf ==
    ASSUME NEW g \in DOMAIN segments, DOMAIN segments \subseteq Nat, \A h \in DOMAIN segments : h <= g
    PROVE  LatestGen = g /\ LatestContents = segments[g]
  <1>1. IsLatest(g)
    BY DEF IsLatest
  <1>2. LatestGen = CHOOSE x \in DOMAIN segments : x \in DOMAIN segments /\ \A h \in DOMAIN segments : h <= x
    BY <1>1, Zenon DEF LatestGen, IsLatest
  <1>3. LatestGen = g
    BY <1>2, ChooseNewest, Zenon
  <1>. QED  BY <1>3 DEF LatestContents

LEMMA NoLatest ==
    ASSUME DOMAIN segments = {}
    PROVE  LatestGen = 0 /\ LatestContents = [version |-> 0, counter |-> 0, segs |-> {}]
  BY DEF LatestGen, LatestContents

LEMMA DirectoryType ==
    ASSUME IInv
    PROVE  /\ DOMAIN segments \subseteq Nat
           /\ \A g \in DOMAIN segments : /\ g \in 0..MaxGen /\ segments[g].version \in 0..MaxVersion
                                        /\ segments[g].counter \in 0..(MaxSeg + 1)
  BY BoundsAssumption DEF IInv, TypeInv, TypeOK, IsPartialFcn, Contents, Gen

LEMMA InitRefines == Init => Latest!Init
  <1>. SUFFICES ASSUME Init PROVE Latest!Init
    OBVIOUS
  <1>. USE BoundsAssumption
  <1>1. IInv
    BY InvInit
  <1>2. \A g \in DOMAIN segments : /\ g \in 0..MaxGen /\ segments[g].version \in 0..MaxVersion
                                  /\ segments[g].counter \in 0..(MaxSeg + 1)
    BY <1>1, DirectoryType
  <1>3. LatestGen \in DOMAIN segments \/ LatestGen = 0
    BY Zenon DEF LatestGen
  <1>4. CASE LatestGen \in DOMAIN segments
    BY <1>2, <1>4 DEF LatestContents, Latest!Init
  <1>5. CASE LatestGen \notin DOMAIN segments
    BY <1>3, <1>5 DEF LatestContents, Latest!Init
  <1>. QED  BY <1>4, <1>5

(* The rename is the step that publishes. *)
LEMMA RenamePublishes ==
    ASSUME IInv, IInv', RenamePending
    PROVE  Latest!Publish
  <1>1. /\ infos.gen \notin DOMAIN segments
        /\ OnNewest(infos.gen - 1)
        /\ Ahead /\ NoneNewer
        /\ segments' = [h \in DOMAIN segments \cup {infos.gen} |->
                           IF h = infos.gen THEN ToWrite(infos) ELSE segments[h]]
    BY RenameState
  <1>2. infos.gen \in Nat /\ infos.version \in Nat /\ infos.counter \in Nat
    BY BoundsAssumption DEF IInv, TypeInv, TypeOK, SegmentInfos, Gen
  <1>3. DOMAIN segments \subseteq Nat /\ DOMAIN segments' \subseteq Nat
    <2>1. DOMAIN segments \subseteq Nat
      BY DirectoryType
    <2>. QED  BY <1>1, <1>2, <2>1
  <1>4. \A h \in DOMAIN segments : h < infos.gen
    BY <1>1, <1>2, <1>3 DEF NoneNewer
  <1>5. /\ infos.gen \in DOMAIN segments'
        /\ \A h \in DOMAIN segments' : h <= infos.gen
        /\ segments'[infos.gen] = ToWrite(infos)
    BY <1>1, <1>2, <1>3, <1>4
  <1>6. LatestGen' = infos.gen
    <2>1. LatestGen' = CHOOSE x \in DOMAIN segments' : x \in DOMAIN segments' /\ \A h \in DOMAIN segments' : h <= x
      BY <1>5, Zenon DEF LatestGen, IsLatest
    <2>2. (CHOOSE x \in DOMAIN segments' : x \in DOMAIN segments' /\ \A h \in DOMAIN segments' : h <= x) = infos.gen
      BY <1>3, <1>5, ChooseNewest
    <2>. QED  BY <2>1, <2>2, Zenon
  <1>7. LatestContents'.version = infos.version /\ LatestContents'.counter = infos.counter
    BY <1>5, <1>6 DEF LatestContents, ToWrite
  <1>8. LatestGen = infos.gen - 1 /\ LatestContents.version < infos.version /\ LatestContents.counter < infos.counter
    <2>1. CASE infos.gen - 1 \in DOMAIN segments
      <3>1. \A h \in DOMAIN segments : h <= infos.gen - 1
        BY <1>2, <1>3, <1>4
      <3>2. LatestGen = infos.gen - 1 /\ LatestContents = segments[infos.gen - 1]
        BY <1>3, <2>1, <3>1, LatestOf
      <3>. QED  BY <1>1, <2>1, <3>2 DEF Ahead
    <2>2. CASE infos.gen - 1 = 0 /\ DOMAIN segments = {}
      <3>1. LatestGen = 0 /\ LatestContents.version = 0 /\ LatestContents.counter = 0
        BY <2>2, NoLatest
      <3>2. pc # "none"
        BY DEF RenamePending
      <3>3. infos.version > 0 /\ dwpt.name < infos.counter
        BY <3>2 DEF IInv, SessionInv, Session
      <3>4. dwpt.name \in Nat
        BY BoundsAssumption DEF IInv, TypeInv, TypeOK, SegName
      <3>5. infos.counter > 0
        BY <1>2, <3>3, <3>4
      <3>. QED  BY <2>2, <3>1, <3>3, <3>5
    <2>. QED  BY <1>1, <2>1, <2>2 DEF OnNewest
  <1>. QED  BY <1>2, <1>6, <1>7, <1>8 DEF Latest!Publish

(* Seen through its newest segments_N the directory goes from one commit to   *)
(* the next in one step, one generation at a time, and no crash, failed       *)
(* rename, deletion or reopen changes it: IndexWriter implements LatestCommit.*)
THEOREM ImplementsLatestCommit == Spec => RefinesLatestCommit
  <1>1. ASSUME IInv, IInv', [Next]_vars
        PROVE  [Latest!Publish]_<<LatestGen, LatestContents.version, LatestContents.counter>>
    <2>1. CASE RenamePending
      BY <1>1, <2>1, RenamePublishes
    <2>2. CASE ~RenamePending
      <3>1. segments' = segments
        BY <1>1, <2>2, OnlyRenamePublishes
      <3>2. LatestGen' = LatestGen
        BY <3>1 DEF LatestGen, IsLatest
      <3>3. LatestContents' = LatestContents
        BY <3>1, <3>2 DEF LatestContents
      <3>. QED  BY <3>2, <3>3
    <2>. QED  BY <2>1, <2>2
  <1>. QED  BY InvAlways, InitRefines, <1>1, PTL DEF Spec, RefinesLatestCommit, Latest!Spec

-----------------------------------------------------------------------------
(* IndexFileDeleter keeps what it is asked to keep: its reference counts      *)
(* cover every holder of a file, and the newest commit stays complete.        *)

(* The reference prepareCommitInternal took on f is still to be given back:   *)
(* by the finishCommit under way, or by the one that a failed rename left to  *)
(* the next Commit.                                                           *)
Owed(f) ==
    /\ f \in filesToCommit
    /\ pc = "finish" \/ (pc \in {"idle", "commit"} /\ pendingCommit # NoCommit)
HeldRefs(f) == Drops(commits, Len(commits), f) + Count(f \in lastFiles) + Count(Owed(f))

(* RefCountsCoverHolders, with the reference that a retry will give back.     *)
Covered == pc # "none" => \A f \in File : refCounts[f] + renameFaults >= HeldRefs(f)

(* The segments the writer keeps are in the directory, registered commits     *)
(* name their files, and the deleter is not about to delete them; once the    *)
(* commit is published it has these segments.                                 *)
Kept ==
    pc # "none" =>
        /\ infos.segs \subseteq data
        /\ filesToCommit \subseteq Files(infos, FALSE)
        /\ lastFiles = Files(infos, FALSE)
        /\ \A f \in Files(infos, FALSE) : Drops(commits, Len(commits), f) >= 1
        /\ toDelete \cap Files(infos, FALSE) = {}
        /\ Published => segments[infos.gen].segs = infos.segs

-----------------------------------------------------------------------------
LEMMA HolderTypes ==
    ASSUME TypeOK, NEW f \in File
    PROVE  /\ Drops(commits, Len(commits), f) \in Nat
           /\ refCounts[f] \in Int
           /\ renameFaults \in Nat
  <1>1. Len(commits) \in Nat
    BY DEF TypeOK
  <1>. QED  BY <1>1, DropsType, BoundsAssumption DEF TypeOK

LEMMA CountType == \A b \in BOOLEAN : Count(b) \in {0, 1} /\ (Count(b) = 1 <=> b)
  BY DEF Count

LEMMA OwedType == ASSUME NEW f PROVE Owed(f) \in BOOLEAN /\ Owed(f)' \in BOOLEAN
  BY DEF Owed

(* A step that leaves the counts alone and takes no reference to give back.   *)
LEMMA SameHolders ==
    ASSUME TypeOK, Covered, pc # "none",
           UNCHANGED <<refCounts, commits, lastFiles, renameFaults>>,
           \A f \in File : Owed(f)' => Owed(f)
    PROVE  Covered'
  <1>1. ASSUME NEW f \in File PROVE refCounts'[f] + renameFaults' >= HeldRefs(f)'
    <2>1. refCounts[f] + renameFaults >= HeldRefs(f)
      BY DEF Covered
    <2>2. Count(Owed(f)') <= Count(Owed(f)) /\ Count(Owed(f)') \in Nat /\ Count(Owed(f)) \in Nat
      BY OwedType DEF Count
    <2>3. HeldRefs(f) = Drops(commits, Len(commits), f) + Count(f \in lastFiles) + Count(Owed(f))
      BY DEF HeldRefs
    <2>4. HeldRefs(f)' = Drops(commits, Len(commits), f) + Count(f \in lastFiles) + Count(Owed(f)')
      BY DEF HeldRefs
    <2>5. Count(f \in lastFiles) \in Nat
      BY DEF Count
    <2>. QED  BY <2>1, <2>2, <2>3, <2>4, <2>5, HolderTypes
  <1>. QED  BY <1>1 DEF Covered

LEMMA CallsCovered ==
    ASSUME IInv, Covered,
           AddDocument \/ Commit \/ Close \/ ResumeCommit \/ RenamePending \/ FinishCommit
             \/ \E f \in File : DeleteFile(f)
    PROVE  Covered'
  <1>1. pc # "none" /\ UNCHANGED <<refCounts, commits, lastFiles, renameFaults>>
    BY DEF AddDocument, Commit, Close, ResumeCommit, RenamePending, FinishCommit, DeleteFile, deleter
  <1>2. ASSUME NEW f \in File, Owed(f)' PROVE Owed(f)
    BY <1>2 DEF Owed, AddDocument, Commit, Close, ResumeCommit, RenamePending, FinishCommit, DeleteFile
  <1>. QED  BY <1>1, <1>2, SameHolders DEF IInv, TypeInv

(* Every failed rename is one reference that a retry gives back twice.        *)
LEMMA RenameFailsCovered ==
    ASSUME IInv, Covered, RenameFails
    PROVE  Covered'
  <1>1. /\ pc = "rename"
        /\ UNCHANGED <<refCounts, commits, lastFiles>>
        /\ renameFaults' = renameFaults + 1
    BY DEF RenameFails, deleter
  <1>2. ASSUME NEW f \in File PROVE refCounts'[f] + renameFaults' >= HeldRefs(f)'
    <2>1. refCounts[f] + renameFaults >= Drops(commits, Len(commits), f) + Count(f \in lastFiles) + Count(Owed(f))
      BY <1>1 DEF Covered, HeldRefs
    <2>2. Count(Owed(f)) \in {0, 1} /\ Count(Owed(f)') \in {0, 1} /\ Count(f \in lastFiles) \in {0, 1}
      BY DEF Count
    <2>3. HeldRefs(f)' = Drops(commits, Len(commits), f) + Count(f \in lastFiles) + Count(Owed(f)')
      BY <1>1 DEF HeldRefs
    <2>. QED  BY <1>1, <2>1, <2>2, <2>3, HolderTypes DEF IInv, TypeInv
  <1>. QED  BY <1>2 DEF Covered

LEMMA PrepareNothingRefs ==
    ASSUME TypeOK, PrepareNothing
    PROVE  /\ UNCHANGED <<commits, lastFiles, renameFaults, refCounts>>
           /\ pc = "commit" /\ pendingCommit = NoCommit
  <1>. DEFINE files == Files(infos, FALSE)
              rc == IncRef(refCounts, files)
  <1>1. /\ UNCHANGED <<commits, lastFiles, renameFaults>>
        /\ pc = "commit" /\ pendingCommit = NoCommit
        /\ refCounts' = DecRef(rc, files)
    BY DEF PrepareNothing
  <1>2. refCounts \in [File -> Int]
    BY DEF TypeOK
  <1>. HIDE DEF files
  <1>3. \A f \in File : /\ rc[f] = refCounts[f] + Count(f \in files)
                        /\ refCounts[f] \in Int /\ Count(f \in files) \in Int
    BY <1>2 DEF IncRef, Count
  <1>. HIDE DEF rc
  <1>4. \A f \in File : refCounts'[f] = rc[f] - Count(f \in files)
    BY <1>1 DEF DecRef
  <1>5. \A f \in File : refCounts'[f] = refCounts[f]
    BY <1>2, <1>3, <1>4
  <1>6. refCounts' = [f \in File |-> refCounts'[f]]
    BY <1>1 DEF DecRef
  <1>7. refCounts' = refCounts
    BY <1>2, <1>5, <1>6
  <1>. QED  BY <1>1, <1>7

LEMMA PrepareNothingCovered ==
    ASSUME IInv, Covered, PrepareNothing
    PROVE  Covered'
  <1>1. \A f \in File : ~Owed(f)'
    BY DEF PrepareNothing, Owed
  <1>. QED  BY <1>1, PrepareNothingRefs, SameHolders DEF IInv, TypeInv

(* prepareCommitInternal takes the references before anybody owes them.       *)
LEMMA PrepareCovered ==
    ASSUME IInv, Covered, Prepare, pc' # "none"
    PROVE  Covered'
  <1>. DEFINE files == Files(infos, FALSE)
  <1>1. /\ pc = "commit" /\ pendingCommit = NoCommit
        /\ UNCHANGED <<commits, lastFiles, renameFaults>>
        /\ filesToCommit' = files
        /\ refCounts' = IncRef(refCounts, files)
    BY DEF Prepare
  <1>. HIDE DEF files
  <1>2. ASSUME NEW f \in File PROVE refCounts'[f] + renameFaults' >= HeldRefs(f)'
    <2>1. refCounts[f] + renameFaults >= Drops(commits, Len(commits), f) + Count(f \in lastFiles) + Count(Owed(f))
      BY <1>1 DEF Covered, HeldRefs
    <2>2. Count(Owed(f)) \in {0, 1} /\ Count(f \in lastFiles) \in {0, 1}
      BY DEF Count
    <2>3. HeldRefs(f)' = Drops(commits, Len(commits), f) + Count(f \in lastFiles) + Count(Owed(f)')
      BY <1>1 DEF HeldRefs
    <2>4. refCounts'[f] = refCounts[f] + Count(f \in files)
      BY <1>1 DEF IncRef
    <2>5. Owed(f)' => f \in files
      BY <1>1 DEF Owed
    <2>6. /\ Count(Owed(f)') <= Count(f \in files)
          /\ Count(Owed(f)') \in {0, 1} /\ Count(f \in files) \in {0, 1}
      BY <2>5 DEF Count
    <2>. QED  BY <1>1, <2>1, <2>2, <2>3, <2>4, <2>6, HolderTypes DEF IInv, TypeInv
  <1>. QED  BY <1>2 DEF Covered

(* finishCommit gives back what was owed.                                     *)
LEMMA FinishDecRefCovered ==
    ASSUME IInv, Covered, FinishDecRef
    PROVE  Covered'
  <1>1. /\ pc = "finish" /\ pc' = "rename"
        /\ UNCHANGED <<commits, lastFiles, renameFaults>>
        /\ refCounts' = DecRef(refCounts, filesToCommit)
    BY DEF FinishDecRef
  <1>2. ASSUME NEW f \in File PROVE refCounts'[f] + renameFaults' >= HeldRefs(f)'
    <2>1. refCounts[f] + renameFaults >= Drops(commits, Len(commits), f) + Count(f \in lastFiles) + Count(Owed(f))
      BY <1>1 DEF Covered, HeldRefs
    <2>2. Owed(f) <=> f \in filesToCommit
      BY <1>1 DEF Owed
    <2>3. ~Owed(f)'
      BY <1>1 DEF Owed
    <2>4. /\ Count(Owed(f)) = Count(f \in filesToCommit) /\ Count(Owed(f)') = 0
          /\ Count(Owed(f)) \in {0, 1} /\ Count(f \in lastFiles) \in {0, 1}
      BY <2>2, <2>3 DEF Count
    <2>5. HeldRefs(f)' = Drops(commits, Len(commits), f) + Count(f \in lastFiles) + Count(Owed(f)')
      BY <1>1 DEF HeldRefs
    <2>6. refCounts'[f] = refCounts[f] - Count(f \in filesToCommit)
      BY <1>1 DEF DecRef
    <2>. QED  BY <1>1, <2>1, <2>4, <2>5, <2>6, HolderTypes DEF IInv, TypeInv
  <1>. QED  BY <1>2 DEF Covered

(* Checkpoint counts the new commit in before it counts the old ones out.     *)
LEMMA CheckpointCovered ==
    ASSUME IInv, Covered, Checkpoint
    PROVE  Covered'
  <1>. DEFINE cp == CommitPoint(infos)
  <1>1. /\ pc = "checkpoint" /\ pc' = "delete"
        /\ UNCHANGED <<lastFiles, renameFaults>>
        /\ Len(commits') = 1 /\ commits'[1] = cp
    BY CheckpointState
  <1>2. ASSUME NEW f \in File PROVE refCounts'[f] + renameFaults' >= HeldRefs(f)'
    <2>1. refCounts[f] + renameFaults >= Drops(commits, Len(commits), f) + Count(f \in lastFiles) + Count(Owed(f))
      BY <1>1 DEF Covered, HeldRefs
    <2>2. ~Owed(f)'
      BY <1>1 DEF Owed
    <2>3. /\ Count(Owed(f)') = 0 /\ Count(f \in cp.files) \in {0, 1}
          /\ Count(Owed(f)) \in {0, 1} /\ Count(f \in lastFiles) \in {0, 1}
      BY <2>2 DEF Count
    <2>4. Drops(commits', Len(commits'), f) = Count(f \in cp.files)
      BY <1>1, DropsOfOne
    <2>5. HeldRefs(f)' = Count(f \in cp.files) + Count(f \in lastFiles) + Count(Owed(f)')
      BY <1>1, <2>4 DEF HeldRefs
    <2>6. refCounts'[f] = refCounts[f] + Count(f \in cp.files) - Drops(commits, Len(commits), f)
      BY CheckpointState
    <2>. HIDE DEF cp
    <2>. QED  BY <1>1, <2>1, <2>3, <2>5, <2>6, HolderTypes DEF IInv, TypeInv
  <1>. QED  BY <1>2 DEF Covered
LEMMA FilesOf ==
    ASSUME NEW sis
    PROVE  /\ Files(sis, FALSE) = {DataFile(s) : s \in sis.segs}
           /\ Files(sis, FALSE) \subseteq CommitPoint(sis).files
           /\ \A s : DataFile(s) \in Files(sis, FALSE) <=> s \in sis.segs
  BY DEF Files, CommitPoint, DataFile

(* A new deleter counts the commit it read and the infos it protects, and the *)
(* segments a writer starts with are those of a commit it could read.         *)
LEMMA OpenCovered ==
    ASSUME IInv, NEW mode \in OpenModes, NEW at \in IndexCommits, NewIndexWriter(mode, at)
    PROVE  Covered' /\ Kept'
  <1>1. /\ pc = "none" /\ pc' = "idle"
        /\ UNCHANGED <<segments, data, lastCommitChangeCount, pendingCommit, filesToCommit, toDelete,
                       renameFaults>>
    BY DEF NewIndexWriter, directory
  <1>2. PICK g \in Gen, last \in Gen, v \in Nat, c \in Nat, segs \in SUBSET SegName, k \in Nat, exists \in BOOLEAN :
              /\ StartsFrom(Infos(g, last, v, c, segs), g, last, v, c, segs)
              /\ exists => CanRead(last)
              /\ IsIndexExists => exists
              /\ k >= c + 1
              /\ infos' = Infos(g, last, v + 1, k, segs)
              /\ dwpt' = [name |-> c, docs |-> FALSE]
              /\ changeCount' \in {1, 2}
              /\ commits' = IF exists THEN <<CommitPoint(ReadCommit(last))>> ELSE <<>>
              /\ refCounts' = IncRef(IF exists THEN IncRef(NoRefs, Files(ReadCommit(last), TRUE)) ELSE NoRefs,
                                     Files(Infos(g, last, v + 1, c + 1, segs), FALSE))
              /\ lastFiles' = Files(Infos(g, last, v + 1, c + 1, segs), FALSE)
    BY OpenState DEF IInv, TypeInv
  <1>3. filesToCommit' = {} /\ toDelete' = {} /\ lastCommitChangeCount' = 0
    BY <1>1 DEF IInv, SessionInv, NoSession
  <1>. DEFINE read == CommitPoint(ReadCommit(last))
  <1>4. Files(ReadCommit(last), TRUE) = read.files
    BY DEF CommitPoint
  <1>5. /\ exists => Len(commits') = 1 /\ commits'[1] = read
        /\ ~exists => commits' = <<>>
    BY <1>2
  <1>6. infos'.segs = segs /\ lastFiles' = Files(infos', FALSE) /\ lastFiles' = {DataFile(s) : s \in segs}
    BY <1>2, FilesOf DEF Infos
  <1>7. segs # {} => exists /\ segs \subseteq data /\ segs = ReadCommit(last).segs
    <2>. SUFFICES ASSUME segs # {} PROVE exists /\ segs \subseteq data /\ segs = ReadCommit(last).segs
      OBVIOUS
    <2>1. last \in DOMAIN segments /\ segs = segments[last].segs
      BY <1>2 DEF StartsFrom
    <2>2. last > 0
      BY <2>1, BoundsAssumption DEF IInv, DiskInv, Gen
    <2>3. exists
      BY <1>2, <2>1, <2>2 DEF IsIndexExists
    <2>. QED  BY <1>2, <2>1, <2>3 DEF CanRead, ReadCommit, Infos
  <1>8. ASSUME NEW f \in File
        PROVE  /\ refCounts'[f] = Count(exists /\ f \in read.files) + Count(f \in lastFiles')
               /\ Drops(commits', Len(commits'), f) = Count(exists /\ f \in read.files)
    <2>. DEFINE base == IF exists THEN IncRef(NoRefs, read.files) ELSE NoRefs
    <2>1. refCounts'[f] = base[f] + Count(f \in lastFiles')
      BY <1>2, <1>4 DEF IncRef
    <2>2. NoRefs[f] = 0
      BY DEF NoRefs
    <2>3. base[f] = Count(exists /\ f \in read.files)
      <3>. HIDE DEF read
      <3>1. CASE exists
        BY <2>2, <3>1 DEF IncRef, Count
      <3>2. CASE ~exists
        BY <2>2, <3>2 DEF Count
      <3>. QED  BY <3>1, <3>2
    <2>4. Drops(commits', Len(commits'), f) = Count(exists /\ f \in read.files)
      <3>. HIDE DEF read
      <3>1. CASE exists
        BY <1>5, <3>1, DropsOfOne DEF Count
      <3>2. CASE ~exists
        BY <1>5, <3>2, DropsOfNone DEF Count
      <3>. QED  BY <3>1, <3>2
    <2>. QED  BY <2>1, <2>3, <2>4
  <1>9. Covered'
    <2>1. ASSUME NEW f \in File PROVE refCounts'[f] + renameFaults' >= HeldRefs(f)'
      <3>1. ~Owed(f)'
        BY <1>3 DEF Owed
      <3>2. Count(Owed(f)') = 0 /\ Count(exists /\ f \in read.files) \in {0, 1} /\ Count(f \in lastFiles') \in {0, 1}
        BY <3>1 DEF Count
      <3>3. HeldRefs(f)' = Drops(commits', Len(commits'), f) + Count(f \in lastFiles') + Count(Owed(f)')
        BY DEF HeldRefs
      <3>4. renameFaults' \in Nat
        BY <1>1, BoundsAssumption DEF IInv, TypeInv, TypeOK
      <3>. HIDE DEF read
      <3>. QED  BY <1>8, <3>2, <3>3, <3>4
    <2>. QED  BY <2>1 DEF Covered
  <1>10. Kept'
    <2>1. infos'.segs \subseteq data'
      BY <1>1, <1>6, <1>7
    <2>2. ASSUME NEW f \in Files(infos', FALSE) PROVE Drops(commits', Len(commits'), f) >= 1
      <3>1. f \in lastFiles' /\ segs # {}
        BY <1>6
      <3>2. f \in read.files /\ exists
        BY <1>6, <1>7, <3>1, FilesOf
      <3>3. f \in File
        <4>1. PICK s \in segs : f = DataFile(s)
          BY <1>6, <3>1
        <4>2. s \in SegName
          OBVIOUS
        <4>. QED  BY <4>1, <4>2 DEF File, DataFile
      <3>. HIDE DEF read
      <3>4. Count(exists /\ f \in read.files) = 1
        BY <3>2 DEF Count
      <3>. QED  BY <1>8, <3>3, <3>4
    <2>3. ~Published'
      BY <1>1, <1>3 DEF Published
    <2>. QED  BY <1>3, <1>6, <2>1, <2>2, <2>3 DEF Kept
  <1>. QED  BY <1>9, <1>10

(* Covered is preserved by every step.                                        *)
LEMMA StepCovered ==
    ASSUME IInv, Covered, [Next]_vars
    PROVE  Covered'
  <1>1. CASE \E mode \in OpenModes, at \in IndexCommits : NewIndexWriter(mode, at)
    BY <1>1, OpenCovered
  <1>2. CASE AddDocument \/ Commit \/ Close \/ ResumeCommit \/ RenamePending \/ FinishCommit
               \/ \E f \in File : DeleteFile(f)
    BY <1>2, CallsCovered
  <1>3. CASE PrepareNothing
    BY <1>3, PrepareNothingCovered
  <1>4. CASE PrepareCommit \/ PrepareCommitFails
    BY <1>4, PrepareCovered DEF PrepareCommit, PrepareCommitFails, Failed
  <1>5. CASE FinishDecRef
    BY <1>5, FinishDecRefCovered
  <1>6. CASE RenameFails
    BY <1>6, RenameFailsCovered
  <1>7. CASE Checkpoint
    BY <1>7, CheckpointCovered
  <1>8. CASE FlushOnClose \/ Crash
    BY <1>8 DEF FlushOnClose, Crash, DropWriter, Covered
  <1>9. CASE UNCHANGED vars
    BY <1>9 DEF vars, Covered, HeldRefs, Owed
  <1>. QED
    BY <1>1, <1>2, <1>3, <1>4, <1>5, <1>6, <1>7, <1>8, <1>9 DEF Next

(* IndexFileDeleter never counts fewer references to a file than there are    *)
(* holders, up to one for every failed rename, whatever is committed, failed, *)
(* retried, closed and reopened.                                              *)
THEOREM HoldersCounted == Spec => []RefCountsCoverHolders
  <1>1. Init => Covered
    BY DEF Init, NoWriter, Covered
  <1>2. IInv /\ Covered /\ [Next]_vars => Covered'
    BY StepCovered
  <1>3. ASSUME IInv, Covered PROVE RefCountsCoverHolders
    <2>1. ASSUME NEW f \in File, pc # "none" PROVE refCounts[f] + renameFaults >= Holders(f)
      <3>1. refCounts[f] + renameFaults >= HeldRefs(f)
        BY <1>3, <2>1 DEF Covered
      <3>2. Pending(f) => Owed(f)
        BY DEF Pending, Owed
      <3>3. /\ Count(Pending(f)) <= Count(Owed(f)) /\ Count(f \in lastFiles) \in {0, 1}
            /\ Count(Pending(f)) \in {0, 1} /\ Count(Owed(f)) \in {0, 1}
        BY <3>2 DEF Count
      <3>. QED  BY <1>3, <3>1, <3>3, HolderTypes DEF HeldRefs, Holders, IInv, TypeInv
    <2>. QED  BY <2>1 DEF RefCountsCoverHolders
  <1>. QED  BY <1>1, <1>2, <1>3, InvAlways, PTL DEF Spec
-----------------------------------------------------------------------------
(* With at most one failed rename no count of a kept file is lost for good.   *)
KInv == IInv /\ Covered /\ Kept /\ LatestCommitComplete

(* A kept file has the reference of a registered commit and that of the last  *)
(* checkpoint, less one.                                                      *)
LEMMA KeptIsCounted ==
    ASSUME MaxRenameFaults <= 1, KInv, pc # "none", NEW f \in Files(infos, FALSE)
    PROVE  /\ f \in File
           /\ Drops(commits, Len(commits), f) \in Nat /\ Drops(commits, Len(commits), f) >= 1
           /\ refCounts[f] \in Int
           /\ refCounts[f] >= Drops(commits, Len(commits), f) + Count(Owed(f))
  <1>1. f \in File
    BY FilesType DEF KInv, IInv, TypeInv, TypeOK
  <1>2. renameFaults <= 1
    BY BoundsAssumption DEF KInv, IInv, TypeInv, TypeOK
  <1>3. f \in lastFiles /\ Drops(commits, Len(commits), f) >= 1
    BY DEF KInv, Kept
  <1>4. Count(f \in lastFiles) = 1 /\ Count(Owed(f)) \in {0, 1}
    BY <1>3 DEF Count
  <1>5. refCounts[f] + renameFaults >= Drops(commits, Len(commits), f) + Count(f \in lastFiles) + Count(Owed(f))
    BY <1>1 DEF KInv, Covered, HeldRefs
  <1>6. Drops(commits, Len(commits), f) \in Nat /\ refCounts[f] \in Int /\ renameFaults \in Nat
    BY <1>1, HolderTypes DEF KInv, IInv, TypeInv
  <1>. QED  BY <1>1, <1>2, <1>3, <1>4, <1>5, <1>6

LEMMA WithoutNone ==
    ASSUME NEW d, NEW files, files = {}
    PROVE  WithoutFiles(d, files) = d
  BY DEF WithoutFiles

(* Neither finishCommit nor the commit of nothing deletes a file.             *)
LEMMA GivingBackDeletesNothing ==
    ASSUME MaxRenameFaults <= 1, KInv, FinishDecRef \/ PrepareNothing
    PROVE  data' = data
  <1>1. CASE FinishDecRef
    <2>1. ASSUME NEW f \in filesToCommit PROVE refCounts[f] # 1
      <3>1. f \in Files(infos, FALSE) /\ pc # "none" /\ Owed(f)
        BY <1>1 DEF KInv, Kept, Owed, FinishDecRef
      <3>2. Count(Owed(f)) = 1
        BY <3>1 DEF Count
      <3>3. /\ refCounts[f] \in Int
            /\ Drops(commits, Len(commits), f) \in Nat /\ Drops(commits, Len(commits), f) >= 1
            /\ refCounts[f] >= Drops(commits, Len(commits), f) + Count(Owed(f))
        BY <3>1, KeptIsCounted
      <3>. QED  BY <3>2, <3>3
    <2>2. Unreferenced(refCounts, filesToCommit) = {}
      BY <2>1 DEF Unreferenced
    <2>. QED  BY <1>1, <2>2, WithoutNone DEF FinishDecRef
  <1>2. CASE PrepareNothing
    <2>. DEFINE files == Files(infos, FALSE)
                rc == IncRef(refCounts, files)
    <2>1. ASSUME NEW f \in files PROVE rc[f] # 1
      <3>1. pc # "none"
        BY <1>2 DEF PrepareNothing
      <3>2. /\ f \in File /\ refCounts[f] \in Int
            /\ Drops(commits, Len(commits), f) \in Nat /\ Drops(commits, Len(commits), f) >= 1
            /\ refCounts[f] >= Drops(commits, Len(commits), f) + Count(Owed(f))
        BY <3>1, KeptIsCounted
      <3>3. Count(Owed(f)) \in {0, 1}
        BY DEF Count
      <3>. HIDE DEF files
      <3>4. rc[f] = refCounts[f] + 1
        BY <3>2 DEF IncRef, Count
      <3>. HIDE DEF rc
      <3>. QED  BY <3>2, <3>3, <3>4
    <2>2. data' = WithoutFiles(data, Unreferenced(rc, files))
      BY <1>2 DEF PrepareNothing
    <2>. HIDE DEF rc, files
    <2>3. Unreferenced(rc, files) = {}
      BY <2>1 DEF Unreferenced
    <2>. QED  BY <2>2, <2>3, WithoutNone
  <1>. QED  BY <1>1, <1>2

(* The commits are the same, and no data file is deleted.                     *)
LEMMA SameCommits ==
    ASSUME LatestCommitComplete, segments' = segments, data \subseteq data'
    PROVE  LatestCommitComplete'
  BY DEF LatestCommitComplete, IsLatest

(* The files a checkpoint lists for deletion are not those of the commit.     *)
LEMMA CheckpointSpares ==
    ASSUME MaxRenameFaults <= 1, KInv, Checkpoint
    PROVE  Kept'
  <1>. DEFINE files == Files(infos, FALSE)
              cp == CommitPoint(infos)
  <1>1. /\ pc = "checkpoint" /\ pc' = "delete"
        /\ UNCHANGED <<segments, data, infos, lastCommitChangeCount, filesToCommit, lastFiles>>
        /\ Len(commits') = 1 /\ commits'[1] = cp
    BY CheckpointState DEF KInv
  <1>2. \A f \in files : f \in cp.files /\ f \in File
    BY FilesOf, FilesType DEF KInv, IInv, TypeInv, TypeOK
  <1>3. ASSUME NEW f \in files PROVE Drops(commits', Len(commits'), f) >= 1
    <2>1. Drops(commits', Len(commits'), f) = Count(f \in cp.files)
      BY <1>1, DropsOfOne
    <2>2. Count(f \in cp.files) = 1
      BY <1>2 DEF Count
    <2>. QED  BY <2>1, <2>2
  <1>4. ASSUME NEW f \in files PROVE f \notin toDelete'
    <2>1. /\ Drops(commits, Len(commits), f) \in Nat /\ refCounts[f] \in Int
          /\ refCounts[f] >= Drops(commits, Len(commits), f) + Count(Owed(f))
      BY <1>1, KeptIsCounted
    <2>2. Count(Owed(f)) \in {0, 1} /\ Count(f \in cp.files) = 1
      BY <1>2 DEF Count
    <2>3. f \in toDelete' => refCounts[f] + Count(f \in cp.files) \in 1..Drops(commits, Len(commits), f)
      BY CheckpointState DEF KInv
    <2>. HIDE DEF cp, files
    <2>. QED  BY <2>1, <2>2, <2>3
  <1>5. Published' <=> Published
    BY <1>1 DEF Published
  <1>. QED  BY <1>1, <1>3, <1>4, <1>5 DEF Kept, KInv

LEMMA KeptStep ==
    ASSUME MaxRenameFaults <= 1, KInv, [Next]_vars
    PROVE  Kept' /\ LatestCommitComplete'
  <1>1. CASE \E mode \in OpenModes, at \in IndexCommits : NewIndexWriter(mode, at)
    <2>1. segments' = segments /\ data' = data
      BY <1>1 DEF NewIndexWriter, directory
    <2>. QED  BY <1>1, <2>1, OpenCovered, SameCommits DEF KInv
  <1>2. CASE AddDocument \/ Commit \/ Close \/ ResumeCommit \/ RenameFails
    <2>1. /\ UNCHANGED <<segments, data, infos, lastCommitChangeCount, filesToCommit, commits, lastFiles, toDelete>>
          /\ pc # "none" /\ (Published' <=> Published)
      BY <1>2 DEF AddDocument, Commit, Close, ResumeCommit, RenameFails, Failed, directory, counts, deleter,
                  Published
    <2>2. Kept'
      BY <2>1 DEF Kept, KInv
    <2>. QED  BY <2>1, <2>2, SameCommits DEF KInv
  <1>3. CASE PrepareNothing
    <2>1. data' = data
      BY <1>3, GivingBackDeletesNothing
    <2>2. /\ UNCHANGED <<segments, infos, lastCommitChangeCount, commits, lastFiles, toDelete>>
          /\ filesToCommit' = {}
          /\ pc = "commit" /\ pc' \in {"idle", "flush"}
      BY <1>3, ReturnedType DEF PrepareNothing, KInv, IInv, TypeInv
    <2>3. Published' <=> Published
      BY <2>2 DEF Published
    <2>4. Kept'
      BY <2>1, <2>2, <2>3 DEF Kept, KInv
    <2>. QED  BY <2>1, <2>2, <2>4, SameCommits DEF KInv
  <1>4. CASE PrepareCommit \/ PrepareCommitFails
    <2>1. /\ Prepare
          /\ infos'.segs = infos.segs
          /\ pc' \in {"finish", "idle"}
      BY <1>4 DEF PrepareCommit, PrepareCommitFails, Failed, ToCommit, Infos
    <2>2. /\ UNCHANGED <<segments, data, commits, lastFiles, toDelete>>
          /\ pc = "commit"
          /\ filesToCommit' = Files(infos, FALSE)
      BY <2>1 DEF Prepare
    <2>3. Files(infos', FALSE) = Files(infos, FALSE)
      BY <2>1 DEF Files
    <2>4. lastCommitChangeCount' = 0
      BY <2>1, PrepareState DEF KInv
    <2>5. ~Published'
      BY <2>1, <2>4 DEF Published
    <2>6. Kept'
      BY <2>1, <2>2, <2>3, <2>5 DEF Kept, KInv
    <2>. QED  BY <2>2, <2>6, SameCommits DEF KInv
  <1>5. CASE FinishDecRef
    <2>1. data' = data
      BY <1>5, GivingBackDeletesNothing
    <2>2. /\ UNCHANGED <<segments, infos, lastCommitChangeCount, filesToCommit, commits, lastFiles, toDelete>>
          /\ pc = "finish" /\ pc' = "rename"
      BY <1>5 DEF FinishDecRef, counts
    <2>3. Published' <=> Published
      BY <2>2 DEF Published
    <2>4. Kept'
      BY <2>1, <2>2, <2>3 DEF Kept, KInv
    <2>. QED  BY <2>1, <2>2, <2>4, SameCommits DEF KInv
  <1>6. CASE RenamePending
    <2>1. /\ UNCHANGED <<data, infos, filesToCommit, commits, lastFiles, toDelete>>
          /\ pc = "rename" /\ pc' = "checkpoint"
      BY <1>6 DEF RenamePending, deleter
    <2>2. /\ DOMAIN segments' = DOMAIN segments \cup {infos.gen}
          /\ segments'[infos.gen].segs = infos.segs
          /\ \A h \in DOMAIN segments : h <= infos.gen
      BY <1>6, RenameState DEF ToWrite, NoneNewer, KInv
    <2>3. Kept'
      BY <2>1, <2>2 DEF Kept, KInv
    <2>4. ASSUME NEW g \in DOMAIN segments', IsLatest(g)' PROVE g = infos.gen
      <3>1. infos.gen \in Nat /\ DOMAIN segments \subseteq Nat
        BY DirectoryType, BoundsAssumption DEF KInv, IInv, TypeInv, TypeOK, SegmentInfos, Gen
      <3>2. infos.gen <= g
        BY <2>2, <2>4 DEF IsLatest
      <3>. QED  BY <2>2, <3>1, <3>2
    <2>5. infos.segs \subseteq data
      BY <2>1 DEF Kept, KInv
    <2>. QED  BY <2>1, <2>2, <2>3, <2>4, <2>5 DEF LatestCommitComplete
  <1>7. CASE Checkpoint
    <2>1. segments' = segments /\ data' = data
      BY <1>7, CheckpointState DEF KInv
    <2>. QED  BY <1>7, <2>1, CheckpointSpares, SameCommits DEF KInv
  <1>8. ASSUME NEW f \in File, DeleteFile(f) PROVE Kept' /\ LatestCommitComplete'
    <2>1. /\ UNCHANGED <<pc, infos, lastCommitChangeCount, filesToCommit, commits, lastFiles>>
          /\ toDelete' \subseteq toDelete
          /\ f \in toDelete /\ pc = "delete"
          /\ data' = WithoutFiles(data, {f})
      BY <1>8 DEF DeleteFile, counts, deleter
    <2>2. segments' = segments
      BY <1>8, DeleteFileKeepsInv DEF KInv
    <2>3. infos.segs \subseteq data /\ f \notin Files(infos, FALSE)
      BY <2>1 DEF Kept, KInv
    <2>4. infos.segs \subseteq data'
      BY <2>1, <2>3, FilesOf DEF WithoutFiles
    <2>5. Published /\ Published'
      BY <2>1 DEF Published
    <2>6. Kept'
      BY <2>1, <2>2, <2>4, <2>5 DEF Kept, KInv
    <2>7. infos.gen \in DOMAIN segments /\ NoneNewer
      BY <2>1, <2>5 DEF KInv, IInv, SessionInv, Session
    <2>8. ASSUME NEW g \in DOMAIN segments, IsLatest(g) PROVE g = infos.gen
      <3>1. DOMAIN segments \subseteq Nat
        BY DirectoryType DEF KInv
      <3>. QED  BY <2>7, <2>8, <3>1 DEF IsLatest, NoneNewer
    <2>9. segments[infos.gen].segs = infos.segs
      BY <2>1, <2>5 DEF Kept, KInv
    <2>10. LatestCommitComplete'
      BY <2>2, <2>4, <2>8, <2>9 DEF LatestCommitComplete, IsLatest
    <2>. QED  BY <2>6, <2>10
  <1>9. CASE FinishCommit
    <2>1. /\ UNCHANGED <<segments, data, commits, lastFiles, toDelete>>
          /\ pc = "delete" /\ pc' # "none" /\ filesToCommit' = {}
          /\ infos' = Infos(pendingCommit.gen, pendingCommit.lastGen, infos.version, infos.counter, infos.segs)
      BY <1>9, ReturnedType DEF FinishCommit, directory, deleter, KInv, IInv, TypeInv
    <2>2. pendingCommit = infos
      BY <2>1 DEF KInv, IInv, TypeInv, SessionInv, Session, NoSession
    <2>3. infos'.gen = infos.gen /\ infos'.segs = infos.segs
      BY <2>1, <2>2 DEF Infos
    <2>4. Files(infos', FALSE) = Files(infos, FALSE)
      BY <2>3 DEF Files
    <2>5. Published
      BY <2>1 DEF Published
    <2>6. Kept'
      BY <2>1, <2>3, <2>4, <2>5 DEF Kept, KInv
    <2>. QED  BY <2>1, <2>6, SameCommits DEF KInv
  <1>10. CASE FlushOnClose \/ Crash
    <2>1. pc' = "none" /\ segments' = segments /\ data \subseteq data'
      BY <1>10 DEF FlushOnClose, Crash, DropWriter, directory
    <2>. QED  BY <2>1, SameCommits DEF Kept, KInv
  <1>11. CASE UNCHANGED vars
    BY <1>11 DEF vars, Kept, KInv, LatestCommitComplete, IsLatest, Published
  <1>. QED
    BY <1>1, <1>2, <1>3, <1>4, <1>5, <1>6, <1>7, <1>8, <1>9, <1>10, <1>11 DEF Next

LEMMA KInvInit == Init => KInv
  <1>. SUFFICES ASSUME Init PROVE KInv
    OBVIOUS
  <1>1. PICK idx \in InitialIndexes : segments = idx.segments /\ data = idx.data
    BY DEF Init
  <1>2. LatestCommitComplete
    BY <1>1, InitialIndexesAssumption DEF WellFormed, LatestCommitComplete
  <1>. QED  BY <1>2, InvInit DEF Init, NoWriter, Covered, Kept, KInv

(* The newest segments_N names only segments whose files exist, whatever the  *)
(* writer was doing when the process died, as long as at most one rename of a *)
(* writer fails: FinishDecRef runs again in the retry of every failed rename, *)
(* and the second retry drops a reference that somebody holds.                *)
THEOREM NewestCommitComplete ==
    ASSUME MaxRenameFaults <= 1 PROVE Spec => []LatestCommitComplete
  <1>1. KInv /\ [Next]_vars => KInv'
    BY KeptStep, StepCovered, InvStep DEF KInv
  <1>2. KInv => LatestCommitComplete
    BY DEF KInv
  <1>. QED  BY <1>1, <1>2, KInvInit, PTL DEF Spec

-----------------------------------------------------------------------------
(* Readers beside the writer: what a DirectoryReader sees of the index.       *)

ReaderTypes ==
    /\ rpc \in [Readers -> {"closed", "listed", "opening", "open", "failed", "checking"}]
    /\ rinfos \in [Readers -> SegmentInfos \cup {NoInfos}]
    /\ rgen \in [Readers -> Gen]
    /\ rtodo \in [Readers -> SUBSET SegName]
    /\ floor \in [Readers -> Gen]
    /\ lastGen \in [Readers -> Gen]
    /\ newest \in [Readers -> Gen]
    /\ current \in [Readers -> BOOLEAN]

(* A name that ReadCommit accepts, whether or not the file is there.          *)
Readable(g) == Parses(g) /\ ParseGeneration(g) = g

(* The generation listed is not older than the newest one, if it can be read. *)
ListedRecent(r) == rpc[r] = "listed" /\ Readable(rgen[r]) => floor[r] <= rgen[r]

(* What was read is a commit of the directory, as it was written.             *)
ReadFromCommit(r) ==
    rpc[r] \in {"opening", "open", "checking"} =>
        /\ floor[r] <= rgen[r]
        /\ rgen[r] \in DOMAIN segments
        /\ rinfos[r] = ReadCommit(rgen[r])

(* IsCurrent has listed: the generation it found was the newest one of that   *)
(* moment, if it can be read.                                                 *)
CheckedRecent(r) == rpc[r] = "checking" /\ Readable(lastGen[r]) => lastGen[r] = newest[r]

ReaderInv ==
    /\ ReaderTypes
    /\ \A r \in Readers : ListedRecent(r) /\ ReadFromCommit(r) /\ CheckedRecent(r)

-----------------------------------------------------------------------------
(* A commit that was published stays, with its contents.                      *)
LEMMA CommitsStay ==
    ASSUME IInv, [Next]_vars
    PROVE  \A h \in DOMAIN segments : h \in DOMAIN segments' /\ segments'[h] = segments[h]
  <1>1. CASE RenamePending
    BY <1>1, RenameState
  <1>2. CASE ~RenamePending
    BY <1>2, OnlyRenamePublishes
  <1>. QED  BY <1>1, <1>2

(* The newest generation, for a directory with or without commits.            *)
LEMMA LatestGenType ==
    ASSUME IInv
    PROVE  LatestGen \in Gen /\ (LatestGen \in DOMAIN segments \/ LatestGen = 0)
  <1>1. LatestGen \in DOMAIN segments \/ LatestGen = 0
    BY Zenon DEF LatestGen
  <1>2. DOMAIN segments \subseteq Gen /\ 0 \in Gen
    BY BoundsAssumption DEF IInv, TypeInv, TypeOK, IsPartialFcn, Gen
  <1>. QED  BY <1>1, <1>2

(* GetLastCommitGeneration: if ReadCommit will accept the generation, no      *)
(* commit of the listing is newer.                                            *)
LEMMA ListedIsNewest ==
    ASSUME IInv, NEW g \in Gen, IsLastCommitGeneration(g), Readable(g)
    PROVE  LatestGen <= g
  <1>1. \A h \in Gen : h \in Nat /\ h < 36 * 36 * 36
    BY NameAssumption, BoundsAssumption DEF Gen
  <1>2. ASSUME NEW h \in DOMAIN segments PROVE h <= g
    <2>1. h \in Gen
      BY DEF IInv, TypeInv, TypeOK, IsPartialFcn
    <2>. QED  BY <1>1, <2>1, ReadableName DEF IsLastCommitGeneration, Readable
  <1>3. g >= 0
    BY <1>1
  <1>. QED  BY <1>2, <1>3, LatestGenType

(* The generation listed names a commit then, if ReadCommit will accept it.   *)
LEMMA ListedExists ==
    ASSUME IInv, NEW g \in Gen, IsLastCommitGeneration(g), Readable(g)
    PROVE  LatestGen = g
  <1>1. \A h \in Gen : h \in Nat /\ h < 36 * 36 * 36
    BY NameAssumption, BoundsAssumption DEF Gen
  <1>2. PICK h \in DOMAIN segments : ParseGeneration(h) = g /\ Parses(h)
    BY DEF IsLastCommitGeneration
  <1>3. h \in Gen
    BY DEF IInv, TypeInv, TypeOK, IsPartialFcn
  <1>4. h = g
    BY <1>1, <1>2, <1>3, SameName DEF Readable
  <1>5. \A k \in DOMAIN segments : k <= g
    <2>1. ASSUME NEW k \in DOMAIN segments PROVE k <= g
      <3>1. k \in Gen
        BY DEF IInv, TypeInv, TypeOK, IsPartialFcn
      <3>. QED  BY <1>1, <3>1, ReadableName DEF IsLastCommitGeneration, Readable
    <2>. QED  BY <2>1
  <1>. QED  BY <1>4, <1>5, DirectoryType, LatestOf

-----------------------------------------------------------------------------
LEMMA ReaderInit == RInit => IInv /\ ReaderInv
  <1>. SUFFICES ASSUME RInit PROVE IInv /\ ReaderInv
    OBVIOUS
  <1>1. IInv
    BY InvInit DEF RInit
  <1>2. 0 \in Gen
    BY BoundsAssumption DEF Gen
  <1>3. ReaderTypes
    BY <1>2 DEF RInit, ReaderTypes
  <1>4. \A r \in Readers : rpc[r] = "closed"
    BY DEF RInit
  <1>. QED  BY <1>1, <1>3, <1>4 DEF ReaderInv, ListedRecent, ReadFromCommit, CheckedRecent

(* A step of the writer leaves every reader with the commit it has read.      *)
LEMMA WriterStep ==
    ASSUME IInv, ReaderInv, [Next]_vars, UNCHANGED rvars
    PROVE  IInv' /\ ReaderInv'
  <1>1. IInv'
    BY InvStep
  <1>2. ReaderTypes'
    BY DEF rvars, ReaderTypes, ReaderInv
  <1>3. ASSUME NEW r \in Readers PROVE ListedRecent(r)' /\ ReadFromCommit(r)' /\ CheckedRecent(r)'
    <2>1. ListedRecent(r)' /\ CheckedRecent(r)'
      BY DEF rvars, ReaderInv, ListedRecent, CheckedRecent, Readable, Parses, ParseGeneration, Digit
    <2>2. ReadFromCommit(r)'
      BY CommitsStay DEF rvars, ReaderInv, ReadFromCommit, ReadCommit
    <2>. QED  BY <2>1, <2>2
  <1>. QED  BY <1>1, <1>2, <1>3 DEF ReaderInv

(* A step that leaves a reader where it is, and the commits.                  *)
LEMMA OtherReader ==
    ASSUME ReaderInv, NEW q \in Readers, UNCHANGED segments,
           rpc'[q] = rpc[q], rinfos'[q] = rinfos[q], rgen'[q] = rgen[q], floor'[q] = floor[q],
           lastGen'[q] = lastGen[q], newest'[q] = newest[q]
    PROVE  ListedRecent(q)' /\ ReadFromCommit(q)' /\ CheckedRecent(q)'
  <1>1. ListedRecent(q)' /\ CheckedRecent(q)'
    BY DEF ReaderInv, ListedRecent, CheckedRecent, Readable, Parses, ParseGeneration, Digit
  <1>2. ReadFromCommit(q)'
    BY DEF ReaderInv, ReadFromCommit, ReadCommit
  <1>. QED  BY <1>1, <1>2

LEMMA ListStep ==
    ASSUME IInv, ReaderInv, NEW r \in Readers, List(r)
    PROVE  ReaderInv'
  <1>1. PICK g \in Gen : IsLastCommitGeneration(g) /\ ListWith(r, g)
    BY DEF List
  <1>2. /\ rgen' = [rgen EXCEPT ![r] = g]
        /\ rpc' = [rpc EXCEPT ![r] = "listed"]
        /\ floor' = [floor EXCEPT ![r] = LatestGen]
        /\ rinfos' = [rinfos EXCEPT ![r] = NoInfos]
        /\ current' = [current EXCEPT ![r] = FALSE]
        /\ UNCHANGED <<segments, rtodo, lastGen, newest>>
    BY <1>1 DEF ListWith, vars
  <1>3. ReaderTypes'
    BY <1>2, LatestGenType DEF ReaderInv, ReaderTypes
  <1>4. ASSUME NEW q \in Readers PROVE ListedRecent(q)' /\ ReadFromCommit(q)' /\ CheckedRecent(q)'
    <2>1. CASE q = r
      <3>1. rpc'[r] = "listed" /\ rgen'[r] = g /\ floor'[r] = LatestGen
        BY <1>2 DEF ReaderInv, ReaderTypes
      <3>2. Readable(g) => LatestGen <= g
        BY <1>1, ListedIsNewest
      <3>. QED  BY <2>1, <3>1, <3>2 DEF ListedRecent, ReadFromCommit, CheckedRecent, Readable, Parses,
                   ParseGeneration, Digit
    <2>2. CASE q # r
      <3>1. /\ rpc'[q] = rpc[q] /\ rgen'[q] = rgen[q] /\ floor'[q] = floor[q] /\ rinfos'[q] = rinfos[q]
            /\ lastGen'[q] = lastGen[q] /\ newest'[q] = newest[q]
        BY <1>2, <2>2 DEF ReaderInv, ReaderTypes
      <3>. QED  BY <1>2, <3>1, OtherReader
    <2>. QED  BY <2>1, <2>2
  <1>. QED  BY <1>3, <1>4 DEF ReaderInv

LEMMA ReadSegmentsStep ==
    ASSUME IInv, ReaderInv, NEW r \in Readers, ReadSegments(r)
    PROVE  ReaderInv'
  <1>1. UNCHANGED <<segments, rgen, floor, lastGen, newest, current>> /\ rpc[r] = "listed"
    BY DEF ReadSegments, vars
  <1>2. CASE CanRead(rgen[r])
    <2>1. /\ rinfos' = [rinfos EXCEPT ![r] = ReadCommit(rgen[r])]
          /\ rtodo' = [rtodo EXCEPT ![r] = segments[rgen[r]].segs]
          /\ rpc' = [rpc EXCEPT ![r] = "opening"]
      BY <1>2 DEF ReadSegments
    <2>2. rgen[r] \in DOMAIN segments /\ Readable(rgen[r])
      BY <1>2 DEF CanRead, Readable
    <2>3. ReadCommit(rgen[r]) \in SegmentInfos /\ segments[rgen[r]].segs \in SUBSET SegName
      <3>1. ReadCommit(rgen[r]) \in SegmentInfos
        BY <2>2, ReadCommitType DEF IInv, TypeInv
      <3>2. ReadCommit(rgen[r]).segs = segments[rgen[r]].segs
        BY DEF ReadCommit, Infos
      <3>. QED  BY <3>1, <3>2 DEF SegmentInfos
    <2>4. ReaderTypes'
      BY <1>1, <2>1, <2>3 DEF ReaderInv, ReaderTypes
    <2>5. floor[r] <= rgen[r]
      BY <1>1, <2>2 DEF ReaderInv, ListedRecent
    <2>6. ASSUME NEW q \in Readers PROVE ListedRecent(q)' /\ ReadFromCommit(q)' /\ CheckedRecent(q)'
      <3>1. CASE q = r
        <4>1. rpc'[r] = "opening" /\ rinfos'[r] = ReadCommit(rgen[r])
          BY <2>1 DEF ReaderInv, ReaderTypes
        <4>. QED  BY <1>1, <2>2, <2>5, <3>1, <4>1 DEF ListedRecent, ReadFromCommit, CheckedRecent, ReadCommit
      <3>2. CASE q # r
        <4>1. rpc'[q] = rpc[q] /\ rinfos'[q] = rinfos[q]
          BY <2>1, <3>2 DEF ReaderInv, ReaderTypes
        <4>. QED  BY <1>1, <4>1, OtherReader
      <3>. QED  BY <3>1, <3>2
    <2>. QED  BY <2>4, <2>6 DEF ReaderInv
  <1>3. CASE ~CanRead(rgen[r])
    <2>1. rpc' = [rpc EXCEPT ![r] = "failed"] /\ UNCHANGED <<rinfos, rtodo>>
      BY <1>3 DEF ReadSegments
    <2>2. ReaderTypes'
      BY <1>1, <2>1 DEF ReaderInv, ReaderTypes
    <2>3. ASSUME NEW q \in Readers PROVE ListedRecent(q)' /\ ReadFromCommit(q)' /\ CheckedRecent(q)'
      <3>1. CASE q = r
        <4>1. rpc'[r] = "failed"
          BY <2>1 DEF ReaderInv, ReaderTypes
        <4>. QED  BY <3>1, <4>1 DEF ListedRecent, ReadFromCommit, CheckedRecent
      <3>2. CASE q # r
        <4>1. rpc'[q] = rpc[q]
          BY <2>1, <3>2 DEF ReaderInv, ReaderTypes
        <4>. QED  BY <1>1, <2>1, <4>1, OtherReader
      <3>. QED  BY <3>1, <3>2
    <2>. QED  BY <2>2, <2>3 DEF ReaderInv
  <1>. QED  BY <1>2, <1>3

(* Opening the segments changes neither the generation nor what was read.     *)
LEMMA OpenStep ==
    ASSUME IInv, ReaderInv, NEW r \in Readers, OpenSegment(r) \/ Opened(r)
    PROVE  ReaderInv'
  <1>1. UNCHANGED <<segments, rinfos, rgen, floor, lastGen, newest, current>>
    BY DEF OpenSegment, Opened, vars
  <1>2. CASE OpenSegment(r)
    <2>1. PICK s \in rtodo[r] :
             /\ rtodo' = [rtodo EXCEPT ![r] = IF s \in data THEN @ \ {s} ELSE {}]
             /\ rpc' = [rpc EXCEPT ![r] = IF s \in data THEN @ ELSE "failed"]
      BY <1>2 DEF OpenSegment
    <2>2. ReaderTypes' /\ \A q \in Readers : rpc'[q] \in {rpc[q], "failed"}
      BY <1>1, <2>1 DEF ReaderInv, ReaderTypes
    <2>3. ASSUME NEW q \in Readers PROVE ListedRecent(q)' /\ ReadFromCommit(q)' /\ CheckedRecent(q)'
      <3>1. CASE rpc'[q] = rpc[q]
        BY <1>1, <3>1, OtherReader
      <3>2. CASE rpc'[q] = "failed"
        BY <3>2 DEF ListedRecent, ReadFromCommit, CheckedRecent
      <3>. QED  BY <2>2, <3>1, <3>2
    <2>. QED  BY <2>2, <2>3 DEF ReaderInv
  <1>3. CASE Opened(r)
    <2>1. rpc[r] = "opening" /\ rpc' = [rpc EXCEPT ![r] = "open"] /\ UNCHANGED rtodo
      BY <1>3 DEF Opened
    <2>2. ReaderTypes'
      BY <1>1, <2>1 DEF ReaderInv, ReaderTypes
    <2>3. ASSUME NEW q \in Readers PROVE ListedRecent(q)' /\ ReadFromCommit(q)' /\ CheckedRecent(q)'
      <3>1. CASE q = r
        <4>1. rpc'[r] = "open"
          BY <2>1 DEF ReaderInv, ReaderTypes
        <4>. QED  BY <1>1, <2>1, <3>1, <4>1
             DEF ReaderInv, ListedRecent, ReadFromCommit, CheckedRecent, ReadCommit
      <3>2. CASE q # r
        <4>1. rpc'[q] = rpc[q]
          BY <2>1, <3>2 DEF ReaderInv, ReaderTypes
        <4>. QED  BY <1>1, <4>1, OtherReader
      <3>. QED  BY <3>1, <3>2
    <2>. QED  BY <2>2, <2>3 DEF ReaderInv
  <1>. QED  BY <1>2, <1>3

LEMMA IsCurrentListsStep ==
    ASSUME IInv, ReaderInv, NEW r \in Readers, IsCurrentLists(r)
    PROVE  ReaderInv'
  <1>1. PICK g \in Gen :
           /\ IsLastCommitGeneration(g)
           /\ lastGen' = [lastGen EXCEPT ![r] = g]
           /\ rpc[r] = "open" /\ rpc' = [rpc EXCEPT ![r] = "checking"]
           /\ newest' = [newest EXCEPT ![r] = LatestGen]
           /\ current' = [current EXCEPT ![r] = FALSE]
           /\ UNCHANGED <<segments, rinfos, rgen, rtodo, floor>>
    BY DEF IsCurrentLists, vars
  <1>2. ReaderTypes'
    BY <1>1, LatestGenType DEF ReaderInv, ReaderTypes
  <1>3. ASSUME NEW q \in Readers PROVE ListedRecent(q)' /\ ReadFromCommit(q)' /\ CheckedRecent(q)'
    <2>1. CASE q = r
      <3>1. /\ rpc'[r] = "checking" /\ rgen'[r] = rgen[r] /\ floor'[r] = floor[r]
            /\ rinfos'[r] = rinfos[r] /\ lastGen'[r] = g /\ newest'[r] = LatestGen
        BY <1>1 DEF ReaderInv, ReaderTypes
      <3>2. Readable(g) => LatestGen = g
        BY <1>1, ListedExists
      <3>3. ListedRecent(r)' /\ CheckedRecent(r)'
        BY <3>1, <3>2 DEF ListedRecent, CheckedRecent, Readable, Parses, ParseGeneration, Digit
      <3>4. ReadFromCommit(r)'
        BY <1>1, <3>1 DEF ReaderInv, ReadFromCommit, ReadCommit
      <3>. QED  BY <2>1, <3>3, <3>4
    <2>2. CASE q # r
      <3>1. rpc'[q] = rpc[q] /\ lastGen'[q] = lastGen[q] /\ newest'[q] = newest[q]
        BY <1>1, <2>2 DEF ReaderInv, ReaderTypes
      <3>. QED  BY <1>1, <3>1, OtherReader
    <2>. QED  BY <2>1, <2>2
  <1>. QED  BY <1>2, <1>3 DEF ReaderInv

LEMMA IsCurrentReadsStep ==
    ASSUME IInv, ReaderInv, NEW r \in Readers, IsCurrentReads(r)
    PROVE  ReaderInv'
  <1>1. /\ rpc[r] = "checking" /\ rpc' = [rpc EXCEPT ![r] = "open"]
        /\ current' = [current EXCEPT ![r] = CanRead(lastGen[r]) /\ SameVersion(r)]
        /\ lastGen' = [lastGen EXCEPT ![r] = 0]
        /\ newest' = [newest EXCEPT ![r] = 0]
        /\ UNCHANGED <<segments, rinfos, rgen, rtodo, floor>>
    BY DEF IsCurrentReads, vars
  <1>2. (CanRead(lastGen[r]) /\ SameVersion(r)) \in BOOLEAN
    BY DEF CanRead, SameVersion
  <1>3. 0 \in Gen
    BY BoundsAssumption DEF Gen
  <1>4. ReaderTypes'
    <2>. DEFINE answer == CanRead(lastGen[r]) /\ SameVersion(r)
    <2>1. answer \in BOOLEAN /\ current' = [current EXCEPT ![r] = answer]
      BY <1>1, <1>2
    <2>. HIDE DEF answer
    <2>2. current' \in [Readers -> BOOLEAN]
      BY <2>1, Zenon DEF ReaderInv, ReaderTypes
    <2>. QED  BY <1>1, <1>3, <2>2 DEF ReaderInv, ReaderTypes
  <1>5. ASSUME NEW q \in Readers PROVE ListedRecent(q)' /\ ReadFromCommit(q)' /\ CheckedRecent(q)'
    <2>1. CASE q = r
      <3>1. rpc'[r] = "open"
        BY <1>1 DEF ReaderInv, ReaderTypes
      <3>. QED  BY <1>1, <2>1, <3>1 DEF ReaderInv, ListedRecent, ReadFromCommit, CheckedRecent, ReadCommit
    <2>2. CASE q # r
      <3>1. rpc'[q] = rpc[q] /\ lastGen'[q] = lastGen[q] /\ newest'[q] = newest[q]
        BY <1>1, <2>2 DEF ReaderInv, ReaderTypes
      <3>. QED  BY <1>1, <3>1, OtherReader
    <2>. QED  BY <2>1, <2>2
  <1>. QED  BY <1>4, <1>5 DEF ReaderInv

LEMMA ReaderStep ==
    ASSUME IInv, ReaderInv, [RNext]_<<vars, rvars>>
    PROVE  IInv' /\ ReaderInv'
  <1>1. CASE Next /\ UNCHANGED rvars
    BY <1>1, WriterStep
  <1>2. CASE UNCHANGED <<vars, rvars>>
    BY <1>2, WriterStep
  <1>3. ASSUME NEW r \in Readers,
               \/ List(r) \/ ReadSegments(r) \/ OpenSegment(r) \/ Opened(r)
               \/ IsCurrentLists(r) \/ IsCurrentReads(r)
        PROVE  IInv' /\ ReaderInv'
    <2>1. UNCHANGED vars
      BY <1>3 DEF List, ListWith, ReadSegments, OpenSegment, Opened, IsCurrentLists, IsCurrentReads
    <2>2. IInv'
      BY <2>1, InvStep
    <2>. QED  BY <1>3, <2>2, ListStep, ReadSegmentsStep, OpenStep, IsCurrentListsStep, IsCurrentReadsStep
  <1>. QED  BY <1>1, <1>2, <1>3 DEF RNext

-----------------------------------------------------------------------------
(* A reader that was opened shows a commit no older than the newest one when  *)
(* its open began, with the segments that commit was written with, however    *)
(* many commits, crashes and reopens of the writer came in between.           *)
THEOREM ReadersSeeRecentCommit == RSpec => []ReaderSeesRecentCommit
  <1>1. IInv /\ ReaderInv /\ [RNext]_<<vars, rvars>> => IInv' /\ ReaderInv'
    BY ReaderStep
  <1>2. ASSUME IInv, ReaderInv PROVE ReaderSeesRecentCommit
    <2>1. ASSUME NEW r \in Readers, rpc[r] = "open"
          PROVE  rgen[r] >= floor[r] /\ rinfos[r].segs = segments[rgen[r]].segs
      <3>1. floor[r] <= rgen[r] /\ rinfos[r] = ReadCommit(rgen[r])
        BY <1>2, <2>1 DEF ReaderInv, ReadFromCommit
      <3>2. floor[r] \in Int /\ rgen[r] \in Int
        BY <1>2, BoundsAssumption DEF ReaderInv, ReaderTypes, Gen
      <3>. QED  BY <3>1, <3>2 DEF ReadCommit, Infos
    <2>. QED  BY <2>1 DEF ReaderSeesRecentCommit
  <1>. QED  BY <1>1, <1>2, ReaderInit, PTL DEF RSpec

(* IsCurrent answers that a reader is current only when its commit was the    *)
(* newest one at the time of its listing, though other commits may be         *)
(* published before it reads the file, and though it compares versions that   *)
(* several writers have written.                                              *)
THEOREM CurrentReadersWereNewest == RSpec => CurrentWasNewest
  <1>1. IInv /\ ReaderInv /\ [RNext]_<<vars, rvars>> => IInv' /\ ReaderInv'
    BY ReaderStep
  <1>2. ASSUME IInv, ReaderInv, [RNext]_<<vars, rvars>>
        PROVE  [\A r \in Readers : current'[r] /\ ~current[r] => rgen[r] = newest[r]]_<<vars, rvars>>
    <2>. SUFFICES ASSUME NEW r \in Readers, current'[r], ~current[r] PROVE rgen[r] = newest[r]
      BY <1>2
    <2>1. PICK q \in Readers : List(q) \/ IsCurrentLists(q) \/ IsCurrentReads(q)
      BY <1>2 DEF RNext, rvars, ReadSegments, OpenSegment, Opened
    <2>2. CASE List(q) \/ IsCurrentLists(q)
      <3>1. current' = [current EXCEPT ![q] = FALSE]
        BY <2>2 DEF List, ListWith, IsCurrentLists
      <3>2. current'[r] = current[r] \/ current'[r] = FALSE
        BY <3>1, <1>2 DEF ReaderInv, ReaderTypes
      <3>. QED  BY <3>2
    <2>3. CASE IsCurrentReads(q)
      <3>. DEFINE answer == CanRead(lastGen[q]) /\ SameVersion(q)
      <3>1. rpc[q] = "checking" /\ current' = [current EXCEPT ![q] = answer]
        BY <2>3 DEF IsCurrentReads
      <3>2. r = q /\ answer
        <4>. HIDE DEF answer
        <4>. QED  BY <3>1, <1>2 DEF ReaderInv, ReaderTypes
      <3>3. rgen[r] \in DOMAIN segments /\ rinfos[r] = ReadCommit(rgen[r])
        BY <1>2, <3>1, <3>2 DEF ReaderInv, ReadFromCommit
      <3>4. segments[lastGen[r]].version = segments[rgen[r]].version
        BY <3>2, <3>3 DEF ReadCommit, Infos, SameVersion
      <3>5. lastGen[r] \in DOMAIN segments /\ Readable(lastGen[r])
        BY <3>2 DEF CanRead, Readable
      <3>6. DOMAIN segments \subseteq Nat /\ \A h \in DOMAIN segments : segments[h].version \in Nat
        BY <1>2, DirectoryType, BoundsAssumption
      <3>7. rgen[r] = lastGen[r]
        BY <1>2, <3>3, <3>4, <3>5, <3>6 DEF IInv, DiskInv
      <3>8. lastGen[r] = newest[r]
        BY <1>2, <3>1, <3>2, <3>5 DEF ReaderInv, CheckedRecent
      <3>. QED  BY <3>7, <3>8
    <2>. QED  BY <2>1, <2>2, <2>3
  <1>. QED  BY <1>1, <1>2, ReaderInit, PTL DEF RSpec, CurrentWasNewest
=============================================================================
