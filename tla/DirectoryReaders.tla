-------------------------- MODULE DirectoryReaders --------------------------
(* Readers that open the index while an IndexWriter commits: OpenDirectory-   *)
(* Reader over FindSegmentsFile.RunWithCommit, and IsCurrent.                 *)
(* Sources: core/index/standarddirectoryreader.go, segmentinfos.go.           *)
EXTENDS IndexWriter

CONSTANTS Readers, NoInfos

VARIABLES
    rpc,      \* where each reader is: "closed", "listed", "opening", "open", "failed",
              \* or "checking", in IsCurrent between its listing and its read
    rinfos,   \* the SegmentInfos it read, or NoInfos
    rgen,     \* generation of the segments file it works on; 0 before
    rtodo,    \* segments whose SegmentReader it still has to open
    floor,    \* history: newest generation when its open began
    lastGen,  \* the generation IsCurrent has listed; 0 outside
    newest,   \* history: newest generation when IsCurrent listed; 0 outside
    current   \* last answer of IsCurrent

rvars == <<rpc, rinfos, rgen, rtodo, floor, lastGen, newest, current>>

RInit ==
    /\ Init
    /\ rpc = [r \in Readers |-> "closed"]
    /\ rinfos = [r \in Readers |-> NoInfos]
    /\ rgen = [r \in Readers |-> 0]
    /\ rtodo = [r \in Readers |-> {}]
    /\ floor = [r \in Readers |-> 0]
    /\ lastGen = [r \in Readers |-> 0]
    /\ newest = [r \in Readers |-> 0]
    /\ current = [r \in Readers |-> FALSE]

ListWith(r, g) ==
    /\ rpc[r] \in {"closed", "open", "failed"}
    /\ rgen' = [rgen EXCEPT ![r] = g]
    /\ rpc' = [rpc EXCEPT ![r] = "listed"]
    /\ floor' = [floor EXCEPT ![r] = LatestGen]
    /\ rinfos' = [rinfos EXCEPT ![r] = NoInfos]
    /\ current' = [current EXCEPT ![r] = FALSE]
    /\ UNCHANGED <<vars, rtodo, lastGen, newest>>

(* ListAll and GetLastCommitGeneration; an empty listing or a name that does  *)
(* not parse is an error.                                                     *)
ListAny(r) == \E g \in DOMAIN segments : ListWith(r, g)
List(r) == \E g \in Gen : IsLastCommitGeneration(g) /\ ListWith(r, g)

(* doBody: ReadCommit, then one SegmentReader after the other.  Its error is  *)
(* returned at once.                                                          *)
ReadSegments(r) ==
    /\ rpc[r] = "listed"
    /\ IF CanRead(rgen[r])
       THEN /\ rinfos' = [rinfos EXCEPT ![r] = ReadCommit(rgen[r])]
            /\ rtodo' = [rtodo EXCEPT ![r] = segments[rgen[r]].segs]
            /\ rpc' = [rpc EXCEPT ![r] = "opening"]
       ELSE /\ rpc' = [rpc EXCEPT ![r] = "failed"]
            /\ UNCHANGED <<rinfos, rtodo>>
    /\ UNCHANGED <<vars, rgen, floor, lastGen, newest, current>>

OpenSegment(r) ==
    /\ rpc[r] = "opening" /\ rtodo[r] # {}
    /\ \E s \in rtodo[r] :
          /\ \A t \in rtodo[r] : t <= s
          /\ rtodo' = [rtodo EXCEPT ![r] = IF s \in data THEN @ \ {s} ELSE {}]
          /\ rpc' = [rpc EXCEPT ![r] = IF s \in data THEN @ ELSE "failed"]
    /\ UNCHANGED <<vars, rinfos, rgen, floor, lastGen, newest, current>>

Opened(r) ==
    /\ rpc[r] = "opening" /\ rtodo[r] = {}
    /\ rpc' = [rpc EXCEPT ![r] = "open"]
    /\ UNCHANGED <<vars, rinfos, rgen, rtodo, floor, lastGen, newest, current>>

(* IsCurrent compares versions with ReadLatestCommit, which lists the         *)
(* directory as List does, and then opens and reads the file it chose: other  *)
(* commits may be renamed into place in between.  A file that cannot be read  *)
(* is an error, with the answer no.                                           *)
IsCurrentLists(r) ==
    /\ rpc[r] = "open"
    /\ \E g \in Gen : /\ IsLastCommitGeneration(g)
                      /\ lastGen' = [lastGen EXCEPT ![r] = g]
    /\ newest' = [newest EXCEPT ![r] = LatestGen]
    /\ current' = [current EXCEPT ![r] = FALSE]
    /\ rpc' = [rpc EXCEPT ![r] = "checking"]
    /\ UNCHANGED <<vars, rinfos, rgen, rtodo, floor>>

(* A mutant: a newer commit will do. *)
NotNewer(r) == segments[lastGen[r]].version >= rinfos[r].version
SameVersion(r) == segments[lastGen[r]].version = rinfos[r].version

IsCurrentReads(r) ==
    /\ rpc[r] = "checking"
    /\ current' = [current EXCEPT ![r] = CanRead(lastGen[r]) /\ SameVersion(r)]
    /\ lastGen' = [lastGen EXCEPT ![r] = 0]
    /\ newest' = [newest EXCEPT ![r] = 0]
    /\ rpc' = [rpc EXCEPT ![r] = "open"]
    /\ UNCHANGED <<vars, rinfos, rgen, rtodo, floor>>

RNext ==
    \/ Next /\ UNCHANGED rvars
    \/ \E r \in Readers : \/ List(r) \/ ReadSegments(r) \/ OpenSegment(r) \/ Opened(r)
                         \/ IsCurrentLists(r) \/ IsCurrentReads(r)

RSpec == RInit /\ [][RNext]_<<vars, rvars>>

-----------------------------------------------------------------------------
(* A reader is in one of its stages and works on a generation that exists or  *)
(* has existed.                                                               *)
RTypeOK ==
    /\ rpc \in [Readers -> {"closed", "listed", "opening", "open", "failed", "checking"}]
    /\ \A r \in Readers : rinfos[r] \in SegmentInfos \cup {NoInfos}
    /\ rgen \in [Readers -> Gen]
    /\ rtodo \in [Readers -> SUBSET SegName]
    /\ floor \in [Readers -> Gen]
    /\ lastGen \in [Readers -> Gen]
    /\ newest \in [Readers -> Gen]
    /\ current \in [Readers -> BOOLEAN]

(* An opened reader shows a commit no older than the newest one when its open *)
(* began, with the segments that commit was written with.                     *)
ReaderSeesRecentCommit ==
    \A r \in Readers : rpc[r] = "open" =>
        /\ rgen[r] >= floor[r]
        /\ rinfos[r].segs = segments[rgen[r]].segs

(* IsCurrent answers as of a moment between its call and its answer: when the *)
(* answer becomes true, the reader's commit was the newest one on disk at the *)
(* time of the listing, though other commits may have followed, and though    *)
(* only versions, written by several writers, are compared.                   *)
CurrentWasNewest ==
    [][\A r \in Readers : current'[r] /\ ~current[r] => rgen[r] = newest[r]]_<<vars, rvars>>

(* The stronger reading, which no caller may rely on: the commit is still the *)
(* newest one when the answer is given.                                       *)
CurrentMeansNewest ==
    [][\A r \in Readers : current'[r] /\ ~current[r] => rgen[r] = LatestGen]_<<vars, rvars>>

(* RunWithCommit: "Loop until we succeed in calling DoBody() without hitting  *)
(* an IOException.  An IOException most likely means an IW deleted our commit *)
(* while opening ... on each retry we must see forward progress": while newer *)
(* commits appear, opening does not fail.                                     *)
OpenSurvivesDeletion ==
    \A r \in Readers : rpc[r] = "failed" => rgen[r] = LatestGen
=============================================================================
