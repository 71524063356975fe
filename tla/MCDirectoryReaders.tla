------------------------- MODULE MCDirectoryReaders -------------------------
(* Small instances of IndexWriter with a reader beside it: an empty           *)
(* directory, an index with one commit, and one whose second commit added a   *)
(* segment.                                                                   *)
EXTENDS DirectoryReaders

Contents1 == [version |-> 1, counter |-> 1, segs |-> {0}]
Contents2 == [version |-> 2, counter |-> 2, segs |-> {0, 1}]

MCInitialIndexes ==
    {[segments |-> [g \in {} |-> Contents1], data |-> {}],
     [segments |-> [g \in {1} |-> Contents1], data |-> {0}],
     [segments |-> [g \in {1, 2} |-> IF g = 1 THEN Contents1 ELSE Contents2], data |-> {0, 1}]}
MCIndexCommits == {0, 1, 2}

(* The configuration an application can ask for today: no setter changes      *)
(* openMode or commit of an IndexWriterConfig.                                *)
ShippedModes == {"CREATE_OR_APPEND"}
ShippedCommits == {0}

(* An index whose ninth commit was published. *)
NinthCommit == {[segments |-> [g \in {9} |-> [version |-> 9, counter |-> 1, segs |-> {0}]], data |-> {0}]}
=============================================================================
