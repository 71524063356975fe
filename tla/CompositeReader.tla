---------------------------- MODULE CompositeReader ----------------------------
(* core/index/compositereader.go: the readers of the segments seen as one. A     *)
(* document of it is found through starts, and a search goes through the leaves  *)
(* of its context, which have their document bases from a walk of their own.     *)
(*                                                                               *)
(* A sub reader is the sequence of its documents, each live or deleted and with  *)
(* the frequency of one term of one field in it.                                 *)
EXTENDS Integers, Sequences, FiniteSets, FiniteSetsExt, SequencesExt

CONSTANTS
    SubReaders,         \* the sub readers there may be
    MaxSubReaders,      \* bound: sub readers of a composite reader
    ActualMaxDocs       \* GetActualMaxDocs()

SubDocs == [live : BOOLEAN, freq : Nat]

ASSUME CompositeAssumption ==
    /\ SubReaders \subseteq Seq(SubDocs)
    /\ MaxSubReaders \in Nat /\ ActualMaxDocs \in Nat

VARIABLE cr

(* The loops over the sub readers, each of which adds up something of theirs. *)
RunningTotals(counts) ==
    LET sum[i \in 0 .. Len(counts)] == IF i = 0 THEN 0 ELSE sum[i - 1] + counts[i]
    IN  sum
Total(counts) == RunningTotals(counts)[Len(counts)]

MaxDocs(subs) == [i \in DOMAIN subs |-> Len(subs[i])]
LiveDocs(sub) == Cardinality({d \in DOMAIN sub : sub[d].live})
LiveCounts(subs) == [i \in DOMAIN subs |-> LiveDocs(subs[i])]

(* A sub reader without the term, or without the field, has no terms to seek. *)
LeafDocFreq(sub) == Cardinality({d \in DOMAIN sub : sub[d].freq > 0})
LeafTotalTermFreq(sub) == Total([d \in DOMAIN sub |-> sub[d].freq])
DocFreq(subs) == Total([i \in DOMAIN subs |-> LeafDocFreq(subs[i])])
TotalTermFreq(subs) == Total([i \in DOMAIN subs |-> LeafTotalTermFreq(subs[i])])

--------------------------------------------------------------------------------
(* What is made when the reader is opened: the order of the sub readers, by the  *)
(* sorter there may be, and the first document of each, with the end as the last *)
(* of starts.                                                                    *)
Sorted(subs) == \A i, j \in DOMAIN subs : i < j => Len(subs[i]) <= Len(subs[j])
Sorts(subs) == {[i \in DOMAIN subs |-> subs[p[i]]] : p \in Bijection(DOMAIN subs, DOMAIN subs)}
Starts(subs) == [i \in 1 .. Len(subs) + 1 |-> RunningTotals(MaxDocs(subs))[i - 1]]

(* A mutant: the search stops at the match it met. *)
AnyMatch(starts, mid) == mid

(* A match is followed to the last of the starts that are the same. *)
LastMatch(starts, mid) ==
    Max({i \in mid .. Len(starts) : \A k \in mid .. i : starts[k] = starts[mid]})

(* The binary search of SubIndex, over the ranges that are left of starts. *)
SubIndex(n, starts) ==
    LET in[range \in (1 .. Len(starts) + 1) \X (0 .. Len(starts))] ==
            LET lo == range[1]
                hi == range[2]
                mid == (lo + hi) \div 2
            IN  IF hi < lo THEN hi
                ELSE IF n < starts[mid] THEN in[<<lo, mid - 1>>]
                ELSE IF n > starts[mid] THEN in[<<mid + 1, hi>>]
                ELSE LastMatch(starts, mid)
    IN  in[<<1, Len(starts)>>]

(* CompositeReaderBuilder.build: a leaf for every sub reader, in order. *)
BuildLeaf(b, sub) == [leaves |-> Append(b.leaves, [ord |-> Len(b.leaves) + 1, docBase |-> b.docBase, reader |-> sub]),
                      docBase |-> b.docBase + Len(sub)]
BuildContext(subs) ==
    LET built[i \in 0 .. Len(subs)] ==
            IF i = 0 THEN [leaves |-> <<>>, docBase |-> 0] ELSE BuildLeaf(built[i - 1], subs[i])
    IN  built[Len(subs)].leaves

--------------------------------------------------------------------------------
CompositeInit ==
    cr = [pc |-> "segments", subs |-> <<>>, starts |-> <<>>, maxDoc |-> 0, numDocs |-> -1, leaves |-> <<>>,
          found |-> <<>>]

AddSegment ==
    /\ cr.pc = "segments" /\ Len(cr.subs) < MaxSubReaders
    /\ \E sub \in SubReaders : cr' = [cr EXCEPT !.subs = Append(@, sub)]

(* newBaseCompositeReader: sort.Sort compares as soon as there are two readers, *)
(* and leaves readers that are equal in any order.                              *)
OpenComposite ==
    /\ cr.pc = "segments"
    /\ \E sorter \in BOOLEAN : \E subs \in Sorts(cr.subs) :
        /\ sorter => Sorted(subs)
        /\ ~sorter => subs = cr.subs
        /\ cr' = IF ~sorter /\ Len(subs) > 1 THEN [cr EXCEPT !.pc = "panic"]
                 ELSE IF Total(MaxDocs(subs)) > ActualMaxDocs THEN [cr EXCEPT !.pc = "too many"]
                 ELSE [cr EXCEPT !.pc = "open", !.subs = subs, !.starts = Starts(subs),
                                 !.maxDoc = Total(MaxDocs(subs))]

(* A mutant: the documents that are not live count. *)
NumDocsOfAll ==
    /\ cr.pc = "open"
    /\ cr' = [cr EXCEPT !.numDocs = IF @ = -1 THEN Total(MaxDocs(cr.subs)) ELSE @]

(* NumDocs is computed once. *)
NumDocs ==
    /\ cr.pc = "open"
    /\ cr' = [cr EXCEPT !.numDocs = IF @ = -1 THEN Total(LiveCounts(cr.subs)) ELSE @]

(* GetContext is computed once. *)
GetContext ==
    /\ cr.pc = "open" /\ cr.leaves = <<>>
    /\ cr' = [cr EXCEPT !.leaves = BuildContext(cr.subs)]

(* DocumentWithVisitor: the sub reader and its document, or an error. *)
ReaderIndex(doc) == IF doc < 0 \/ doc >= cr.maxDoc THEN 0 ELSE SubIndex(doc, cr.starts)
Document ==
    /\ cr.pc = "open"
    /\ \E doc \in -1 .. cr.maxDoc :
           LET i == ReaderIndex(doc)
           IN  cr' = [cr EXCEPT !.found = IF i = 0 THEN <<>> ELSE <<i, doc - cr.starts[i]>>]

CompositeNext == AddSegment \/ OpenComposite \/ NumDocs \/ GetContext \/ Document
CompositeSpec == CompositeInit /\ [][CompositeNext]_cr

--------------------------------------------------------------------------------
Route(doc) == LET i == ReaderIndex(doc) IN <<i, doc - cr.starts[i]>>
AllDocs == 0 .. cr.maxDoc - 1

(* A document number leads to a document of a sub reader, no two to the same, and *)
(* none is left out; a search that meets the document in a leaf of the context    *)
(* gives it this very number. Sub readers of no documents are passed over,        *)
(* wherever they are, and numbers out of range are refused.                       *)
RoutesAgree ==
    cr.pc = "open" =>
        /\ {Route(doc) : doc \in AllDocs} =
               UNION {{<<i, d>> : d \in 0 .. Len(cr.subs[i]) - 1} : i \in DOMAIN cr.subs}
        /\ cr.leaves # <<>> => \A doc \in AllDocs :
               LET leaf == cr.leaves[Route(doc)[1]]
               IN  leaf.docBase + Route(doc)[2] = doc /\ leaf.reader = cr.subs[Route(doc)[1]]
        /\ ReaderIndex(-1) = 0 /\ ReaderIndex(cr.maxDoc) = 0
        /\ cr.found = <<>> \/ cr.found[2] + 1 \in DOMAIN cr.subs[cr.found[1]]

(* The statistics of the reader are those of the documents its numbers lead to:   *)
(* live documents, once they were counted, and, deleted or not, the documents of  *)
(* the term and its occurrences.                                                  *)
At(doc) == cr.subs[Route(doc)[1]][Route(doc)[2] + 1]
Occurrences == UNION {{<<doc, k>> : k \in 1 .. At(doc).freq} : doc \in AllDocs}
StatisticsAddUp ==
    cr.pc = "open" =>
        /\ cr.numDocs # -1 => cr.numDocs = Cardinality({doc \in AllDocs : At(doc).live})
        /\ DocFreq(cr.subs) = Cardinality({doc \in AllDocs : At(doc).freq > 0})
        /\ TotalTermFreq(cr.subs) = Cardinality(Occurrences)

(* Without a sorter a reader of several segments can be opened too; it panics. *)
OpensUnsorted == cr.pc # "panic"

(* A composite reader is its sub readers one after the other: document        *)
(* numbers and statistics agree with theirs (baseCompositeReader).            *)
CompositeIsItsSubs == RoutesAgree /\ StatisticsAddUp
================================================================================
