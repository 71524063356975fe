-------------------------------- MODULE BKDTree --------------------------------
(* Trees of points, written, read and queried, in both of their forms.           *)
(*                                                                               *)
(* The block KD-tree writer (core/util/bkd): points are added, partitioned       *)
(* around the median of a dimension until a slice fits a leaf, and written leaf  *)
(* by leaf to the data file; the splits go to the packed index.                  *)
(*                                                                               *)
(* Files are sequences of numbers: a byte, a variable-length number and a long   *)
(* each take one place, file pointers count from 0. A value is the sequence of   *)
(* the bytes of all its dimensions, bytes are 0 .. MaxByte.                      *)
(*                                                                               *)
(* The block KD-tree reader (core/util/bkd): it walks the packed index with the  *)
(* cell of every node, takes the leaves of cells inside the query whole and      *)
(* filters the values of those that cross it. The visitor is the one of          *)
(* PointRangeQuery.                                                              *)
(*                                                                               *)
(* Points of the SimpleText codec: bkdwriter.go and pointswriter.go write a tree *)
(* of a power of two leaves to the .dim file and the field's place to the .dii   *)
(* file; pointsreader.go and bkdreader.go read them.                             *)
EXTENDS Selectors, TextFile

CONSTANTS
    SPLITS_BEFORE_EXACT_BOUNDS, \* splits until the bounds of a node are recomputed (4)
    INTEGER_BYTES,              \* bytes of a document number (4)
    SHORT_DOC                   \* largest document number of the three byte form

Base == MaxByte + 1
Number(bytes) == FoldLeft(LAMBDA n, b : n * Base + b, 0, bytes)
DocBytes(doc) == [i \in 1 .. INTEGER_BYTES |-> (doc \div (Base ^ (INTEGER_BYTES - i))) % Base]

(* A tree's configuration: dims, indexDims, bytes per dimension, points per leaf *)
(* and points that are kept in memory while partitioning.                        *)
PackedBytesLength(c) == c.dims * c.bytes
PackedIndexBytesLength(c) == c.indexDims * c.bytes
Dim(c, value, d) == SubSeq(value, d * c.bytes + 1, (d + 1) * c.bytes)
SetDim(c, value, d, x) ==
    [i \in DOMAIN value |-> IF (i - 1) \div c.bytes = d THEN x[i - d * c.bytes] ELSE value[i]]
BytesLess(a, b) == KeyLess(a, b, 0)

Mismatch(a, b) ==
    LET differ == {i \in 1 .. Len(a) : a[i] # b[i]}
    IN  IF differ = {} THEN -1 ELSE Min(differ) - 1
PrefixLength(a, b) == IF Mismatch(a, b) = -1 THEN Len(a) ELSE Mismatch(a, b)

--------------------------------------------------------------------------------
(* Writer.Add: the bounds follow the points, a value below the minimum is not *)
(* compared with the maximum.                                                 *)
AddBounds(c, min, max, value) ==
    [min |-> [i \in DOMAIN min |->
                LET d == (i - 1) \div c.bytes
                IN  IF BytesLess(Dim(c, value, d), Dim(c, min, d)) THEN value[i] ELSE min[i]],
     max |-> [i \in DOMAIN max |->
                LET d == (i - 1) \div c.bytes
                IN  IF /\ ~BytesLess(Dim(c, value, d), Dim(c, min, d))
                       /\ BytesLess(Dim(c, max, d), Dim(c, value, d)) THEN value[i] ELSE max[i]]]

--------------------------------------------------------------------------------
(* RadixSelector: points are compared by the bytes of the dimension behind the *)
(* common prefix, then by the dimensions that are not indexed, then by document. *)
SortKey(c, p, dim, prefix) ==
    SubSeq(Dim(c, p.value, dim), prefix + 1, c.bytes)
      \o SubSeq(p.value, PackedIndexBytesLength(c) + 1, Len(p.value)) \o DocBytes(p.doc)
BytesSorted(c) == c.bytes + (c.dims - c.indexDims) * c.bytes + INTEGER_BYTES
Keyed(c, points, dim, prefix) ==
    [i \in DOMAIN points |-> [key |-> SortKey(c, points[i], dim, prefix),
                              value |-> points[i].value, doc |-> points[i].doc]]
Unkeyed(points) == [i \in DOMAIN points |-> [value |-> points[i].value, doc |-> points[i].doc]]

HeapRadixSelect(c, points, dim, from, to, k, prefix) ==
    Unkeyed(SelectK(Keyed(c, points, dim, prefix), BytesSorted(c) - prefix, from, to, k))
HeapRadixSort(c, points, from, to, dim, prefix) ==
    Unkeyed(MsbRadixSort(Keyed(c, points, dim, prefix), BytesSorted(c) - prefix, from, to))

--------------------------------------------------------------------------------
(* One leaf block. *)

Slice(points, from, to) == SubSeq(points, from + 1, to)
CommonPrefixLengths(c, slice) ==
    [d \in 1 .. c.dims |->
        Min({PrefixLength(Dim(c, slice[1].value, d - 1), Dim(c, slice[i].value, d - 1)) : i \in DOMAIN slice})]

(* The dimension with the fewest different bytes behind its prefix, the first *)
(* such one; the first of all if every value is the same.                     *)
SortedDim(c, slice, lens) ==
    LET open == {d \in 1 .. c.dims : lens[d] < c.bytes}
        used(d) == Cardinality({slice[i].value[(d - 1) * c.bytes + lens[d] + 1] : i \in DOMAIN slice})
    IN  IF open = {} THEN 0
        ELSE (CHOOSE d \in open : \A e \in open : used(d) < used(e) \/ (used(d) = used(e) /\ d <= e)) - 1

LeafCardinality(slice) == 1 + Cardinality({i \in 2 .. Len(slice) : slice[i].value # slice[i - 1].value})

(* docidswriter.go: deltas if sorted, else three or four bytes each. *)
WriteDocIds(docs) ==
    IF \A i \in 1 .. Len(docs) - 1 : docs[i] <= docs[i + 1]
    THEN <<0>> \o [i \in DOMAIN docs |-> IF i = 1 THEN docs[1] ELSE docs[i] - docs[i - 1]]
    ELSE <<IF \A i \in DOMAIN docs : docs[i] <= SHORT_DOC THEN 24 ELSE 32>> \o docs

SuffixBytes(c, lens, value) ==
    FlattenSeq([d \in 1 .. c.dims |-> SubSeq(Dim(c, value, d - 1), lens[d] + 1, c.bytes)])

(* Smallest and greatest suffix of every indexed dimension. *)
ActualBounds(c, lens, slice) ==
    LET suffix(i, d) == SubSeq(Dim(c, slice[i].value, d - 1), lens[d] + 1, c.bytes)
        least(d) == CHOOSE i \in DOMAIN slice : \A j \in DOMAIN slice : ~BytesLess(suffix(j, d), suffix(i, d))
        most(d) == CHOOSE i \in DOMAIN slice : \A j \in DOMAIN slice : ~BytesLess(suffix(i, d), suffix(j, d))
    IN  IF c.indexDims = 1 THEN <<>>
        ELSE FlattenSeq([d \in 1 .. c.indexDims |-> suffix(least(d), d) \o suffix(most(d), d)])

(* How many points from the i-th on (counted from 0) share the byte at offset. *)
RunLen(slice, i, offset) ==
    LET end == Min({i + 255, Len(slice)})
    IN  Min({end - i} \cup {j - i : j \in {k \in i + 1 .. end - 1 : slice[k + 1].value[offset] # slice[i + 1].value[offset]}})

RECURSIVE NumRuns(_, _, _)
NumRuns(slice, i, offset) ==
    IF i >= Len(slice) THEN 0 ELSE 1 + NumRuns(slice, i + RunLen(slice, i, offset), offset)

(* Every value once, with how often it comes in a row. *)
LowCardinality(c, lens, slice) ==
    LET starts == SetToSortSeq({i \in DOMAIN slice : i = 1 \/ slice[i].value # slice[i - 1].value},
                               LAMBDA i, j : i < j)
        next(n) == IF n = Len(starts) THEN Len(slice) + 1 ELSE starts[n + 1]
    IN  FlattenSeq([n \in DOMAIN starts |->
            <<next(n) - starts[n]>> \o SuffixBytes(c, lens, slice[starts[n]].value)])

RECURSIVE HighCardinalityRuns(_, _, _, _, _)
(* The loop adds the length of the run to an index that it also increments, so *)
(* that the point behind a run is not written.                                 *)
HighCardinalityRuns(c, lens, slice, i, offset) ==
    IF i >= Len(slice) THEN <<>>
    ELSE LET n == RunLen(slice, i, offset)
         IN  <<slice[i + 1].value[offset], n>>
               \o FlattenSeq([j \in 1 .. n |-> SuffixBytes(c, lens, slice[i + j].value)])
               \o HighCardinalityRuns(c, lens, slice, i + n + 1, offset)

(* What storing each value, or each different value, would take. *)
LowIsCheaper(c, lens, slice, offset) ==
    LET sum == FoldLeft(LAMBDA a, b : a + b, 0, lens)
    IN  /\ LeafCardinality(slice) # Len(slice)
        /\ LeafCardinality(slice) * (PackedBytesLength(c) - sum + 1)
             <= Len(slice) * (PackedBytesLength(c) - sum - 1) + 2 * NumRuns(slice, 0, offset)

LeafForm(c, lens, slice, sortedDim) ==
    IF \A d \in 1 .. c.dims : lens[d] = c.bytes THEN 255
    ELSE IF LowIsCheaper(c, lens, slice, sortedDim * c.bytes + lens[sortedDim + 1] + 1) THEN 254
    ELSE sortedDim

LeafValues(c, lens, slice, sortedDim) ==
    LET form == LeafForm(c, lens, slice, sortedDim)
        offset == sortedDim * c.bytes + lens[sortedDim + 1] + 1
    IN  <<form>> \o (CASE form = 255 -> <<>>
                       [] form = 254 -> ActualBounds(c, lens, slice) \o LowCardinality(c, lens, slice)
                       [] form < 254 -> ActualBounds(c, lens, slice)
                            \o HighCardinalityRuns(c, [lens EXCEPT ![sortedDim + 1] = @ + 1], slice, 0, offset))

LeafBlock(c, lens, slice, sortedDim) ==
    <<Len(slice)>> \o WriteDocIds([i \in DOMAIN slice |-> slice[i].doc])
      \o FlattenSeq([d \in 1 .. c.dims |-> <<lens[d]>> \o SubSeq(Dim(c, slice[1].value, d - 1), 1, lens[d])])
      \o LeafValues(c, lens, slice, sortedDim)

--------------------------------------------------------------------------------
(* The tree. *)

GetNumLeftLeafNodes(numLeaves) ==
    LET full == Max({2 ^ l : l \in {k \in 0 .. numLeaves : 2 ^ k <= numLeaves}})
    IN  (full \div 2) + Min({numLeaves - full, full \div 2})

(* utils.go Subtract: the bytes are subtracted one by one, without a borrow. *)
Subtract(a, b) == [i \in DOMAIN a |-> (a[i] - b[i]) % Base]

SplitDim(c, min, max, parentSplits) ==
    LET dims == 0 .. c.indexDims - 1
        most == Max({parentSplits[d] : d \in dims})
        behind == {d \in dims : parentSplits[d] < most \div 2 /\ Dim(c, min, d) # Dim(c, max, d)}
        span(d) == Subtract(Dim(c, max, d), Dim(c, min, d))
    IN  IF c.indexDims = 1 THEN 0
        ELSE IF behind # {} THEN Min(behind)
        ELSE CHOOSE d \in dims : \A e \in dims : IF e < d THEN BytesLess(span(e), span(d))
                                                 ELSE ~BytesLess(span(d), span(e))

(* computePackedValueBounds: the value is read once, before the loop, so that *)
(* the bounds are those of the slice's first point.                           *)
ComputePackedValueBounds(c, slice) ==
    [min |-> SubSeq(slice[1].value, 1, PackedIndexBytesLength(c)),
     max |-> SubSeq(slice[1].value, 1, PackedIndexBytesLength(c))]

(* buildMerging1Leaf: the slice is sorted in place and its block is appended. *)
BuildLeaf(c, b, leavesOffset, from, to) ==
    LET Written(sorted, lens, sortedDim) ==
            [b EXCEPT !.points = sorted,
                      !.fps[leavesOffset + 1] = Len(b.data),
                      !.data = @ \o LeafBlock(c, lens, Slice(sorted, from, to), sortedDim),
                      !.leaves[leavesOffset + 1] = Slice(sorted, from, to)]
        Sorted(lens, sortedDim) ==
            Written(HeapRadixSort(c, b.points, from, to, sortedDim, lens[sortedDim + 1]), lens, sortedDim)
        By(slice, lens) == Sorted(lens, SortedDim(c, slice, lens))
    IN  By(Slice(b.points, from, to), CommonPrefixLengths(c, Slice(b.points, from, to)))

(* The slice is partitioned at mid, around the value of a dimension there. *)
Cut(c, points, dim, from, to, mid, box) ==
    LET Parted(selected) == [points |-> selected, dim |-> dim, value |-> Dim(c, selected[mid + 1].value, dim)]
    IN  Parted(HeapRadixSelect(c, points, dim, from, to, mid, PrefixLength(Dim(c, box.min, dim), Dim(c, box.max, dim))))
Below(c, box, cut) == [box EXCEPT !.max = SetDim(c, @, cut.dim, cut.value)]
Above(c, box, cut) == [box EXCEPT !.min = SetDim(c, @, cut.dim, cut.value)]

RECURSIVE BuildMerging(_, _, _, _, _, _, _, _)
BuildMerging(c, b, leavesOffset, numLeaves, from, to, parentBox, parentSplits) ==
    LET exact == /\ numLeaves # Len(b.fps) /\ c.indexDims > 2
                 /\ FoldFunction(LAMBDA x, y : x + y, 0, parentSplits) % SPLITS_BEFORE_EXACT_BOUNDS = 0
        numLeft == GetNumLeftLeafNodes(numLeaves)
        mid == from + numLeft * c.maxLeaf
        Left(cut, box, splits) ==
            BuildMerging(c, [b EXCEPT !.points = cut.points,
                                      !.splitDims[leavesOffset + numLeft] = cut.dim,
                                      !.splitValues[leavesOffset + numLeft] = cut.value],
                         leavesOffset, numLeft, from, mid, Below(c, box, cut), splits)
        Halves(cut, box, splits) ==
            BuildMerging(c, Left(cut, box, splits), leavesOffset + numLeft, numLeaves - numLeft, mid, to,
                         Above(c, box, cut), splits)
        Along(dim, box) ==
            Halves(Cut(c, b.points, dim, from, to, mid, box), box, [parentSplits EXCEPT ![dim] = @ + 1])
        Within(box) == Along(SplitDim(c, box.min, box.max, parentSplits), box)
    IN  IF numLeaves = 1 THEN BuildLeaf(c, b, leavesOffset, from, to)
        ELSE Within(IF exact THEN ComputePackedValueBounds(c, Slice(b.points, from, to)) ELSE parentBox)

ZeroBytes(n) == [i \in 1 .. n |-> 0]
Build(c, points, min, max) ==
    LET numLeaves == (Len(points) + c.maxLeaf - 1) \div c.maxLeaf
    IN  BuildMerging(c, [points |-> points, data |-> <<>>, fps |-> ZeroBytes(numLeaves),
                         leaves |-> ZeroBytes(numLeaves), splitDims |-> ZeroBytes(numLeaves - 1),
                         splitValues |-> ZeroBytes(numLeaves - 1)],
                     0, numLeaves, 0, Len(points), [min |-> min, max |-> max], [d \in 0 .. c.indexDims - 1 |-> 0])

--------------------------------------------------------------------------------
(* packIndex: depth first, every split as the difference to the last one of its *)
(* dimension on the way from the root.                                          *)

(* A mutant: the pointer of a left leaf is written as well. *)
PackLeafAlways(b, minFP, isLeft, leavesOffset) == <<b.fps[leavesOffset + 1] - minFP>>

PackLeaf(b, minFP, isLeft, leavesOffset) ==
    IF isLeft THEN <<>> ELSE <<b.fps[leavesOffset + 1] - minFP>>

RECURSIVE RecursePackIndex(_, _, _, _, _, _, _, _)
RecursePackIndex(c, b, minFP, last, negative, isLeft, leavesOffset, numLeaves) ==
    IF numLeaves = 1 THEN PackLeaf(b, minFP, isLeft, leavesOffset)
    ELSE LET leftFP == IF isLeft THEN minFP ELSE b.fps[leavesOffset + 1]
             numLeft == GetNumLeftLeafNodes(numLeaves)
             dim == b.splitDims[leavesOffset + numLeft]
             value == b.splitValues[leavesOffset + numLeft]
             prefix == PrefixLength(value, Dim(c, last, dim))
             step == IF prefix = c.bytes THEN 0 ELSE value[prefix + 1] - Dim(c, last, dim)[prefix + 1]
             delta == IF negative[dim] THEN -step ELSE step
             code == (delta * (1 + c.bytes) + prefix) * c.indexDims + dim
             here == SetDim(c, last, dim, value)
             left == RecursePackIndex(c, b, leftFP, here, [negative EXCEPT ![dim] = TRUE],
                                      TRUE, leavesOffset, numLeft)
             right == RecursePackIndex(c, b, leftFP, here, [negative EXCEPT ![dim] = FALSE],
                                       FALSE, leavesOffset + numLeft, numLeaves - numLeft)
         IN  (IF isLeft THEN <<>> ELSE <<leftFP - minFP>>)
               \o <<code>> \o SubSeq(value, prefix + 2, c.bytes)
               \o (IF numLeft # 1 THEN <<Len(left)>> ELSE <<>>) \o left \o right
PackIndex(c, b) ==
    RecursePackIndex(c, b, 0, ZeroBytes(PackedIndexBytesLength(c)), [d \in 0 .. c.indexDims - 1 |-> FALSE],
                     FALSE, 0, Len(b.fps))

(* writeIndex: the meta file. The document count is the length of a bit set that *)
(* was made for all documents of the segment.                                    *)
WriteIndex(c, b, min, max, pointCount, maxDoc) ==
    [dims |-> c.dims, indexDims |-> c.indexDims, maxLeaf |-> c.maxLeaf, bytes |-> c.bytes,
     numLeaves |-> Len(b.fps), min |-> min, max |-> max, pointCount |-> pointCount,
     docCount |-> maxDoc, packedIndex |-> PackIndex(c, b)]

--------------------------------------------------------------------------------
(* The reader of the block KD-tree and the text form.                            *)

CONSTANT GROUP      \* documents read at once from the three byte form (8)

(* prQueryWeight: a range in every indexed dimension. *)
Matches(c, q, value) ==
    \A d \in 0 .. c.indexDims - 1 :
        ~BytesLess(Dim(c, value, d), Dim(c, q.lower, d)) /\ ~BytesLess(Dim(c, q.upper, d), Dim(c, value, d))

Relate(c, q, min, max) ==
    LET dims == 0 .. c.indexDims - 1
    IN  IF \E d \in dims : \/ BytesLess(Dim(c, q.upper, d), Dim(c, min, d))
                           \/ BytesLess(Dim(c, max, d), Dim(c, q.lower, d)) THEN "outside"
        ELSE IF \E d \in dims : \/ BytesLess(Dim(c, min, d), Dim(c, q.lower, d))
                                \/ BytesLess(Dim(c, q.upper, d), Dim(c, max, d)) THEN "crosses"
        ELSE "inside"

(* What a walk returns: the documents it reported, in order; a walk that reads *)
(* past the end, or values that do not add up, fails.                          *)
Hits(docs) == [ok |-> TRUE, docs |-> docs]
Broken == [ok |-> FALSE, docs |-> <<>>]
Join(first, second) == IF first.ok /\ second.ok THEN Hits(first.docs \o second.docs) ELSE Broken

--------------------------------------------------------------------------------
(* IndexTree.readNodeData: a node with the state its level of the stacks has. *)
NewIndexTree(c) ==
    [id |-> 0, pos |-> 0, right |-> 0, fp |-> 0, splitDim |-> 0,
     values |-> ZeroBytes(PackedIndexBytesLength(c)), negative |-> [d \in 0 .. c.indexDims - 1 |-> FALSE]]

IsLeafNode(r, node) == node.id >= r.numLeaves
NodeExists(r, node) == node.id - r.numLeaves < r.numLeaves

ReadNodeData(c, r, parent, id, isLeft) ==
    LET start == IF isLeft THEN parent.pos ELSE parent.right
        pos == IF isLeft THEN start ELSE start + 1
        negative == [parent.negative EXCEPT ![parent.splitDim] = isLeft]
        fp == IF isLeft THEN parent.fp ELSE parent.fp + r.packedIndex[start + 1]
        code == r.packedIndex[pos + 1]
        dim == code % c.indexDims
        prefix == (code \div c.indexDims) % (1 + c.bytes)
        delta == (code \div c.indexDims) \div (1 + c.bytes)
        old == Dim(c, parent.values, dim)
        first == (old[prefix + 1] + (IF negative[dim] THEN -delta ELSE delta)) % Base
        value == IF prefix = c.bytes THEN old
                 ELSE SubSeq(old, 1, prefix) \o <<first>>
                        \o SubSeq(r.packedIndex, pos + 2, pos + c.bytes - prefix)
        behind == pos + 1 + (IF prefix = c.bytes THEN 0 ELSE c.bytes - prefix - 1)
        sized == id * 2 < r.numLeaves
        next == IF sized THEN behind + 1 ELSE behind
    IN  IF id >= r.numLeaves
        THEN [parent EXCEPT !.id = id, !.pos = pos, !.fp = fp, !.negative = negative]
        ELSE [id |-> id, pos |-> next, fp |-> fp, splitDim |-> dim, negative |-> negative,
              values |-> SetDim(c, parent.values, dim, value),
              right |-> IF sized THEN next + r.packedIndex[behind + 1] ELSE next]
Root(c, r) == ReadNodeData(c, r, NewIndexTree(c), 1, FALSE)
PushLeft(c, r, node) == ReadNodeData(c, r, node, 2 * node.id, TRUE)
PushRight(c, r, node) == ReadNodeData(c, r, node, 2 * node.id + 1, FALSE)

(* The leaves below a node; those of the last level come before those of the one above. *)
RECURSIVE Descend(_, _, _)
Descend(r, id, turn) == IF id < r.numLeaves THEN Descend(r, 2 * id + turn, turn) ELSE id
(* A mutant: a node on the way down counts as one leaf. *)
GetNumLeavesOne(r, node) == 1

GetNumLeaves(r, node) ==
    LET left == Descend(r, node.id, 0)
        right == Descend(r, node.id, 1)
    IN  IF right >= left THEN right - left + 1 ELSE right - left + 1 + r.numLeaves

--------------------------------------------------------------------------------
(* A leaf block. Every reader returns where it stopped. *)

ReadDocIDs(data, fp) ==
    LET count == data[fp + 1]
        raw == SubSeq(data, fp + 3, fp + 2 + count)
    IN  [code |-> data[fp + 2], next |-> fp + 2 + count,
         docs |-> IF data[fp + 2] = 0
                  THEN [i \in DOMAIN raw |-> FoldLeft(LAMBDA a, b : a + b, 0, SubSeq(raw, 1, i))]
                  ELSE raw]

(* visitDocIDs: the third of every group of documents in three bytes is read from *)
(* an empty slice, which panics.                                                  *)
VisitDocIDs(data, fp) ==
    LET r == ReadDocIDs(data, fp)
    IN  IF r.code = 24 /\ Len(r.docs) >= GROUP THEN Broken ELSE Hits(r.docs)

RECURSIVE ReadCommonPrefixes(_, _, _, _, _, _)
ReadCommonPrefixes(c, data, pos, d, lens, value) ==
    IF d = c.dims THEN [lens |-> lens, value |-> value, next |-> pos]
    ELSE LET n == data[pos + 1]
         IN  ReadCommonPrefixes(c, data, pos + 1 + n, d + 1, Append(lens, n),
                 [i \in DOMAIN value |-> IF (i - 1) \div c.bytes = d /\ i - d * c.bytes <= n
                                         THEN data[pos + 1 + i - d * c.bytes] ELSE value[i]])

(* The suffixes behind the prefixes of the first dims dimensions, at pos. *)
SuffixLength(c, lens, dims) == FoldLeft(LAMBDA n, d : n + c.bytes - lens[d], 0, [d \in 1 .. dims |-> d])
Patch(c, lens, value, data, pos) ==
    [i \in DOMAIN value |->
        LET d == (i - 1) \div c.bytes + 1
            at == i - (d - 1) * c.bytes - lens[d]
        IN  IF at <= 0 THEN value[i] ELSE data[pos + SuffixLength(c, lens, d - 1) + at]]

(* A mutant: all least suffixes are read before the greatest. *)
ReadMinMaxApart(c, lens, value, data, pos) ==
    LET bound(which) ==
            [i \in 1 .. PackedIndexBytesLength(c) |->
                LET d == (i - 1) \div c.bytes + 1
                    at == i - (d - 1) * c.bytes - lens[d]
                    start == pos + SuffixLength(c, lens, d - 1) + which * SuffixLength(c, lens, c.indexDims)
                IN  IF at <= 0 THEN value[i] ELSE data[start + at]]
    IN  [min |-> bound(0), max |-> bound(1), next |-> pos + 2 * SuffixLength(c, lens, c.indexDims)]

(* readMinMax: for every dimension its least suffix, then its greatest. *)
ReadMinMax(c, lens, value, data, pos) ==
    LET bound(which) ==
            [i \in 1 .. PackedIndexBytesLength(c) |->
                LET d == (i - 1) \div c.bytes + 1
                    at == i - (d - 1) * c.bytes - lens[d]
                    start == pos + 2 * SuffixLength(c, lens, d - 1)
                IN  IF at <= 0 THEN value[i] ELSE data[start + which * (c.bytes - lens[d]) + at]]
    IN  [min |-> bound(0), max |-> bound(1), next |-> pos + 2 * SuffixLength(c, lens, c.indexDims)]

(* Only documents whose value matches are reported. *)
VisitLeaf(c, q, doc, value) == IF Matches(c, q, value) THEN <<doc>> ELSE <<>>

RECURSIVE VisitSparse(_, _, _, _, _, _, _)
VisitSparse(c, q, lens, value, data, pos, left) ==
    IF left = <<>> THEN Hits(<<>>)
    ELSE LET size == SuffixLength(c, lens, c.dims)
             n == data[pos + 1]
             v == Patch(c, lens, value, data, pos + 1)
         IN  IF pos + 1 + size > Len(data) \/ n > Len(left) THEN Broken
             ELSE Join(Hits(FlattenSeq([i \in 1 .. n |-> VisitLeaf(c, q, left[i], v)])),
                       VisitSparse(c, q, lens, v, data, pos + 1 + size, SubSeq(left, n + 1, Len(left))))

(* visitCompressedDocValues, with the compressed byte counted to the prefix. *)
RECURSIVE VisitCompressed(_, _, _, _, _, _, _, _)
VisitCompressed(c, q, lens, value, data, pos, left, offset) ==
    IF left = <<>> THEN Hits(<<>>)
    ELSE LET size == SuffixLength(c, lens, c.dims)
             n == data[pos + 2]
             run == [value EXCEPT ![offset] = data[pos + 1]]
             v(i) == Patch(c, lens, run, data, pos + 2 + (i - 1) * size)
         IN  IF pos + 2 > Len(data) THEN Broken
             ELSE IF pos + 2 + n * size > Len(data) \/ n > Len(left) THEN Broken
             ELSE Join(Hits(FlattenSeq([i \in 1 .. n |-> VisitLeaf(c, q, left[i], v(i))])),
                       VisitCompressed(c, q, lens, run, data, pos + 2 + n * size,
                                       SubSeq(left, n + 1, Len(left)), offset))

VisitDocValues(c, q, data, fp) ==
    LET ids == ReadDocIDs(data, fp)
        p == ReadCommonPrefixes(c, data, ids.next, 0, <<>>, ZeroBytes(PackedBytesLength(c)))
        form == data[p.next + 1]
        box == ReadMinMax(c, p.lens, p.value, data, p.next + 1)
        pos == IF c.indexDims # 1 THEN box.next ELSE p.next + 1
        relation == IF c.indexDims # 1 THEN Relate(c, q, box.min, box.max) ELSE "crosses"
        offset == form * c.bytes + p.lens[form + 1] + 1
    IN  CASE form = 255 -> Hits(FlattenSeq([i \in DOMAIN ids.docs |-> VisitLeaf(c, q, ids.docs[i], p.value)]))
          [] form # 255 /\ relation = "outside" -> Hits(<<>>)
          [] form # 255 /\ relation = "inside" -> Hits(ids.docs)
          [] form = 254 /\ relation = "crosses" -> VisitSparse(c, q, p.lens, p.value, data, pos, ids.docs)
          [] form < 254 /\ relation = "crosses" ->
               VisitCompressed(c, q, [p.lens EXCEPT ![form + 1] = @ + 1], p.value, data, pos, ids.docs, offset)

--------------------------------------------------------------------------------
RECURSIVE AddAll(_, _, _, _)
AddAll(c, r, data, node) ==
    IF IsLeafNode(r, node)
    THEN IF NodeExists(r, node) THEN VisitDocIDs(data, node.fp) ELSE Hits(<<>>)
    ELSE Join(AddAll(c, r, data, PushLeft(c, r, node)), AddAll(c, r, data, PushRight(c, r, node)))

RECURSIVE IntersectNode(_, _, _, _, _, _, _)
IntersectNode(c, r, data, node, q, min, max) ==
    LET relation == Relate(c, q, min, max)
        split == Dim(c, node.values, node.splitDim)
    IN  CASE relation = "outside" -> Hits(<<>>)
          [] relation = "inside" -> AddAll(c, r, data, node)
          [] relation = "crosses" /\ IsLeafNode(r, node) -> VisitDocValues(c, q, data, node.fp)
          [] relation = "crosses" /\ ~IsLeafNode(r, node) ->
               Join(IntersectNode(c, r, data, PushLeft(c, r, node), q,
                                  min, SetDim(c, max, node.splitDim, split)),
                    IntersectNode(c, r, data, PushRight(c, r, node), q,
                                  SetDim(c, min, node.splitDim, split), max))
Intersect(c, r, data, q) == IntersectNode(c, r, data, Root(c, r), q, r.min, r.max)

RECURSIVE EstimateNode(_, _, _, _, _, _)
EstimateNode(c, r, node, q, min, max) ==
    LET relation == Relate(c, q, min, max)
        split == Dim(c, node.values, node.splitDim)
    IN  CASE relation = "outside" -> 0
          [] relation = "inside" -> c.maxLeaf * GetNumLeaves(r, node)
          [] relation = "crosses" /\ IsLeafNode(r, node) -> (c.maxLeaf + 1) \div 2
          [] relation = "crosses" /\ ~IsLeafNode(r, node) ->
               EstimateNode(c, r, PushLeft(c, r, node), q, min, SetDim(c, max, node.splitDim, split))
                 + EstimateNode(c, r, PushRight(c, r, node), q, SetDim(c, min, node.splitDim, split), max)
EstimatePointCount(c, r, q) == EstimateNode(c, r, Root(c, r), q, r.min, r.max)

--------------------------------------------------------------------------------
(* BytesToString and StringToBytes: the bytes in hexadecimal, in brackets. *)
BytesToString(bytes) == <<Chr("[")>> \o [i \in DOMAIN bytes |-> <<"hex", bytes[i]>>] \o <<Chr("]")>>
IsBytes(text) ==
    /\ Len(text) >= 3 /\ text[1] = Chr("[") /\ text[Len(text)] = Chr("]")
    /\ \A i \in 2 .. Len(text) - 1 : text[i][1] = "hex"
StringToBytes(text) == [i \in 1 .. Len(text) - 2 |-> text[i + 1][2]]

(* A mutant: only the maximum follows the points. *)
TextAddBoundsRaised(c, min, max, value) ==
    [min |-> min,
     max |-> [i \in DOMAIN max |->
                LET d == (i - 1) \div c.bytes
                IN  IF BytesLess(Dim(c, max, d), Dim(c, value, d)) THEN value[i] ELSE max[i]]]

(* BKDWriter.Add: a value may lower the minimum and raise the maximum. *)
TextAddBounds(c, min, max, value) ==
    [min |-> [i \in DOMAIN min |->
                LET d == (i - 1) \div c.bytes
                IN  IF BytesLess(Dim(c, value, d), Dim(c, min, d)) THEN value[i] ELSE min[i]],
     max |-> [i \in DOMAIN max |->
                LET d == (i - 1) \div c.bytes
                IN  IF BytesLess(Dim(c, max, d), Dim(c, value, d)) THEN value[i] ELSE max[i]]]

RECURSIVE NumLeaves(_, _)
NumLeaves(c, countPerLeaf) ==
    IF countPerLeaf > c.maxLeaf THEN 2 * NumLeaves(c, (countPerLeaf + 1) \div 2) ELSE 1

(* The indexed dimension with the widest span, the first of them. *)
TextSplitDim(c, min, max) ==
    LET dims == 0 .. c.indexDims - 1
        span(d) == Number(Dim(c, max, d)) - Number(Dim(c, min, d))
    IN  CHOOSE d \in dims : \A e \in dims : IF e < d THEN span(e) < span(d) ELSE span(e) <= span(d)

(* The block of a leaf: its documents, then its values. *)
BlockLines(slice) ==
    WriteLabel("block count ", Num(Len(slice)))
      \o FlattenSeq([i \in DOMAIN slice |-> WriteLabel("  doc ", Num(slice[i].doc))])
      \o FlattenSeq([i \in DOMAIN slice |-> WriteLabel("  block value ", BytesToString(slice[i].value))])

(* buildV2, leaf: prefixes and bytes are taken over all points of the tree. *)
TextLeaf(c, b, nodeID, from, to) ==
    LET Written(sorted) ==
            [b EXCEPT !.points = sorted, !.fps[nodeID - Len(b.fps) + 1] = Len(b.out) + 1,
                      !.out = @ \o BlockLines(Slice(sorted, from, to))]
        By(lens, sortedDim) == Written(HeapRadixSort(c, b.points, from, to, sortedDim, lens[sortedDim + 1]))
        Open(lens) == By(lens, SortedDim(c, b.points, lens))
    IN  Open(CommonPrefixLengths(c, b.points))

LeftCount(count) == count - (count \div 2)

RECURSIVE BuildV2(_, _, _, _, _, _)
BuildV2(c, b, nodeID, from, to, box) ==
    LET mid == from + LeftCount(to - from)
        Left(cut) ==
            BuildV2(c, [b EXCEPT !.points = cut.points,
                                 !.splits[nodeID + 1] = [dim |-> cut.dim, value |-> cut.value]],
                    2 * nodeID, from, mid, Below(c, box, cut))
        Halves(cut) == BuildV2(c, Left(cut), 2 * nodeID + 1, mid, to, Above(c, box, cut))
    IN  IF nodeID >= Len(b.fps) THEN TextLeaf(c, b, nodeID, from, to)
        ELSE Halves(Cut(c, b.points, TextSplitDim(c, box.min, box.max), from, to, mid, box))

IndexLabels == <<"num data dims ", "num index dims ", "bytes per dim ", "max leaf points ", "index count ",
                 "min value ", "max value ", "point count ", "doc count ">>

(* writeIndex. *)
IndexLines(c, b, min, max, maxDoc) ==
    LET values == <<Num(c.dims), Num(c.indexDims), Num(c.bytes), Num(c.maxLeaf), Num(Len(b.fps)),
                    BytesToString(min), BytesToString(max), Num(Len(b.points)), Num(maxDoc)>>
    IN  FlattenSeq([i \in DOMAIN IndexLabels |-> WriteLabel(IndexLabels[i], values[i])])
          \o FlattenSeq([i \in DOMAIN b.fps |-> WriteLabel("  block fp ", Num(b.fps[i]))])
          \o WriteLabel("split count ", Num(Len(b.splits)))
          \o FlattenSeq([i \in DOMAIN b.splits |->
                WriteLabel("  split dim ", Num(b.splits[i].dim))
                  \o WriteLabel("  split value ", BytesToString(b.splits[i].value))])

(* PointsWriter: WriteField, Finish and Close. *)
WritePoints(c, points, min, max, maxDoc) ==
    LET numLeaves == NumLeaves(c, Len(points))
        nothing == [dim |-> 0, value |-> ZeroBytes(c.bytes)]
        Files(b) ==
            [dim |-> WriteChecksum(b.out \o IndexLines(c, b, min, max, maxDoc) \o <<Label("END"), NEWLINE>>),
             dii |-> WriteChecksum(WriteLabel("field count ", Num(1)) \o WriteLabel("  field fp name ", <<Chr("f")>>)
                                     \o WriteLabel("  field fp ", Num(Len(b.out) + 1)))]
    IN  Files(BuildV2(c, [points |-> points, out |-> <<>>, fps |-> ZeroBytes(numLeaves),
                          splits |-> [i \in 1 .. numLeaves |-> nothing]],
                      1, 0, Len(points), [min |-> min, max |-> max]))

--------------------------------------------------------------------------------
(* PointsReader.initReader. *)
InitReader(in, fp) ==
    LET Reader(v, fps, splits) ==
            [ok |-> TRUE, dims |-> Parsed(v[1]), indexDims |-> Parsed(v[2]), bytes |-> Parsed(v[3]),
             maxLeaf |-> Parsed(v[4]), min |-> StringToBytes(v[6]), max |-> StringToBytes(v[7]),
             pointCount |-> Parsed(v[8]), docCount |-> Parsed(v[9]),
             fps |-> [i \in 1 .. Parsed(v[5]) |-> Parsed(fps[i])],
             splits |-> [i \in 1 .. Len(splits) \div 2 |->
                           [dim |-> IF Parsed(v[2]) = 1 THEN 0 ELSE Parsed(splits[2 * i - 1]),
                            value |-> StringToBytes(splits[2 * i])]]]
        Parse(v) == (\A i \in {1, 2, 3, 4, 5, 8, 9} : Parses("num", v[i])) /\ IsBytes(v[6]) /\ IsBytes(v[7])
    IN  Proceed(ReadLabels(in, fp, IndexLabels), LAMBDA head :
            IF ~Parse(head.values) THEN Failed
            ELSE Proceed(ReadLabels(in, head.next, Times(<<"  block fp ">>, Parsed(head.values[5])) \o <<"split count ">>),
                 LAMBDA fps : Proceed(ReadLabels(in, fps.next, Times(<<"  split dim ", "  split value ">>, Parsed(Last(fps.values)))),
                 LAMBDA splits : Reader(head.values, fps.values, splits.values))))

(* NewPointsReader: the field's pointer, and the tree there. *)
OpenPoints(files) ==
    Proceed(ReadLabels(files.dii, 1, <<"field count ">>), LAMBDA count :
    Proceed(ReadLabels(files.dii, count.next, Times(<<"  field fp name ", "  field fp ">>, Parsed(count.values[1]))),
    LAMBDA r : IF ~CheckFooter(files.dii, r.next) THEN Failed
               ELSE InitReader(files.dim, Parsed(r.values[2]))))

(* A leaf block: its documents and where its values start. *)
BlockDocs(in, fp) ==
    Proceed(ReadLabels(in, fp, <<"block count ">>), LAMBDA count :
    Proceed(ReadLabels(in, count.next, Times(<<"  doc ">>, Parsed(count.values[1]))), LAMBDA docs :
        [ok |-> TRUE, docs |-> [i \in DOMAIN docs.values |-> Parsed(docs.values[i])], next |-> docs.next]))
OrBroken(r) == IF r.ok THEN r ELSE Broken
TextVisitDocIDs(in, fp) == OrBroken(Proceed(BlockDocs(in, fp), LAMBDA block : Hits(block.docs)))
TextVisitDocValues(c, q, in, fp) ==
    OrBroken(Proceed(BlockDocs(in, fp), LAMBDA block :
             Proceed(ReadLabels(in, block.next, Times(<<"  block value ">>, Len(block.docs))), LAMBDA values :
                 Hits(FlattenSeq([i \in DOMAIN block.docs |->
                                    VisitLeaf(c, q, block.docs[i], StringToBytes(values.values[i]))])))))

RECURSIVE TextAddAll(_, _, _)
TextAddAll(r, in, nodeID) ==
    IF nodeID >= Len(r.fps) THEN TextVisitDocIDs(in, r.fps[nodeID - Len(r.fps) + 1])
    ELSE Join(TextAddAll(r, in, 2 * nodeID), TextAddAll(r, in, 2 * nodeID + 1))

RECURSIVE TextIntersectNode(_, _, _, _, _, _)
TextIntersectNode(r, in, nodeID, q, min, max) ==
    LET relation == Relate(r, q, min, max)
        split == r.splits[nodeID + 1]
    IN  CASE relation = "outside" -> Hits(<<>>)
          [] relation = "inside" -> TextAddAll(r, in, nodeID)
          [] relation = "crosses" /\ nodeID >= Len(r.fps) ->
               TextVisitDocValues(r, q, in, r.fps[nodeID - Len(r.fps) + 1])
          [] relation = "crosses" /\ nodeID < Len(r.fps) ->
               Join(TextIntersectNode(r, in, 2 * nodeID, q, min, SetDim(r, max, split.dim, split.value)),
                    TextIntersectNode(r, in, 2 * nodeID + 1, q, SetDim(r, min, split.dim, split.value), max))
TextIntersect(r, in, q) == TextIntersectNode(r, in, 1, q, r.min, r.max)

(* estimatePointCount: a leaf counts in full, inside the query or not. *)
RECURSIVE TextEstimateNode(_, _, _, _, _)
TextEstimateNode(r, nodeID, q, min, max) ==
    LET split == r.splits[nodeID + 1]
    IN  IF Relate(r, q, min, max) = "outside" THEN 0
        ELSE IF nodeID >= Len(r.fps) THEN r.maxLeaf
        ELSE TextEstimateNode(r, 2 * nodeID, q, min, SetDim(r, max, split.dim, split.value))
               + TextEstimateNode(r, 2 * nodeID + 1, q, SetDim(r, min, split.dim, split.value), max)
TextEstimate(r, q) == TextEstimateNode(r, 1, q, r.min, r.max)

--------------------------------------------------------------------------------
(* A tree of points from its first point to a query: points are added to the    *)
(* writer of either form, the tree is finished, opened by the reader and asked  *)
(* for a range.                                                                 *)

CONSTANTS
    Trees,                  \* what is built: form, configuration and values
    MaxPoints,              \* points that are added
    Ranges(_)               \* the queries on a tree

VARIABLE bkd

TreeInit ==
    \E t \in Trees, total \in 1 .. MaxPoints :
        bkd = [pc |-> "adding", form |-> t.form, c |-> t.c, values |-> t.values, total |-> total,
               points |-> <<>>, min |-> <<>>, max |-> <<>>]

(* Writer.Add and BKDWriter.Add: no more points than announced; the documents come *)
(* in order, a document may have several points.                                   *)
AddPoint(value, sameDoc) ==
    LET c == bkd.c
        last == IF bkd.points = <<>> THEN -1 ELSE Last(bkd.points).doc
        doc == IF sameDoc THEN last ELSE last + 1
        indexed == SubSeq(value, 1, PackedIndexBytesLength(c))
        box == IF bkd.points = <<>> THEN [min |-> indexed, max |-> indexed]
               ELSE IF bkd.form = "text" THEN TextAddBounds(c, bkd.min, bkd.max, value)
               ELSE AddBounds(c, bkd.min, bkd.max, value)
    IN  /\ bkd.pc = "adding" /\ Len(bkd.points) < bkd.total
        /\ Len(value) = IF bkd.form = "text" THEN PackedBytesLength(c) ELSE PackedIndexBytesLength(c)
        /\ sameDoc => last >= 0
        /\ bkd' = [bkd EXCEPT !.points = Append(@, [value |-> value, doc |-> doc]),
                              !.min = box.min, !.max = box.max]

MaxDoc == Last(bkd.points).doc + 1

(* More points were announced than are kept in memory. Partitioning them would    *)
(* leave one half in a temporary file that is read before it is closed, and that  *)
(* is an error; a single leaf is read back from the file, by the one writer, and  *)
(* panics in the other.                                                           *)
Spilled == bkd.total > bkd.c.maxPointsSortInHeap
SpillFails == Spilled /\ (bkd.form = "text" \/ Len(bkd.points) > bkd.c.maxLeaf)

(* Finish and the index that is written behind it. *)
FinishTree ==
    /\ bkd.pc = "adding" /\ bkd.points # <<>> /\ ~SpillFails
    /\ LET common == [pc |-> "finished", form |-> bkd.form, c |-> bkd.c, points |-> bkd.points]
       IN  \/ /\ bkd.form = "text"
              /\ bkd' = common @@ [files |-> WritePoints(bkd.c, bkd.points, bkd.min, bkd.max, MaxDoc)]
           \/ /\ bkd.form = "binary"
              /\ \E b \in {Build(bkd.c, bkd.points, bkd.min, bkd.max)} :
                    bkd' = common @@ [data |-> b.data, leaves |-> b.leaves, fps |-> b.fps,
                                      meta |-> WriteIndex(bkd.c, b, bkd.min, bkd.max, Len(bkd.points), MaxDoc)]
FinishFails ==
    /\ bkd.pc = "adding" /\ bkd.points # <<>> /\ SpillFails
    /\ bkd' = [pc |-> "failed"]

(* NewReader, NewPointsReader. *)
OpenTree ==
    /\ bkd.pc = "finished"
    /\ bkd' = [bkd EXCEPT !.pc = "open"] @@ [reader |-> IF bkd.form = "text" THEN OpenPoints(bkd.files) ELSE bkd.meta]

(* A leaf whose values are stored one by one, in runs of the sorted byte. *)
Compressed(c, slice) ==
    LET lens == CommonPrefixLengths(c, slice)
    IN  LeafForm(c, lens, slice, SortedDim(c, slice, lens)) < 254

Query(q) ==
    /\ bkd.pc = "open"
    /\ bkd' = [pc |-> "asked", form |-> bkd.form, c |-> bkd.c, points |-> bkd.points, q |-> q,
               hits |-> IF bkd.form = "text" THEN TextIntersect(bkd.reader, bkd.files.dim, q)
                        ELSE Intersect(bkd.c, bkd.reader, bkd.data, q),
               estimate |-> IF bkd.form = "text" THEN TextEstimate(bkd.reader, q)
                            ELSE EstimatePointCount(bkd.c, bkd.reader, q),
               compressed |-> bkd.form = "binary" /\ \E i \in DOMAIN bkd.leaves : Compressed(bkd.c, bkd.leaves[i])]

TreeNext ==
    \/ bkd.pc = "adding" /\ \E v \in bkd.values, sameDoc \in BOOLEAN : AddPoint(v, sameDoc)
    \/ FinishTree
    \/ FinishFails
    \/ OpenTree
    \/ bkd.pc = "open" /\ \E q \in Ranges(bkd.c) : Query(q)
TreeSpec == TreeInit /\ [][TreeNext]_bkd

--------------------------------------------------------------------------------
Answer ==
    LET matching == SelectSeq(bkd.points, LAMBDA p : Matches(bkd.c, bkd.q, p.value))
    IN  [i \in DOMAIN matching |-> matching[i].doc]
SameDocs(a, b) ==
    /\ Len(a) = Len(b)
    /\ \A d \in ToSet(b) : Cardinality({i \in DOMAIN a : a[i] = d}) = Cardinality({i \in DOMAIN b : b[i] = d})

(* A range query on a tree of the text codec reports the document of every point *)
(* in the range, once for each point, and of no other: whatever way the points   *)
(* were partitioned, and whether a leaf was taken whole or filtered.             *)
TextIntersectExact ==
    bkd.pc = "asked" /\ bkd.form = "text" => bkd.hits.ok /\ SameDocs(bkd.hits.docs, Answer)

(* So does a query on a binary tree of leaves with one value or with few different *)
(* ones: prefixes, bounds, values and document numbers are read where they were    *)
(* written.                                                                        *)
RunlessIntersectExact ==
    bkd.pc = "asked" /\ bkd.form = "binary" /\ ~bkd.compressed => bkd.hits.ok /\ SameDocs(bkd.hits.docs, Answer)

(* So does a query on any binary tree: it finds every point that was added. *)
IntersectExact ==
    bkd.pc = "asked" /\ bkd.form = "binary" => bkd.hits.ok /\ SameDocs(bkd.hits.docs, Answer)

RECURSIVE LeafCells(_, _, _, _, _)
LeafCells(c, r, node, min, max) ==
    LET split == Dim(c, node.values, node.splitDim)
    IN  IF IsLeafNode(r, node) THEN <<[fp |-> node.fp, min |-> min, max |-> max]>>
        ELSE LeafCells(c, r, PushLeft(c, r, node), min, SetDim(c, max, node.splitDim, split))
               \o LeafCells(c, r, PushRight(c, r, node), SetDim(c, min, node.splitDim, split), max)

(* Walking the packed index of a binary tree comes to every leaf block in the     *)
(* order it was written, and every point of the block lies in the cell the reader *)
(* has at that leaf: the prefix-coded splits and pointers decode to those that    *)
(* the points were partitioned by.                                                *)
LeavesInTheirCells ==
    bkd.pc = "open" /\ bkd.form = "binary" =>
        LET c == bkd.c
            cells == LeafCells(c, bkd.reader, Root(c, bkd.reader), bkd.reader.min, bkd.reader.max)
        IN  /\ [i \in DOMAIN cells |-> cells[i].fp] = bkd.fps
            /\ \A i \in DOMAIN cells, d \in 0 .. c.indexDims - 1 :
                 \A j \in DOMAIN bkd.leaves[i] :
                     LET x == Dim(c, bkd.leaves[i][j].value, d)
                     IN  ~BytesLess(x, Dim(c, cells[i].min, d)) /\ ~BytesLess(Dim(c, cells[i].max, d), x)

(* An estimate of no points is given only where no point matches, and one for a *)
(* query over all values is no less than the number of points.                  *)
EstimateCovers ==
    bkd.pc = "asked" =>
        /\ bkd.estimate = 0 => Answer = <<>>
        /\ Relate(bkd.c, bkd.q, ZeroBytes(PackedIndexBytesLength(bkd.c)),
                  [i \in 1 .. PackedIndexBytesLength(bkd.c) |-> MaxByte]) = "inside"
             => bkd.estimate >= Len(bkd.points)

(* A query on a tree that was read back finds the points of its range, each   *)
(* once, in either form (leaves with runs left out), and its estimate does    *)
(* not deny them.                                                             *)
QueriesFindPoints == RunlessIntersectExact /\ TextIntersectExact /\ EstimateCovers
================================================================================
