------------------------------- MODULE Selectors -------------------------------
(* Selection and sorting in place: introSelector (quick select, then the median *)
(* of medians), radixSelector and msbRadixSorter (core/util/selector and         *)
(* core/util/sorter). An array is a sequence of elements with a key, a sequence  *)
(* of bytes; indexes count from 0 as in the code.                                *)
EXTENDS Integers, Sequences, FiniteSets, SequencesExt, FiniteSetsExt

CONSTANTS
    LENGTH_THRESHOLD,   \* ranges up to so long are left to the fallback
    LEVEL_THRESHOLD,    \* and so is everything this deep
    PREFIX_CAP,         \* bytes of a common prefix that are skipped at once (24)
    MaxByte             \* bytes are 0 .. MaxByte

At(s, i) == s[i + 1]
Swap(s, i, j) == [s EXCEPT ![i + 1] = s[j + 1], ![j + 1] = s[i + 1]]

(* The k-th byte of a key, -1 behind its end. *)
ByteAt(key, k) == IF k < Len(key) THEN key[k + 1] ELSE -1
GetBucket(s, i, d) == ByteAt(At(s, i).key, d) + 1

(* fallbackSelector.Compare: a key that ends counts as equal to every longer one. *)
RECURSIVE FallbackCompare(_, _, _, _)
FallbackCompare(a, b, d, maxLength) ==
    IF d >= maxLength \/ ByteAt(a, d) = -1 THEN 0
    ELSE IF ByteAt(a, d) # ByteAt(b, d) THEN ByteAt(a, d) - ByteAt(b, d)
    ELSE FallbackCompare(a, b, d + 1, maxLength)

(* How the selectors compare: the keys from byte d on, maxLength bytes at most. *)
Cmp(s, i, j, o) == FallbackCompare(At(s, i).key, At(s, j).key, o.d, o.maxLength)

--------------------------------------------------------------------------------
(* introSelector *)

(* The loop around the pivot, which stays at idx: where it stops, and the array. *)
RECURSIVE Split(_, _, _, _, _)
Split(s, o, idx, from, to) ==
    LET left == CHOOSE i \in from .. idx : /\ Cmp(s, idx, i, o) <= 0
                                           /\ \A j \in from .. i - 1 : Cmp(s, idx, j, o) > 0
        right == IF to <= left THEN to
                 ELSE Max({left} \cup {j \in left + 1 .. to : Cmp(s, idx, j, o) > 0})
    IN  IF left < right THEN Split(Swap(s, left, right), o, idx, left, right - 1)
        ELSE [s |-> s, left |-> left]

(* partition5: an insertion sort of at most five elements. *)
RECURSIVE SinkDown(_, _, _, _)
SinkDown(s, o, left, j) ==
    IF j > left /\ Cmp(s, j - 1, j, o) > 0 THEN SinkDown(Swap(s, j - 1, j), o, left, j - 1) ELSE s
Partition5(s, o, left, right) ==
    FoldLeft(LAMBDA t, i : SinkDown(t, o, left, i), s, [n \in 1 .. right - left |-> left + n])

(* A mutant: what equals the pivot is left where it is. *)
PartitionUnequal(s, o, left, right, k, pivotIndex) ==
    LET Less(acc, i) ==
            IF Cmp(acc.s, right, i, o) > 0 THEN [s |-> Swap(acc.s, acc.at, i), at |-> acc.at + 1] ELSE acc
        less == FoldLeft(Less, [s |-> Swap(s, pivotIndex, right), at |-> left],
                         [n \in 1 .. right - left |-> left + n - 1])
    IN  [s |-> Swap(less.s, right, less.at), at |-> IF k = less.at + 1 THEN k ELSE less.at]

(* partition: the smaller ones first, then those equal to the pivot. *)
Partition(s, o, left, right, k, pivotIndex) ==
    LET Less(acc, i) ==
            IF Cmp(acc.s, right, i, o) > 0 THEN [s |-> Swap(acc.s, acc.at, i), at |-> acc.at + 1] ELSE acc
        Equal(acc, i) ==
            IF Cmp(acc.s, right, i, o) = 0 THEN [s |-> Swap(acc.s, acc.at, i), at |-> acc.at + 1] ELSE acc
        Placed(at, equal) ==
            [s |-> Swap(equal.s, right, equal.at),
             at |-> CASE k < at -> at
                      [] k >= at /\ k <= equal.at -> k
                      [] k > equal.at -> equal.at]
        Behind(less) ==
            Placed(less.at, FoldLeft(Equal, less, [n \in 1 .. right - less.at |-> less.at + n - 1]))
    IN  Behind(FoldLeft(Less, [s |-> Swap(s, pivotIndex, right), at |-> left],
                        [n \in 1 .. right - left |-> left + n - 1]))

RECURSIVE MedianOfMediansSelect(_, _, _, _, _)
(* pivot: the median of the medians of groups of five. *)
Pivot(s, o, left, right) ==
    IF right - left < 5
    THEN [s |-> Partition5(s, o, left, right), at |-> (left + right) \div 2]
    ELSE LET Group(t, g) ==
                 LET from == left + 5 * g
                     to == Min({from + 4, right})
                 IN  Swap(Partition5(t, o, from, to), (from + to) \div 2, left + g)
             grouped == FoldLeft(Group, s, [n \in 1 .. ((right - left) \div 5) + 1 |-> n - 1])
         IN  MedianOfMediansSelect(grouped, o, left, left + ((right - left) \div 5),
                                   ((right - left) \div 10) + left + 1)
MedianOfMediansSelect(s, o, left, right, k) ==
    IF left = right THEN [s |-> s, at |-> left]
    ELSE LET Around(pivot) == Partition(pivot.s, o, left, right, k, pivot.at)
             Within(part) ==
                 CASE k = part.at -> [s |-> part.s, at |-> k]
                   [] k < part.at -> MedianOfMediansSelect(part.s, o, left, part.at - 1, k)
                   [] k > part.at -> MedianOfMediansSelect(part.s, o, part.at + 1, right, k)
         IN  Within(Around(Pivot(s, o, left, right)))
SlowSelect(s, o, from, to, k) == MedianOfMediansSelect(s, o, from, to - 1, k).s

(* The median of the first, the middle and the last element comes last. *)
InOrder(s, o, i, j) == IF Cmp(s, i, j, o) > 0 THEN Swap(s, i, j) ELSE s
MedianLast(s, o, from, mid, last) ==
    LET Again(t, u) == IF u # t THEN InOrder(u, o, from, last) ELSE u
        Middle(t) == Again(t, InOrder(t, o, last, mid))
    IN  Middle(InOrder(s, o, from, last))

RECURSIVE QuickSelect(_, _, _, _, _, _)
QuickSelect(s, o, from, to, k, maxDepth) ==
    IF to - from = 1 THEN s
    ELSE IF maxDepth = 0 THEN SlowSelect(s, o, from, to, k)
    ELSE LET Within(t, left) ==
                 CASE left = k -> t
                   [] left < k -> QuickSelect(t, o, left + 1, to, k, maxDepth - 1)
                   [] left > k -> QuickSelect(t, o, from, left, k, maxDepth - 1)
             Placed(split) == Within(Swap(split.s, split.left, to - 1), split.left)
         IN  Placed(Split(MedianLast(s, o, from, (from + to) \div 2, to - 1), o, to - 1, from + 1, to - 2))

(* SelectK: twice the logarithm of the length is how deep quick select may go. *)
MaxDepth(n) == Max({m \in 0 .. 2 * n : 2 ^ m <= n * n})
IntroSelect(s, o, from, to, k) == QuickSelect(s, o, from, to, k, MaxDepth(to - from))

--------------------------------------------------------------------------------
(* radixSelector *)

(* The bytes all keys of the range share from d on; the end of a key counts as one. *)
CommonPrefixLength(s, from, to, d, maxLength) ==
    LET first == At(s, from).key
        Shared(n) ==
            \A j \in 0 .. n - 1 :
                /\ j = 0 \/ ByteAt(first, d + j - 1) # -1
                /\ \A i \in from + 1 .. to - 1 : ByteAt(At(s, i).key, d + j) = ByteAt(first, d + j)
    IN  Max({n \in 0 .. Min({PREFIX_CAP, maxLength - d}) : Shared(n)})

InBucket(s, from, to, d, buckets) == {i \in from .. to - 1 : GetBucket(s, i, d) \in buckets}
Histogram(s, from, to, d) ==
    [b \in 0 .. MaxByte + 1 |-> Cardinality(InBucket(s, from, to, d, {b}))]

(* partition: the elements of a bucket between bucketFrom and bucketTo. *)
RECURSIVE PartitionBucket(_, _, _, _, _, _)
PartitionBucket(s, b, d, left, right, slot) ==
    LET leftBucket == GetBucket(s, left, d)
        rightBucket == GetBucket(s, right, d)
    IN  IF leftBucket <= b.bucket /\ left < b.from
        THEN IF leftBucket = b.bucket
             THEN PartitionBucket(Swap(s, left, slot), b, d, left, right, slot + 1)
             ELSE PartitionBucket(s, b, d, left + 1, right, slot)
        ELSE IF rightBucket >= b.bucket /\ right >= b.to
        THEN IF rightBucket = b.bucket
             THEN PartitionBucket(Swap(s, right, slot), b, d, left, right, slot + 1)
             ELSE PartitionBucket(s, b, d, left, right - 1, slot)
        ELSE IF left < b.from /\ right >= b.to
        THEN PartitionBucket(Swap(s, left, right), b, d, left + 1, right - 1, slot)
        ELSE s

(* The bucket the k-th element falls into. *)
BucketOf(s, from, to, k, d) ==
    LET bucket == CHOOSE b \in 0 .. MaxByte + 1 :
                    /\ from + Cardinality(InBucket(s, from, to, d, 0 .. b)) > k
                    /\ from + Cardinality(InBucket(s, from, to, d, 0 .. b - 1)) <= k
        bucketFrom == from + Cardinality(InBucket(s, from, to, d, 0 .. bucket - 1))
    IN  [bucket |-> bucket, from |-> bucketFrom,
         to |-> bucketFrom + Cardinality(InBucket(s, from, to, d, {bucket}))]

RECURSIVE RadixSelect(_, _, _, _, _, _, _)
SelectLevel(s, maxLength, from, to, k, d, level) ==
    IF to - from <= LENGTH_THRESHOLD \/ level >= LEVEL_THRESHOLD
    THEN IntroSelect(s, [d |-> d, maxLength |-> maxLength], from, to, k)
    ELSE RadixSelect(s, maxLength, from, to, k, d, level)
RadixSelect(s, maxLength, from, to, k, d, level) ==
    LET prefix == CommonPrefixLength(s, from, to, d, maxLength)
        Within(t, b) ==
            IF b.bucket # 0 /\ d + 1 < maxLength
            THEN SelectLevel(t, maxLength, b.from, b.to, k, d + 1, level + 1) ELSE t
        Parted(b) == Within(PartitionBucket(s, b, d, from, to - 1, b.from), b)
    IN  IF prefix > 0
        THEN IF d + prefix < maxLength /\ ByteAt(At(s, from).key, d) # -1
             THEN RadixSelect(s, maxLength, from, to, k, d + prefix, level) ELSE s
        ELSE Parted(BucketOf(s, from, to, k, d))
SelectK(s, maxLength, from, to, k) == SelectLevel(s, maxLength, from, to, k, 0, 0)

--------------------------------------------------------------------------------
(* msbRadixSorter *)

(* sort.Sort with the Compare of the elements: bytewise, a prefix before what it starts. *)
KeyLess(a, b, d) ==
    \E n \in d .. Len(b) - 1 :
        ByteAt(a, n) < ByteAt(b, n) /\ \A j \in d .. n - 1 : ByteAt(a, j) = ByteAt(b, j)
PdqSort(s, from, to, d) ==
    SubSeq(s, 1, from)
      \o SortSeq(SubSeq(s, from + 1, to), LAMBDA x, y : KeyLess(x.key, y.key, d))
      \o SubSeq(s, to + 1, Len(s))

(* A mutant: the bucket's offset is not moved on. *)
ReorderOnce(s, from, starts, ends, bucket, d) ==
    IF bucket > MaxByte + 1 THEN s
    ELSE FoldLeft(LAMBDA t, b : IF starts[b] < ends[b]
                                THEN Swap(t, from + starts[b], from + starts[GetBucket(t, from + starts[b], d)])
                                ELSE t, s, [n \in 1 .. MaxByte + 2 |-> n - 1])

(* reorder: every element goes to the start offset of its bucket, which moves on. *)
RECURSIVE Reorder(_, _, _, _, _, _)
Reorder(s, from, starts, ends, bucket, d) ==
    IF bucket > MaxByte + 1 THEN s
    ELSE IF starts[bucket] >= ends[bucket] THEN Reorder(s, from, starts, ends, bucket + 1, d)
    ELSE LET b == GetBucket(s, from + starts[bucket], d)
         IN  Reorder(Swap(s, from + starts[bucket], from + starts[b]), from,
                     [starts EXCEPT ![b] = @ + 1], ends, bucket, d)

RECURSIVE RadixSort(_, _, _, _, _, _)
SortLevel(s, maxLength, from, to, d, level) ==
    IF to - from <= LENGTH_THRESHOLD \/ level >= LEVEL_THRESHOLD THEN PdqSort(s, from, to, d)
    ELSE RadixSort(s, maxLength, from, to, d, level)
RadixSort(s, maxLength, from, to, d, level) ==
    LET prefix == CommonPrefixLength(s, from, to, d, maxLength)
        ends == [b \in 0 .. MaxByte + 1 |-> Cardinality(InBucket(s, from, to, d, 0 .. b))]
        starts == [b \in 0 .. MaxByte + 1 |-> ends[b] - Histogram(s, from, to, d)[b]]
        reordered == Reorder(s, from, starts, ends, 0, d)
        SortBucket(t, b) ==
            IF ends[b] - starts[b] > 1
            THEN SortLevel(t, maxLength, from + starts[b], from + ends[b], d + 1, level + 1) ELSE t
    IN  IF prefix > 0
        THEN IF d + prefix < maxLength /\ ByteAt(At(s, from).key, d) # -1
             THEN RadixSort(s, maxLength, from, to, d + prefix, level) ELSE s
        ELSE IF d + 1 < maxLength
             THEN FoldLeft(SortBucket, reordered, [b \in 1 .. MaxByte + 1 |-> b])
             ELSE reordered
MsbRadixSort(s, maxLength, from, to) == SortLevel(s, maxLength, from, to, 0, 0)

--------------------------------------------------------------------------------
(* One call of a selector or of the radix sorter on an array. *)

CONSTANTS
    Keys,           \* keys of the elements that are selected from: of equal length
    SortKeys,       \* keys of the elements that are sorted: of any length
    MaxElements

VARIABLE sel        \* the call: method, array before and after, range and rank

Element(keys, i) == [key |-> keys[i], id |-> i]
Arrays(keys) ==
    UNION {{[i \in 1 .. n |-> Element(k, i)] : k \in [1 .. n -> keys]} : n \in 1 .. MaxElements}
KeyLength == Max({Len(k) : k \in Keys \cup SortKeys})

SelectorInit ==
    \/ \E s \in Arrays(Keys), method \in {"intro", "slow", "radix"} :
         \E from \in {0, 1} :
            \E k \in from .. Len(s) - 1 :
                sel = [pc |-> "called", method |-> method, before |-> s, after |-> s,
                       from |-> from, to |-> Len(s), k |-> k]
    \/ \E s \in Arrays(SortKeys) :
         sel = [pc |-> "called", method |-> "sort", before |-> s, after |-> s,
                from |-> 0, to |-> Len(s), k |-> 0]

Call ==
    /\ sel.pc = "called"
    /\ LET whole == [d |-> 0, maxLength |-> KeyLength]
       IN  sel' = [sel EXCEPT !.pc = "returned", !.after =
               CASE sel.method = "intro" -> IntroSelect(@, whole, sel.from, sel.to, sel.k)
                 [] sel.method = "slow" -> SlowSelect(@, whole, sel.from, sel.to, sel.k)
                 [] sel.method = "radix" -> SelectK(@, KeyLength, sel.from, sel.to, sel.k)
                 [] sel.method = "sort" -> MsbRadixSort(@, KeyLength, sel.from, sel.to)]
SelectorNext == Call
SelectorSpec == SelectorInit /\ [][SelectorNext]_sel

--------------------------------------------------------------------------------
Rearranged ==
    /\ \A i \in DOMAIN sel.before : i <= sel.from => sel.after[i] = sel.before[i]
    /\ ToSet(sel.after) = ToSet(sel.before)

(* Whichever selector runs, the k-th place holds what would be there were the range *)
(* sorted, nothing greater stands before it and nothing smaller behind, and the     *)
(* elements are the same ones: equal keys, ranges that start inside the array and   *)
(* common prefixes included.                                                        *)
SelectPartitions ==
    sel.pc = "returned" /\ sel.method # "sort" =>
        /\ Rearranged
        /\ \A i \in sel.from + 1 .. sel.k : ~KeyLess(sel.after[sel.k + 1].key, sel.after[i].key, 0)
        /\ \A i \in sel.k + 2 .. sel.to : ~KeyLess(sel.after[i].key, sel.after[sel.k + 1].key, 0)

(* The radix sorter sorts keys of different lengths, a key before those it is a *)
(* prefix of, and loses none.                                                   *)
SortOrders ==
    sel.pc = "returned" /\ sel.method = "sort" =>
        /\ Rearranged
        /\ \A i \in 1 .. Len(sel.after) - 1 : ~KeyLess(sel.after[i + 1].key, sel.after[i].key, 0)

(* Selecting and sorting put the elements where they belong and lose none.    *)
SelectsAndSorts == SelectPartitions /\ SortOrders
================================================================================
