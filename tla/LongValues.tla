------------------------------ MODULE LongValues -------------------------------
(* Sequences of 64-bit integers stored in blocks or pages of packed integers:   *)
(* BlockPackedWriter with its two readers, MonotonicBlockPackedWriter with its   *)
(* reader, and the three builders of PackedLongValues with their iterators.     *)
(*                                                                             *)
(* Integers have Width bits and wrap around. The packed integers of a block are *)
(* the numbers they stand for (PackedArrays is about how they are laid out): a  *)
(* number that needs more bits than the block has loses the high ones. Averages  *)
(* are exact fractions, truncated where the code converts them.                 *)
EXTENDS Integers, Sequences, SequencesExt, FiniteSetsExt

CONSTANTS
    Width,          \* bits of an integer
    BlockSize,      \* values of a block or a page
    LongInputs,     \* the values that are added
    MaxLongs        \* values of a sequence

VARIABLES
    codec,          \* which writer: "block", "monotonic", "pages", "delta", "average"
    added,          \* the values given to it so far
    buffer,         \* the values of the block that is not written yet
    blocks,         \* the blocks written
    finished,
    iterator        \* BlockPackedReaderIterator: block read, offset in it, ord; the last answer

longVars == <<codec, added, buffer, blocks, finished, iterator>>

Half == 2 ^ (Width - 1)
Wrap(x) == ((x + Half) % (2 * Half)) - Half
Unsigned(x) == x % (2 * Half)
MaxValue(bits) == 2 ^ bits - 1
LongBitsRequired(u) == CHOOSE n \in 1 .. Width : u < 2 ^ n /\ (n = 1 \/ u >= 2 ^ (n - 1))
LeastOf(values) == CHOOSE x \in ToSet(values) : \A y \in ToSet(values) : x <= y
GreatestOf(values) == CHOOSE x \in ToSet(values) : \A y \in ToSet(values) : x >= y
Packed(bits, values) == [i \in DOMAIN values |-> Unsigned(values[i]) % 2 ^ bits]

(* zigzag *)
ZigZagEncode(x) == IF x >= 0 THEN Unsigned(2 * x) ELSE Unsigned(-2 * x - 1)
ZigZagDecode(u) == IF u % 2 = 0 THEN u \div 2 ELSE -(u \div 2) - 1

--------------------------------------------------------------------------------
(* A mutant: the value is kept as zero plus one where it is zero less one. *)
FlushBlockPlain(values) ==
    LET least == LeastOf(values)
        delta == Wrap(GreatestOf(values) - least)
        bits == IF delta <= 0 THEN 0 ELSE LongBitsRequired(Unsigned(delta))
    IN  [bits |-> bits, minZero |-> least = 0, min |-> Unsigned(ZigZagEncode(least) - 1),
         average |-> <<0, 1>>,
         ints |-> IF bits = 0 THEN <<>> ELSE Packed(bits, [i \in DOMAIN values |-> values[i] - least])]

(* BlockPackedWriter.Flush: the differences to the least value, or, where that is *)
(* positive, to a value so much below the greatest as the bits allow: it may wrap *)
(* below zero. The value is kept zigzag encoded, less one, unless it is zero.     *)
FlushBlock(values) ==
    LET least == LeastOf(values)
        greatest == GreatestOf(values)
        delta == Wrap(greatest - least)
        bits == IF delta = 0 THEN 0 ELSE LongBitsRequired(Unsigned(delta))
        minValue == CASE bits = Width -> 0
                      [] bits # Width /\ least > 0 -> Wrap(Unsigned(greatest) - MaxValue(bits))
                      [] bits # Width /\ least <= 0 -> least
    IN  [bits |-> bits,
         minZero |-> minValue = 0,
         min |-> IF minValue = 0 THEN 0 ELSE Unsigned(ZigZagEncode(minValue) - 1),
         average |-> <<0, 1>>,
         ints |-> IF bits = 0 THEN <<>>
                  ELSE Packed(bits, [i \in DOMAIN values |-> values[i] - minValue])]

BlockMin(block) == IF block.minZero THEN 0 ELSE ZigZagDecode(Unsigned(block.min + 1))
BlockGet(block, i) == Wrap((IF block.bits = 0 THEN 0 ELSE block.ints[i]) + BlockMin(block))

(* int64(average * index), truncated towards zero *)
Expected(origin, average, index) ==
    LET product == average[1] * index
    IN  origin + (IF product >= 0 THEN product \div average[2] ELSE -((-product) \div average[2]))
Average(values) ==
    IF Len(values) = 1 THEN <<0, 1>> ELSE <<Wrap(Last(values) - values[1]), Len(values) - 1>>

(* MonotonicBlockPackedWriter.Flush: the line through the first and the last value, *)
(* moved down by as much as some value lies below it.                               *)
RECURSIVE LowerMin(_, _, _, _)
LowerMin(values, average, i, minValue) ==
    IF i > Len(values) THEN minValue
    ELSE LET expect == Expected(minValue, average, i - 1)
         IN  LowerMin(values, average, i + 1,
                      IF expect > values[i] THEN minValue - (expect - values[i]) ELSE minValue)
FlushMonotonic(values) ==
    LET average == Average(values)
        minValue == LowerMin(values, average, 2, values[1])
        deltas == [i \in DOMAIN values |-> Wrap(values[i] - Expected(minValue, average, i - 1))]
        maxDelta == GreatestOf([i \in DOMAIN deltas |-> Unsigned(deltas[i])])
        bits == IF maxDelta = 0 THEN 0 ELSE LongBitsRequired(maxDelta)
    IN  [bits |-> bits, minZero |-> FALSE, min |-> ZigZagEncode(minValue), average |-> average,
         ints |-> IF bits = 0 THEN <<>> ELSE Packed(bits, deltas)]
MonotonicGet(block, i) ==
    Wrap(Expected(ZigZagDecode(block.min), block.average, i - 1)
         + (IF block.bits = 0 THEN 0 ELSE block.ints[i]))

(* PackedLongValuesBuilder.packValues: all zero is a page without bits, a negative *)
(* value takes all the bits.                                                       *)
PackPage(values) ==
    LET bits == CASE \A i \in DOMAIN values : values[i] = 0 -> 0
                  [] LeastOf(values) < 0 -> Width
                  [] OTHER -> LongBitsRequired(GreatestOf(values))
    IN  [bits |-> bits, minZero |-> TRUE, min |-> 0, average |-> <<0, 1>>,
         ints |-> IF bits = 0 THEN <<>> ELSE Packed(bits, values)]
(* DeltaPackedLongValuesBuilder: the minimum starts at zero. *)
PackDelta(values) ==
    LET least == LeastOf(<<0>> \o values)
    IN  [PackPage([i \in DOMAIN values |-> Wrap(values[i] - least)]) EXCEPT !.min = least]
(* MonotonicLongValuesBuilder *)
PackAverage(values) ==
    LET average == Average(values)
    IN  [PackDelta([i \in DOMAIN values |-> Wrap(values[i] - Expected(0, average, i - 1))])
            EXCEPT !.average = average]
PageGet(page, i) ==
    Wrap(Expected(page.min, page.average, i - 1) + (IF page.bits = 0 THEN 0 ELSE page.ints[i]))

Pack(values) ==
    CASE codec = "block" -> FlushBlock(values)
      [] codec = "monotonic" -> FlushMonotonic(values)
      [] codec = "pages" -> PackPage(values)
      [] codec = "delta" -> PackDelta(values)
      [] codec = "average" -> PackAverage(values)

(* Get of the reader: block and element from the index. *)
GetLong(index) ==
    LET block == blocks[(index \div BlockSize) + 1]
        element == (index % BlockSize) + 1
    IN  CASE codec = "block" -> BlockGet(block, element)
          [] codec = "monotonic" -> MonotonicGet(block, element)
          [] codec \in {"pages", "delta", "average"} -> PageGet(block, element)

--------------------------------------------------------------------------------
(* BlockPackedReaderIterator: the block it has read (0 before the first), the     *)
(* offset in it and the ord of the next value.                                    *)
NoAnswer == [from |-> 0, values |-> <<>>]
NewIterator == [block |-> 0, off |-> BlockSize, ord |-> 0, answer |-> NoAnswer]

LongInit ==
    /\ codec \in {"block", "monotonic", "pages", "delta", "average"}
    /\ added = <<>>
    /\ buffer = <<>>
    /\ blocks = <<>>
    /\ finished = FALSE
    /\ iterator = NewIterator

(* Add: a full block is written first. *)
Add(v) ==
    /\ ~finished
    /\ Len(added) < MaxLongs
    /\ codec = "monotonic" => v >= 0 /\ \A i \in DOMAIN added : v >= added[i]
    /\ added' = Append(added, v)
    /\ IF Len(buffer) = BlockSize
       THEN buffer' = <<v>> /\ blocks' = Append(blocks, Pack(buffer))
       ELSE buffer' = Append(buffer, v) /\ UNCHANGED blocks
    /\ UNCHANGED <<codec, finished, iterator>>

Finish ==
    /\ ~finished
    /\ finished' = TRUE
    /\ blocks' = IF buffer = <<>> THEN blocks ELSE Append(blocks, Pack(buffer))
    /\ buffer' = <<>>
    /\ UNCHANGED <<codec, added, iterator>>

(* refill: the next block of the stream, from its first value on. *)
Refill(it) == [it EXCEPT !.block = @ + 1, !.off = 0]
Answered(it, n) ==
    [it EXCEPT !.off = @ + n, !.ord = @ + n,
               !.answer = [from |-> it.ord,
                           values |-> [i \in 1 .. n |-> BlockGet(blocks[it.block], it.off + i)]]]
Iterating == finished /\ codec = "block"

Next_ ==
    /\ Iterating
    /\ iterator.ord < Len(added)
    /\ iterator' = Answered(IF iterator.off = BlockSize THEN Refill(iterator) ELSE iterator, 1)
    /\ UNCHANGED <<codec, added, buffer, blocks, finished>>

NextSlices(count) ==
    /\ Iterating
    /\ iterator.ord < Len(added)
    /\ LET it == IF iterator.off = BlockSize THEN Refill(iterator) ELSE iterator
           n == LeastOf(<<count, BlockSize - it.off, Len(added) - it.ord>>)
       IN  iterator' = Answered(it, n)
    /\ UNCHANGED <<codec, added, buffer, blocks, finished>>
(* A mutant: the blocks that are skipped unread are not counted. *)
SkipUncounted(count) ==
    /\ Iterating
    /\ iterator.ord + count <= Len(added)
    /\ LET buffered == LeastOf(<<count, BlockSize - iterator.off>>)
           whole == (count - buffered) \div BlockSize
           rest == count - buffered - whole * BlockSize
           skipped == [iterator EXCEPT !.off = @ + buffered, !.ord = @ + buffered + whole * BlockSize]
           refilled == IF rest = 0 THEN skipped
                       ELSE [Refill(skipped) EXCEPT !.off = rest, !.ord = @ + rest]
       IN  iterator' = [refilled EXCEPT !.answer = NoAnswer]
    /\ UNCHANGED <<codec, added, buffer, blocks, finished>>

(* Skip: what is buffered, whole blocks unread, the rest of a block that is read. *)
Skip(count) ==
    /\ Iterating
    /\ iterator.ord + count <= Len(added)
    /\ LET buffered == LeastOf(<<count, BlockSize - iterator.off>>)
           whole == (count - buffered) \div BlockSize
           rest == count - buffered - whole * BlockSize
           skipped == [iterator EXCEPT !.block = @ + whole,
                                       !.off = @ + buffered,
                                       !.ord = @ + buffered + whole * BlockSize]
           refilled == IF rest = 0 THEN skipped
                       ELSE [Refill(skipped) EXCEPT !.off = rest, !.ord = @ + rest]
       IN  iterator' = [refilled EXCEPT !.answer = NoAnswer]
    /\ UNCHANGED <<codec, added, buffer, blocks, finished>>

Idle == finished /\ (codec # "block" \/ iterator.ord = Len(added)) /\ UNCHANGED longVars
AddAny == \E v \in LongInputs : Add(v)
SliceAny == \E count \in 1 .. BlockSize + 1 : NextSlices(count)
SkipAny == \E count \in 1 .. MaxLongs : Skip(count)
LongNext == AddAny \/ Finish \/ Next_ \/ SliceAny \/ SkipAny \/ Idle
LongSpec == LongInit /\ [][LongNext]_longVars

--------------------------------------------------------------------------------
LongTypeOK ==
    /\ Len(buffer) <= BlockSize
    /\ Len(blocks) * BlockSize + Len(buffer) >= Len(added)
    /\ iterator.off \in 0 .. BlockSize /\ iterator.ord \in 0 .. MaxLongs

(* Every value that was added is read back by the random access reader, at the ends *)
(* of the range of integers too, where the differences wrap around.                 *)
ValuesReadBack == finished => \A i \in DOMAIN added : GetLong(i - 1) = added[i]

(* The iterator answers with the values at its position, whatever was skipped or   *)
(* read in slices before.                                                          *)
IteratorInStep ==
    \A i \in DOMAIN iterator.answer.values :
        iterator.answer.values[i] = added[iterator.answer.from + i]

--------------------------------------------------------------------------------
(* Arrays in pages of PageSize values (basePagedMutable with FixSizePagedMutable *)
(* and PagedGrowableWriter), which are copied to grow. A page is the sequence of *)
(* its values; how they are packed is PackedArrays' subject.                     *)

CONSTANTS
    PageSize,       \* a power of two
    PagedValues,    \* values that are stored
    MaxPagedSize,   \* largest size asked for
    MaxPagedSteps   \* calls on one array

VARIABLES
    pages,          \* subMutables
    pagedSize,
    content,        \* what was stored last at every index
    ragged,         \* whether a copy had several pages and the last one shorter
    pagedSteps

pagedVars == <<pages, pagedSize, content, ragged, pagedSteps>>

Zeros(n) == [i \in 1 .. n |-> 0]
NumPages(size) == (size + PageSize - 1) \div PageSize
LastPageSize(size) == IF size % PageSize = 0 THEN PageSize ELSE size % PageSize
PageIndex(index) == index \div PageSize + 1
IndexInPage(index) == (index % PageSize) + 1

(* fillPages: whole pages, the last one as long as needed. *)
FillPages(size) ==
    [p \in 1 .. NumPages(size) |-> Zeros(IF p = NumPages(size) THEN LastPageSize(size) ELSE PageSize)]

(* Resize: the length of the last page goes to the pages before the last. *)
ResizedPageSize(p, newSize) ==
    IF p < NumPages(newSize) THEN LastPageSize(newSize) ELSE PageSize
(* A mutant: a page that was full loses its last value. *)
ResizePagesShort(newSize) ==
    [p \in 1 .. NumPages(newSize) |->
        [i \in 1 .. ResizedPageSize(p, newSize) |->
            IF p <= Len(pages) /\ i <= Len(pages[p]) /\ i < PageSize THEN pages[p][i] ELSE 0]]

ResizePages(newSize) ==
    [p \in 1 .. NumPages(newSize) |->
        [i \in 1 .. ResizedPageSize(p, newSize) |->
            IF p <= Len(pages) /\ i <= Len(pages[p]) THEN pages[p][i] ELSE 0]]

PagedInit ==
    /\ pagedSize \in 1 .. MaxPagedSize
    /\ pages = FillPages(pagedSize)
    /\ content = Zeros(pagedSize)
    /\ ragged = FALSE
    /\ pagedSteps = 0

ResizeTo(newSize) ==
    /\ pages' = ResizePages(newSize)
    /\ pagedSize' = newSize
    /\ content' = [i \in 1 .. newSize |-> IF i <= Len(content) THEN content[i] ELSE 0]
    /\ ragged' = (ragged \/ (NumPages(newSize) > 1 /\ newSize % PageSize # 0))

(* Grow: an eighth more than asked for, three at the least; nothing when it fits. *)
GrowTo(minSize) == minSize + Max({minSize \div 8, 3})

SetEntry ==
    \E index \in 0 .. pagedSize - 1, v \in PagedValues :
        /\ IndexInPage(index) <= Len(pages[PageIndex(index)])   \* else it panics
        /\ pages' = [pages EXCEPT ![PageIndex(index)][IndexInPage(index)] = v]
        /\ content' = [content EXCEPT ![index + 1] = v]
        /\ UNCHANGED <<pagedSize, ragged>>
(* Its one caller shrinks an array when it is finished (DocValuesFieldUpdates.Finish). *)
Shrink == \E newSize \in 1 .. pagedSize : ResizeTo(newSize)
GrowOne == GrowTo(pagedSize + 1) <= MaxPagedSize /\ ResizeTo(GrowTo(pagedSize + 1))
Grow ==
    \E minSize \in pagedSize + 1 .. MaxPagedSize :
        GrowTo(minSize) <= MaxPagedSize /\ ResizeTo(GrowTo(minSize))

PagedNext ==
    /\ pagedSteps < MaxPagedSteps
    /\ \/ (SetEntry \/ GrowOne \/ Grow) /\ pagedSteps' = pagedSteps + 1
       \/ Shrink /\ pagedSteps' = MaxPagedSteps
PagedSpec == PagedInit /\ [][PagedNext]_pagedVars

--------------------------------------------------------------------------------
Kept ==
    \A index \in 0 .. pagedSize - 1 :
        /\ IndexInPage(index) <= Len(pages[PageIndex(index)])
        /\ pages[PageIndex(index)][IndexInPage(index)] = content[index + 1]

(* Every index of the array lies inside its page and holds what was stored there *)
(* last, however often the array was copied: Resize makes "a new copy of size    *)
(* newSize based on the content of this buffer".                                 *)
PagesKeepContent == Kept

(* The same as long as every copy had one page, or whole pages: the length of the *)
(* last page then is that of the others, and Resize cannot give it to the wrong   *)
(* ones. Every index keeps its value through any mix of growing and shrinking.    *)
WholePagesKeepContent == ~ragged => Kept

(* Long values are read back as they were added, from blocks, by the iterator *)
(* and from pages that were copied whole.                                     *)
LongsReadBack == ValuesReadBack /\ IteratorInStep /\ WholePagesKeepContent
================================================================================
