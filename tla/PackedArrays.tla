----------------------------- MODULE PackedArrays -----------------------------
(* The bulk encoders and decoders of packed integers (core/util/packed and     *)
(* core/util/packed/bulkoperation).                                            *)
(*                                                                             *)
(* The code only shifts, masks and ors, so the bits are symbols: a word is the *)
(* set of its bits that are not zero, each with its place and the name of the  *)
(* bit it is a copy of. What a decoder returns for named bits it returns for   *)
(* every value those bits can have; two bits in one place are a value lost.    *)
(*                                                                             *)
(* Arrays of packed integers in memory (Packed64, Packed64SingleBlock, Direct*,*)
(* Packed*ThreeBlocks), the writer that grows their width, the page builder,   *)
(* and their serialized form with its two readers.                             *)
EXTENDS Integers, Sequences, SequencesExt, FiniteSetsExt

WordBits == 64
ByteBits == 8

ZeroWord == {}
ShiftLeft(w, k) == {<<b[1] + k, b[2]>> : b \in {c \in w : c[1] + k < WordBits}}
ShiftRight(w, k) == {<<b[1] - k, b[2]>> : b \in {c \in w : c[1] >= k}}
LowBits(w, n) == {b \in w : b[1] < n}
Or(v, w) == v \cup w
ByteOf(w) == LowBits(w, ByteBits)

(* The value called id, of the given width: all its bits are names of their own. *)
Named(id, width) == {<<j, WordBits * id + j>> : j \in 0 .. width - 1}

--------------------------------------------------------------------------------
(* How many blocks and values one iteration covers (NewPacked). *)
RECURSIVE OddPart(_)
OddPart(n) == IF n % 2 = 0 THEN OddPart(n \div 2) ELSE n
LongBlocks(bpv) == OddPart(bpv)
LongValueCount(bpv) == (WordBits * LongBlocks(bpv)) \div bpv

RECURSIVE Halved(_, _)
Halved(blocks, values) ==
    IF blocks % 2 = 0 /\ values % 2 = 0
    THEN Halved(blocks \div 2, values \div 2)
    ELSE [blocks |-> blocks, values |-> values]
ByteCounts(bpv) == Halved(8 * LongBlocks(bpv), LongValueCount(bpv))
ByteBlockCount(bpv) == ByteCounts(bpv).blocks
ByteValueCount(bpv) == ByteCounts(bpv).values

(* The method LongBlockCount returns the number of bytes, not of longs. *)
LongBlockCount(bpv) == ByteBlockCount(bpv)

ComputeIterations(bpv, valueCount, ramBudget) ==
    LET iterations == ramBudget \div (ByteBlockCount(bpv) + 8 * ByteValueCount(bpv))
    IN  IF iterations = 0 THEN 1
        ELSE IF (iterations - 1) * ByteValueCount(bpv) >= valueCount
             THEN (valueCount + ByteValueCount(bpv) - 1) \div ByteValueCount(bpv)
             ELSE iterations

--------------------------------------------------------------------------------
(* The generic loops. Each reads its input to the end; what the loop carries   *)
(* from one round to the next are the arguments after it.                      *)

RECURSIVE EncodeLongs(_, _, _, _)
EncodeLongs(bpv, values, nextBlock, bitsLeft) ==
    IF values = <<>> THEN <<>>
    ELSE LET v == Head(values)
             left == bitsLeft - bpv
         IN  CASE left > 0 ->
                    EncodeLongs(bpv, Tail(values), Or(nextBlock, ShiftLeft(v, left)), left)
               [] left = 0 ->
                    <<Or(nextBlock, v)>> \o EncodeLongs(bpv, Tail(values), ZeroWord, WordBits)
               [] left < 0 ->
                    <<Or(nextBlock, ShiftRight(v, -left))>>
                    \o EncodeLongs(bpv, Tail(values), ShiftLeft(LowBits(v, -left), WordBits + left),
                                   WordBits + left)
EncodeUint64(bpv, values) == EncodeLongs(bpv, values, ZeroWord, WordBits)

RECURSIVE DecodeLongs(_, _, _, _)
DecodeLongs(bpv, blocks, count, bitsLeft) ==
    IF count = 0 THEN <<>>
    ELSE LET left == bitsLeft - bpv
         IN  IF left < 0
             THEN <<Or(ShiftLeft(LowBits(blocks[1], bpv + left), -left),
                       ShiftRight(blocks[2], WordBits + left))>>
                  \o DecodeLongs(bpv, Tail(blocks), count - 1, WordBits + left)
             ELSE <<LowBits(ShiftRight(blocks[1], left), bpv)>>
                  \o DecodeLongs(bpv, blocks, count - 1, left)
GenericDecodeUint64(bpv, blocks, iterations) ==
    DecodeLongs(bpv, blocks, LongValueCount(bpv) * iterations, WordBits)

(* byte(v >> bits), byte(v >> (bits - 8)), ... while bits >= 8 *)
RECURSIVE WholeBytes(_, _)
WholeBytes(v, bits) ==
    IF bits >= 8 THEN <<ByteOf(ShiftRight(v, bits - 8))>> \o WholeBytes(v, bits - 8) ELSE <<>>

RECURSIVE EncodeToBytes(_, _, _, _)
EncodeToBytes(bpv, values, nextBlock, bitsLeft) ==
    IF values = <<>> THEN <<>>
    ELSE LET v == Head(values)
             bits == bpv - bitsLeft
             rest == bits % 8
         IN  IF bpv < bitsLeft
             THEN EncodeToBytes(bpv, Tail(values), Or(nextBlock, ShiftLeft(v, bitsLeft - bpv)),
                                bitsLeft - bpv)
             ELSE <<ByteOf(Or(nextBlock, ShiftRight(v, bits)))>> \o WholeBytes(v, bits)
                  \o EncodeToBytes(bpv, Tail(values), ShiftLeft(LowBits(v, rest), 8 - rest), 8 - rest)
EncodeBytes(bpv, values) == EncodeToBytes(bpv, values, ZeroWord, ByteBits)

(* values[] = byte >> bits & mask while bits >= bitsPerValue *)
RECURSIVE WholeValues(_, _, _)
WholeValues(bpv, byte, bits) ==
    IF bits >= bpv
    THEN <<LowBits(ShiftRight(byte, bits - bpv), bpv)>> \o WholeValues(bpv, byte, bits - bpv)
    ELSE <<>>

RECURSIVE DecodeFromBytes(_, _, _, _)
DecodeFromBytes(bpv, bytes, nextValue, bitsLeft) ==
    IF bytes = <<>> THEN <<>>
    ELSE LET b == Head(bytes)
             bits == 8 - bitsLeft
             rest == bits % bpv
         IN  IF bitsLeft > 8
             THEN DecodeFromBytes(bpv, Tail(bytes), Or(nextValue, ShiftLeft(b, bitsLeft - 8)),
                                  bitsLeft - 8)
             ELSE <<Or(nextValue, ShiftRight(b, bits))>> \o WholeValues(bpv, b, bits)
                  \o DecodeFromBytes(bpv, Tail(bytes), ShiftLeft(LowBits(b, rest), bpv - rest),
                                     bpv - rest)
GenericDecodeBytes(bpv, bytes, iterations) ==
    DecodeFromBytes(bpv, SubSeq(bytes, 1, iterations * ByteBlockCount(bpv)), ZeroWord, bpv)

--------------------------------------------------------------------------------
(* The unrolled decoders for 1 to 24 bits. Every block starts with the end of  *)
(* a value (or with a part of one) and goes on with whole values; what is left *)
(* starts the value that the next block ends. The tables give, block by block, *)
(* the shift of the first expression in which the code uses it: to the right,  *)
(* or, when negative, to the left.                                             *)
Packed1DecodeUint64 == <<63>>
Packed1DecodeBytes == <<7>>
Packed2DecodeUint64 == <<62>>
Packed2DecodeBytes == <<6>>
Packed3DecodeUint64 == <<61, 62, 63>>
Packed3DecodeBytes == <<5, 7, 6>>
Packed4DecodeUint64 == <<60>>
Packed4DecodeBytes == <<4>>
Packed5DecodeUint64 == <<59, 63, 62, 61, 60>>
Packed5DecodeBytes == <<3, 6, 4, 7, 5>>
Packed6DecodeUint64 == <<58, 62, 60>>
Packed6DecodeBytes == <<2, 4, 6>>
Packed7DecodeUint64 == <<57, 58, 59, 60, 61, 62, 63>>
Packed7DecodeBytes == <<1, 2, 3, 4, 5, 6, 7>>
Packed8DecodeUint64 == <<56>>
Packed8DecodeBytes == <<0>>
Packed9DecodeUint64 == <<55, 56, 57, 58, 59, 60, 61, 62, 63>>
Packed9DecodeBytes == <<-1, 7, 6, 5, 4, 3, 2, 1, 0>>
Packed10DecodeUint64 == <<54, 58, 62, 56, 60>>
Packed10DecodeBytes == <<-2, 6, 4, 2, 0>>
Packed11DecodeUint64 == <<53, 62, 60, 58, 56, 54, 63, 61, 59, 57, 55>>
Packed11DecodeBytes == <<-3, 5, 2, -1, 7, 4, 1, -2, 6, 3, 0>>
Packed12DecodeUint64 == <<52, 56, 60>>
Packed12DecodeBytes == <<-4, 4, 0>>
Packed13DecodeUint64 == <<51, 63, 62, 61, 60, 59, 58, 57, 56, 55, 54, 53, 52>>
Packed13DecodeBytes == <<-5, 3, -2, 6, 1, -4, 4, -1, 7, 2, -3, 5, 0>>
Packed14DecodeUint64 == <<50, 58, 52, 60, 54, 62, 56>>
Packed14DecodeBytes == <<-6, 2, -4, 4, -2, 6, 0>>
(* A mutant: one shift of the unrolled decoder is off by one. *)
Packed15DecodeUint64Shifted == <<49, 53, 57, 61, 50, 54, 58, 62, 51, 55, 59, 63, 52, 55, 60>>

Packed15DecodeUint64 == <<49, 53, 57, 61, 50, 54, 58, 62, 51, 55, 59, 63, 52, 56, 60>>
Packed15DecodeBytes == <<-7, 1, -6, 2, -5, 3, -4, 4, -3, 5, -2, 6, -1, 7, 0>>
Packed16DecodeUint64 == <<48>>
Packed16DecodeBytes == <<-8, 0>>
Packed17DecodeUint64 == <<47, 60, 56, 52, 48, 61, 57, 53, 49, 62, 58, 54, 50, 63, 59, 55, 51>>
Packed17DecodeBytes == <<-9, -1, 7, -2, 6, -3, 5, -4, 4, -5, 3, -6, 2, -7, 1, -8, 0>>
Packed18DecodeUint64 == <<46, 56, 48, 58, 50, 60, 52, 62, 54>>
Packed18DecodeBytes == <<-10, -2, 6, -4, 4, -6, 2, -8, 0>>
Packed19DecodeUint64 ==
    <<45, 52, 59, 47, 54, 61, 49, 56, 63, 51, 58, 46, 53, 60, 48, 55, 62,
      50, 57>>
Packed19DecodeBytes ==
    <<-11, -3, 5, -6, 2, -9, -1, 7, -4, 4, -7, 1, -10, -2, 6, -5, 3, -8, 0>>
Packed20DecodeUint64 == <<44, 48, 52, 56, 60>>
Packed20DecodeBytes == <<-12, -4, 4, -8, 0>>
Packed21DecodeUint64 ==
    <<43, 44, 45, 46, 47, 48, 49, 50, 51, 52, 53, 54, 55, 56, 57, 58, 59,
      60, 61, 62, 63>>
Packed21DecodeBytes ==
    <<-13, -5, 3, -10, -2, 6, -7, 1, -12, -4, 4, -9, -1, 7, -6, 2, -11, -3,
      5, -8, 0>>
Packed22DecodeUint64 == <<42, 62, 60, 58, 56, 54, 52, 50, 48, 46, 44>>
Packed22DecodeBytes == <<-14, -6, 2, -12, -4, 4, -10, -2, 6, -8, 0>>
Packed23DecodeUint64 ==
    <<41, 59, 54, 49, 44, 62, 57, 52, 47, 42, 60, 55, 50, 45, 63, 58, 53,
      48, 43, 61, 56, 51, 46>>
Packed23DecodeBytes ==
    <<-15, -7, 1, -14, -6, 2, -13, -5, 3, -12, -4, 4, -11, -3, 5, -10, -2,
      6, -9, -1, 7, -8, 0>>
Packed24DecodeUint64 == <<40, 56, 48>>
Packed24DecodeBytes == <<-16, -8, 0>>

LongShifts == <<
    Packed1DecodeUint64, Packed2DecodeUint64, Packed3DecodeUint64,
    Packed4DecodeUint64, Packed5DecodeUint64, Packed6DecodeUint64,
    Packed7DecodeUint64, Packed8DecodeUint64, Packed9DecodeUint64,
    Packed10DecodeUint64, Packed11DecodeUint64, Packed12DecodeUint64,
    Packed13DecodeUint64, Packed14DecodeUint64, Packed15DecodeUint64,
    Packed16DecodeUint64, Packed17DecodeUint64, Packed18DecodeUint64,
    Packed19DecodeUint64, Packed20DecodeUint64, Packed21DecodeUint64,
    Packed22DecodeUint64, Packed23DecodeUint64, Packed24DecodeUint64>>
ByteShifts == <<
    Packed1DecodeBytes, Packed2DecodeBytes, Packed3DecodeBytes,
    Packed4DecodeBytes, Packed5DecodeBytes, Packed6DecodeBytes,
    Packed7DecodeBytes, Packed8DecodeBytes, Packed9DecodeBytes,
    Packed10DecodeBytes, Packed11DecodeBytes, Packed12DecodeBytes,
    Packed13DecodeBytes, Packed14DecodeBytes, Packed15DecodeBytes,
    Packed16DecodeBytes, Packed17DecodeBytes, Packed18DecodeBytes,
    Packed19DecodeBytes, Packed20DecodeBytes, Packed21DecodeBytes,
    Packed22DecodeBytes, Packed23DecodeBytes, Packed24DecodeBytes>>

(* part is the beginning of an unfinished value, in place; rest is how many low *)
(* bits of the block before are the beginning of the next one.                  *)
RECURSIVE RunUnrolled(_, _, _, _, _, _, _)
RunUnrolled(bpv, width, shifts, blocks, part, prev, rest) ==
    IF shifts = <<>> THEN <<>>
    ELSE LET b == Head(blocks)
             s == Head(shifts)
             begun == IF rest > 0 THEN ShiftLeft(LowBits(prev, rest), width - s) ELSE part
             value == Or(begun, IF s >= 0 THEN ShiftRight(b, s) ELSE ShiftLeft(b, -s))
         IN  IF s < 0
             THEN RunUnrolled(bpv, width, Tail(shifts), Tail(blocks), value, b, 0)
             ELSE <<value>> \o WholeValues(bpv, b, s)
                  \o RunUnrolled(bpv, width, Tail(shifts), Tail(blocks), ZeroWord, b, s % bpv)

RECURSIVE Unrolled(_, _, _, _, _)
Unrolled(bpv, width, shifts, blocks, iterations) ==
    IF iterations = 0 THEN <<>>
    ELSE RunUnrolled(bpv, width, shifts, SubSeq(blocks, 1, Len(shifts)), ZeroWord, ZeroWord, 0)
         \o Unrolled(bpv, width, shifts, SubSeq(blocks, Len(shifts) + 1, Len(blocks)), iterations - 1)

(* The table packedBulkOps chooses the decoder by the number of bits. *)
DecodeUint64(bpv, blocks, iterations) ==
    IF bpv <= 24
    THEN Unrolled(bpv, WordBits, LongShifts[bpv], blocks, iterations)
    ELSE GenericDecodeUint64(bpv, blocks, iterations)
DecodeBytes(bpv, bytes, iterations) ==
    IF bpv <= 24
    THEN Unrolled(bpv, ByteBits, ByteShifts[bpv], bytes, iterations)
    ELSE GenericDecodeBytes(bpv, bytes, iterations)

--------------------------------------------------------------------------------
CONSTANTS
    Shapes,         \* the arrays: number of values, bits per value
    GrowWidths,     \* widths of the values that growable writers are given
    Ratios,         \* acceptable overheads, in quarters
    MaxArraySteps   \* calls on one array

VARIABLES
    mutable,        \* the array: kind, bits per value, number of values, blocks
    growMask,       \* GrowableWriter: the values of up to so many bits fit
    expected,       \* what was stored last at every index
    arrayRatio,     \* the overhead it was made with
    stream,         \* the bytes the array was saved as, NoStream before
    arraySteps

arrayVars == <<mutable, growMask, expected, arrayRatio, stream, arraySteps>>

NoStream == [bpv |-> 0, bytes |-> <<>>, values |-> <<>>]
CeilDiv(a, b) == (a + b - 1) \div b
BitsRequired(w) == IF w = ZeroWord THEN 1 ELSE 1 + Max({b[1] : b \in w})
AllZero(n) == [i \in 1 .. n |-> ZeroWord]

--------------------------------------------------------------------------------
(* Which array for which width. *)

SupportedBitsPerValue == {1, 2, 3, 4, 5, 6, 7, 8, 9, 10, 12, 16, 21, 32}
OverheadPerValue(bpv) == (WordBits % bpv) \div (WordBits \div bpv)

(* The format that is fast enough at the price of ratio quarters of overhead. *)
FastestFormat(bpv, ratio) ==
    LET maxBits == bpv + (ratio * bpv) \div 4
        Reaches(n) == bpv <= n /\ maxBits >= n
        single == {b \in SupportedBitsPerValue \cap (bpv .. maxBits) :
                     4 * OverheadPerValue(b) <= ratio * bpv + 4 * (bpv - b)}
    IN  IF (\E n \in {8, 16, 32, 64, 24, 48} : Reaches(n)) \/ single = {}
        THEN "packed" ELSE "single"

Words(kind, bpv, count) ==
    CASE kind = "packed64" -> CeilDiv(CeilDiv(count * bpv, 8), 8)
      [] kind = "single" -> CeilDiv(count, WordBits \div bpv)
      [] kind = "direct" -> count
      [] kind = "three" -> 3 * count

NewMutable(kind, bpv, count) ==
    [kind |-> kind, bpv |-> bpv, count |-> count, blocks |-> AllZero(Words(kind, bpv, count))]

(* getMutableV1 keeps the width it was asked for, whatever width the format was *)
(* chosen for; the single-block array does not exist for every width.           *)
GetMutable(count, bpv, format) ==
    CASE format = "single" /\ bpv \in SupportedBitsPerValue -> NewMutable("single", bpv, count)
      [] format = "single" /\ bpv \notin SupportedBitsPerValue ->
            [kind |-> "nil", bpv |-> bpv, count |-> count, blocks |-> <<>>]
      [] format = "packed" /\ bpv \in {8, 16, 32, 64} -> NewMutable("direct", bpv, count)
      [] format = "packed" /\ bpv \in {24, 48} -> NewMutable("three", bpv, count)
      [] OTHER -> NewMutable("packed64", bpv, count)
DefaultGetMutable(count, bpv, ratio) == GetMutable(count, bpv, FastestFormat(bpv, ratio))

--------------------------------------------------------------------------------
(* Packed64: values lie one after the other and may cross into the next word. *)

ElementPos(bpv, index) == (index * bpv) \div WordBits + 1
EndBits(bpv, index) == ((index * bpv) % WordBits) + bpv - WordBits
Without(w, from, n) == {b \in w : b[1] \notin from .. from + n - 1}

Packed64Get(m, index) ==
    LET e == ElementPos(m.bpv, index)
        endBits == EndBits(m.bpv, index)
    IN  IF endBits <= 0
        THEN LowBits(ShiftRight(m.blocks[e], -endBits), m.bpv)
        ELSE LowBits(Or(ShiftLeft(m.blocks[e], endBits),
                        ShiftRight(m.blocks[e + 1], WordBits - endBits)), m.bpv)
(* A mutant: what was in the second word stays. *)
Packed64SetOver(m, index, value) ==
    LET e == ElementPos(m.bpv, index)
        endBits == EndBits(m.bpv, index)
    IN  IF endBits <= 0
        THEN [m EXCEPT !.blocks[e] =
                Or(Without(@, -endBits, m.bpv), ShiftLeft(value, -endBits))]
        ELSE [m EXCEPT
                !.blocks[e] = Or(Without(@, 0, m.bpv - endBits), ShiftRight(value, endBits)),
                !.blocks[e + 1] = Or(@, ShiftLeft(value, WordBits - endBits))]

Packed64Set(m, index, value) ==
    LET e == ElementPos(m.bpv, index)
        endBits == EndBits(m.bpv, index)
    IN  IF endBits <= 0
        THEN [m EXCEPT !.blocks[e] =
                Or(Without(@, -endBits, m.bpv), ShiftLeft(value, -endBits))]
        ELSE [m EXCEPT
                !.blocks[e] = Or(Without(@, 0, m.bpv - endBits), ShiftRight(value, endBits)),
                !.blocks[e + 1] = Or(LowBits(@, WordBits - endBits),
                                     ShiftLeft(value, WordBits - endBits))]

(* Packed64SingleBlock: as many values as fit into a word, the rest unused. *)
SingleGet(m, index) ==
    LET perBlock == WordBits \div m.bpv
    IN  LowBits(ShiftRight(m.blocks[index \div perBlock + 1], (index % perBlock) * m.bpv), m.bpv)
SingleSet(m, index, value) ==
    LET perBlock == WordBits \div m.bpv
        shift == (index % perBlock) * m.bpv
    IN  [m EXCEPT !.blocks[index \div perBlock + 1] =
            Or(Without(@, shift, m.bpv), ShiftLeft(value, shift))]

(* Packed8ThreeBlocks and Packed16ThreeBlocks: three units, the high one first. *)
ThreeGet(m, index) ==
    LET unit == m.bpv \div 3
        o == 3 * index + 1
    IN  Or(Or(ShiftLeft(m.blocks[o], 2 * unit), ShiftLeft(m.blocks[o + 1], unit)), m.blocks[o + 2])
ThreeSet(m, index, value) ==
    LET unit == m.bpv \div 3
        o == 3 * index + 1
    IN  [m EXCEPT !.blocks[o] = LowBits(ShiftRight(value, 2 * unit), unit),
                  !.blocks[o + 1] = LowBits(ShiftRight(value, unit), unit),
                  !.blocks[o + 2] = LowBits(value, unit)]

DirectGet(m, index) == m.blocks[index + 1]
DirectSet(m, index, value) == [m EXCEPT !.blocks[index + 1] = LowBits(value, m.bpv)]

Get(m, index) ==
    CASE m.kind = "packed64" -> Packed64Get(m, index)
      [] m.kind = "single" -> SingleGet(m, index)
      [] m.kind = "three" -> ThreeGet(m, index)
      [] m.kind = "direct" -> DirectGet(m, index)
Set(m, index, value) ==
    CASE m.kind = "packed64" -> Packed64Set(m, index, value)
      [] m.kind = "single" -> SingleSet(m, index, value)
      [] m.kind = "three" -> ThreeSet(m, index, value)
      [] m.kind = "direct" -> DirectSet(m, index, value)

(* values one after the other, from index on *)
RECURSIVE SetEach(_, _, _)
SetEach(m, index, values) ==
    IF values = <<>> THEN m ELSE SetEach(Set(m, index, Head(values)), index + 1, Tail(values))

--------------------------------------------------------------------------------
(* Bulk operations. They may stop early, at a block boundary, and return how   *)
(* many values they read or wrote.                                             *)

(* Where both bulk methods of Packed64 leave the values that begin inside a     *)
(* block: GetBulk counts from the values of an iteration, SetBulk from its      *)
(* bytes.                                                                       *)
LeadIn(index, length, alignment, bpv) ==
    IF index % alignment = 0 THEN 0
    ELSE Min({length, Max({0, LongValueCount(bpv) - (index % alignment)})})

Packed64GetBulk(m, index, wanted) ==
    LET length == Min({wanted, m.count - index})
        lead == LeadIn(index, length, LongValueCount(m.bpv), m.bpv)
        iterations == (length - lead) \div LongValueCount(m.bpv)
        block == ((index + lead) * m.bpv) \div WordBits + 1
        One(n) == [i \in 1 .. n |-> Packed64Get(m, index + i - 1)]
    IN  IF lead = length \/ (lead > 0 /\ iterations = 0) THEN One(lead)
        ELSE IF iterations > 0
        THEN One(lead) \o DecodeUint64(m.bpv, SubSeq(m.blocks, block, Len(m.blocks)), iterations)
        ELSE One(length)

Overwritten(blocks, from, new) ==
    [b \in DOMAIN blocks |-> IF b \in from .. from + Len(new) - 1 THEN new[b - from + 1] ELSE blocks[b]]

Packed64SetBulk(m, index, values) ==
    LET length == Min({Len(values), m.count - index})
        lead == LeadIn(index, length, LongBlockCount(m.bpv), m.bpv)
        iterations == (length - lead) \div LongValueCount(m.bpv)
        block == ((index + lead) * m.bpv) \div WordBits + 1
        taken == iterations * LongValueCount(m.bpv)
        led == SetEach(m, index, SubSeq(values, 1, lead))
    IN  IF lead = length \/ (lead > 0 /\ iterations = 0) THEN [array |-> led, sets |-> lead]
        ELSE IF iterations > 0
        THEN [array |-> [led EXCEPT !.blocks =
                            Overwritten(@, block, EncodeUint64(m.bpv, SubSeq(values, lead + 1, lead + taken)))],
              sets |-> lead + taken]
        ELSE [array |-> SetEach(m, index, SubSeq(values, 1, length)), sets |-> length]

GetBulk(m, index, wanted) ==
    IF m.kind = "packed64" THEN Packed64GetBulk(m, index, wanted)
    ELSE [i \in 1 .. Min({wanted, m.count - index}) |-> Get(m, index + i - 1)]
SetBulk(m, index, values) ==
    IF m.kind = "packed64" THEN Packed64SetBulk(m, index, values)
    ELSE LET n == Min({Len(values), m.count - index})
         IN  [array |-> SetEach(m, index, SubSeq(values, 1, n)), sets |-> n]

(* Packed64.Fill writes whole blocks from a pattern where it can. *)
RECURSIVE Gcd(_, _)
Gcd(a, b) == IF a < b THEN Gcd(b, a) ELSE IF b = 0 THEN a ELSE Gcd(b, a % b)
Packed64Fill(m, from, to, value) ==
    LET aligned == WordBits \div Gcd(WordBits, m.bpv)
        start == IF from % aligned = 0 THEN from ELSE from + aligned - (from % aligned)
        pattern == EncodeUint64(m.bpv, [i \in 1 .. aligned |-> value])
        startBlock == (start * m.bpv) \div WordBits
        endBlock == (to * m.bpv) \div WordBits
        led == SetEach(m, from, [i \in 1 .. start - from |-> value])
        filled == [led EXCEPT !.blocks =
                    [b \in DOMAIN @ |-> IF b - 1 \in startBlock .. endBlock - 1
                                        THEN pattern[((b - 1) % Len(pattern)) + 1] ELSE @[b]]]
        gap == (endBlock * WordBits) \div m.bpv
    IN  IF to - from <= 3 * aligned
        THEN SetEach(m, from, [i \in 1 .. to - from |-> value])
        ELSE SetEach(filled, gap, [i \in 1 .. to - gap |-> value])
Fill(m, from, to, value) ==
    IF m.kind = "packed64" THEN Packed64Fill(m, from, to, value)
    ELSE SetEach(m, from, [i \in 1 .. to - from |-> value])

(* CopyValues with a buffer of 1024 bytes: read as much as the source gives, write *)
(* as much as the destination takes, keep the rest in the buffer.                  *)
BufferValues == 1024 \div 8
RECURSIVE CopyLoop(_, _, _, _, _, _)
CopyLoop(src, srcPos, dest, destPos, size, pending) ==
    IF size = 0 /\ pending = <<>> THEN dest
    ELSE LET read == IF size = 0 THEN <<>>
                     ELSE GetBulk(src, srcPos, Min({size, BufferValues - Len(pending)}))
             buffer == pending \o read
             written == SetBulk(dest, destPos, buffer)
         IN  CopyLoop(src, srcPos + Len(read), written.array, destPos + written.sets,
                      size - Len(read), SubSeq(buffer, written.sets + 1, Len(buffer)))
CopyValues(src, dest, size) == CopyLoop(src, 0, dest, 0, size, <<>>)

--------------------------------------------------------------------------------
(* GrowableWriter. Nothing but zero fits into a new one, whatever width it       *)
(* starts with: the first value decides the width.                               *)

EnsureCapacity(m, mask, ratio, value) ==
    IF \A b \in value : b[1] < mask THEN [array |-> m, mask |-> mask]
    ELSE LET next == DefaultGetMutable(m.count, BitsRequired(value), ratio)
         IN  [array |-> CopyValues(m, next, m.count), mask |-> next.bpv]

(* Resize copies into a new writer, whose own width grows from the values. *)
ResizeWriter(m, ratio, newSize) ==
    LET limit == Min({m.count, newSize})
        next == DefaultGetMutable(newSize, m.bpv, ratio)
        copied == UNION {Get(m, i) : i \in 0 .. limit - 1}
        grown == EnsureCapacity(next, 0, ratio, copied)
    IN  [grown EXCEPT !.array = CopyValues(m, @, limit)]

(* PackedLongValuesBuilder.packValues: one page of values, set as far as each *)
(* call of SetBulk goes.                                                      *)
RECURSIVE SetAll(_, _, _)
SetAll(m, index, values) ==
    IF index = Len(values) THEN m
    ELSE LET written == SetBulk(m, index, SubSeq(values, index + 1, Len(values)))
         IN  SetAll(written.array, index + written.sets, values)

--------------------------------------------------------------------------------
(* The serialized form: always the packed format, whatever the array is. *)

ByteCount(count, bpv) == CeilDiv(count * bpv, 8)

(* PackedWriter: Add fills a buffer of whole iterations; flush encodes all of the *)
(* buffer, writes the bytes of the values that are in it and clears it.           *)
RECURSIVE PackedWrite(_, _, _)
PackedWrite(bpv, bufferSize, values) ==
    LET off == Min({bufferSize, Len(values)})
        nextValues == SubSeq(values, 1, off) \o AllZero(bufferSize - off)
        flushed == SubSeq(EncodeBytes(bpv, nextValues), 1, ByteCount(off, bpv))
    IN  IF off < bufferSize THEN flushed
        ELSE flushed \o PackedWrite(bpv, bufferSize, SubSeq(values, off + 1, Len(values)))
BufferSize(bpv, count) == ComputeIterations(bpv, count, 1024) * ByteValueCount(bpv)
Save(m) == PackedWrite(m.bpv, BufferSize(m.bpv, m.count), [i \in 1 .. m.count |-> Get(m, i - 1)])

(* n bytes from position p on, the first one highest. *)
BigEndian(bytes, p, n) ==
    UNION {ShiftLeft(bytes[p + j], 8 * (n - 1 - j)) : j \in 0 .. n - 1}

(* getReaderNoHeader: units of the array's own width; Packed64 reads longs and then *)
(* the last bytes into the high end of one more.                                    *)
Load(bytes, bpv, count) ==
    LET m == GetMutable(count, bpv, "packed")
        unit == CASE m.kind = "direct" -> bpv \div 8
                  [] m.kind = "three" -> bpv \div 24
                  [] m.kind = "packed64" -> 8
        byteCount == ByteCount(count, bpv)
        Unit(b) == LET from == unit * (b - 1) + 1
                       n == Min({unit, byteCount - from + 1})
                   IN  ShiftLeft(BigEndian(bytes, from, n), 8 * (unit - n))
    IN  [m EXCEPT !.blocks = [b \in DOMAIN @ |-> Unit(b)]]
(* A mutant: the nine byte case is left out. *)
DirectPackedGetInEight(bytes, bpv, index) ==
    LET bitPos == (index * bpv) % 8
        rounded == 8 * CeilDiv(bitPos + bpv, 8)
    IN  LowBits(ShiftRight(BigEndian(bytes, (index * bpv) \div 8 + 1, Min({8, rounded \div 8})),
                           Max({0, Min({64, rounded}) - bitPos - bpv})), bpv)

(* DirectPackedReader.Get: seek, read the bytes the value lies in, shift, mask. Nine *)
(* bytes do not fit into a word: the shift comes first.                              *)
DirectPackedGet(bytes, bpv, index) ==
    LET bitPos == (index * bpv) % 8
        p == (index * bpv) \div 8 + 1
        rounded == 8 * CeilDiv(bitPos + bpv, 8)
        spare == rounded - bitPos - bpv
        raw == IF rounded = 72
               THEN Or(ShiftLeft(BigEndian(bytes, p, 8), 8 - spare), ShiftRight(bytes[p + 8], spare))
               ELSE ShiftRight(BigEndian(bytes, p, rounded \div 8), spare)
    IN  LowBits(raw, bpv)

(* DirectWriter: flush encodes and writes the whole buffer, also when Finish calls *)
(* it on a buffer that is half old or empty; three bytes of padding follow.        *)
RECURSIVE DirectWrite(_, _, _)
DirectWrite(bpv, buffer, values) ==
    LET off == Min({Len(buffer), Len(values)})
        nextValues == SubSeq(values, 1, off) \o SubSeq(buffer, off + 1, Len(buffer))
        flushed == EncodeBytes(bpv, nextValues)
    IN  IF off < Len(buffer) THEN flushed
        ELSE flushed \o DirectWrite(bpv, nextValues, SubSeq(values, off + 1, Len(values)))
DirectSave(bpv, values) ==
    DirectWrite(bpv, AllZero(BufferSize(bpv, Len(values))), values) \o AllZero(3)

(* DirectReader: how many bytes are read for a value and what is shifted out. *)
DirectWidths == {1, 2, 4, 8, 12, 16, 20, 24, 28, 32, 40, 48, 56, 64}
DirectRead(bpv) == CASE bpv <= 8 -> 1 [] bpv \in {12, 16} -> 2
                     [] bpv \in 20 .. 32 -> 4 [] bpv >= 40 -> 8
(* A mutant: odd and even values are swapped at the widths of half bytes. *)
DirectShiftSwapped(bpv, index) ==
    CASE bpv = 1 -> 7 - (index % 8)
      [] bpv = 2 -> 2 * (3 - (index % 4))
      [] bpv \in {4, 12, 28} -> 4 * (index % 2)
      [] bpv = 20 -> 8 + 4 * (index % 2)
      [] bpv \in {24, 56} -> 8
      [] bpv = 40 -> 24
      [] bpv = 48 -> 16
      [] bpv \in {8, 16, 32, 64} -> 0

DirectShift(bpv, index) ==
    CASE bpv = 1 -> 7 - (index % 8)
      [] bpv = 2 -> 2 * (3 - (index % 4))
      [] bpv \in {4, 12, 28} -> 4 * ((index + 1) % 2)
      [] bpv = 20 -> 8 + 4 * ((index + 1) % 2)
      [] bpv \in {24, 56} -> 8
      [] bpv = 40 -> 24
      [] bpv = 48 -> 16
      [] bpv \in {8, 16, 32, 64} -> 0

(* BytesRandomAccessInput refuses a read of several bytes that ends with the slice. *)
InSlice(bytes, pos, n) == IF n = 1 THEN pos < Len(bytes) ELSE pos + n < Len(bytes)
DirectPosition(bpv, index) == (index * bpv) \div 8
DirectReaderGet(bytes, bpv, index) ==
    LowBits(ShiftRight(BigEndian(bytes, DirectPosition(bpv, index) + 1, DirectRead(bpv)),
                       DirectShift(bpv, index)), bpv)

--------------------------------------------------------------------------------
(* An array, or a growable writer, and the calls on it. *)

NotGrowable == 0 - 1
SomeIndexes(m) == {0, m.count \div 2, m.count - 1} \cap (0 .. m.count - 1)
FreshValues(m, width) ==
    [i \in 1 .. m.count |-> Named((arraySteps + 1) * 256 + i, width)]

(* A fixed array keeps the width it was made with; a width for which no array  *)
(* exists gives none.                                                          *)
ArrayInit ==
    \E shape \in Shapes, ratio \in Ratios :
        /\ mutable = DefaultGetMutable(shape[1], shape[2], ratio)
        /\ growMask \in {0, NotGrowable}
        /\ mutable.kind # "nil"
        /\ expected = AllZero(shape[1])
        /\ arrayRatio = ratio
        /\ stream = NoStream
        /\ arraySteps = 0

(* One call that stores values: the array the call leaves and what it stored. *)
Stored(grown, array, values) ==
    /\ mutable' = array
    /\ growMask' = grown.mask
    /\ expected' = values
    /\ arraySteps' = arraySteps + 1
    /\ UNCHANGED <<arrayRatio, stream>>

Room(value) ==
    IF growMask = NotGrowable THEN [array |-> mutable, mask |-> NotGrowable]
    ELSE EnsureCapacity(mutable, growMask, arrayRatio, value)
Writable(width) ==
    /\ arraySteps < MaxArraySteps
    /\ stream = NoStream
    /\ IF growMask = NotGrowable THEN width <= mutable.bpv
       ELSE DefaultGetMutable(mutable.count, width, arrayRatio).kind # "nil"

SetOne(index, width) ==
    /\ Writable(width)
    /\ LET value == FreshValues(mutable, width)[index + 1]
           grown == Room(value)
       IN  Stored(grown, Set(grown.array, index, value), [expected EXCEPT ![index + 1] = value])

SetPage(width) ==
    /\ Writable(width)
    /\ LET values == FreshValues(mutable, width)
           grown == Room(UNION {values[i] : i \in DOMAIN values})
       IN  Stored(grown, SetAll(grown.array, 0, values), values)

FillRange(from, to, width) ==
    /\ Writable(width)
    /\ LET value == FreshValues(mutable, width)[1]
           grown == Room(value)
       IN  Stored(grown, Fill(grown.array, from, to, value),
                  [i \in DOMAIN expected |-> IF i - 1 \in from .. to - 1 THEN value ELSE expected[i]])

Clear ==
    /\ Writable(1)
    /\ Stored([mask |-> growMask], [mutable EXCEPT !.blocks = AllZero(Len(@))], AllZero(Len(expected)))

Resize(newSize) ==
    /\ Writable(1)
    /\ growMask # NotGrowable
    /\ newSize # mutable.count
    /\ LET resized == ResizeWriter(mutable, arrayRatio, newSize)
       IN  Stored(resized, resized.array,
                  [i \in 1 .. newSize |-> IF i <= Len(expected) THEN expected[i] ELSE ZeroWord])

SaveArray ==
    /\ stream = NoStream
    /\ stream' = [bpv |-> mutable.bpv, bytes |-> Save(mutable), values |-> expected]
    /\ UNCHANGED <<mutable, growMask, expected, arrayRatio, arraySteps>>

ValueWidths == IF growMask = NotGrowable THEN {1, mutable.bpv} ELSE GrowWidths
SetAny == \E width \in ValueWidths, index \in SomeIndexes(mutable) : SetOne(index, width)
SetAnyPage == \E width \in ValueWidths : SetPage(width)
FillAny == \E width \in ValueWidths, from \in {0, 1}, to \in {mutable.count - 1, mutable.count} :
              FillRange(from, to, width)
ResizeAny == \E newSize \in {s[1] : s \in Shapes} : Resize(newSize)
ArrayNext == SetAny \/ SetAnyPage \/ FillAny \/ Clear \/ ResizeAny \/ SaveArray
ArraySpec == ArrayInit /\ [][ArrayNext]_arrayVars

--------------------------------------------------------------------------------
ArrayTypeOK ==
    /\ mutable.kind \in {"packed64", "single", "direct", "three"}
    /\ Len(mutable.blocks) = Words(mutable.kind, mutable.bpv, mutable.count)
    /\ Len(expected) = mutable.count

(* Every value is read back as it was stored last, one at a time and in bulk from *)
(* any index: neither the bits of a neighbour nor a change of width touches it.   *)
ValuesKept ==
    /\ \A i \in DOMAIN expected : Get(mutable, i - 1) = expected[i]
    /\ \A i \in SomeIndexes(mutable) :
         LET read == GetBulk(mutable, i, mutable.count)
         IN  Len(read) > 0 /\ read = SubSeq(expected, i + 1, i + Len(read))

(* Whatever the width, what the encoder packs into longs or into bytes the decoder of *)
(* that width, unrolled or not, unpacks to the same values, over several iterations. *)
BulkRoundTrip ==
    arraySteps = 0 =>
        LET bpv == mutable.bpv
            Values(n) == [i \in 1 .. n |-> Named(i, bpv)]
            longs == Values(2 * LongValueCount(bpv))
            bytes == Values(2 * ByteValueCount(bpv))
        IN  /\ DecodeUint64(bpv, EncodeUint64(bpv, longs), 2) = longs
            /\ DecodeBytes(bpv, EncodeBytes(bpv, bytes), 2) = bytes

(* What an array was saved as is read back by the array that is loaded from it and *)
(* by the reader that seeks for every value.                                       *)
SavedReadsBack ==
    stream # NoStream =>
        LET count == Len(stream.values)
            loaded == Load(stream.bytes, stream.bpv, count)
        IN  \A i \in 1 .. count :
                /\ Get(loaded, i - 1) = stream.values[i]
                /\ DirectPackedGet(stream.bytes, stream.bpv, i - 1) = stream.values[i]

(* What DirectWriter writes in whole buffers, old values included, DirectReader    *)
(* reads back, the last value too: it never reaches the end of the stream.         *)
DirectReadsBack ==
    mutable.bpv \in DirectWidths =>
        LET bytes == DirectSave(mutable.bpv, expected)
        IN  (\A i \in DOMAIN expected : expected[i] = LowBits(expected[i], mutable.bpv)) =>
            \A i \in DOMAIN expected :
                /\ InSlice(bytes, DirectPosition(mutable.bpv, i - 1), DirectRead(mutable.bpv))
                /\ DirectReaderGet(bytes, mutable.bpv, i - 1) = expected[i]

(* Packed integers are read back as they were stored: from the array, from    *)
(* the stream it was saved to, by the readers that seek and by the decoders.  *)
PackedReadsBack == ValuesKept /\ SavedReadsBack /\ DirectReadsBack /\ BulkRoundTrip
================================================================================
