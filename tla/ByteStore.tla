------------------------------ MODULE ByteStore ------------------------------
(* core/util/fst/bytestore.go: the bytes of an FST under construction, in      *)
(* blocks; OnHeapStore, which reads them back from a file; and the readers     *)
(* that go backwards over them.                                                *)
(*                                                                             *)
(* `current` is the position of the block that is written to among the blocks  *)
(* and 0 for none. `content` is what a caller has to find in the store; a byte *)
(* that was skipped may have any value. A reader is a value of its own: its    *)
(* current block is the slice that is written to, and the builder truncates    *)
(* only the node it is writing, which nobody reads.                            *)
EXTENDS Integers, Sequences, FiniteSets, SequencesExt

CONSTANTS
    Bytes,              \* the bytes that are written
    BlockSizes,         \* the block sizes of new and of loaded stores, powers of two
    MaxContent,         \* bound: bytes of a store
    MaxWrite,           \* bound: bytes of one write
    IntSize             \* the bytes of an int

VARIABLE bst

Unspecified == -1
Zeros(n) == [i \in 1 .. n |-> 0]
NoStore == [pc |-> "off"]
EmptyStore(size) ==
    [pc |-> "open", size |-> size, blocks |-> <<>>, current |-> 0, next |-> 0,
     content |-> <<>>, strayed |-> FALSE]

GetPosition(b) == (Len(b.blocks) - 1) * b.size + b.next

(* The block with bytes copied into it. *)
Overwrite(block, from, bytes) ==
    [i \in DOMAIN block |-> IF i \in from + 1 .. from + Len(bytes) THEN bytes[i - from] ELSE block[i]]
HasBlock(b, index) == index \in 0 .. Len(b.blocks) - 1
Put(b, index, from, bytes) == [b EXCEPT !.blocks[index + 1] = Overwrite(@, from, bytes)]
AddBlock(b) ==
    [b EXCEPT !.blocks = Append(@, Zeros(b.size)), !.current = Len(b.blocks) + 1]
Panics(b) == [b EXCEPT !.pc = "panic"]
Fails(b) == [b EXCEPT !.pc = "error"]

(* WriteByte. The position in the block is not reset for a new one. *)
WriteByte(b, byte) ==
    LET c == IF b.next = b.size \/ b.current = 0 THEN AddBlock(b) ELSE b
    IN  IF c.next >= c.size THEN Panics(c)
        ELSE [Put(c, c.current - 1, c.next, <<byte>>) EXCEPT !.next = @ + 1]

(* Write *)
RECURSIVE WriteChunks(_, _)
WriteChunks(b, bytes) ==
    LET chunk == b.size - b.next
        head == SubSeq(bytes, 1, chunk)
    IN  IF Len(bytes) <= chunk
        THEN [Put(b, b.current - 1, b.next, bytes) EXCEPT !.next = @ + Len(bytes)]
        ELSE WriteChunks([AddBlock(Put(b, b.current - 1, b.next, head)) EXCEPT !.next = 0],
                         SubSeq(bytes, chunk + 1, Len(bytes)))
Write(b, bytes) ==
    WriteChunks(IF b.current = 0 THEN [AddBlock(b) EXCEPT !.next = 0] ELSE b, bytes)

(* A mutant: a range that ends with a block ends before it. *)
EndOffsetZero(b, end) == end % b.size

(* Where an absolute range ends: a block, and how far down into it. *)
EndBlock(b, end) == IF end % b.size = 0 THEN end \div b.size - 1 ELSE end \div b.size
EndOffset(b, end) == IF end % b.size = 0 THEN b.size ELSE end % b.size

(* WriteBytesAt, block by block from the end. *)
RECURSIVE WriteDown(_, _, _, _)
WriteDown(b, index, downTo, bytes) ==
    LET n == Len(bytes)
    IN  IF ~HasBlock(b, index) THEN Fails(b)
        ELSE IF n <= downTo THEN Put(b, index, downTo - n, bytes)
        ELSE WriteDown(Put(b, index, 0, SubSeq(bytes, n - downTo + 1, n)), index - 1, b.size,
                       SubSeq(bytes, 1, n - downTo))
WriteBytesAt(b, dest, bytes) ==
    WriteDown(b, EndBlock(b, dest + Len(bytes)), EndOffset(b, dest + Len(bytes)), bytes)

(* MoveBytes. The blocks a chunk is copied from and to overlap only where the *)
(* copying of one slice within a block takes care of it.                      *)
RECURSIVE MoveDown(_, _, _, _, _)
MoveDown(b, index, downTo, dest, n) ==
    IF ~HasBlock(b, index) \/ b.pc = "error" THEN Fails(b)
    ELSE IF n <= downTo
         THEN WriteBytesAt(b, dest, SubSeq(b.blocks[index + 1], downTo - n + 1, downTo))
         ELSE MoveDown(WriteBytesAt(b, dest + n - downTo, SubSeq(b.blocks[index + 1], 1, downTo)),
                       index - 1, b.size, dest, n - downTo)
MoveBytes(b, src, dest, n) ==
    IF src >= dest THEN Fails(b) ELSE MoveDown(b, EndBlock(b, src + n), EndOffset(b, src + n), dest, n)

(* WriteInt32; the block after the last byte is looked up too. *)
RECURSIVE WriteUp(_, _, _, _)
WriteUp(b, index, upto, bytes) ==
    IF bytes = <<>> THEN b
    ELSE LET c == Put(b, index, upto, <<Head(bytes)>>)
         IN  IF upto + 1 < b.size THEN WriteUp(c, index, upto + 1, Tail(bytes))
             ELSE IF HasBlock(b, index + 1) THEN WriteUp(c, index + 1, 0, Tail(bytes))
             ELSE Fails(c)
WriteInt32(b, pos, bytes) == WriteUp(b, pos \div b.size, pos % b.size, bytes)

(* Reverse: bytes are swapped from both ends. *)
RECURSIVE SwapEnds(_, _, _, _, _, _)
SwapEnds(b, srcIndex, src, destIndex, dest, limit) ==
    IF limit = 0 THEN b
    ELSE LET s == b.blocks[srcIndex + 1][src + 1]
             d == b.blocks[destIndex + 1][dest + 1]
             c == Put(Put(b, srcIndex, src, <<d>>), destIndex, dest, <<s>>)
             up == src + 1 = b.size
             down == dest = 0
         IN  IF (up /\ ~HasBlock(b, srcIndex + 1)) \/ (down /\ ~HasBlock(b, destIndex - 1)) THEN Fails(c)
             ELSE SwapEnds(c, IF up THEN srcIndex + 1 ELSE srcIndex, IF up THEN 0 ELSE src + 1,
                           IF down THEN destIndex - 1 ELSE destIndex, IF down THEN b.size - 1 ELSE dest - 1,
                           limit - 1)
ReverseBytes(b, srcPos, destPos) ==
    IF srcPos > destPos \/ destPos > GetPosition(b) THEN Fails(b)
    ELSE SwapEnds(b, srcPos \div b.size, srcPos % b.size, destPos \div b.size, destPos % b.size,
                  (destPos - srcPos + 1) \div 2)

(* SkipBytes. The new block never becomes the current one. *)
RECURSIVE SkipBytes(_, _)
SkipBytes(b, n) ==
    LET chunk == b.size - b.next
    IN  IF n <= chunk THEN [b EXCEPT !.next = @ + n]
        ELSE SkipBytes([b EXCEPT !.blocks = Append(@, Zeros(b.size)), !.next = 0], n - chunk)

Truncate(b, len) ==
    LET last == EndBlock(b, len)
    IN  [b EXCEPT !.next = EndOffset(b, len),
                  !.blocks = SubSeq(@, 1, last + 1),
                  !.current = IF len = 0 THEN 0 ELSE last + 1]

FinishStore(b) ==
    IF b.current = 0 THEN b
    ELSE [b EXCEPT !.blocks[Len(b.blocks)] = SubSeq(b.blocks[b.current], 1, b.next), !.current = 0]

(* WriteToDataOutput, and OnHeapStore.Init of what was written: one array, or *)
(* blocks of at most the given size.                                          *)
Saved(b) == FlattenSeq(b.blocks)
LoadBlockSize(n, max) ==
    LET sizes == {2 ^ k : k \in 1 .. n} IN CHOOSE s \in sizes :
        (s >= n \/ s >= max) /\ \A t \in sizes : t < s => t < n /\ t < max
LoadedBlocks(bytes, size) ==
    [k \in 1 .. (Len(bytes) + size - 1) \div size |->
        SubSeq(bytes, (k - 1) * size + 1, IF k * size < Len(bytes) THEN k * size ELSE Len(bytes))]
Load(b, max) ==
    LET bytes == Saved(b)
        size == IF Len(bytes) > max THEN LoadBlockSize(Len(bytes), max) ELSE Len(bytes)
        blocks == LoadedBlocks(bytes, size)
    IN  [b EXCEPT !.size = size, !.blocks = blocks, !.next = Len(Last(blocks)), !.current = 0]

--------------------------------------------------------------------------------
(* Reading backwards. A reader has a current block and its place, nextBuffer   *)
(* and nextRead; `out` is what the last read returned.                 *)
NewReader == [cur |-> 0, nextBuffer |-> -1, nextRead |-> 0, out |-> <<>>]

(* A mutant: the next block backwards is the one the reader is leaving. *)
ReadByteSameBlock(b, r) ==
    LET c == IF r.nextRead >= 0 THEN r
             ELSE [r EXCEPT !.cur = r.nextBuffer + 1, !.nextBuffer = @ + 1, !.nextRead = b.size - 1]
    IN  [c EXCEPT !.out = Append(@, b.blocks[c.cur + 1][c.nextRead + 1]), !.nextRead = @ - 1]

(* builderBytesReader.ReadByte. The number of the next block is counted up. *)
ReadByte(b, r) ==
    LET c == IF r.nextRead >= 0 THEN r
             ELSE [r EXCEPT !.cur = r.nextBuffer, !.nextBuffer = @ + 1, !.nextRead = b.size - 1]
    IN  [c EXCEPT !.out = Append(@, b.blocks[c.cur + 1][c.nextRead + 1]), !.nextRead = @ - 1]

RECURSIVE ReadSome(_, _, _)
ReadSome(b, r, n) == IF n = 0 THEN r ELSE ReadSome(b, ReadByte(b, r), n - 1)
ReadBytes(b, r, n) == ReadSome(b, [r EXCEPT !.out = <<>>], n)

(* SetPosition, SkipBytes and GetPosition of the reader. The current block is *)
(* looked up only when the number of the next one says that it is another.    *)
SetPosition(b, r, pos) ==
    LET index == pos \div b.size
    IN  [(IF r.nextBuffer = index - 1 THEN r ELSE [r EXCEPT !.cur = index, !.nextBuffer = index - 1])
            EXCEPT !.nextRead = pos % b.size]
ReaderPosition(b, r) == (r.nextBuffer + 1) * b.size + r.nextRead
SkipBack(b, r, n) == SetPosition(b, r, ReaderPosition(b, r) - n)

(* ReverseBytesReader, of a store of one block. *)
ReadArray(b, pos, n) == [i \in 1 .. n |-> b.blocks[1][pos - i + 2]]

--------------------------------------------------------------------------------
StoreInit == \E size \in BlockSizes : bst = EmptyStore(size)

(* A store that was led astray by a skip is not followed further. *)
Open == bst.pc = "open" /\ ~bst.strayed
Written == Len(bst.content)
Chunks == UNION {[1 .. n -> Bytes] : n \in 1 .. MaxWrite}
Replaced(content, from, bytes) ==
    [i \in DOMAIN content |-> IF i \in from + 1 .. from + Len(bytes) THEN bytes[i - from] ELSE content[i]]

DoWriteByte ==
    /\ Open /\ Written < MaxContent
    /\ \E byte \in Bytes : bst' = [WriteByte(bst, byte) EXCEPT !.content = Append(@, byte)]

DoWrite ==
    /\ Open
    /\ \E bytes \in Chunks :
           /\ Written + Len(bytes) <= MaxContent
           /\ bst' = [Write(bst, bytes) EXCEPT !.content = @ \o bytes]

DoWriteAt ==
    /\ Open
    /\ \E bytes \in Chunks, dest \in 0 .. Written - 1 :
           /\ dest + Len(bytes) <= Written
           /\ bst' = [WriteBytesAt(bst, dest, bytes) EXCEPT !.content = Replaced(@, dest, bytes)]

DoMoveBytes ==
    /\ Open
    /\ \E src, dest \in 0 .. Written - 1, n \in 1 .. Written :
           /\ dest + n <= Written /\ src + n <= Written
           /\ bst' = [MoveBytes(bst, src, dest, n) EXCEPT
                        !.content = Replaced(@, dest, SubSeq(@, src + 1, src + n))]

DoWriteInt32 ==
    /\ Open
    /\ \E pos \in 0 .. Written - 1, bytes \in [1 .. IntSize -> Bytes] :
           /\ pos + IntSize <= Written
           /\ bst' = [WriteInt32(bst, pos, bytes) EXCEPT !.content = Replaced(@, pos, bytes)]

DoReverse ==
    /\ Open
    /\ \E src, dest \in 0 .. Written - 1 :
           bst' = [ReverseBytes(bst, src, dest) EXCEPT
                     !.content = IF src > dest THEN @
                                 ELSE Replaced(@, src, Reverse(SubSeq(@, src + 1, dest + 1)))]

(* A skip over the end of a block, or before there is one, leads astray. *)
DoSkipBytes ==
    /\ Open
    /\ \E n \in 1 .. MaxWrite :
           /\ Written + n <= MaxContent
           /\ bst' = [SkipBytes(bst, n) EXCEPT
                        !.content = @ \o [i \in 1 .. n |-> Unspecified],
                        !.strayed = @ \/ bst.current = 0 \/ bst.next + n > bst.size]

DoTruncate ==
    /\ Open
    /\ \E len \in 0 .. Written : bst' = [Truncate(bst, len) EXCEPT !.content = SubSeq(@, 1, len)]

DoFinish == Open /\ bst' = [FinishStore(bst) EXCEPT !.pc = "finished"]

(* Save and load. *)
DoReload ==
    /\ bst.pc = "finished" /\ bst.content # <<>>
    /\ \E max \in BlockSizes : bst' = [Load(bst, max) EXCEPT !.pc = "loaded"]

StoreNext ==
    \/ DoWriteByte \/ DoWrite \/ DoWriteAt \/ DoMoveBytes \/ DoWriteInt32 \/ DoReverse
    \/ DoSkipBytes \/ DoTruncate \/ DoFinish \/ DoReload

--------------------------------------------------------------------------------
Holds == bst.pc \in {"open", "finished", "loaded"} /\ ~bst.strayed
Fits(found, wanted) == Len(found) >= Len(wanted) /\ \A i \in DOMAIN wanted : wanted[i] \in {Unspecified, found[i]}

(* The store holds what was written, moved, reversed, truncated and loaded,     *)
(* however the blocks divide it, and its position is the number of bytes. It    *)
(* gives up only where WriteByte finds the block full, or where a call failed.  *)
StoreKeepsContent ==
    /\ Holds => /\ Fits(FlattenSeq(bst.blocks), bst.content)
                /\ bst.content # <<>> => GetPosition(bst) = Written
    /\ bst.pc = "panic" => bst.next = bst.size

(* The n bytes from a position backwards; and whether they are in more than one *)
(* block, or in more than two.                                                  *)
Behind(pos, n) == Reverse(SubSeq(bst.content, pos - n + 2, pos + 1))
Crosses(pos, n) == n > 0 /\ (pos - n + 1) \div bst.size < pos \div bst.size
CrossesTwice(pos, n) == n > 0 /\ (pos - n + 1) \div bst.size < pos \div bst.size - 1

(* Two reads with one reader, as NodeHash and the enumerations use it: n bytes  *)
(* back from pos, then after a move m bytes back from another position.         *)
InBlocks == Holds /\ ~(bst.pc = "loaded" /\ Len(bst.blocks) = 1)
FirstRead(pos, n) == ReadBytes(bst, SetPosition(bst, NewReader, pos), n)
SecondRead(first, to, m) == ReadBytes(bst, SetPosition(bst, first, to), m)
SkippedRead(first, by, m) == ReadBytes(bst, SkipBack(bst, first, by), m)

(* The one position a reader cannot be set to: after it went over the end of a  *)
(* block, nextBuffer is the number of the block it came from.                   *)
Stale(pos, n, to) == Crosses(pos, n) /\ to \div bst.size = pos \div bst.size + 1

(* A reader gives the bytes before a position backwards, over one end of a      *)
(* block at most, and can be used again: from any other position but a stale    *)
(* one, and with a skip of any length when it has not crossed the end of a      *)
(* block before.                                                                *)
ReadsBackwards ==
    /\ Holds /\ Len(bst.blocks) = 1 =>
           \A pos \in 0 .. Written - 1, n \in 1 .. Written :
               n <= pos + 1 => Fits(ReadArray(bst, pos, n), Behind(pos, n))
    /\ InBlocks =>
           \A pos \in 0 .. Written - 1 : \A n \in 0 .. pos + 1 : ~CrossesTwice(pos, n) =>
               LET first == FirstRead(pos, n)
               IN  /\ Fits(first.out, Behind(pos, n))
                   /\ \A to \in 0 .. Written - 1 : \A m \in 1 .. to + 1 : ~CrossesTwice(to, m) =>
                          /\ ~Stale(pos, n, to) => Fits(SecondRead(first, to, m).out, Behind(to, m))
                          /\ ~Crosses(pos, n) => Fits(SkippedRead(first, pos - n - to, m).out, Behind(to, m))

(* The bytes of an FST are read back, forwards and backwards. *)
StoreReadsBack == StoreKeepsContent /\ ReadsBackwards

(* bytesreader.go, BytesReader.SetPosition, "Set current read position": a      *)
(* reader that went over the end of a block can be set to any position.         *)
ReusedReaderReadsBack ==
    InBlocks =>
        \A pos, to \in 0 .. Written - 1 : \A n \in 0 .. pos + 1 :
            ~CrossesTwice(pos, n) => Fits(SecondRead(FirstRead(pos, n), to, 1).out, Behind(to, 1))

(* bytesreader.go, BytesReader.GetPosition, "Get current read position".        *)
ReaderKnowsItsPlace ==
    InBlocks =>
        \A pos \in 0 .. Written - 1 : \A n \in 0 .. pos + 1 :
            ~CrossesTwice(pos, n) => ReaderPosition(bst, FirstRead(pos, n)) = pos - n

(* A byte can be written wherever the block ends. *)
WriteByteGoesOn == bst.pc # "panic"
================================================================================
