--------------------------------- MODULE Pools ---------------------------------
(* core/util/bytesref/byteshash.go: the hash of the terms of a field. A text   *)
(* is stored in the pool with its length before it; bytesStart has the place   *)
(* of each id and ids the id of each slot. The hash of a text is what the      *)
(* hash function makes of it; the texts are ordered as their bytes are.        *)
EXTENDS Integers, Sequences, FiniteSets, SequencesExt, TLC

CONSTANTS
    Texts,              \* numbers, in the order of their bytes
    HashOf, LengthOf,   \* functions of the texts
    Offsets,            \* the pool offsets of AddByPoolOffset
    Capacity,           \* the initial size, a power of two
    InitStarts,         \* the initial length of bytesStart
    ByteBlockSize,      \* BYTE_BLOCK_SIZE
    MaxKept             \* bound: buffers that a pool keeps over a Clear

VARIABLE bh

NoId == -1
Slots(size) == [p \in 0 .. size - 1 |-> NoId]
(* The pool: how many buffers, where in the last one, and the text at an offset. *)
EmptyPool == [buffers |-> 0, upto |-> ByteBlockSize, text |-> <<>>]
ByteOffset(pool) == (pool.buffers - 1) * ByteBlockSize
NextBuffer(pool) == [pool EXCEPT !.buffers = @ + 1, !.upto = 0]

KeyAt(h, id) == IF h.onData THEN h.pool.text[h.starts[id + 1]] ELSE h.starts[id + 1]
Code(h, key) == IF h.onData THEN HashOf[key] ELSE key

(* Linear probing: the first slot from the hash on with one of the ids. *)
RECURSIVE Probe(_, _, _, _)
Probe(ids, size, code, wanted) ==
    IF ids[code % size] \in wanted THEN code % size ELSE Probe(ids, size, code + 1, wanted)
(* findHash: the slot that has the key, or a free one. *)
FindSlot(h, key) ==
    Probe(h.ids, h.size, Code(h, key), {NoId} \cup {id \in 0 .. h.count - 1 : KeyAt(h, id) = key})
FindId(h, key) == h.ids[FindSlot(h, key)]

(* A mutant: an entry is put over the one that has its slot. *)
RehashOver(h) ==
    LET size == 2 * h.size
        Insert(new, id) == [new EXCEPT ![Code(h, KeyAt(h, id)) % size] = id]
        old == SelectSeq([p \in 1 .. h.size |-> h.ids[p - 1]], LAMBDA id : id # NoId)
    IN  [h EXCEPT !.ids = FoldLeft(Insert, Slots(size), old), !.size = size]

(* rehash: the ids again, slot by slot, into twice the slots. *)
Rehash(h) ==
    LET size == 2 * h.size
        Insert(new, id) == [new EXCEPT ![Probe(new, size, Code(h, KeyAt(h, id)), {NoId})] = id]
        old == SelectSeq([p \in 1 .. h.size |-> h.ids[p - 1]], LAMBDA id : id # NoId)
    IN  [h EXCEPT !.ids = FoldLeft(Insert, Slots(size), old), !.size = size]

(* The new id gets a place, its slot, and the hash room when it is half full. *)
NewId(h, slot, start) ==
    LET grown == IF h.count >= Len(h.starts) THEN Append(h.starts, 0) ELSE h.starts
        new == [h EXCEPT !.starts = [grown EXCEPT ![h.count + 1] = start],
                         !.ids[slot] = h.count, !.count = @ + 1]
    IN  IF new.count = new.size \div 2 THEN Rehash(new) ELSE new

(* Add; a text that is longer than a block is refused. *)
AddText(h, text) ==
    LET needs == 2 + LengthOf[text]
        full == needs + h.pool.upto > ByteBlockSize
        pool == IF full THEN NextBuffer(h.pool) ELSE h.pool
        start == pool.upto + ByteOffset(pool)
        stored == [pool EXCEPT !.upto = @ + LengthOf[text] + 1, !.text = (start :> text) @@ @]
    IN  IF FindId(h, text) # NoId THEN h
        ELSE IF full /\ needs > ByteBlockSize THEN h
        ELSE NewId([h EXCEPT !.pool = stored], FindSlot(h, text), start)

(* AddByPoolOffset *)
AddOffset(h, offset) ==
    IF FindId(h, offset) # NoId THEN h ELSE NewId(h, FindSlot(h, offset), offset)

(* Compact moves the ids to the front. *)
Compact(h) ==
    LET kept == SelectSeq([p \in 1 .. h.size |-> h.ids[p - 1]], LAMBDA id : id # NoId)
    IN  [h EXCEPT !.ids = [p \in DOMAIN h.ids |-> IF p < Len(kept) THEN kept[p + 1] ELSE NoId]]

(* A mutant: the places of the texts are compared. *)
SortIdsByPlace(h) ==
    LET c == Compact(h)
        sorted == SortSeq([p \in 1 .. h.count |-> c.ids[p - 1]], LAMBDA i, j : h.starts[i + 1] < h.starts[j + 1])
    IN  [c EXCEPT !.ids = [p \in DOMAIN @ |-> IF p < h.count THEN sorted[p + 1] ELSE @[p]]]

(* Sort *)
SortIds(h) ==
    LET c == Compact(h)
        sorted == SortSeq([p \in 1 .. h.count |-> c.ids[p - 1]],
                          LAMBDA i, j : h.pool.text[h.starts[i + 1]] < h.pool.text[h.starts[j + 1]])
    IN  [c EXCEPT !.ids = [p \in DOMAIN @ |-> IF p < h.count THEN sorted[p + 1] ELSE @[p]]]

(* shrink: halved while a quarter is more than there was. *)
RECURSIVE Shrunk(_, _)
Shrunk(size, target) == IF size >= 8 /\ size \div 4 > target THEN Shrunk(size \div 2, target) ELSE size

(* Clear *)
Clear(h, resetPool) ==
    LET size == Shrunk(h.size, h.count)
    IN  [h EXCEPT !.count = 0, !.starts = <<>>, !.pool = IF resetPool THEN EmptyPool ELSE @,
                  !.size = size, !.ids = Slots(size)]

--------------------------------------------------------------------------------
(* `order` is what was added, in order: the id of a key is its place. *)
HashInit ==
    \E onData \in BOOLEAN :
        bh = [pc |-> "filling", onData |-> onData, pool |-> EmptyPool, starts |-> [i \in 1 .. InitStarts |-> 0],
              size |-> Capacity, ids |-> Slots(Capacity), count |-> 0, order |-> <<>>]

AddKey ==
    /\ bh.pc = "filling"
    /\ \E key \in IF bh.onData THEN Texts ELSE Offsets :
           LET h == IF bh.onData THEN AddText(bh, key) ELSE AddOffset(bh, key)
           IN  bh' = [h EXCEPT !.order = IF h.count > bh.count THEN Append(@, key) ELSE @]

SortHash ==
    /\ bh.pc = "filling" /\ bh.onData
    /\ bh' = [SortIds(bh) EXCEPT !.pc = "sorted"]

ClearHash ==
    /\ bh.pc \in {"filling", "sorted"}
    /\ \E resetPool \in BOOLEAN :
           /\ resetPool \/ bh.pool.buffers <= MaxKept
           /\ bh' = [Clear(bh, resetPool) EXCEPT !.pc = "filling", !.order = <<>>]

HashNext == AddKey \/ SortHash \/ ClearHash

--------------------------------------------------------------------------------
(* An add finds a key that is there and only then: however often the hash was  *)
(* filled, grown, cleared and shrunk, every key has the id of its place, the   *)
(* bytes of an id are the ones that were added, and no other key is found.     *)
HashFindsKeys ==
    bh.pc = "filling" =>
        /\ bh.count = Len(bh.order)
        /\ \A i \in DOMAIN bh.order : FindId(bh, bh.order[i]) = i - 1 /\ KeyAt(bh, i - 1) = bh.order[i]
        /\ \A key \in IF bh.onData THEN Texts ELSE Offsets :
               key \notin ToSet(bh.order) => FindId(bh, key) = NoId

(* Sort gives every id once, in the order of the bytes. *)
HashSorts ==
    bh.pc = "sorted" =>
        LET ids == [p \in 1 .. bh.count |-> bh.ids[p - 1]]
        IN  /\ ToSet(ids) = 0 .. bh.count - 1
            /\ \A p, q \in 1 .. bh.count : p < q => bh.order[ids[p] + 1] < bh.order[ids[q] + 1]

--------------------------------------------------------------------------------
(* core/util/ints/blockpool.go: slices of ints that grow, interleaved in       *)
(* shared buffers. A slice ends with a mark that names its level; when a       *)
(* writer meets it, a longer slice is allocated and the mark becomes its       *)
(* address.                                                                    *)

CONSTANTS
    Slices,             \* the slices that are written side by side
    Values,             \* the ints that are written
    MaxInts,            \* bound: ints of one slice
    MaxResets,          \* bound: resets of the pool
    IntBlockSize        \* INT_BLOCK_SIZE

VARIABLE ip

NextLevel == <<1, 2, 3, 4, 5, 6, 7, 8, 9, 9>>
LevelSize == <<2, 4, 8, 16, 16, 32, 32, 64, 64, 128>>
Mark(level) == 16 + level

(* Where the head buffer begins among all ints. *)
IntOffset(p) == p.bufferUpto * IntBlockSize
Block == [i \in 1 .. IntBlockSize |-> 0]
NoSlice == [start |-> -1, offset |-> -1, content |-> <<>>]

(* NextIntBuffer: a block is appended; the head becomes whatever follows the old one. *)
NextIntBuffer(p) ==
    [p EXCEPT !.buffers = Append(@, Block), !.bufferUpto = @ + 1, !.intUpto = 0]

(* A write to a buffer, unless Reset has left none there. *)
SetInt(p, buffer, pos, value) ==
    IF pos \notin 0 .. Len(p.buffers[buffer + 1]) - 1 THEN [p EXCEPT !.pc = "panic"]
    ELSE [p EXCEPT !.buffers[buffer + 1][pos + 1] = value]

Room(p, size) == IF p.intUpto > IntBlockSize - size THEN NextIntBuffer(p) ELSE p

(* newSlice and allocSlice: the mark at the end of the new slice. *)
Allocate(p, level) ==
    LET q == Room(p, LevelSize[level + 1])
        upto == q.intUpto + LevelSize[level + 1]
    IN  [SetInt(q, q.bufferUpto, upto - 1, Mark(level)) EXCEPT !.intUpto = upto]
SliceStart(p, level) == LET q == Room(p, LevelSize[level + 1]) IN q.intUpto + IntOffset(q)

(* A mutant: the writer goes on behind the forwarding address, not in the new slice. *)
WriteIntBehind(p, offset, value) ==
    LET buffer == offset \div IntBlockSize
        pos == offset % IntBlockSize
        end == p.buffers[buffer + 1][pos + 1]
        level == NextLevel[(end % 16) + 1]
        new == SliceStart(p, level)
        q == SetInt(Allocate(p, level), buffer, pos, new)
        at == IF end = 0 THEN offset ELSE new
        pool == IF end = 0 THEN p ELSE q
    IN  [pool |-> IF pool.pc = "panic" THEN pool ELSE SetInt(pool, at \div IntBlockSize, at % IntBlockSize, value),
         offset |-> offset + 1]

(* SliceWriter.WriteInt *)
WriteInt(p, offset, value) ==
    LET buffer == offset \div IntBlockSize
        pos == offset % IntBlockSize
        end == p.buffers[buffer + 1][pos + 1]
        level == NextLevel[(end % 16) + 1]
        new == SliceStart(p, level)
        q == SetInt(Allocate(p, level), buffer, pos, new)
        at == IF end = 0 THEN offset ELSE new
        pool == IF end = 0 THEN p ELSE q
    IN  [pool |-> IF pool.pc = "panic" THEN pool ELSE SetInt(pool, at \div IntBlockSize, at % IntBlockSize, value),
         offset |-> at + 1]

(* SliceReader: the limit of the slice at a place, and the ints up to the end. *)
Limit(start, size, end) ==
    IF start + size >= end THEN end - (start \div IntBlockSize) * IntBlockSize ELSE (start % IntBlockSize) + size - 1
RECURSIVE ReadInts(_, _, _, _, _, _)
ReadInts(p, buffer, upto, limit, level, end) ==
    LET next == p.buffers[buffer + 1][limit + 1]
        up == NextLevel[level + 1]
    IN  IF upto + buffer * IntBlockSize = end THEN <<>>
        ELSE IF upto = limit
             THEN ReadInts(p, next \div IntBlockSize, next % IntBlockSize, Limit(next, LevelSize[up + 1], end), up, end)
             ELSE <<p.buffers[buffer + 1][upto + 1]>> \o ReadInts(p, buffer, upto + 1, limit, level, end)
ReadSlice(p, start, end) ==
    ReadInts(p, start \div IntBlockSize, start % IntBlockSize, Limit(start, LevelSize[1], end), 0, end)

(* Reset: the places of recycled buffers stay, without a buffer. *)
Reset(p, zeroFill, reuseFirst) ==
    LET filled == [i \in DOMAIN p.buffers |->
                     IF zeroFill THEN [k \in DOMAIN p.buffers[i] |-> 0] ELSE p.buffers[i]]
        first == IF reuseFirst THEN 1 ELSE 0
        left == IF p.bufferUpto > 0 \/ ~reuseFirst
                THEN [i \in DOMAIN filled |-> IF i > first THEN <<>> ELSE filled[i]] ELSE filled
    IN  IF p.bufferUpto = -1 THEN p
        ELSE [p EXCEPT !.buffers = left, !.bufferUpto = first - 1, !.intUpto = IF reuseFirst THEN 0 ELSE IntBlockSize]

--------------------------------------------------------------------------------
PoolInit ==
    ip = [pc |-> "open", buffers |-> <<>>, bufferUpto |-> -1, intUpto |-> IntBlockSize,
          slices |-> [s \in Slices |-> NoSlice], resets |-> 0]

(* SliceWriter.StartNewSlice *)
StartNewSlice ==
    /\ ip.pc = "open"
    /\ \E s \in Slices :
           LET at == SliceStart(ip, 0)
           IN  /\ ip.slices[s] = NoSlice
               /\ ip' = [Allocate(ip, 0) EXCEPT !.slices[s] = [start |-> at, offset |-> at, content |-> <<>>]]

(* A writer is set to a slice and writes to it. *)
WriteToSlice ==
    /\ ip.pc = "open"
    /\ \E s \in Slices, v \in Values :
           LET w == WriteInt(ip, ip.slices[s].offset, v)
           IN  /\ ip.slices[s] # NoSlice /\ Len(ip.slices[s].content) < MaxInts
               /\ ip' = [w.pool EXCEPT !.slices[s].offset = w.offset, !.slices[s].content = Append(@, v)]

(* Buffers that are used again for slices have to be filled with zeros. *)
ResetPool ==
    /\ ip.pc = "open" /\ ip.resets < MaxResets
    /\ \E zeroFill, reuseFirst \in BOOLEAN :
           /\ reuseFirst => zeroFill
           /\ ip' = [Reset(ip, zeroFill, reuseFirst) EXCEPT
                       !.slices = [s \in Slices |-> NoSlice], !.resets = @ + 1]

PoolNext == StartNewSlice \/ WriteToSlice \/ ResetPool

--------------------------------------------------------------------------------
(* A reader gives of every slice what was written to it, zeros too, whichever   *)
(* slices grew between and wherever the buffers end.                            *)
SlicesReadBack ==
    ip.pc = "open" =>
        \A s \in Slices : ip.slices[s].content # <<>> =>
            ReadSlice(ip, ip.slices[s].start, ip.slices[s].offset) = ip.slices[s].content

(* The pool can always be written to; a pool that was reset cannot once it needs *)
(* another buffer than the first.                                                *)
PoolStaysUsable == ip.pc # "panic"

(* What is kept in the pools is found again: keys of the hash, their order,   *)
(* and the ints of every slice.                                               *)
PoolsReadBack == HashFindsKeys /\ HashSorts /\ SlicesReadBack
================================================================================
