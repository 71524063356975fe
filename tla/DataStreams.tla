----------------------------- MODULE DataStreams -----------------------------
(* core/store: values are encoded into a file through OutputStream and read    *)
(* back through inputs, their clones and their slices, which share the file    *)
(* and have a position each. An input may compute a checksum as it goes.       *)
(*                                                                             *)
(* A byte has ByteBits bits and a word eight bytes, so that a varint has       *)
(* ByteBits - 1 bits of the value in a byte. A string is its bytes and the     *)
(* number of its runes. A checksum is the sequence of the bytes it was         *)
(* computed of.                                                                *)
EXTENDS Integers, Sequences, FiniteSets, SequencesExt

CONSTANTS
    ByteBits,
    Items,              \* the values that are written, [type, value]
    MaxItems, MaxBytes, \* bounds: values and bytes of a file
    MaxTorn,            \* bound: values of a file that a crash cuts off
    BuffSize,           \* 48: the buffer of a DataInput
    SkipSize,           \* 1024: SKIP_BUFFER_SIZE
    OutSize,            \* 4096: the buffer of bufio.Writer
    MAGIC, CODEC, MinVersion, MaxVersion    \* what CheckHeader expects

VARIABLE ds

BASE == 2 ^ ByteBits
HALF == BASE \div 2
Word == BASE ^ 8
MaxVarintLen == ((8 * ByteBits) + ByteBits - 2) \div (ByteBits - 1)
Least(a, b) == IF a < b THEN a ELSE b

--------------------------------------------------------------------------------
(* Writing. *)

(* Big endian. *)
Fixed(n, v) == [i \in 1 .. n |-> (v \div BASE ^ (n - i)) % BASE]
RECURSIVE Uvarint(_)
Uvarint(v) == IF v < HALF THEN <<v>> ELSE <<HALF + (v % HALF)>> \o Uvarint(v \div HALF)

(* A mutant: zigzag.Encode does not tell minus one from one. *)
ZigZagPlain(v) == IF v >= 0 THEN 2 * v ELSE (0 - 2 * v) % Word

(* zigzag.Encode and Decode. *)
ZigZag(v) == IF v >= 0 THEN 2 * v ELSE (0 - 2 * v) - 1
UnZigZag(u) == IF u % 2 = 0 THEN u \div 2 ELSE 0 - (u \div 2) - 1

(* WriteString: the number of runes, and the bytes. *)
StringBytes(s) == Uvarint(s.runes) \o s.bytes
PairBytes(p) == StringBytes(p[1]) \o StringBytes(p[2])
HeaderBytes(h) == Fixed(4, MAGIC) \o StringBytes(h.codec) \o Fixed(4, h.version)
(* A Go map is ranged over in any order. *)
Orders(set) == {o \in [1 .. Cardinality(set) -> set] : ToSet(o) = set}

(* What may be written of a value; sets and maps in any order. *)
Encodings(item) ==
    LET v == item.value
    IN  CASE item.type = "byte" -> {<<v>>}
          [] item.type = "uint16" -> {Fixed(2, v)}
          [] item.type = "uint32" -> {Fixed(4, v)}
          [] item.type = "uint64" -> {Fixed(8, v)}
          [] item.type = "uvarint" -> {Uvarint(v)}
          [] item.type = "zint64" -> {Uvarint(ZigZag(v))}
          [] item.type = "string" -> {StringBytes(v)}
          [] item.type = "set" ->
               {Uvarint(Len(o)) \o FlattenSeq([i \in DOMAIN o |-> StringBytes(o[i])]) : o \in Orders(v)}
          [] item.type = "map" ->
               {Uvarint(Len(o)) \o FlattenSeq([i \in DOMAIN o |-> PairBytes(o[i])]) : o \in Orders(v)}
          [] item.type = "header" -> {HeaderBytes(v)}

(* bufio.Writer.Write *)
RECURSIVE Buffered(_, _, _)
Buffered(file, buf, bytes) ==
    LET room == OutSize - Len(buf)
    IN  IF Len(bytes) <= room THEN [file |-> file, buf |-> buf \o bytes]
        ELSE IF buf = <<>> THEN [file |-> file \o bytes, buf |-> <<>>]
        ELSE Buffered(file \o buf \o SubSeq(bytes, 1, room), <<>>, SubSeq(bytes, room + 1, Len(bytes)))

--------------------------------------------------------------------------------
(* Reading. An input r has its place in the file, its bounds there, the buffer *)
(* of the DataInput, and what its last call came to.                           *)
Ok(r) == r.outcome = "ok"
Fail(r, how) == [r EXCEPT !.outcome = how]

(* What an input does not know: its end (of bytes), that it is there before it *)
(* has read too much (of a map), that nothing is wanted (of a file).           *)
AtEnd(r, n) ==
    CASE r.kind \in {"file", "checksum"} -> r.pos >= r.end
      [] r.kind = "mmap" -> r.drained
      [] r.kind = "buffer" -> r.pos = r.end /\ n > 0
      [] r.kind = "bytes" -> FALSE

(* The checksum of an input that was sought is not followed any further. *)
Digested(r, got) == IF r.kind = "checksum" /\ ~r.sought THEN r.digest \o got ELSE r.digest

(* Read: as many bytes as there are. *)
Take(r, n) ==
    LET got == SubSeq(r.bytes, r.pos + 1, Least(r.pos + n, r.end))
    IN  IF AtEnd(r, n) THEN Fail(r, "eof")
        ELSE IF r.pos \notin r.off .. r.end THEN Fail(r, "panic")
        ELSE [r EXCEPT !.pos = @ + Len(got), !.got = got, !.drained = r.kind = "mmap" /\ Len(got) < n,
                       !.digest = Digested(r, got)]

(* What goes on from a call that came to something; an error ends the caller too. *)
After(t, Then(_)) == IF Ok(t) THEN Then(t) ELSE t

(* Into the buffer of the input, whose other bytes stay as they were. *)
TakeBuff(r, n) ==
    After(Take(r, n), LAMBDA t :
        [t EXCEPT !.buff = [i \in DOMAIN @ |-> IF i <= Len(t.got) THEN t.got[i] ELSE @[i]]])

ReadFixed(r, n) ==
    After(TakeBuff(r, n), LAMBDA t :
        [t EXCEPT !.value = FoldLeft(LAMBDA v, b : v * BASE + b, 0, SubSeq(t.buff, 1, n))])

(* binary.ReadUvarint, from byte i of the number on. *)
Digit(b, i) == (b % HALF) * HALF ^ i
RECURSIVE ReadVarint(_, _, _)
ReadVarint(r, i, value) ==
    IF i = MaxVarintLen THEN Fail(r, "overflow")
    ELSE After(ReadFixed(r, 1), LAMBDA t :
        IF t.value >= HALF THEN ReadVarint(t, i + 1, value + Digit(t.value, i))
        ELSE IF value + Digit(t.value, i) >= Word THEN Fail(t, "overflow")
        ELSE [t EXCEPT !.value = value + Digit(@, i)])
ReadUvarint(r) == ReadVarint(r, 0, 0)

ReadZInt64(r) == After(ReadUvarint(r), LAMBDA t : [t EXCEPT !.value = UnZigZag(@)])

(* ReadString: a string that does not fit into the buffer is read elsewhere, and *)
(* returned from the buffer all the same.                                        *)
ReadString(r) ==
    After(ReadUvarint(r), LAMBDA u :
        After(IF u.value < BuffSize THEN TakeBuff(u, u.value) ELSE Take(u, u.value), LAMBDA t :
            IF u.value > BuffSize THEN Fail(t, "panic")
            ELSE [t EXCEPT !.value = SubSeq(t.buff, 1, u.value)]))

RECURSIVE ReadStrings(_, _, _)
ReadStrings(r, n, strings) ==
    IF n = 0 THEN [r EXCEPT !.value = strings]
    ELSE After(ReadString(r), LAMBDA t : ReadStrings(t, n - 1, Append(strings, t.value)))
ReadSetOfStrings(r) ==
    After(ReadUvarint(r), LAMBDA u :
        After(ReadStrings(u, u.value, <<>>), LAMBDA t : [t EXCEPT !.value = ToSet(@)]))
ReadMapOfStrings(r) ==
    After(ReadUvarint(r), LAMBDA u :
        After(ReadStrings(u, 2 * u.value, <<>>), LAMBDA t :
            [t EXCEPT !.value = {<<@[2 * i - 1], @[2 * i]>> : i \in 1 .. Len(@) \div 2}]))

(* CheckHeader: the version, when it is in the range. *)
CheckHeader(r) ==
    After(ReadFixed(r, 4), LAMBDA m :
        IF m.value # MAGIC THEN Fail(m, "mismatch")
        ELSE After(ReadString(m), LAMBDA c :
            IF c.value # CODEC.bytes THEN Fail(c, "mismatch")
            ELSE After(ReadFixed(c, 4), LAMBDA v :
                IF v.value \in MinVersion .. MaxVersion THEN v ELSE Fail(v, "version"))))

ReadItem(r, type) ==
    CASE type = "byte" -> ReadFixed(r, 1)
      [] type = "uint16" -> ReadFixed(r, 2)
      [] type = "uint32" -> ReadFixed(r, 4)
      [] type = "uint64" -> ReadFixed(r, 8)
      [] type = "uvarint" -> ReadUvarint(r)
      [] type = "zint64" -> ReadZInt64(r)
      [] type = "string" -> ReadString(r)
      [] type = "set" -> ReadSetOfStrings(r)
      [] type = "map" -> ReadMapOfStrings(r)
      [] type = "header" -> CheckHeader(r)

(* SkipBytes, a buffer at a time. *)
RECURSIVE SkipOver(_, _)
SkipOver(r, n) ==
    LET step == Least(SkipSize, n)
        t == Take(r, step)
    IN  IF n = 0 \/ ~Ok(r) THEN r ELSE SkipOver(t, n - step)

(* A checksum input seeks from the start whatever it is told, and one of bytes *)
(* counts from one before its end and does not look at its bounds.             *)
Whence(r, whence) == IF r.kind = "checksum" THEN "start" ELSE whence
EndOf(r) == IF r.kind = "bytes" THEN r.end - 1 ELSE r.end
Seek(r, pos, whence) ==
    LET from == Whence(r, whence)
        next == CASE from = "start" -> r.off + pos
                  [] from = "current" -> r.pos + pos
                  [] from = "end" -> EndOf(r) - pos
    IN  IF r.kind # "bytes" /\ next \notin r.off .. r.end THEN Fail(r, "range")
        ELSE [r EXCEPT !.pos = next, !.sought = r.kind = "checksum", !.digest = <<>>]

(* A mutant: the clone of a checksum input begins a new checksum. *)
CloneFresh(r) == [r EXCEPT !.clone = TRUE, !.buff = [i \in DOMAIN @ |-> 0], !.digest = <<>>]

Clone(r) == [r EXCEPT !.clone = TRUE, !.buff = [i \in DOMAIN @ |-> 0]]
Slice(r, offset, length) ==
    [Clone(r) EXCEPT !.off = r.off + offset, !.pos = r.off + offset, !.end = r.off + offset + length]

--------------------------------------------------------------------------------
NoInput == [kind |-> "none"]
NewInput(kind, bytes) ==
    [kind |-> kind, bytes |-> bytes, off |-> 0, pos |-> 0, end |-> Len(bytes), clone |-> FALSE,
     buff |-> [i \in 1 .. BuffSize |-> 0], digest |-> <<>>, sought |-> FALSE, drained |-> FALSE,
     got |-> <<>>, value |-> 0, outcome |-> "ok"]
StreamsInit ==
    ds = [pc |-> "writing", items |-> <<>>, starts |-> <<0>>, file |-> <<>>, buf |-> <<>>, crc |-> <<>>,
          in |-> <<NoInput, NoInput>>, handle |-> FALSE]

WriteItem ==
    /\ ds.pc = "writing" /\ Len(ds.items) < MaxItems
    /\ \E item \in Items : \E bytes \in Encodings(item) :
           LET w == Buffered(ds.file, ds.buf, bytes)
           IN  /\ Last(ds.starts) + Len(bytes) <= MaxBytes
               /\ ds' = [ds EXCEPT !.items = Append(@, item), !.starts = Append(@, Last(@) + Len(bytes)),
                                   !.file = w.file, !.buf = w.buf, !.crc = @ \o bytes]

(* OutputStream.GetChecksum flushes. *)
GetChecksum ==
    /\ ds.pc = "writing" /\ ds.buf # <<>>
    /\ ds' = [ds EXCEPT !.file = @ \o ds.buf, !.buf = <<>>]

CloseOutput ==
    /\ ds.pc = "writing" /\ ds.items # <<>>
    /\ ds' = [ds EXCEPT !.pc = "closed", !.file = @ \o ds.buf, !.buf = <<>>]

(* Directory.Sync does nothing: a crash may leave only the beginning of a file. *)
Crash ==
    /\ ds.pc = "closed" /\ ds.in[1] = NoInput /\ Len(ds.items) <= MaxTorn
    /\ \E n \in 1 .. Len(ds.file) - 1 : ds' = [ds EXCEPT !.file = SubSeq(@, 1, n)]

InMemory == {"bytes", "buffer"}
(* Only a file can be torn. *)
OpenInput ==
    /\ ds.pc = "closed" /\ ds.in[1] = NoInput
    /\ \E kind \in {"file", "checksum", "mmap"} \cup InMemory :
        /\ kind \in InMemory => Len(ds.file) = Last(ds.starts)
        /\ ds' = [ds EXCEPT !.handle = TRUE, !.in[1] = NewInput(kind, ds.file)]

Live(k) ==
    /\ ds.pc = "closed" /\ ds.in[k] # NoInput /\ Ok(ds.in[k])
    /\ ds.handle \/ ds.in[k].kind \in InMemory
Boundaries == ToSet(ds.starts)

CloneInput ==
    /\ Live(1) /\ ds.in[2] = NoInput
    /\ ds' = [ds EXCEPT !.in[2] = Clone(ds.in[1])]

(* Slices of the file, of whole values; only these inputs have them. *)
SliceInput ==
    /\ Live(1) /\ ds.in[2] = NoInput /\ ds.in[1].kind \in {"file", "bytes"}
    /\ \E a, b \in Boundaries :
           /\ a < b /\ b <= Len(ds.file)
           /\ ds' = [ds EXCEPT !.in[2] = Slice(ds.in[1], a, b - a)]

(* An input that is at the beginning of a value reads it, or skips it. *)
At(k, i) == Live(k) /\ ds.in[k].pos = ds.starts[i]
Read(k, i) == ReadItem(ds.in[k], ds.items[i].type)
(* What a call leaves: nothing is kept of an input that failed. *)
Left(r) == [r EXCEPT !.value = 0, !.got = <<>>, !.buff = IF Ok(r) THEN @ ELSE <<>>,
                     !.digest = IF Ok(r) THEN @ ELSE <<>>, !.sought = @ \/ ~Ok(r)]
ReadNext ==
    \E k \in {1, 2} : \E i \in DOMAIN ds.items :
        /\ At(k, i)
        /\ ds' = [ds EXCEPT !.in[k] = Left(Read(k, i))]
SkipNext ==
    \E k \in {1, 2} : \E i \in DOMAIN ds.items :
        /\ At(k, i)
        /\ ds' = [ds EXCEPT !.in[k] = Left(SkipOver(@, ds.starts[i + 1] - ds.starts[i]))]

SeekTo ==
    \E k \in {1, 2}, whence \in {"start", "current", "end"} : \E place \in Boundaries :
        LET r == ds.in[k]
            arg == CASE whence = "start" -> place - r.off
                     [] whence = "current" -> place - r.pos
                     [] whence = "end" -> r.end - place
        IN  /\ Live(k) /\ r.kind \notin {"mmap", "buffer"}
            /\ ds' = [ds EXCEPT !.in[k] = Left(Seek(r, arg, whence))]

(* Close of a clone or a slice leaves the file open, but not that of a map; when *)
(* the file is closed no input of it can be used any more.                       *)
CloseInput ==
    \E k \in {1, 2} :
        /\ Live(k)
        /\ ds' = [ds EXCEPT !.in[k] = Left(Fail(@, "closed")),
                            !.handle = ds.in[k].clone /\ ds.in[k].kind # "mmap" /\ @]

StreamsNext ==
    /\ ds.pc # "off"
    /\ \/ WriteItem \/ GetChecksum \/ CloseOutput \/ Crash \/ OpenInput \/ CloneInput \/ SliceInput
       \/ ReadNext \/ SkipNext \/ SeekTo \/ CloseInput

--------------------------------------------------------------------------------
(* A string that is shorter than the buffer and has a byte for every rune. *)
PlainString(s) == s.runes = Len(s.bytes) /\ s.runes < BuffSize
(* The strings of a value, in no order. *)
StringsOf(item) ==
    CASE item.type = "string" -> {item.value}
      [] item.type = "set" -> item.value
      [] item.type = "map" -> UNION {{p[1], p[2]} : p \in item.value}
      [] item.type = "header" -> {item.value.codec}
      [] item.type \notin {"string", "set", "map", "header"} -> {}
PlainItem(i, end) ==
    /\ \A s \in StringsOf(ds.items[i]) : PlainString(s)
    /\ ds.starts[i + 1] = end => \A s \in StringsOf(ds.items[i]) : s.runes > 0

Wanted(item) ==
    CASE item.type = "string" -> item.value.bytes
      [] item.type = "set" -> {s.bytes : s \in item.value}
      [] item.type = "map" -> {<<p[1].bytes, p[2].bytes>> : p \in item.value}
      [] item.type = "header" -> item.value.version
      [] item.type \notin {"string", "set", "map", "header"} -> item.value
(* The input has all of the value. *)
Whole(k, i) == ds.in[k].off <= ds.starts[i] /\ ds.starts[i + 1] <= ds.in[k].end
Acceptable(item) ==
    item.type = "header" => item.value.codec = CODEC /\ item.value.version \in MinVersion .. MaxVersion

(* A value is read as it was written, by whichever input, clone or slice, after  *)
(* whatever was read, skipped and sought through it and the others, and the      *)
(* input then is behind it; a header of another codec or version is refused.     *)
(* This is so of every value before the place where a crash cut the file off,    *)
(* with strings that fit into the buffer, of one byte to a rune, and not empty   *)
(* at the very end.                                                              *)
ValuesReadBack ==
    ds.pc = "closed" =>
        \A k \in {1, 2} : \A i \in DOMAIN ds.items :
            At(k, i) /\ Whole(k, i) /\ PlainItem(i, ds.in[k].end) =>
                LET r == Read(k, i)
                IN  /\ Ok(r) = Acceptable(ds.items[i])
                    /\ Ok(r) => r.value = Wanted(ds.items[i]) /\ r.pos = ds.starts[i + 1]

(* The checksum of an output is that of everything written to it, flushed or     *)
(* not, and that of an input, as long as it was not sought, of everything before *)
(* its place; a clone goes on with a checksum of its own.                        *)
ChecksumsCover ==
    ds.pc # "off" =>
        /\ ds.pc = "writing" => ds.crc = ds.file \o ds.buf
        /\ \A k \in {1, 2} : ds.in[k].kind = "checksum" /\ ~ds.in[k].sought =>
               ds.in[k].digest = SubSeq(ds.file, 1, ds.in[k].pos)

(* Every string is read back; long ones, ones with runes of several bytes and an *)
(* empty one at the end of a file are not.                                       *)
EveryStringReadsBack ==
    ds.pc = "closed" =>
        \A k \in {1, 2} : \A i \in DOMAIN ds.items :
            At(k, i) /\ Whole(k, i) /\ Acceptable(ds.items[i]) =>
                Ok(Read(k, i)) /\ Read(k, i).value = Wanted(ds.items[i])

(* No value is read from a file that has only a part of it. *)
TornReadsFail ==
    ds.pc = "closed" =>
        \A k \in {1, 2} : \A i \in DOMAIN ds.items : At(k, i) /\ ~Whole(k, i) => ~Ok(Read(k, i))

(* A file is read back as it was written, under the checksum of its bytes.    *)
StreamsReadBack == ValuesReadBack /\ ChecksumsCover
================================================================================
