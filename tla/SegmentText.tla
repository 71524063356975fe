------------------------------ MODULE SegmentText ------------------------------
(* The stored fields of a segment in the text codec: the writer, a process    *)
(* that may die while it writes, and the reader that opens what is left.      *)
(*                                                                            *)
(* Source: codecs/simpletext/storedfieldswriter.go, storedfieldsreader.go.    *)
EXTENDS TextFile, FiniteSets, Functions

CONSTANTS
    StoredFields,      \* records [number, type, value] a caller may store
    MaxStoredDocs,     \* documents of the segment
    MaxStoredPerDoc    \* stored fields of a document

VARIABLE stored

StoredTypes == {"string", "binary", "int", "long", "float", "double"}
FieldNumbersUsed == {f.number : f \in StoredFields}

(* What a visitor may answer for a field. *)
Statuses == {"YES", "NO", "STOP"}

StoredInit ==
    stored = [pc |-> "writing", out |-> <<>>, docs |-> <<>>, numDocsWritten |-> 0,
              offsets |-> <<>>, asked |-> <<>>, answer |-> <<>>]

StartDocument ==
    /\ stored.pc = "writing" /\ stored.numDocsWritten < MaxStoredDocs
    /\ stored' = [stored EXCEPT !.out = @ \o WriteLabel("doc ", Num(stored.numDocsWritten)),
                                !.docs = Append(@, <<>>),
                                !.numDocsWritten = @ + 1]
(* A mutant: the value is written as it is. *)
FieldLinesRaw(f) ==
    WriteLabel("  field ", Num(f.number)) \o WriteLabel("    name ", <<Chr("n")>>)
      \o WriteLabel("    type ", <<Chr(f.type)>>) \o <<Label("    value ")>> \o f.value \o <<NEWLINE>>

FieldLines(f) ==
    WriteLabel("  field ", Num(f.number)) \o WriteLabel("    name ", <<Chr("n")>>)
      \o WriteLabel("    type ", <<Chr(f.type)>>) \o WriteLabel("    value ", f.value)

WriteField(f) ==
    /\ stored.pc = "writing" /\ stored.docs # <<>>
    /\ Len(Last(stored.docs)) < MaxStoredPerDoc
    /\ stored' = [stored EXCEPT !.out = @ \o FieldLines(f),
                                !.docs[stored.numDocsWritten] = Append(@, f)]

(* A segment with another number of documents is refused. *)
Finish(numDocs) ==
    /\ stored.pc = "writing"
    /\ stored' = IF stored.numDocsWritten # numDocs THEN [stored EXCEPT !.pc = "refused"]
                 ELSE [stored EXCEPT !.pc = "finished",
                                     !.out = WriteChecksum(@ \o <<Label("END"), NEWLINE>>)]

(* The process dies: a part of what was written is on disk. *)
DieWriting ==
    /\ stored.pc \in {"writing", "finished"}
    /\ \E n \in 0 .. Len(stored.out) - 1 :
          stored' = [stored EXCEPT !.pc = "torn", !.out = SubSeq(@, 1, n)]

(* The positions behind the lines that start a document; the footer must      *)
(* match.                                                                     *)
ReadIndex(in) ==
    LET from[p \in 1 .. Len(in) + 1] ==
            LET r == ReadLine(in, p)
                rest == from[r.next]
            IN  IF ~r.ok THEN Failed
                ELSE IF r.line = <<Label("END")>>
                     THEN IF CheckFooter(in, r.next) THEN [ok |-> TRUE, offsets |-> <<>>] ELSE Failed
                ELSE IF ~rest.ok THEN Failed
                ELSE IF HasPrefix(r.line, "doc ")
                     THEN [rest EXCEPT !.offsets = <<r.next>> \o @]
                ELSE rest
    IN  from[1]

NewStoredFieldsReader ==
    /\ stored.pc \in {"finished", "torn"}
    /\ LET r == ReadIndex(stored.out)
       IN  stored' = IF r.ok
                     THEN [stored EXCEPT !.pc = IF @ = "torn" THEN "open torn" ELSE "open",
                                         !.offsets = r.offsets]
                     ELSE [stored EXCEPT !.pc = "refused"]

ReadField(type, line) ==
    LET value == Tail(line)
    IN  IF type \in {"string", "binary"} \/ Parses("num", value)
        THEN [ok |-> TRUE, value |-> value] ELSE Failed

(* The fields a visitor that answers status[number] is given. *)
VisitDocument(in, offset, status) ==
    LET from[p \in 1 .. Len(in) + 1] ==
        LET r == ReadLine(in, p)
            head == ReadLabels(in, r.next, <<"    name ", "    type ">>)
            number == Parsed(Tail(r.line))
            type == head.values[2][1][2]
            v == ReadLine(in, head.next)
            read == ReadField(type, v.line)
            rest == from[v.next]
        IN  IF ~r.ok THEN Failed
            ELSE IF ~HasPrefix(r.line, "  field ") THEN [ok |-> TRUE, fields |-> <<>>]
            ELSE IF ~head.ok \/ type \notin StoredTypes THEN Failed
            ELSE IF status[number] = "STOP" THEN [ok |-> TRUE, fields |-> <<>>]
            ELSE IF ~v.ok THEN Failed
            ELSE IF status[number] = "NO"
                 THEN IF HasPrefix(v.line, "    value ") THEN rest ELSE Failed
            ELSE IF ~read.ok \/ ~rest.ok THEN Failed
            ELSE [rest EXCEPT !.fields =
                     <<[number |-> number, type |-> type, value |-> read.value]>> \o @]
    IN  from[offset]

Visit(doc, status) ==
    /\ stored.pc = "open" /\ stored.answer = <<>>
    /\ doc \in DOMAIN stored.offsets
    /\ stored' = [stored EXCEPT !.asked = <<doc, status>>,
                                !.answer = <<VisitDocument(stored.out, stored.offsets[doc], status)>>]

StoredNext ==
    \/ StartDocument
    \/ \E f \in StoredFields : WriteField(f)
    \/ \E n \in 0 .. MaxStoredDocs : Finish(n)
    \/ DieWriting
    \/ NewStoredFieldsReader
    \/ \E doc \in 1 .. MaxStoredDocs, status \in [FieldNumbersUsed -> Statuses] : Visit(doc, status)

(******************************* Properties ********************************)

(* The fields of d up to the first one the visitor stops at, without those it *)
(* declines.                                                                  *)
WantedFields(d, status) ==
    LET stops == {i \in DOMAIN d : status[d[i].number] = "STOP"}
        read == IF stops = {} THEN d
                ELSE SubSeq(d, 1, (CHOOSE i \in stops : \A j \in stops : i <= j) - 1)
    IN  SelectSeq(read, LAMBDA f : status[f.number] = "YES")

(* storedfieldsreader.go VisitDocument: whatever bytes the values hold        *)
(* (newlines, escapes, the codec's own labels) a visitor is given exactly the *)
(* fields stored for that document that it asks for, in order, with their     *)
(* types and values.                                                          *)
StoredReadBack ==
    stored.pc = "open" =>
        /\ Len(stored.offsets) = Len(stored.docs)
        /\ stored.answer # <<>> =>
               /\ stored.answer[1].ok
               /\ stored.answer[1].fields = WantedFields(stored.docs[stored.asked[1]], stored.asked[2])

(* storedfieldsreader.go readIndex: a file the writer did not get to finish   *)
(* is never opened, wherever the process died.                                *)
TornFieldsRefused == stored.pc # "open torn"

--------------------------------------------------------------------------------
(* A flushed segment is sealed in the text codec: its files go into a         *)
(* compound file when the policy asks for one, the .si file describes the     *)
(* segment, and a reader opens both again. The process may die in between.    *)
(*                                                                            *)
(* An offset of the code is an index of a token minus one. The set of files   *)
(* of a SegmentInfo is taken as allocated.                                    *)
(*                                                                            *)
(* Sources: codecs/simpletext/segmentinfoformat.go, compoundformat.go,        *)
(* core/index/segmentinfo.go, sortfield.go, sortfieldprovider.go,             *)
(* indexwriter.go, indexwriterutils.go.                                       *)

CONSTANTS
    SegmentFiles,     \* the names a flush may create, in the order of slices.Sort
    FileContents,     \* token sequences a file may hold
    SegmentInfos      \* records [minVersion, maxDoc, diagnostics, attributes, sort], a sort
                      \* being a sequence of [field, type, reverse, missing, canUsePoints]

VARIABLE seg

SiFile == "si"
CompoundFile == "scf"
Ordered(names) == SelectSeq(SegmentFiles, LAMBDA n : n \in names)
Maps == {"diagnostics", "attributes"}

-----------------------------------------------------------------------------
(* A missing value is nil, <<>>, or a Go type and the bits of the value.      *)
(* GetIndexSorter asserts the Go type it expects; nil has none.               *)
MissingType == [STRING |-> "string", INT |-> "int32", LONG |-> "int64",
                FLOAT |-> "float32", DOUBLE |-> "float64"]
GetIndexSorter(sf) ==
    IF sf.type \notin DOMAIN MissingType THEN "nil"
    ELSE IF sf.missing = <<>> \/ sf.missing[1] # MissingType[sf.type] THEN "panic"
    ELSE "sorter"

(* What becomes of the .si file at this sort field: Serialize knows no        *)
(* missing value of a STRING field.                                           *)
SortFieldOutcome(sf) ==
    CASE GetIndexSorter(sf) = "panic" -> "panicked"
      [] GetIndexSorter(sf) = "nil" \/ sf.type = "STRING" -> "failed"
      [] OTHER -> "sealed"
Serialize(sf) ==
    <<Chr(sf.field), Chr(sf.type)>> \o Num(IF sf.reverse THEN 1 ELSE 0)
      \o Num(1) \o Num(sf.missing[2])

SortTypes == {"SCORE", "DOC", "STRING", "INT", "FLOAT", "LONG", "DOUBLE", "CUSTOM", "STRING_VAL", "REWRITEABLE"}
(* A mutant: the missing value is dropped. *)
ReadSortFieldWithoutMissing(bytes) ==
    [ok |-> TRUE, sf |-> [field |-> bytes[1][2], type |-> bytes[2][2], reverse |-> bytes[3][2] = 1,
                          missing |-> <<>>, canUsePoints |-> FALSE]]

(* An INT and a LONG are read as unsigned integers, and set as such. *)
ReadMissingType == [MissingType EXCEPT !.INT = "uint32", !.LONG = "uint64"]
ReadSortField(bytes) ==
    LET type == bytes[2][2]
        isSet == bytes[4][2] = 1
    IN  IF type \notin SortTypes \/ (isSet /\ type \notin DOMAIN ReadMissingType) THEN Failed
        ELSE [ok |-> TRUE,
              sf |-> [field |-> bytes[1][2], type |-> type, reverse |-> bytes[3][2] = 1,
                      missing |-> IF isSet THEN <<ReadMissingType[type], bytes[5][2]>> ELSE <<>>,
                      canUsePoints |-> FALSE]]

(* isCongruentSort; Equals compares all there is, the Go type of the missing  *)
(* value included.                                                            *)
IsCongruentSort(sort, otherSort) ==
    Len(sort) <= Len(otherSort) /\ \A i \in DOMAIN sort : sort[i] = otherSort[i]

(* order walks a Go map. *)
MapLines(key, value, map, order) ==
    FlattenSeq([i \in DOMAIN order |-> WriteLabel(key, <<Chr(order[i])>>)
                                         \o WriteLabel(value, <<Chr(map[order[i]])>>)])
ReadMap(values) ==
    [k \in {values[2 * i - 1][1][2] : i \in 1 .. Len(values) \div 2} |->
        values[2 * (CHOOSE i \in 1 .. Len(values) \div 2 : values[2 * i - 1][1][2] = k)][1][2]]

SortLines(sort) ==
    FlattenSeq([i \in DOMAIN sort |-> WriteLabel("    name ", <<Chr("SortField")>>)
                                        \o WriteLabel("    type ", <<Chr("described")>>)
                                        \o WriteLabel("    bytes ", Serialize(sort[i]))])

(* SegmentInfoFormat.Write: the file adds itself to the segment's files.      *)
WriteSi(info, compound, id, orders, fileOrder) ==
    WriteChecksum(
      WriteLabel("    version ", <<Chr("8.11.1")>>) \o WriteLabel("    min version ", <<Chr(info.minVersion)>>)
        \o WriteLabel("    number of documents ", Num(info.maxDoc))
        \o WriteLabel("    uses compound file ", Bool(compound))
        \o WriteLabel("    diagnostics ", Num(Len(orders["diagnostics"])))
        \o MapLines("      key ", "      value ", info.diagnostics, orders["diagnostics"])
        \o WriteLabel("    attributes ", Num(Len(orders["attributes"])))
        \o MapLines("      key ", "      value ", info.attributes, orders["attributes"])
        \o WriteLabel("    files ", Num(Len(fileOrder)))
        \o FlattenSeq([i \in DOMAIN fileOrder |-> WriteLabel("      file ", <<Chr(fileOrder[i])>>)])
        \o WriteLabel("    id ", <<Chr(id)>>)
        \o WriteLabel("    sort ", Num(Len(info.sort))) \o SortLines(info.sort))

(* A count, then that many groups of lines. *)
ReadCounted(in, pos, label, labels) ==
    Proceed(ReadLabels(in, pos, <<label>>), LAMBDA n :
        IF ~Parses("num", n.values[1]) THEN Failed
        ELSE ReadLabels(in, n.next, Times(labels, Parsed(n.values[1]))))

ReadSi(in, segmentID) ==
    LET SortFields(values) == [i \in 1 .. Len(values) \div 3 |-> ReadSortField(values[3 * i])]
        Info(head, diag, att, files, fields) ==
            IF \E i \in DOMAIN fields : ~fields[i].ok THEN Failed
            ELSE [ok |-> TRUE, compound |-> Parsed(head.values[4]),
                  files |-> {files.values[i][1][2] : i \in DOMAIN files.values},
                  info |-> [minVersion |-> head.values[2][1][2], maxDoc |-> Parsed(head.values[3]),
                            diagnostics |-> ReadMap(diag.values), attributes |-> ReadMap(att.values),
                            sort |-> [i \in DOMAIN fields |-> fields[i].sf]]]
    IN  Proceed(ReadLabels(in, 1, <<"    version ", "    min version ", "    number of documents ",
                                    "    uses compound file ">>), LAMBDA head :
        IF ~Parses("num", head.values[3]) \/ ~Parses("bool", head.values[4]) THEN Failed ELSE
        Proceed(ReadCounted(in, head.next, "    diagnostics ", <<"      key ", "      value ">>), LAMBDA diag :
        Proceed(ReadCounted(in, diag.next, "    attributes ", <<"      key ", "      value ">>), LAMBDA att :
        Proceed(ReadCounted(in, att.next, "    files ", <<"      file ">>), LAMBDA files :
        Proceed(ReadLabels(in, files.next, <<"    id ">>), LAMBDA id :
        IF id.values[1] # <<Chr(segmentID)>> THEN Failed ELSE
        Proceed(ReadCounted(in, id.next, "    sort ", <<"    name ", "    type ", "    bytes ">>), LAMBDA sort :
        IF ~CheckFooter(in, sort.next) THEN Failed
        ELSE Info(head, diag, att, files, SortFields(sort.values))))))))

-----------------------------------------------------------------------------
(* CompoundFormat.Write: a header line and the raw content of each file, the  *)
(* table with the offsets, and the position of the table in a last line of    *)
(* fixed width.                                                               *)
TableLines(names, starts, ends) ==
    WriteLabel("table of contents, size: ", Num(Len(names)))
      \o FlattenSeq([i \in DOMAIN names |-> WriteLabel("  filename: ", <<Chr(names[i])>>)
                                              \o WriteLabel("    start: ", Num(starts[i]))
                                              \o WriteLabel("    end: ", Num(ends[i]))])
TablePosLine(pos) == WriteLabel("table of contents begins at offset: ", Num(pos))
TablePosWidth == Len(TablePosLine(0))

WriteCompound(names, content) ==
    LET body == FoldLeft(LAMBDA acc, n :
                    LET out == acc.out \o WriteLabel("cfs entry for: ", <<Chr(n)>>)
                    IN  [out |-> out \o content[n], starts |-> Append(acc.starts, Len(out)),
                         ends |-> Append(acc.ends, Len(out \o content[n]))],
                    [out |-> <<>>, starts |-> <<>>, ends |-> <<>>], names)
    IN  body.out \o TableLines(names, body.starts, body.ends) \o TablePosLine(Len(body.out))

(* Seek(offset) and read from there. *)
TokenAt(offset) == offset + 1
GetCompoundReader(in) ==
    LET Entries(toc) ==
            [ok |-> TRUE, entries |-> [i \in 1 .. Len(toc.values) \div 3 |->
                [name |-> toc.values[3 * i - 2][1][2], start |-> Parsed(toc.values[3 * i - 1]),
                 end |-> Parsed(toc.values[3 * i])]]]
        Table(last) ==
            IF ~Parses("num", last.values[1]) THEN Failed
            ELSE Proceed(ReadCounted(in, TokenAt(Parsed(last.values[1])), "table of contents, size: ",
                                     <<"  filename: ", "    start: ", "    end: ">>), Entries)
    IN  IF Len(in) < TablePosWidth THEN Failed
        ELSE Proceed(ReadLabels(in, TokenAt(Len(in) - TablePosWidth), <<"table of contents begins at offset: ">>),
                     Table)

(* innerCompoundDirectory.getIndex: sort.SearchStrings is never negative, so  *)
(* a name that is not there gets the entry behind its place.                  *)
Rank(name) == CHOOSE i \in DOMAIN SegmentFiles : SegmentFiles[i] = name
(* A mutant: one place too far. *)
GetIndexBehind(entries, name) ==
    1 + Cardinality({i \in DOMAIN entries : Rank(entries[i].name) <= Rank(name)})

GetIndex(entries, name) ==
    1 + Cardinality({i \in DOMAIN entries : Rank(entries[i].name) < Rank(name)})
OpenCompoundInput(in, entries, name) ==
    LET i == GetIndex(entries, name)
    IN  IF i \notin DOMAIN entries THEN Failed
        ELSE [ok |-> TRUE, content |-> SubSeq(in, TokenAt(entries[i].start), entries[i].end)]

-----------------------------------------------------------------------------
SealInit ==
    \E info \in SegmentInfos, names \in SUBSET Range(SegmentFiles), compound \in BOOLEAN :
      \E content \in [names -> FileContents] :
        seg = [pc |-> "flushed", info |-> info, content |-> content, compound |-> compound,
               files |-> names, scf |-> <<>>, si |-> <<>>, read |-> Failed, entries |-> Failed]

(* sealFlushedSegment up to the .si file: CreateCompoundFile replaces the     *)
(* files of the segment by the compound file.                                 *)
CreateCompoundFile ==
    /\ seg.pc = "flushed"
    /\ seg' = IF seg.compound
              THEN [seg EXCEPT !.pc = "sealing", !.files = {CompoundFile},
                               !.scf = WriteCompound(Ordered(DOMAIN seg.content), seg.content)]
              ELSE [seg EXCEPT !.pc = "sealing"]

(* The first sort field that cannot be written decides. *)
SealOutcome(sort) ==
    LET stops == {i \in DOMAIN sort : SortFieldOutcome(sort[i]) # "sealed"}
    IN  IF stops = {} THEN "sealed"
        ELSE SortFieldOutcome(sort[CHOOSE i \in stops : \A j \in stops : i <= j])

WriteSegmentInfo(orders, fileOrder) ==
    /\ seg.pc = "sealing"
    /\ \A k \in Maps : orders[k] \in SetToSeqs(DOMAIN seg.info[k])
    /\ seg' = IF SealOutcome(seg.info.sort) = "sealed"
              THEN [seg EXCEPT !.pc = "sealed", !.files = Range(fileOrder),
                               !.si = WriteSi(seg.info, seg.compound, "id", orders, fileOrder)]
              ELSE [seg EXCEPT !.pc = SealOutcome(seg.info.sort)]

(* A part of the file is on disk when the process dies. *)
DieSealing ==
    /\ seg.pc = "sealed"
    /\ \E n \in 0 .. Len(seg.si) - 1 : seg' = [seg EXCEPT !.pc = "torn", !.si = SubSeq(@, 1, n)]

ReadSegmentInfo(segmentID) ==
    /\ seg.pc \in {"sealed", "torn"}
    /\ seg' = [seg EXCEPT !.pc = IF @ = "torn" \/ segmentID # "id" THEN "read damaged" ELSE "read",
                          !.read = ReadSi(seg.si, segmentID)]

OpenCompound ==
    /\ seg.pc = "read" /\ seg.read.ok
    /\ seg.read.compound
    /\ seg' = [seg EXCEPT !.pc = "open", !.entries = GetCompoundReader(seg.scf)]

(* The index is opened for writing again, with the sort it was written with;  *)
(* none asks for nothing.                                                     *)
ValidateIndexSort ==
    /\ seg.pc = "read" /\ seg.read.ok
    /\ seg' = [seg EXCEPT !.pc = IF IsCongruentSort(seg.info.sort, seg.read.info.sort)
                                 THEN "sort accepted" ELSE "sort refused"]

KeyOrders == UNION {SetToSeqs(DOMAIN i.diagnostics) \cup SetToSeqs(DOMAIN i.attributes) : i \in SegmentInfos}
SealNext ==
    \/ CreateCompoundFile
    \/ \E orders \in [Maps -> KeyOrders], fileOrder \in SetToSeqs(seg.files \cup {SiFile}) :
           WriteSegmentInfo(orders, fileOrder)
    \/ DieSealing
    \/ \E id \in {"id", "other"} : ReadSegmentInfo(id)
    \/ OpenCompound
    \/ ValidateIndexSort

(******************************* Properties ********************************)

(* sortfield.go Serialize and ReadSortField: a sort field keeps all but the   *)
(* Go type of a missing INT or LONG and the use of points; its bits stay.     *)
SortFieldKept(written, read) ==
    read = [written EXCEPT !.missing[1] = ReadMissingType[written.type], !.canUsePoints = FALSE]
Unsigned(sf) == sf.type \in {"INT", "LONG"}

(* segmentinfoformat.go: the description of a segment reads back as it was    *)
(* written, maps, file set and the missing minimum version included, and the  *)
(* index sort but for the sign of its missing integers; one that was cut      *)
(* short or belongs to another segment is refused. A sort with neither        *)
(* integers nor points is accepted when the index is opened again.            *)
SegmentInfoReadBack ==
    /\ seg.pc = "read" =>
           /\ seg.read.ok
           /\ [seg.read.info EXCEPT !.sort = <<>>] = [seg.info EXCEPT !.sort = <<>>]
           /\ Len(seg.read.info.sort) = Len(seg.info.sort)
           /\ \A i \in DOMAIN seg.info.sort : SortFieldKept(seg.info.sort[i], seg.read.info.sort[i])
           /\ seg.read.compound = seg.compound /\ seg.read.files = seg.files
    /\ seg.pc = "read damaged" => ~seg.read.ok
    /\ seg.pc = "sort refused" =>
           \E i \in DOMAIN seg.info.sort : Unsigned(seg.info.sort[i]) \/ seg.info.sort[i].canUsePoints

(* indexwriter.go validateIndexSort, "Confirms that the incoming index sort   *)
(* (if any) matches the existing index sort (if any)": the sort an index was  *)
(* written with matches.                                                      *)
SameSortAccepted == seg.pc # "sort refused"

(* sortfield.go GetMissingValue, "A item of null indicates that default       *)
(* should be used": a segment is sealed under a sort without missing values.  *)
NilMissingIsDefault == seg.pc # "panicked"

(* compoundformat.go: every file that went into the compound file is opened   *)
(* there under its name with its own content, also when the content looks     *)
(* like a line of the table.                                                  *)
CompoundReadBack ==
    seg.pc = "open" =>
        /\ seg.entries.ok
        /\ \A n \in DOMAIN seg.content :
               LET r == OpenCompoundInput(seg.scf, seg.entries.entries, n)
               IN  r.ok /\ r.content = seg.content[n]

(* compoundformat.go getIndex, "no sub-file found": a file that is not in the *)
(* compound file is refused.                                                  *)
MissingFileRefused ==
    seg.pc = "open" =>
        \A n \in Range(SegmentFiles) \ DOMAIN seg.content :
            ~OpenCompoundInput(seg.scf, seg.entries.entries, n).ok

(* What a segment stored and how it was sealed is read back as it was written, *)
(* and files that a crash cut short are refused.                               *)
SegmentReadsBack == StoredReadBack /\ TornFieldsRefused /\ SegmentInfoReadBack /\ CompoundReadBack
================================================================================
