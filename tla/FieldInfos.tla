------------------------------- MODULE FieldInfos -------------------------------
(* The fields of an index: the global field numbers of an IndexWriter         *)
(* session, the FieldInfosBuilder of its segment, the .inf file a flush       *)
(* writes and what a reader makes of it.                                      *)
(*                                                                            *)
(* A document has one field here. Inverted fields end in a panic of           *)
(* NewNormValuesWriter, so the index options of a field stay NONE and the     *)
(* flags that depend on them FALSE. Dimensions are pairs <<count, bytes>>     *)
(* with as many index dimensions as data dimensions.                          *)
(*                                                                            *)
(* Sources: core/index/fieldinfos.go, core/document/fieldinfo.go,             *)
(* core/index/defaultindexingchain.go, core/index/indexwriter.go,             *)
(* codecs/simpletext/fieldinfosformat.go.                                     *)
EXTENDS TextFile, FiniteSets, Functions

CONSTANTS
    FieldNames,
    FieldTypes,           \* records [stored, dv, dims, atts] of a document's field
    DVUpdateTypes,        \* types UpdateDocValues is called with
    MaxFieldDocs,         \* documents and updates, over the sessions
    MaxSessions

VARIABLE fi

NoDims == <<0, 0>>
NoNumber == -1
PackedLength(dims) == dims[1] * dims[2]

NewFieldNumbers ==
    [numberToName |-> <<>>, nameToNumber |-> <<>>, docValuesType |-> <<>>,
     dimensions |-> <<>>, lowestUnassignedFieldNumber |-> -1]

Has(f, x) == x \in DOMAIN f
With(f, x, y) == [z \in DOMAIN f \cup {x} |-> IF z = x THEN y ELSE f[z]]
(* A mutant: the search starts from the first number each time. *)
NextFreeFromZero(g) ==
    CHOOSE n \in 0 .. Cardinality(DOMAIN g.numberToName) :
        ~Has(g.numberToName, n + 1) /\ \A k \in 0 .. n - 1 : Has(g.numberToName, k + 1)

(* The search steps the counter and stops when the number AFTER it is free.   *)
NextFree(g) ==
    LET from == g.lowestUnassignedFieldNumber
    IN  CHOOSE n \in from + 1 .. from + 1 + Cardinality(DOMAIN g.numberToName) :
            /\ ~Has(g.numberToName, n + 1)
            /\ \A k \in from + 1 .. n - 1 : Has(g.numberToName, k + 1)

(* Only a type that is there already is overwritten, whatever it was. *)
AddOrGet(g, name, preferred, dvType, dims) ==
    LET g1 == IF dvType # "NONE" /\ Has(g.docValuesType, name)
              THEN [g EXCEPT !.docValuesType[name] = dvType] ELSE g
        g2 == IF dims # NoDims /\ ~Has(g1.dimensions, name)
              THEN [g1 EXCEPT !.dimensions = With(@, name, dims)] ELSE g1
        usable == preferred # NoNumber /\ ~Has(g.numberToName, preferred)
        number == IF Has(g.nameToNumber, name) THEN g.nameToNumber[name]
                  ELSE IF usable THEN preferred ELSE NextFree(g)
        g3 == IF Has(g.nameToNumber, name) THEN g2
              ELSE [g2 EXCEPT !.numberToName = With(@, number, name),
                              !.nameToNumber = With(@, name, number),
                              !.lowestUnassignedFieldNumber = IF usable THEN @ ELSE number]
    IN  IF dims # NoDims /\ Has(g1.dimensions, name) /\ g1.dimensions[name] # dims
        THEN [ok |-> FALSE, g |-> g1]
        ELSE [ok |-> TRUE, g |-> g3, number |-> number]

(* The checks that verifyConsistentDocValuesType and                          *)
(* verifyConsistentIndexOptions share.                                        *)
VerifyNumber(g, number, name) ==
    /\ Has(g.numberToName, number) /\ g.numberToName[number] = name
    /\ Has(g.nameToNumber, name) /\ g.nameToNumber[name] = number

VerifyConsistentDocValuesType(g, number, name, dvType) ==
    /\ VerifyNumber(g, number, name)
    /\ ~(dvType # "NONE" /\ Has(g.docValuesType, name) /\ g.docValuesType[name] \notin {"NONE", dvType})

NewFieldInfo(number, dv, atts, dims) == [number |-> number, dv |-> dv, atts |-> atts, dims |-> dims]

(* DefaultIndexingChain.getOrAddField with FieldInfosBuilder.GetOrAdd and     *)
(* initIndexOptions. *)
GetOrAddField(s, name, atts) ==
    LET r == AddOrGet(s.global, name, NoNumber, "NONE", NoDims)
    IN  IF Has(s.byName, name) THEN [ok |-> TRUE, s |-> s]
        ELSE IF s.finished THEN [ok |-> FALSE, s |-> s]
        ELSE IF ~VerifyNumber(r.g, r.number, name)
             THEN [ok |-> FALSE, s |-> [s EXCEPT !.global = r.g]]
        ELSE [ok |-> TRUE,
              s |-> [s EXCEPT !.global = r.g,
                              !.byName = With(@, name, NewFieldInfo(r.number, "NONE", atts, NoDims))]]

(* indexDocValue reports an error whatever it did before. *)
IndexDocValue(s, name, dvType) ==
    LET info == s.byName[name]
        fresh == info.dv = "NONE"
    IN  IF fresh /\ ~VerifyConsistentDocValuesType(s.global, info.number, name, dvType) THEN s
        ELSE [s EXCEPT !.global.docValuesType = IF fresh THEN With(@, name, dvType) ELSE @,
                       !.byName[name].dv = dvType]

(* The first point of a field fixes the length of the packed values; its      *)
(* dimensions are whatever the last document said.                            *)
IndexPoint(s, name, dims) ==
    LET len == IF Has(s.packedLength, name) THEN s.packedLength[name] ELSE PackedLength(dims)
    IN  [ok |-> len = PackedLength(dims),
         s |-> [s EXCEPT !.global.dimensions = IF s.byName[name].dims = NoDims THEN With(@, name, dims) ELSE @,
                         !.byName[name].dims = dims,
                         !.packedLength = With(@, name, len)]]

(* processField of a document's field. *)
ProcessField(s, name, type) ==
    LET Stored(t) ==
            IF type.stored THEN [t EXCEPT !.used = @ \cup {<<name, t.byName[name].number>>}] ELSE t
        IndexValues(t) ==
            IF type.dv # "NONE" THEN [ok |-> FALSE, s |-> IndexDocValue(t, name, type.dv)]
            ELSE IF type.dims # NoDims THEN IndexPoint(t, name, type.dims)
            ELSE [ok |-> TRUE, s |-> t]
        Got(got) == IF got.ok THEN IndexValues(Stored(got.s)) ELSE got
    IN  Got(GetOrAddField(s, name, type.atts))

-----------------------------------------------------------------------------
(* The .inf file. *)

AttributeLines(order, atts) ==
    FlattenSeq([i \in DOMAIN order |-> WriteLabel("    key ", <<Chr(order[i])>>)
                                         \o WriteLabel("    value ", <<Chr(atts[order[i]])>>)])

(* order is the order in which the map of attributes is walked. *)
InfoLines(name, info, order) ==
    WriteLabel("  name ", <<Chr(name)>>) \o WriteLabel("  number ", Num(info.number))
      \o WriteLabel("  index options ", <<Chr("NONE")>>) \o WriteLabel("  term vectors ", Bool(FALSE))
      \o WriteLabel("  payloads ", Bool(FALSE)) \o WriteLabel("  norms ", Bool(TRUE))
      \o WriteLabel("  doc values ", <<Chr(info.dv)>>) \o WriteLabel("  doc values gen ", Num(-1))
      \o WriteLabel("  attributes ", Num(Len(order))) \o AttributeLines(order, info.atts)
      \o WriteLabel("  data dimensional count ", Num(info.dims[1]))
      \o WriteLabel("  index dimensional count ", Num(info.dims[1]))
      \o WriteLabel("  dimensional num bytes ", Num(info.dims[2]))
      \o WriteLabel("  soft-deletes ", Bool(FALSE))
(* A mutant: the fields in the order of the map. *)
ByName(byName) == SetToSeq(DOMAIN byName)

(* The fields in the order of their numbers; orders[name] walks a field's     *)
(* attributes.                                                                *)
ByNumber(byName) == SetToSortSeq(DOMAIN byName, LAMBDA m, n : byName[m].number < byName[n].number)

WriteInfos(byName, orders) ==
    LET names == ByNumber(byName)
    IN  WriteChecksum(WriteLabel("number of fields ", Num(Len(names)))
          \o FlattenSeq([i \in DOMAIN names |-> InfoLines(names[i], byName[names[i]], orders[names[i]])]))

HeadLabels == <<"  name ", "  number ", "  index options ", "  term vectors ", "  payloads ",
                "  norms ", "  doc values ", "  doc values gen ", "  attributes ">>
DimLabels == <<"  data dimensional count ", "  index dimensional count ",
               "  dimensional num bytes ", "  soft-deletes ">>
(* A mutant: values and keys change places. *)
ReadAttributesSwapped(values) ==
    [k \in {values[i][1][2] : i \in {j \in DOMAIN values : j % 2 = 0}} |->
        values[(CHOOSE j \in DOMAIN values : j % 2 = 0 /\ values[j][1][2] = k) - 1][1][2]]

ReadAttributes(values) ==
    [k \in {values[i][1][2] : i \in {j \in DOMAIN values : j % 2 = 1}} |->
        LET i == CHOOSE j \in DOMAIN values : j % 2 = 1 /\ values[j][1][2] = k
        IN  values[i + 1][1][2]]

ReadInfo(in, pos) ==
    Proceed(ReadLabels(in, pos, HeadLabels), LAMBDA head :
        IF ~Parses("num", head.values[2]) \/ ~Parses("num", head.values[9]) THEN Failed
        ELSE Proceed(ReadLabels(in, head.next, Times(<<"    key ", "    value ">>, Parsed(head.values[9]))),
             LAMBDA atts : Proceed(ReadLabels(in, atts.next, DimLabels),
             LAMBDA dims :
                 [ok |-> TRUE, next |-> dims.next, name |-> head.values[1][1][2],
                  info |-> NewFieldInfo(Parsed(head.values[2]), head.values[7][1][2],
                                        ReadAttributes(atts.values),
                                        <<Parsed(dims.values[1]), Parsed(dims.values[3])>>)])))

(* NewFieldInfos refuses (panics on) a number or a name that comes twice.     *)
ReadInfos(in) ==
    LET More(acc, k) ==
            Proceed(acc, LAMBDA a : Proceed(ReadInfo(in, a.next), LAMBDA r :
                [ok |-> TRUE, next |-> r.next, infos |-> With(a.infos, r.name, r.info)]))
        Infos(n, pos) ==
            FoldLeft(More, [ok |-> TRUE, next |-> pos, infos |-> <<>>], [k \in 1 .. n |-> k])
    IN  Proceed(ReadLabels(in, 1, <<"number of fields ">>), LAMBDA size :
            IF ~Parses("num", size.values[1]) THEN Failed
            ELSE Proceed(Infos(Parsed(size.values[1]), size.next), LAMBDA all :
                     IF CheckFooter(in, all.next) THEN all ELSE Failed))

(* fieldInfos.FieldInfoByNumber: the position in the sorted list, from 0. *)
FieldInfoByNumber(infos, number) ==
    LET list == ByNumber(infos)
    IN  IF number + 1 \in DOMAIN list THEN list[number + 1] ELSE "out of range"

-----------------------------------------------------------------------------
NewSession(global) ==
    [global |-> global, byName |-> <<>>, finished |-> FALSE, packedLength |-> <<>>, used |-> {}]

FieldsInit ==
    fi = [pc |-> "closed", s |-> NewSession(NewFieldNumbers), docs |-> 0, rejected |-> {},
          segments |-> <<>>, file |-> <<>>, refused |-> FALSE, sessions |-> 0]

(* IndexWriter.getFieldNumberMap: every field of every segment, in the order  *)
(* of the segment's list, with its number as the preferred one. Segments that *)
(* disagree on the dimensions of a field keep the writer from opening.        *)
LoadField(r, name, info) ==
    IF r.ok THEN AddOrGet(r.g, name, info.number, info.dv, info.dims) ELSE r
GetFieldNumberMap(segments) ==
    FoldLeft(LAMBDA r, seg :
                 FoldLeft(LAMBDA q, name : LoadField(q, name, seg.infos[name]), r, ByNumber(seg.infos)),
             [ok |-> TRUE, g |-> NewFieldNumbers], segments)

OpenWriter ==
    /\ fi.pc = "closed" /\ fi.sessions < MaxSessions
    /\ LET r == GetFieldNumberMap(fi.segments)
       IN  fi' = IF r.ok
                 THEN [fi EXCEPT !.pc = "indexing", !.s = NewSession(r.g),
                                 !.sessions = @ + 1, !.refused = FALSE]
                 ELSE [fi EXCEPT !.sessions = @ + 1]

(* AddDocument; after the flush the builder takes no new field. *)
AddFieldDocument(name, type) ==
    /\ fi.pc \in {"indexing", "flushed"} /\ fi.docs < MaxFieldDocs
    /\ \E r \in {ProcessField(fi.s, name, type)} :
           fi' = [fi EXCEPT !.s = r.s, !.docs = @ + 1,
                            !.rejected = IF r.ok THEN @ ELSE @ \cup {name}]

(* IndexWriter.buildDocValuesUpdate: the field gets a number and no segment   *)
(* holds it.                                                                  *)
UpdateDocValues(name, dvType) ==
    /\ fi.pc \in {"indexing", "flushed"} /\ fi.docs < MaxFieldDocs
    /\ LET g == fi.s.global
           known == /\ Has(g.nameToNumber, name)
                    /\ dvType = (IF Has(g.docValuesType, name) THEN g.docValuesType[name] ELSE "NONE")
       IN  fi' = [fi EXCEPT !.docs = @ + 1,
                            !.s.global = IF known THEN @
                                         ELSE AddOrGet(g, name, NoNumber, dvType, NoDims).g]

(* FieldInfosBuilder.Finish panics when two fields share a number, and the    *)
(* flush fails on a field with doc values; otherwise the file is written, or  *)
(* a part of it when the process dies.                                        *)
SharedNumber(byName) == \E m, n \in DOMAIN byName : m # n /\ byName[m].number = byName[n].number
AttributeOrders(byName) ==
    {o \in [DOMAIN byName -> UNION {SetToSeqs(DOMAIN byName[n].atts) : n \in DOMAIN byName}] :
        \A n \in DOMAIN byName : o[n] \in SetToSeqs(DOMAIN byName[n].atts)}
Flush(orders) ==
    /\ fi.pc = "indexing" /\ DOMAIN fi.s.byName # {}
    /\ IF SharedNumber(fi.s.byName) THEN fi' = [fi EXCEPT !.pc = "panicked"]
       ELSE IF \E n \in DOMAIN fi.s.byName : fi.s.byName[n].dv # "NONE"
            THEN fi' = [fi EXCEPT !.pc = "flushed", !.s.finished = TRUE]
       ELSE LET file == WriteInfos(fi.s.byName, orders)
            IN  \/ fi' = [fi EXCEPT !.pc = "written", !.s.finished = TRUE, !.file = file]
                \/ \E n \in {0, 2, Len(file) \div 2, Len(file) - 1} :
                       fi' = [fi EXCEPT !.pc = "torn", !.file = SubSeq(file, 1, n)]

(* The segment is opened: it joins the index when its file can be read. *)
OpenSegment ==
    /\ fi.pc \in {"written", "torn"}
    /\ \E r \in {ReadInfos(fi.file)} :
           fi' = [fi EXCEPT !.pc = IF @ = "torn" THEN "closed" ELSE "flushed",
                            !.refused = ~r.ok,
                            !.segments = IF r.ok THEN Append(@, [infos |-> r.infos, written |-> fi.s.byName,
                                                                 torn |-> fi.pc = "torn", used |-> fi.s.used,
                                                                 session |-> fi.sessions])
                                         ELSE @]

CloseWriter ==
    /\ fi.pc \in {"indexing", "flushed"}
    /\ fi' = [fi EXCEPT !.pc = "closed", !.refused = FALSE]

FieldsNext ==
    \/ OpenWriter
    \/ \E name \in FieldNames, type \in FieldTypes : AddFieldDocument(name, type)
    \/ \E name \in FieldNames, dvType \in DVUpdateTypes : UpdateDocValues(name, dvType)
    \/ \E orders \in AttributeOrders(fi.s.byName) : Flush(orders)
    \/ OpenSegment
    \/ CloseWriter

(******************************* Properties ********************************)

(* fieldinfos.go AddOrGet, "the first unassigned field number is used as the  *)
(* field number": a field name has one number and the number belongs to that  *)
(* name only, in whatever order documents, doc-values updates and the         *)
(* segments of earlier sessions bring the fields.                             *)
NumbersBijective ==
    fi.pc \in {"indexing", "flushed"} =>
        \A m, n \in DOMAIN fi.s.global.nameToNumber :
            fi.s.global.nameToNumber[m] = fi.s.global.nameToNumber[n] => m = n

(* fieldinfos.go AddOrGet, what holds of the numbers: the name a number leads *)
(* to has that number, no name loses it altogether, and of two names that     *)
(* share a number one came with it from a segment of an earlier session: the  *)
(* search alone never gives a number twice.                                   *)
SharedOnlyWithLoaded ==
    fi.pc \in {"indexing", "flushed", "panicked"} =>
        LET g == fi.s.global
            number == g.nameToNumber
            Loaded(name) == \E i \in DOMAIN fi.segments :
                               /\ fi.segments[i].session < fi.sessions
                               /\ Has(fi.segments[i].infos, name)
                               /\ fi.segments[i].infos[name].number = number[name]
        IN  /\ DOMAIN g.numberToName = {number[n] : n \in DOMAIN number}
            /\ \A k \in DOMAIN g.numberToName : number[g.numberToName[k]] = k
            /\ \A m, n \in DOMAIN number :
                   number[m] = number[n] /\ m # n => Loaded(m) \/ Loaded(n)

(* fieldinfosformat.go Read: the file of a flush reads back as the fields the *)
(* builder held, whatever the order the attributes were walked in, and a file *)
(* that was cut short is refused.                                             *)
InfosReadBack ==
    fi.pc # "off" =>
        /\ \A i \in DOMAIN fi.segments :
               ~fi.segments[i].torn /\ fi.segments[i].infos = fi.segments[i].written
        /\ fi.pc = "flushed" => ~fi.refused

(* fieldinfos.go FieldInfoByNumber: when the numbers of a segment's fields    *)
(* have no gap, the number a stored field was written with leads the reader   *)
(* back to the field's name.                                                  *)
StoredUnderName ==
    fi.pc # "off" =>
        \A i \in DOMAIN fi.segments :
            LET seg == fi.segments[i]
                infos == seg.infos
                numbers == {infos[n].number : n \in DOMAIN infos}
            IN  numbers = 0 .. Cardinality(numbers) - 1 =>
                    \A u \in seg.used : FieldInfoByNumber(infos, u[2]) = u[1]

(* fieldinfos.go, the comment of FieldNumbers.docValuesType: a given field    *)
(* never changes its doc values type.                                         *)
DocValuesTypeKept ==
    [][fi.pc \in {"indexing", "flushed"} /\ fi'.pc \in {"indexing", "flushed"} =>
          \A n \in DOMAIN fi.s.global.docValuesType :
              fi.s.global.docValuesType[n] # "NONE" =>
                  fi'.s.global.docValuesType[n] = fi.s.global.docValuesType[n]]_fi

(* defaultindexingchain.go indexPoint, its comment: the setter refuses        *)
(* dimensions that were already set to something different.                   *)
PointDimensionsKept ==
    [][fi.pc = "indexing" /\ fi'.pc = "indexing" =>
          \A n \in DOMAIN fi.s.byName :
              fi.s.byName[n].dims # NoDims => fi'.s.byName[n].dims = fi.s.byName[n].dims]_fi

(* Fields keep their names: over the numbers of the index, the file of the    *)
(* field infos and the numbers in the stored fields.                          *)
FieldsKeepNames == SharedOnlyWithLoaded /\ InfosReadBack /\ StoredUnderName
================================================================================
