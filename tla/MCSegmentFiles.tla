----------------------------- MODULE MCSegmentFiles -----------------------------
(* The files of a segment and what they are made of in memory: stored fields,  *)
(* field infos, live docs, the .si and the compound file, terms and postings   *)
(* of the text codec; the streams to and from files, the blocks that terms and *)
(* FSTs are kept in. A behaviour has one of them, the others stay off.         *)
EXTENDS FieldInfos, PendingDeletes, SegmentText, PostingsText,
        ByteStore, Pools, DataStreams, FSTNode

StoredField(n, type, value) == [number |-> n, type |-> type, value |-> value]
SomeStoredFields ==
    {StoredField(0, "string", <<Chr("a"), NEWLINE>>), StoredField(1, "string", <<ESCAPE, Label("END")>>),
     StoredField(1, "int", Num(7)), StoredField(0, "binary", <<>>)}

FieldType(isStored, dims, dv, atts) == [stored |-> isStored, dv |-> dv, dims |-> dims, atts |-> atts]
TwoAttributes == [k \in {"k", "l"} |-> IF k = "k" THEN "newline" ELSE "v"]
SomeFieldTypes ==
    {FieldType(TRUE, NoDims, "NONE", TwoAttributes), FieldType(TRUE, <<1, 8>>, "NONE", <<>>),
     FieldType(FALSE, <<2, 4>>, "NONE", <<>>), FieldType(FALSE, NoDims, "NUMERIC", <<>>)}

ThreeFiles == <<"f1", "f2", "f3">>
SomeContents == {<<>>, <<Label("table of contents begins at offset: "), <<"num", 0>>, NEWLINE>>}
Pairs == [k \in {"newline", "k"} |-> IF k = "k" THEN "escape" ELSE "v"]
SortOn(field, type, reverse, missing, points) ==
    [field |-> field, type |-> type, reverse |-> reverse, missing |-> missing, canUsePoints |-> points]
SegmentInfo(minVersion, maxDoc, diagnostics, attributes, sort) ==
    [minVersion |-> minVersion, maxDoc |-> maxDoc, diagnostics |-> diagnostics,
     attributes |-> attributes, sort |-> sort]
SomeSegmentInfos ==
    {SegmentInfo("null", 0, Pairs, <<>>, <<>>),
     SegmentInfo("8.0.0", 3, <<>>, Pairs, <<SortOn("f", "FLOAT", TRUE, <<"float32", 7>>, FALSE),
                                            SortOn("g", "DOUBLE", FALSE, <<"float64", 0>>, FALSE)>>),
     SegmentInfo("8.0.0", 3, <<>>, <<>>, <<SortOn("f", "DOUBLE", TRUE, <<"float64", 7>>, TRUE)>>),
     SegmentInfo("8.0.0", 3, <<>>, <<>>, <<SortOn("f", "LONG", TRUE, <<"int64", 7>>, FALSE),
                                           SortOn("g", "INT", FALSE, <<"int32", 1>>, FALSE)>>),
     SegmentInfo("8.0.0", 3, <<>>, <<>>, <<SortOn("f", "INT", FALSE, <<"uint32", 1>>, FALSE)>>),
     SegmentInfo("8.0.0", 3, <<>>, <<>>, <<SortOn("f", "INT", FALSE, <<>>, FALSE)>>),
     SegmentInfo("8.0.0", 3, <<>>, <<>>, <<SortOn("g", "STRING", FALSE, <<"string", 1>>, FALSE)>>),
     SegmentInfo("8.0.0", 3, <<>>, <<>>, <<SortOn("g", "SCORE", FALSE, <<>>, FALSE)>>)}

Posting(d, freq) == [doc |-> d, freq |-> freq, payload |-> IF freq = 2 THEN <<ESCAPE>> ELSE <<>>]
DocLists == {<<>>, <<Posting(0, 1)>>, <<Posting(1, 2)>>, <<Posting(0, 2), Posting(2, 1)>>,
             <<Posting(0, 1), Posting(1, 1), Posting(2, 3)>>}
InvertedField(n, options, terms) == [name |-> n, options |-> options, terms |-> terms]
TermOf(bytes, postings) == [term |-> bytes, docs |-> postings]
TwoLists == {<<>>, <<Posting(1, 2), Posting(2, 1)>>}
SomeTerms ==
    {<<TermOf(<<Chr("a")>>, d1), TermOf(<<NEWLINE, Chr("b")>>, d2)>> : d1 \in DocLists, d2 \in TwoLists}
      \cup {<<TermOf(<<>>, d1), TermOf(<<Chr("a")>>, d2)>> : d1 \in DocLists, d2 \in TwoLists}
SomeInverted ==
    {<<InvertedField("f", o, terms), InvertedField("g", 5 - o, <<TermOf(last, d)>>)>> :
        o \in 1 .. 4, terms \in SomeTerms, last \in {<<>>, <<Label("    doc ")>>},
        d \in TwoLists}

Hashes == <<3, 7, 3, 11, 0, 3>>
Lengths == <<1, 2, 1, 0, 9, 2>>

String(bytes, runes) == [bytes |-> bytes, runes |-> runes]
Item(type, value) == [type |-> type, value |-> value]
Empty == String(<<>>, 0)
Short == String(<<1>>, 1)
TheCodec == String(<<2>>, 1)
Strings == {Empty, String(<<6, 7>>, 1), String(<<1, 2, 3, 4, 5, 6, 7>>, 7), String(<<1, 2, 3, 4, 5, 6, 7, 1, 2>>, 9)}
SomeItems ==
    {Item("byte", 5), Item("uint16", 58), Item("uint64", 16777206), Item("uvarint", 16777215), Item("zint64", -1)}
    \cup {Item("string", s) : s \in Strings}
    \cup {Item("set", {Short, Empty}), Item("map", {<<Short, TheCodec>>, <<Empty, Short>>})}
    \cup {Item("header", [codec |-> TheCodec, version |-> v]) : v \in {2, 3}}

Shape(output, isFinal, finalOutput, target) ==
    [output |-> output, isFinal |-> isFinal, finalOutput |-> finalOutput, target |-> target]
SomeShapes ==
    {Shape(0, TRUE, 0, END_NODE), Shape(2, TRUE, 1, END_NODE), Shape(1, FALSE, 0, LAST), Shape(0, TRUE, 2, LAST),
     Shape(0, FALSE, 0, 1)}
OneShape == {Shape(0, TRUE, 0, END_NODE)}

Kind(kind, signed, outputs) == [kind |-> kind, size |-> Len(CHOOSE o \in outputs : TRUE), signed |-> signed, outputs |-> outputs]
SomeKinds ==
    {Kind("box", TRUE, {<<n>> : n \in {-4, -1, 0, 1, 3}}), Kind("ints", FALSE, {0, 1, 7} \X {0, 2}),
     Kind("ints", TRUE, {-4, 0, 3} \X {0, -1}), Kind("posting", TRUE, {<<1, 0, 1, 1>>, <<3, 0, 2, 2>>})}
SomeWords == {<<1>>, <<1, 1>>, <<1, 1, 2>>, <<1, 2>>, <<2, 1>>}

vars == <<stored, fi, pd, seg, post, bst, bh, ip, ds, nd, fo>>
Off == [pc |-> "off"]
TextOff == stored = Off /\ fi = Off /\ pd = Off /\ seg = Off /\ post = Off
MemoryOff == bst = Off /\ bh = Off /\ ip = Off /\ ds = Off /\ nd = Off /\ fo = Off

Init ==
    \/ StoredInit /\ fi = Off /\ pd = Off /\ seg = Off /\ post = Off /\ MemoryOff
    \/ FieldsInit /\ stored = Off /\ pd = Off /\ seg = Off /\ post = Off /\ MemoryOff
    \/ PendingInit /\ stored = Off /\ fi = Off /\ seg = Off /\ post = Off /\ MemoryOff
    \/ SealInit /\ stored = Off /\ fi = Off /\ pd = Off /\ post = Off /\ MemoryOff
    \/ PostingsInit /\ stored = Off /\ fi = Off /\ pd = Off /\ seg = Off /\ MemoryOff
    \/ StoreInit /\ bh = Off /\ ip = Off /\ ds = Off /\ nd = Off /\ fo = Off /\ TextOff
    \/ HashInit /\ bst = Off /\ ip = Off /\ ds = Off /\ nd = Off /\ fo = Off /\ TextOff
    \/ PoolInit /\ bst = Off /\ bh = Off /\ ds = Off /\ nd = Off /\ fo = Off /\ TextOff
    \/ StreamsInit /\ bst = Off /\ bh = Off /\ ip = Off /\ nd = Off /\ fo = Off /\ TextOff
    \/ NodeInit /\ bst = Off /\ bh = Off /\ ip = Off /\ ds = Off /\ fo = Off /\ TextOff
    \/ OutputsInit /\ bst = Off /\ bh = Off /\ ip = Off /\ ds = Off /\ nd = Off /\ TextOff

Next ==
    \/ stored.pc # "off" /\ StoredNext /\ UNCHANGED <<fi, pd, seg, post, bst, bh, ip, ds, nd, fo>>
    \/ fi.pc # "off" /\ FieldsNext /\ UNCHANGED <<stored, pd, seg, post, bst, bh, ip, ds, nd, fo>>
    \/ pd.pc # "off" /\ PendingNext /\ UNCHANGED <<stored, fi, seg, post, bst, bh, ip, ds, nd, fo>>
    \/ seg.pc # "off" /\ SealNext /\ UNCHANGED <<stored, fi, pd, post, bst, bh, ip, ds, nd, fo>>
    \/ post.pc # "off" /\ PostingsNext /\ UNCHANGED <<stored, fi, pd, seg, bst, bh, ip, ds, nd, fo>>
    \/ bst.pc # "off" /\ StoreNext /\ UNCHANGED <<stored, fi, pd, seg, post, bh, ip, ds, nd, fo>>
    \/ bh.pc # "off" /\ HashNext /\ UNCHANGED <<stored, fi, pd, seg, post, bst, ip, ds, nd, fo>>
    \/ ip.pc # "off" /\ PoolNext /\ UNCHANGED <<stored, fi, pd, seg, post, bst, bh, ds, nd, fo>>
    \/ ds.pc # "off" /\ StreamsNext /\ UNCHANGED <<stored, fi, pd, seg, post, bst, bh, ip, nd, fo>>
    \/ nd.pc # "off" /\ NodeNext /\ UNCHANGED <<stored, fi, pd, seg, post, bst, bh, ip, ds, fo>>
    \/ fo.pc # "off" /\ OutputsNext /\ UNCHANGED <<stored, fi, pd, seg, post, bst, bh, ip, ds, nd>>

Spec == Init /\ [][Next]_vars

(* The field infos alone. *)
FieldsSpec ==
    /\ FieldsInit /\ stored = Off /\ pd = Off /\ seg = Off /\ post = Off /\ MemoryOff
    /\ [][Next]_vars
================================================================================
