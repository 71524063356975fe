-------------------------------- MODULE FSTNode --------------------------------
(* core/util/fst: the bytes of one frozen node, as a list of arcs or, with       *)
(* enough of them, as an array that can be searched, and an Arc that is moved    *)
(* from arc to arc over them.                                                    *)
(*                                                                               *)
(* A byte says what it is of, so that one read for another is found out; a       *)
(* number takes a byte, or two when it is WIDE. The bytes of a node are turned   *)
(* around and read towards smaller addresses: a position is given by the bytes   *)
(* between the first one and it, and the position behind the last byte is the    *)
(* address of the node before, LAST. Direct addressing is never chosen: the      *)
(* factor that allows it is zero unless it is set, and nothing sets it.          *)
EXTENDS Integers, Sequences, FiniteSets, SequencesExt, FiniteSetsExt

CONSTANTS
    Labels,             \* labels of arcs
    ArcShapes,          \* [output, isFinal, finalOutput, target]
    MaxArcs,            \* bound: arcs of the node
    WIDE, LAST,
    SHALLOW_NUM_ARCS, DEEP_NUM_ARCS,    \* FIXED_LENGTH_ARC_*: 5 and 10
    INTEGER_BYTES       \* 4

VARIABLE nd

END_NODE == -1
Garbage == -2

Byte(of, value) == [of |-> of, value |-> value]
Width(value) == IF value >= WIDE THEN 2 ELSE 1
Number(of, value) == <<Byte(of, value)>> \o [i \in 1 .. Width(value) - 1 |-> Byte("more", 0)]

--------------------------------------------------------------------------------
(* AddNode. The target that was frozen last is not written in a list; a final    *)
(* target without arcs never is.                                                 *)
Flags(arc, last, next) ==
    {flag \in {"last", "next", "final", "finalOutput", "stop", "output"} :
        \/ flag = "last" /\ last
        \/ flag = "next" /\ next
        \/ flag = "final" /\ arc.isFinal
        \/ flag = "finalOutput" /\ arc.isFinal /\ arc.finalOutput # 0
        \/ flag = "stop" /\ arc.target = END_NODE
        \/ flag = "output" /\ arc.output # 0}
ArcBytes(arc, last, next) ==
    <<Byte("flags", Flags(arc, last, next)), Byte("label", arc.label)>>
      \o (IF arc.output = 0 THEN <<>> ELSE Number("output", arc.output))
      \o (IF arc.finalOutput = 0 THEN <<>> ELSE Number("finalOutput", arc.finalOutput))
      \o (IF arc.target = END_NODE \/ next THEN <<>> ELSE Number("target", arc.target))

AllArcBytes(arcs, lastFrozen, fixed) ==
    [i \in DOMAIN arcs |-> ArcBytes(arcs[i], i = Len(arcs), ~fixed /\ arcs[i].target = lastFrozen)]

(* writeNodeForBinarySearch: the arcs are moved apart, behind a header. *)
Padded(bytes, size) == [k \in 1 .. size |-> IF k <= Len(bytes) THEN bytes[k] ELSE Byte("stale", 0)]
ArrayBytes(each) ==
    LET size == Max({Len(each[i]) : i \in DOMAIN each})
    IN  <<Byte("flags", {"finalOutput"}), Byte("number", Len(each)), Byte("number", size)>>
          \o FlattenSeq([i \in DOMAIN each |-> Padded(each[i], size)])

(* array.Oversize, for the sizes of the arcs. *)
Oversize(n) == IF n % INTEGER_BYTES = 0 THEN n ELSE ((n % INTEGER_BYTES) + 1) * INTEGER_BYTES

(* shouldExpandNodeWithFixedLengthArcs *)
Expand(n, shallow) == n >= DEEP_NUM_ARCS \/ (shallow /\ n >= SHALLOW_NUM_ARCS)

--------------------------------------------------------------------------------
(* An Arc c over the bytes. *)
IsAt(o, of) == o < Len(nd.bytes) /\ nd.bytes[o + 1].of = of
ValueAt(o, of) == IF IsAt(o, of) THEN nd.bytes[o + 1].value ELSE Garbage
FlagsAt(o) == IF IsAt(o, "flags") THEN nd.bytes[o + 1].value ELSE {}
WidthAt(o, of, present) == IF present THEN Width(ValueAt(o, of)) ELSE 0
OutputAt(o) == o + 1
FinalAt(o, flags) == OutputAt(o) + WidthAt(OutputAt(o), "output", "output" \in flags)
TargetAt(o, flags) == FinalAt(o, flags) + WidthAt(FinalAt(o, flags), "finalOutput", "finalOutput" \in flags)
EndOfArc(o, flags) ==
    TargetAt(o, flags) + WidthAt(TargetAt(o, flags), "target", flags \cap {"stop", "next"} = {})

(* A mutant: the node follows the arc that was read. *)
NextNodeHere(o) == o

(* seekToNextNode: over the other arcs of the list. *)
RECURSIVE SeekToNextNode(_)
SeekToNextNode(o) ==
    LET flags == FlagsAt(o)
        end == EndOfArc(o + 1, flags)
    IN  IF "last" \in flags \/ o >= Len(nd.bytes) THEN end ELSE SeekToNextNode(end)

AddressOf(o) == LAST + Len(nd.bytes) - o

(* readArc, behind the flags. *)
ReadArc(c, o, flags) ==
    LET end == EndOfArc(o, flags)
    IN  [c EXCEPT
            !.flags = flags, !.label = ValueAt(o, "label"), !.nextArc = end,
            !.output = IF "output" \in flags THEN ValueAt(OutputAt(o), "output") ELSE 0,
            !.finalOutput = IF "finalOutput" \in flags THEN ValueAt(FinalAt(o, flags), "finalOutput") ELSE 0,
            !.target = CASE "stop" \in flags -> END_NODE
                         [] "stop" \notin flags /\ "next" \in flags ->
                              AddressOf(IF "last" \in flags THEN end
                                        ELSE IF c.bytesPerArc = 0 THEN SeekToNextNode(end)
                                        ELSE c.arcsStart + c.bytesPerArc * c.numArcs)
                         [] OTHER -> ValueAt(TargetAt(o, flags), "target")]

NewArc ==
    [flags |-> {}, label |-> 0, nextArc |-> 0, output |-> 0, finalOutput |-> 0, target |-> 0, array |-> FALSE,
     bytesPerArc |-> 0, numArcs |-> 0, arcsStart |-> 0, arcIdx |-> 0]

(* ReadNextRealArc *)
ReadNextArc(c) ==
    LET o == IF c.array THEN c.arcsStart + (c.arcIdx + 1) * c.bytesPerArc ELSE c.nextArc
    IN  ReadArc([c EXCEPT !.arcIdx = IF c.array THEN @ + 1 ELSE @], o + 1, FlagsAt(o))

(* The header of a node that has one. *)
IsArray == FlagsAt(0) = {"finalOutput"}
Header(c) == [c EXCEPT !.array = TRUE, !.numArcs = ValueAt(1, "number"), !.bytesPerArc = ValueAt(2, "number"), !.arcsStart = 3]
ListHead(c) == [c EXCEPT !.array = FALSE, !.nextArc = 0, !.bytesPerArc = 0]

(* ReadFirstRealTargetArc *)
ReadFirst(c) == ReadNextArc(IF IsArray THEN [Header(c) EXCEPT !.arcIdx = -1] ELSE ListHead(c))

(* readLastTargetArc *)
RECURSIVE LastArcFrom(_)
LastArcFrom(o) ==
    IF "last" \in FlagsAt(o) \/ o >= Len(nd.bytes) THEN o ELSE LastArcFrom(EndOfArc(o + 1, FlagsAt(o)))
ReadLast(c) ==
    ReadNextArc(IF IsArray THEN [Header(c) EXCEPT !.arcIdx = ValueAt(1, "number") - 2]
             ELSE [ListHead(c) EXCEPT !.nextArc = LastArcFrom(0)])

(* ReadArcByIndex, of an array. *)
ReadByIndex(c, idx) ==
    LET o == c.arcsStart + idx * c.bytesPerArc IN ReadArc([c EXCEPT !.arcIdx = idx], o + 1, FlagsAt(o))

(* readNextArcLabel: looks ahead. *)
NextLabel(c) ==
    IF c.array THEN ValueAt(c.arcsStart + (1 + c.arcIdx) * c.bytesPerArc + 1, "label") ELSE ValueAt(c.nextArc + 1, "label")

(* A mutant: the flags of the arc are read for its label. *)
MidLabelAtFlags(c, mid) == ValueAt(c.arcsStart + c.bytesPerArc * mid, "label")

(* FindTargetArc and FindTarget: binary search of an array, a scan of a list. *)
MidLabel(c, mid) == ValueAt(c.arcsStart + c.bytesPerArc * mid + 1, "label")
RECURSIVE BinarySearch(_, _, _, _)
BinarySearch(c, label, low, high) ==
    LET mid == (low + high) \div 2
        midLabel == MidLabel(c, mid)
    IN  IF low > high THEN <<>>
        ELSE IF midLabel < label THEN BinarySearch(c, label, mid + 1, high)
        ELSE IF midLabel > label THEN BinarySearch(c, label, low, mid - 1)
        ELSE <<ReadNextArc([c EXCEPT !.arcIdx = mid - 1])>>
RECURSIVE Scan(_, _)
Scan(c, label) ==
    CASE c.label = label -> <<c>>
      [] c.label > label \/ (c.label < label /\ "last" \in c.flags) -> <<>>
      [] c.label < label /\ "last" \notin c.flags -> Scan(ReadNextArc(c), label)
FindTarget(c, label) ==
    IF IsArray THEN BinarySearch(Header(c), label, 0, ValueAt(1, "number") - 1) ELSE Scan(ReadFirst(c), label)

--------------------------------------------------------------------------------
NodeInit == nd = [pc |-> "arcs", arcs |-> <<>>, bytes |-> <<>>, arc |-> NewArc, at |-> 0]

AddArc ==
    /\ nd.pc = "arcs" /\ Len(nd.arcs) < MaxArcs
    /\ \E label \in Labels, shape \in ArcShapes :
        /\ \A i \in DOMAIN nd.arcs : nd.arcs[i].label < label
        /\ nd' = [nd EXCEPT !.arcs = Append(@, [label |-> label, output |-> shape.output, isFinal |-> shape.isFinal,
                                                finalOutput |-> shape.finalOutput, target |-> shape.target])]

(* AddNode, after a node with arcs was frozen or one without. *)
AddNode ==
    /\ nd.pc = "arcs" /\ nd.arcs # <<>>
    /\ \E shallow \in BOOLEAN, lastFrozen \in {LAST, END_NODE} :
           LET fixed == Expand(Len(nd.arcs), shallow)
               each == AllArcBytes(nd.arcs, lastFrozen, fixed)
           IN  nd' = IF fixed /\ Oversize(Len(nd.arcs)) < Len(nd.arcs) THEN [nd EXCEPT !.pc = "panic"]
                     ELSE [nd EXCEPT !.pc = "frozen", !.bytes = IF fixed THEN ArrayBytes(each) ELSE FlattenSeq(each)]

(* The same Arc is moved: at is the arc it should be at. *)
Move(c, at) == nd' = [nd EXCEPT !.arc = c, !.at = at]
MoveFirst == nd.pc = "frozen" /\ Move(ReadFirst(nd.arc), 1)
MoveNext == nd.pc = "frozen" /\ nd.at > 0 /\ "last" \notin nd.arc.flags /\ Move(ReadNextArc(nd.arc), nd.at + 1)
MoveLast == nd.pc = "frozen" /\ Move(ReadLast(nd.arc), Len(nd.arcs))
MoveByIndex ==
    /\ nd.pc = "frozen" /\ nd.at > 0 /\ nd.arc.array
    /\ \E idx \in 0 .. nd.arc.numArcs - 1 : Move(ReadByIndex(nd.arc, idx), idx + 1)
MoveToLabel ==
    /\ nd.pc = "frozen"
    /\ \E label \in Labels : \E i \in DOMAIN nd.arcs :
        /\ nd.arcs[i].label = label /\ FindTarget(nd.arc, label) # <<>>
        /\ Move(FindTarget(nd.arc, label)[1], i)

NodeNext == AddArc \/ AddNode \/ MoveFirst \/ MoveNext \/ MoveLast \/ MoveByIndex \/ MoveToLabel

--------------------------------------------------------------------------------
(* Wherever the Arc was moved from and by whichever way, by label, by index, to   *)
(* the first or last or the next one, it has the label, outputs and target of the *)
(* arc that was frozen there, also a target that was not written but left to be   *)
(* the node before; it says that it is the last only of the last, and else it     *)
(* knows the label that follows.                                                  *)
ArcIsRight ==
    nd.pc = "frozen" /\ nd.at > 0 =>
        /\ nd.at \in DOMAIN nd.arcs
        /\ nd.arcs[nd.at] = [label |-> nd.arc.label, output |-> nd.arc.output, isFinal |-> "final" \in nd.arc.flags,
                             finalOutput |-> nd.arc.finalOutput, target |-> nd.arc.target]
        /\ ("last" \in nd.arc.flags) = (nd.at = Len(nd.arcs))
        /\ nd.at < Len(nd.arcs) => NextLabel(nd.arc) = nd.arcs[nd.at + 1].label

(* A label is found exactly if the node has an arc of it, from whatever arc the  *)
(* search was begun.                                                             *)
FindIsExact ==
    nd.pc = "frozen" =>
        \A label \in Labels :
            FindTarget(nd.arc, label) # <<>> <=> \E i \in DOMAIN nd.arcs : nd.arcs[i].label = label

(* Every node can be frozen. It cannot when Oversize gives less than was asked. *)
EveryNodeFreezes == nd.pc # "panic"

--------------------------------------------------------------------------------
(* core/util/fst/outputs.go and intboxoutput.go: the values that words carry  *)
(* through an FST. Builder.Add splits them along the arcs a word shares with  *)
(* the one before; AddNode writes what is left of them on every arc, and a    *)
(* reader adds up what it meets.                                              *)
(*                                                                            *)
(* An IntBox is a sequence of one number, a PostingOutput of four, an Ints of *)
(* any length; the numbers have the width and the sign of their type and wrap *)
(* around. The nodes are those of a trie: a prefix names the arc that leads   *)
(* to it and the node behind. Sharing of suffixes is left to FSTBuilder.      *)

CONSTANTS
    OutputWords,        \* the words that may be added, in any sorted order
    OutputKinds,        \* what words carry: records [kind, size, signed, outputs]
    MaxOutputWords,     \* bound: words added
    NumberBits,         \* width of the type T of the numbers
    LongBits            \* width of the number a variable length int is written from

VARIABLE fo

NilOutput == <<>>

(* T(n): a number as the type of the output keeps it. *)
Kept(kind, n) ==
    LET m == n % 2 ^ NumberBits IN IF kind.signed /\ m >= 2 ^ (NumberBits - 1) THEN m - 2 ^ NumberBits ELSE m

(* New, and EmptyOutput: the one of PostingOutputManager is never allocated. *)
Zeroes(kind) == [i \in 1 .. kind.size |-> 0]
EmptyOutput(kind) == IF kind.kind = "posting" THEN NilOutput ELSE Zeroes(kind)

(* A mutant: the first number decides. *)
IsNoOutputFirst(out) == out[1] = 0

(* IsNoOutput, of an output that is not nil *)
IsNoOutput(out) == \A i \in DOMAIN out : out[i] = 0

(* Common, Sub and Add; Sub and Add give an error for nil. *)
CommonOutput(a, b) == [i \in DOMAIN a |-> IF b[i] < a[i] THEN b[i] ELSE a[i]]
Subtract(kind, a, b) == [i \in DOMAIN a |-> Kept(kind, a[i] - b[i])]
Plus(kind, a, b) == [i \in DOMAIN a |-> Kept(kind, a[i] + b[i])]

(* Write and Read: WriteUvarint of uint64(n), and T of what ReadUvarint gives. *)
Encoded(out) == [i \in DOMAIN out |-> out[i] % 2 ^ LongBits]
Decoded(kind, numbers) == [i \in DOMAIN numbers |-> Kept(kind, numbers[i])]

--------------------------------------------------------------------------------
ArcsOf(word) == {SubSeq(word, 1, n) : n \in 1 .. Len(word)}
AllArcs(f) == UNION {ArcsOf(w) : w \in DOMAIN f.words}
Shared(f, word) == Len(LongestCommonPrefix({f.last, word}))

(* PrependOutput: all arcs of a node, and the node's own output if a word ends there. *)
PrependOutput(f, node, prefix) ==
    LET arcs == {a \in DOMAIN f.out : Front(a) = node}
        finals == {node} \cap DOMAIN f.final
    IN  IF (\E a \in arcs : f.out[a] = NilOutput) \/ (\E w \in finals : f.final[w] = NilOutput)
        THEN [f EXCEPT !.pc = "error"]
        ELSE [f EXCEPT !.out = [a \in DOMAIN @ |-> IF a \in arcs THEN Plus(f.kind, prefix, @[a]) ELSE @[a]],
                       !.final = [w \in DOMAIN @ |-> IF w \in finals THEN Plus(f.kind, prefix, @[w]) ELSE @[w]]]

(* Add of Builder: outputs are pushed forward along the arcs n.. of the shared prefix. *)
RECURSIVE PushOutput(_, _, _, _)
PushOutput(f, word, n, output) ==
    LET arc == SubSeq(word, 1, n)
        last == f.out[arc]
        common == CommonOutput(output, last)
        pushed == PrependOutput([f EXCEPT !.out[arc] = common], arc, Subtract(f.kind, last, common))
    IN  IF n > Shared(f, word) THEN [f EXCEPT !.out[arc] = output]
        ELSE IF NilOutput \in {last, output} THEN [f EXCEPT !.pc = "panic"]
        ELSE IF IsNoOutput(last) THEN [f EXCEPT !.pc = "error"]
        ELSE IF pushed.pc = "error" THEN pushed
        ELSE PushOutput(pushed, word, n + 1, Subtract(f.kind, output, common))

--------------------------------------------------------------------------------
OutputsInit ==
    \E kind \in OutputKinds :
        fo = [pc |-> "adding", kind |-> kind, last |-> <<>>, words |-> <<>>, out |-> <<>>, final |-> <<>>]

(* AddArc for what the word does not share, and the pushing of outputs. *)
AddWord ==
    /\ fo.pc = "adding" /\ Cardinality(DOMAIN fo.words) < MaxOutputWords
    /\ \E word \in OutputWords, output \in fo.kind.outputs :
        /\ \E n \in DOMAIN word : Shared(fo, word) = n - 1 /\ (n \in DOMAIN fo.last => fo.last[n] < word[n])
        /\ LET new == ArcsOf(word) \ AllArcs(fo)
               none == EmptyOutput(fo.kind)
               f == [fo EXCEPT !.last = word,
                               !.words = [w \in DOMAIN @ \cup {word} |-> IF w = word THEN output ELSE @[w]],
                               !.out = [a \in DOMAIN @ \cup new |-> IF a \in new THEN none ELSE @[a]],
                               !.final = [w \in DOMAIN @ \cup {word} |-> IF w = word THEN none ELSE @[w]]]
               given == IF IsNoOutput(output) THEN none ELSE output
               pushed == PushOutput([f EXCEPT !.last = fo.last], word, 1, given)
           IN  fo' = [pushed EXCEPT !.last = word]

(* AddNode for every node: the outputs that are not empty are written, and what *)
(* readArc gives for the others is the empty output.                            *)
Frozen(f, out) == IF IsNoOutput(out) THEN EmptyOutput(f.kind) ELSE Decoded(f.kind, Encoded(out))

(* AddNode asks every output whether it is empty, nil ones too. Nodes that no   *)
(* later word changes are frozen as words are added; here all are at the end.   *)
FreezeOutputs ==
    /\ fo.pc = "adding" /\ fo.words # <<>>
    /\ LET outs == {fo.out[a] : a \in DOMAIN fo.out} \cup {fo.final[w] : w \in DOMAIN fo.final}
       IN  fo' = IF NilOutput \in outs THEN [fo EXCEPT !.pc = "panic"]
                 ELSE [fo EXCEPT !.pc = "frozen",
                                 !.out = [a \in DOMAIN @ |-> Frozen(fo, @[a])],
                                 !.final = [w \in DOMAIN @ |-> Frozen(fo, @[w])]]

OutputsNext == AddWord \/ FreezeOutputs

(* What a reader adds up on the way to the end of a word. *)
OutputOf(f, word) ==
    Plus(f.kind, f.final[word],
        FoldLeft(LAMBDA sum, n : Plus(f.kind, sum, f.out[SubSeq(word, 1, n)]), Zeroes(f.kind), [i \in DOMAIN word |-> i]))

--------------------------------------------------------------------------------
(* Wherever the outputs of words that share arcs were pushed, whatever wrapped *)
(* around on the way, and although empty ones are not written, every word      *)
(* reads back with the output it was added with (Builder.Add, AddNode).        *)
WordsKeepOutputs == fo.pc = "frozen" => \A w \in DOMAIN fo.words : OutputOf(fo, w) = fo.words[w]

(* An FST of every kind of output can be frozen; one of PostingOutputs, the    *)
(* term index of the text codec, cannot: its empty output is nil.              *)
EveryKindFreezes == fo.pc # "panic"

(* A frozen node is read back arc by arc, its labels are found, and the words *)
(* come back with their outputs.                                              *)
NodesReadBack == ArcIsRight /\ FindIsExact /\ WordsKeepOutputs
================================================================================
