-------------------------------- MODULE FSTEnum --------------------------------
(* Enum of core/util/fst: a cursor over the words of a finished FST, moved by *)
(* Next, SeekCeil, SeekFloor and SeekExact in any order.                      *)
(*                                                                            *)
(* The cursor is the path of arcs 1..upto; current labels and cumulative      *)
(* outputs of the code are the labels and the sums of outputs along it.       *)
(*                                                                            *)
(* Source: core/util/fst/enum.go, utils.go, fst.go, fst_utils.go.             *)
EXTENDS FSTBuilder

CONSTANT
    Targets          \* the words that are sought

ASSUME TargetsAssumption == \A word \in Targets : Len(word) <= MaxLength /\ ToSet(word) \subseteq Nat

VARIABLES
    path,            \* enum.arcs[1..upto]
    last             \* the last call: its name, its target and its result

enumVars == <<path, last>>

END_LABEL == -1
NoResult == [input |-> <<>>, output |-> -1]

(* readArc: arc i, from 0, of the frozen node at address a. *)
ReadArc(a, i) ==
    LET arc == nodes[a].arcs[i + 1]
    IN  [label |-> arc.label, output |-> arc.output, target |-> ReadTarget(nodes, a, i + 1),
         isFinal |-> arc.isFinal, nextFinalOutput |-> arc.nextFinalOutput,
         isLast |-> i + 1 = Len(nodes[a].arcs), node |-> a, arcIdx |-> i]

(* GetFirstArc: the virtual arc to the start node. *)
FirstArc ==
    [label |-> 0, output |-> NoOutput, target |-> startNode,
     isFinal |-> emptyOutput # NoOutput, nextFinalOutput |-> emptyOutput,
     isLast |-> TRUE, node |-> 0, arcIdx |-> 0]

(* The inserted arc that ends a word; the arcs of its node come after it. *)
EndArc(follow) ==
    [label |-> END_LABEL, output |-> follow.nextFinalOutput, target |-> FINAL_END_NODE,
     isFinal |-> TRUE, nextFinalOutput |-> NoOutput,
     isLast |-> follow.target <= 0, node |-> follow.target, arcIdx |-> 0]

ReadFirstTargetArc(follow) ==
    IF follow.isFinal THEN EndArc(follow) ELSE ReadArc(follow.target, 0)

ReadNextArc(arc) ==
    IF arc.label = END_LABEL THEN ReadArc(arc.node, 0) ELSE ReadArc(arc.node, arc.arcIdx + 1)

(* readLastTargetArc *)
ReadLastTargetArc(follow) ==
    IF follow.target <= 0 THEN EndArc(follow)
    ELSE ReadArc(follow.target, Len(nodes[follow.target].arcs) - 1)

(* The arc belongs to a node with fixed length arcs. *)
Packed(arc) == arc.label # END_LABEL /\ nodes[arc.node].fixed

(* binarySearch: the index of the label, or -1 - low. *)
RECURSIVE BinarySearch(_, _, _, _)
BinarySearch(a, low, high, label) ==
    LET mid == (low + high) \div 2
        midLabel == nodes[a].arcs[mid + 1].label
    IN  CASE low > high -> -1 - low
          [] low <= high /\ midLabel = label -> mid
          [] low <= high /\ midLabel < label -> BinarySearch(a, mid + 1, high, label)
          [] OTHER -> BinarySearch(a, low, mid - 1, label)

SearchMissesLast(arc, label) ==
    BinarySearch(arc.node, arc.arcIdx, Len(nodes[arc.node].arcs) - 2, label)
Search(arc, label) ==
    BinarySearch(arc.node, arc.arcIdx, Len(nodes[arc.node].arcs) - 1, label)

(* The linear scan of FindTargetArc, from arc. *)
RECURSIVE ScanFor(_, _)
ScanFor(arc, label) ==
    CASE arc.label = label -> {arc}
      [] arc.label > label \/ (arc.label < label /\ arc.isLast) -> {}
      [] OTHER -> ScanFor(ReadNextArc(arc), label)

(* FindTargetArc: the arc with that label, if there is one. *)
FindTargetArc(label, follow) ==
    LET first == ReadArc(follow.target, 0)
        idx == Search(first, label)
    IN  CASE label = END_LABEL -> IF follow.isFinal THEN {EndArc(follow)} ELSE {}
          [] label # END_LABEL /\ follow.target <= 0 -> {}
          [] label # END_LABEL /\ follow.target > 0 /\ Packed(first) ->
               IF idx >= 0 THEN {ReadArc(follow.target, idx)} ELSE {}
          [] OTHER -> ScanFor(first, label)

-----------------------------------------------------------------------------
Follow(p) == IF p = <<>> THEN FirstArc ELSE Last(p)

(* setResult *)
Term(p) == [i \in 1..(Len(p) - 1) |-> p[i].label]
Result(p) ==
    IF p = <<>> THEN NoResult
    ELSE [input |-> Term(p), output |-> FoldLeft(LAMBDA sum, arc : sum + arc.output, NoOutput, p)]

GetTargetLabel(target, upto) == IF upto - 1 = Len(target) THEN END_LABEL ELSE target[upto]

(* rewindPrefix: back to the prefix the current word shares with the target.  *)
(* The arc there goes back to the first of its node when its label is beyond  *)
(* the target's, but not when the target ends there.                          *)
RewindPrefixKeepsArc(p, target) ==
    LET opened == IF p = <<>> THEN <<ReadFirstTargetArc(FirstArc)>> ELSE p
        upto == 1 + Len(LongestCommonPrefix({Term(opened), target}))
    IN  SubSeq(opened, 1, upto)
RewindPrefix(p, target) ==
    LET opened == IF p = <<>> THEN <<ReadFirstTargetArc(FirstArc)>> ELSE p
        upto == 1 + Len(LongestCommonPrefix({Term(opened), target}))
        shared == SubSeq(opened, 1, upto - 1)
    IN  IF upto < Len(opened) /\ upto < Len(target) + 1 /\ opened[upto].label > target[upto]
        THEN Append(shared, ReadFirstTargetArc(Follow(shared)))
        ELSE SubSeq(opened, 1, upto)

(* pushFirst and pushLast: on to the first, or the last, word below. *)
RECURSIVE PushFirst(_)
PushFirst(p) ==
    IF Last(p).label = END_LABEL THEN p ELSE PushFirst(Append(p, ReadFirstTargetArc(Last(p))))

RECURSIVE PushLast(_)
PushLast(p) ==
    IF Last(p).label = END_LABEL THEN p ELSE PushLast(Append(p, ReadLastTargetArc(Last(p))))

(* Pop to the last arc that has a next one, move to that, and push first. *)
NextForkPushesLast(p) ==
    IF p = <<>> \/ Last(p).isLast THEN <<>> ELSE PushLast(Append(Front(p), ReadNextArc(Last(p))))
RECURSIVE NextFork(_)
NextFork(p) ==
    CASE p = <<>> -> p
      [] p # <<>> /\ Last(p).isLast -> NextFork(Front(p))
      [] OTHER -> PushFirst(Append(Front(p), ReadNextArc(Last(p))))

DoNext(p) == IF p = <<>> THEN PushFirst(<<ReadFirstTargetArc(FirstArc)>>) ELSE NextFork(p)

(* The loop of DoSeekCeil: doSeekCeilList and doSeekCeilArrayPacked. *)
RECURSIVE SeekCeilFrom(_, _)
SeekCeilFrom(p, target) ==
    LET arc == Last(p)
        label == GetTargetLabel(target, Len(p))
        idx == Search(arc, label)
        At(a) == Append(Front(p), a)
        Match(a) == IF label = END_LABEL THEN At(a)
                    ELSE SeekCeilFrom(Append(At(a), ReadFirstTargetArc(a)), target)
    IN  IF Packed(arc)
        THEN CASE idx >= 0 -> Match(ReadArc(arc.node, idx))
               [] idx = -1 - Len(nodes[arc.node].arcs) -> NextFork(Front(p))
               [] OTHER -> PushFirst(At(ReadArc(arc.node, -1 - idx)))
        ELSE CASE arc.label = label -> Match(arc)
               [] arc.label > label -> PushFirst(p)
               [] arc.label < label /\ arc.isLast -> NextFork(Front(p))
               [] OTHER -> SeekCeilFrom(At(ReadNextArc(arc)), target)

DoSeekCeil(p, target) == SeekCeilFrom(RewindPrefix(p, target), target)

(* Forward to the last arc of the node whose label is before the target's. *)
RECURSIVE ScanToFloor(_, _)
ScanToFloor(arc, label) ==
    IF ~arc.isLast /\ ReadNextArc(arc).label < label
    THEN ScanToFloor(ReadNextArc(arc), label)
    ELSE arc

(* findNextFloorArcBinarySearch, from the first arc of the node. *)
FindNextFloorArcAtLabel(arc, label) ==
    LET idx == Search(arc, label)
    IN  CASE idx > 1 -> ReadArc(arc.node, idx)
          [] idx < -2 -> ReadArc(arc.node, -2 - idx)
          [] OTHER -> arc
FindNextFloorArc(arc, label) ==
    LET idx == Search(arc, label)
    IN  CASE idx > 1 -> ReadArc(arc.node, idx - 1)
          [] idx < -2 -> ReadArc(arc.node, -2 - idx)
          [] OTHER -> arc

(* backtrackToFloorArc, and the same loop in doSeekFloorList, which scans. *)
RECURSIVE BacktrackToFloorArc(_, _, _)
BacktrackToFloorArc(p, target, scans) ==
    LET label == GetTargetLabel(target, Len(p))
        first == ReadFirstTargetArc(Follow(Front(p)))
        floor == IF Packed(first) /\ ~first.isLast /\ ~scans
                 THEN FindNextFloorArc(first, label) ELSE ScanToFloor(first, label)
    IN  CASE p = <<>> -> p
          [] p # <<>> /\ first.label < label -> PushLast(Append(Front(p), floor))
          [] OTHER -> BacktrackToFloorArc(Front(p), target, scans)

(* The loop of DoSeekFloor: doSeekFloorList and doSeekFloorArrayPacked. *)
RECURSIVE SeekFloorFrom(_, _)
SeekFloorFrom(p, target) ==
    LET arc == Last(p)
        label == GetTargetLabel(target, Len(p))
        idx == Search(arc, label)
        At(a) == Append(Front(p), a)
        Match(a) == IF label = END_LABEL THEN At(a)
                    ELSE SeekFloorFrom(Append(At(a), ReadFirstTargetArc(a)), target)
    IN  IF Packed(arc)
        THEN CASE idx >= 0 -> Match(ReadArc(arc.node, idx))
               [] idx = -1 -> BacktrackToFloorArc(p, target, FALSE)
               [] OTHER -> PushLast(At(ReadArc(arc.node, -2 - idx)))
        ELSE CASE arc.label = label -> Match(arc)
               [] arc.label > label -> BacktrackToFloorArc(p, target, TRUE)
               [] arc.label < label /\ (arc.isLast \/ ReadNextArc(arc).label > label) -> PushLast(p)
               [] OTHER -> SeekFloorFrom(At(ReadNextArc(arc)), target)

DoSeekFloor(p, target) == SeekFloorFrom(RewindPrefix(p, target), target)

(* The loop of DoSeekExact: p is the path so far, without the arc at upto.    *)
(* When the target is not found the path ends at the first arc there.         *)
RECURSIVE SeekExactFrom(_, _)
SeekExactFrom(p, target) ==
    LET label == GetTargetLabel(target, Len(p) + 1)
        found == FindTargetArc(label, Follow(p))
    IN  CASE found = {} -> [found |-> FALSE, path |-> Append(p, ReadFirstTargetArc(Follow(p)))]
          [] found # {} /\ label = END_LABEL -> [found |-> TRUE, path |-> p \o SetToSeq(found)]
          [] OTHER -> SeekExactFrom(p \o SetToSeq(found), target)

DoSeekExact(p, target) == SeekExactFrom(Front(RewindPrefix(p, target)), target)

-----------------------------------------------------------------------------
EnumInit == path = <<>> /\ last = [call |-> "NewEnum", target |-> <<>>, result |-> NoResult]

Called(call, target, p) ==
    /\ phase = "built"
    /\ path' = p
    /\ last' = [call |-> call, target |-> target, result |-> Result(p)]
    /\ UNCHANGED builderVars

Next == Called("Next", <<>>, DoNext(path))
SeekCeil(target) == Called("SeekCeil", target, DoSeekCeil(path, target))
SeekFloor(target) == Called("SeekFloor", target, DoSeekFloor(path, target))
SeekExact(target) ==
    LET s == DoSeekExact(path, target)
    IN  /\ phase = "built"
        /\ path' = s.path
        /\ last' = [call |-> "SeekExact", target |-> target,
                    result |-> IF s.found THEN Result(s.path) ELSE NoResult]
        /\ UNCHANGED builderVars

FSTInit == BuilderInit /\ EnumInit
FSTNext ==
    \/ BuilderNext /\ UNCHANGED enumVars
    \/ Next
    \/ \E target \in Targets : SeekCeil(target) \/ SeekFloor(target) \/ SeekExact(target)
FSTSpec == FSTInit /\ [][FSTNext]_<<builderVars, enumVars>>

-----------------------------------------------------------------------------
Least(S) == IF S = {} THEN NoResult ELSE CHOOSE w \in S : \A v \in S : ~Before(v.input, w.input)
Greatest(S) == IF S = {} THEN NoResult ELSE CHOOSE w \in S : \A v \in S : ~Before(w.input, v.input)

Exactly(target) == Least({w \in Given : w.input = target})
Ceiling(target) == Least({w \in Given : ~Before(w.input, target)})
Floor(target) == Greatest({w \in Given : ~Before(target, w.input)})
Successor(result) ==
    IF result = NoResult THEN Least(Given) ELSE Least({w \in Given : Before(result.input, w.input)})

(* The cursor is a path of the automaton: every arc leaves the node the arc   *)
(* before it leads to.                                                        *)
EnumTypeOK ==
    \A i \in DOMAIN path :
        LET follow == IF i = 1 THEN FirstArc ELSE path[i - 1] IN
        IF path[i].label = END_LABEL
        THEN path[i] = EndArc(follow)
        ELSE follow.target > 0 /\ path[i] = ReadArc(follow.target, path[i].arcIdx)

(* "Seeks to exactly this term, returning null if the term doesn't exist",    *)
(* wherever earlier calls, failed ones included, left the cursor.             *)
SeekExactIsExact ==
    last.call = "SeekExact" => last.result = Exactly(last.target)

(* Next returns the words in order: from where a call left the cursor, the    *)
(* word after the one that call returned, and the first one after the end.    *)
NextInOrder ==
    [][last'.call = "Next" /\ ~(last.call = "SeekExact" /\ last.result = NoResult)
         => last'.result = Successor(last.result)]_<<builderVars, enumVars>>

(* The cursor is on a word the target is a proper prefix of. *)
Inside(target) == IsStrictPrefix(target, IF path = <<>> THEN <<>> ELSE Term(path))

(* "Seeks to smallest term that's >= target", from every position of the      *)
(* cursor but inside the target.                                              *)
SeekCeilIsCeiling ==
    [][last'.call = "SeekCeil" /\ ~Inside(last'.target)
         => last'.result = Ceiling(last'.target)]_<<builderVars, enumVars>>

(* "Seeks to biggest term that's <= target", from every position of the       *)
(* cursor but inside the target.                                              *)
SeekFloorIsFloor ==
    [][last'.call = "SeekFloor" /\ ~Inside(last'.target)
         => last'.result = Floor(last'.target)]_<<builderVars, enumVars>>

(* "Seeks to smallest term that's >= target", from every position.            *)
SeekCeilAnywhere == last.call = "SeekCeil" => last.result = Ceiling(last.target)

(* The three seeks of Enum answer as they say from wherever earlier calls,    *)
(* failed ones included, left the cursor.                                     *)
SeeksAnswerRight == []SeekExactIsExact /\ SeekCeilIsCeiling /\ SeekFloorIsFloor
================================================================================
