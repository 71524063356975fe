------------------------------- MODULE FSTBuilder -------------------------------
(* Builder, FST and NodeHash of core/util/fst: sorted words are added one by  *)
(* one; the part of the last word that the next one does not share is frozen, *)
(* equal frozen nodes are shared, and outputs are pushed towards the root.    *)
(*                                                                            *)
(* A frozen node is the sequence of its arcs and its place in nodes is its    *)
(* address; an arc whose target is the node frozen just before stores no      *)
(* address (BitTargetNext).  Pruning (minSuffixCount1 and 2) is off, as every *)
(* caller in the repository leaves it, and with it the counts it reads; the   *)
(* oversizing factor of direct addressing is zero, as NewBuilder leaves it,   *)
(* so fixed length nodes are binary search nodes.  Outputs are IntBox values. *)
(*                                                                            *)
(* Source: core/util/fst/builder.go, node.go, nodehash.go, fst.go.            *)
EXTENDS Integers, SequencesExt

CONSTANTS
    Words,           \* the words that may be added, sequences of naturals
    Outputs,         \* the values of the words, naturals
    MaxLength,       \* bound on the length of a word
    MaxWords,        \* bound on the number of words
    ShallowDepth,    \* FIXED_LENGTH_ARC_SHALLOW_DEPTH, 3 in the code
    ShallowNumArcs,  \* FIXED_LENGTH_ARC_SHALLOW_NUM_ARCS, 5 in the code
    DeepNumArcs      \* FIXED_LENGTH_ARC_DEEP_NUM_ARCS, 10 in the code

ASSUME FSTAssumption ==
    /\ \A word \in Words : Len(word) <= MaxLength /\ ToSet(word) \subseteq Nat
    /\ Outputs \subseteq Nat
    /\ {MaxLength, MaxWords, ShallowDepth, ShallowNumArcs, DeepNumArcs} \subseteq Nat

VARIABLES
    frontier,        \* frontier[d]: the unfrozen node at depth d
    lastInput,
    nodes,           \* the frozen nodes
    lastFrozenNode,
    emptyOutput,     \* FST.emptyOutput
    hasEmptyOutput,
    startNode,
    phase,           \* "building", "failed", "built", or "nothing" from Finish
    added            \* the words added and their outputs

builderVars == <<frontier, lastInput, nodes, lastFrozenNode, emptyOutput,
                 hasEmptyOutput, startNode, phase, added>>

NoOutput == 0
FINAL_END_NODE == -1
NON_FINAL_END_NODE == 0
TargetNext == -2     \* no address stored: BitTargetNext

UnCompiledNode == [arcs |-> <<>>, isFinal |-> FALSE, output |-> NoOutput]

(* AddArc: the target, still on the frontier, is filled in by ReplaceLast. *)
PendingArc(label) ==
    [label |-> label, target |-> NON_FINAL_END_NODE, isFinal |-> FALSE,
     output |-> NoOutput, nextFinalOutput |-> NoOutput]

SetLastArc(node, arc) == [node EXCEPT !.arcs = Append(Front(@), arc)]

-----------------------------------------------------------------------------
(* shouldExpandNodeWithFixedLengthArcs *)
FixedLength(node, depth) ==
    \/ Len(node.arcs) >= DeepNumArcs
    \/ depth <= ShallowDepth /\ Len(node.arcs) >= ShallowNumArcs

(* readArc: the address an arc of the frozen node at address a leads to. *)
ReadTarget(frozen, a, i) ==
    LET arc == frozen[a].arcs[i]
    IN  IF arc.target = TargetNext THEN a - 1 ELSE arc.target

(* nodesEqual: the arcs read back from address a are those of the node. *)
NodesEqualSingleton(frozen, node, a) ==
    /\ Len(node.arcs) = 1 /\ Len(frozen[a].arcs) = 1
    /\ \A i \in DOMAIN node.arcs :
         node.arcs[i] = [frozen[a].arcs[i] EXCEPT !.target = ReadTarget(frozen, a, i)]
NodesEqual(frozen, node, a) ==
    /\ Len(node.arcs) = Len(frozen[a].arcs)
    /\ \A i \in DOMAIN node.arcs :
         node.arcs[i] = [frozen[a].arcs[i] EXCEPT !.target = ReadTarget(frozen, a, i)]

(* AddNode: the arcs as they are serialized after the nodes frozen so far. *)
AddNode(b, node, depth) ==
    LET fixed == FixedLength(node, depth)
        Stored(arc) == IF ~fixed /\ arc.target > 0 /\ arc.target = b.lastFrozenNode
                       THEN [arc EXCEPT !.target = TargetNext] ELSE arc
    IN  Append(b.nodes, [fixed |-> fixed,
                         arcs |-> [i \in DOMAIN node.arcs |-> Stored(node.arcs[i])]])

(* compileNode, with NodeHash.Add: the address of an equal frozen node, or of *)
(* a new one.  b is the builder: its frontier, nodes and lastFrozenNode.      *)
CompileNodeForgetsLast(b, node, depth) ==
    LET same == {a \in DOMAIN b.nodes : NodesEqual(b.nodes, node, a)}
        next == Len(b.nodes) + 1
    IN  CASE node.arcs = <<>> ->
               [nodes |-> b.nodes, lastFrozenNode |-> b.lastFrozenNode,
                address |-> IF node.isFinal THEN FINAL_END_NODE ELSE NON_FINAL_END_NODE]
          [] node.arcs # <<>> /\ same # {} ->
               [nodes |-> b.nodes, lastFrozenNode |-> CHOOSE a \in same : TRUE,
                address |-> CHOOSE a \in same : TRUE]
          [] OTHER ->
               [nodes |-> AddNode(b, node, depth), lastFrozenNode |-> next, address |-> next]
CompileNode(b, node, depth) ==
    LET same == {a \in DOMAIN b.nodes : NodesEqual(b.nodes, node, a)}
        end == IF node.isFinal THEN FINAL_END_NODE ELSE NON_FINAL_END_NODE
        next == Len(b.nodes) + 1
    IN  CASE node.arcs = <<>> ->
               [nodes |-> b.nodes, lastFrozenNode |-> end, address |-> end]
          [] node.arcs # <<>> /\ same # {} ->
               [nodes |-> b.nodes, lastFrozenNode |-> b.lastFrozenNode,
                address |-> CHOOSE a \in same : TRUE]
          [] OTHER ->
               [nodes |-> AddNode(b, node, depth), lastFrozenNode |-> next, address |-> next]

(* freezeTail, one depth: the node is compiled and cleared, and the last arc  *)
(* of its parent gets the address, the final output and finality.             *)
Freeze(b, depth) ==
    LET node == b.frontier[depth]
        parent == b.frontier[depth - 1]
        compiled == CompileNode(b, node, depth)
        arc == [Last(parent.arcs) EXCEPT
                  !.target = compiled.address,
                  !.nextFinalOutput = node.output,
                  !.isFinal = node.isFinal \/ node.arcs = <<>>]
    IN  [frontier |-> [b.frontier EXCEPT ![depth] = UnCompiledNode,
                                         ![depth - 1] = SetLastArc(parent, arc)],
         nodes |-> compiled.nodes, lastFrozenNode |-> compiled.lastFrozenNode]

FreezeTail(prefixLenPlus1) ==
    LET downTo == IF prefixLenPlus1 > 1 THEN prefixLenPlus1 ELSE 1
        depths == [k \in 1..(Len(lastInput) + 1 - downTo) |-> Len(lastInput) + 1 - k]
    IN  FoldLeft(Freeze,
                 [frontier |-> frontier, nodes |-> nodes, lastFrozenNode |-> lastFrozenNode],
                 depths)

-----------------------------------------------------------------------------
(* PrependOutput *)
PrependOutput(node, prefix) ==
    [node EXCEPT !.arcs = [i \in DOMAIN @ |-> [@[i] EXCEPT !.output = prefix + @]],
                 !.output = IF node.isFinal THEN prefix + @ ELSE @]

(* The loop of AddInts that pushes the conflicting output of a shared arc     *)
(* forward, one depth.  The output of an arc that has none gives no common    *)
(* prefix, and Sub of nil is an error.                                        *)
PushOutput(s, depth) ==
    LET parent == s.frontier[depth - 1]
        lastOutput == Last(parent.arcs).output
        common == IF s.output < lastOutput THEN s.output ELSE lastOutput
        arc == [Last(parent.arcs) EXCEPT !.output = common]
        node == PrependOutput(s.frontier[depth], lastOutput - common)
    IN  IF s.error \/ lastOutput = NoOutput
        THEN [s EXCEPT !.error = TRUE]
        ELSE [frontier |-> [s.frontier EXCEPT ![depth - 1] = SetLastArc(parent, arc),
                                              ![depth] = node],
              output |-> s.output - common, error |-> FALSE]

(* Words in the order of IntsRef.compareTo. *)
Before(u, v) ==
    LET n == Len(LongestCommonPrefix({u, v}))
    IN  Len(v) > n /\ (Len(u) > n => u[n + 1] < v[n + 1])

(* AddInts of the empty input, "only allowed as first input". *)
AddEmpty(output) ==
    /\ phase = "building" /\ ~hasEmptyOutput /\ lastInput = <<>>
    /\ frontier' = [frontier EXCEPT ![0].isFinal = TRUE]
    /\ emptyOutput' = output /\ hasEmptyOutput' = TRUE
    /\ added' = added \cup {[input |-> <<>>, output |-> output]}
    /\ UNCHANGED <<lastInput, nodes, lastFrozenNode, startNode, phase>>

(* AddInts of an input after the last one.  The caller gives up on an error.  *)
AddInts(input, output) ==
    LET n == Len(LongestCommonPrefix({lastInput, input}))
        frozen == FreezeTail(n + 1)
        tail == [d \in 0..MaxLength |->
                   LET node == frozen.frontier[d] IN
                   CASE d = Len(input) -> [node EXCEPT !.isFinal = TRUE, !.output = NoOutput]
                     [] n <= d /\ d < Len(input) -> [node EXCEPT !.arcs = Append(@, PendingArc(input[d + 1]))]
                     [] OTHER -> node]
        pushed == FoldLeft(PushOutput,
                           [frontier |-> tail, output |-> output, error |-> FALSE],
                           [d \in 1..n |-> d])
        arc == [Last(pushed.frontier[n].arcs) EXCEPT !.output = pushed.output]
    IN  /\ phase = "building" /\ Len(input) > 0 /\ Before(lastInput, input)
        /\ nodes' = frozen.nodes
        /\ lastFrozenNode' = frozen.lastFrozenNode
        /\ IF pushed.error
           THEN /\ phase' = "failed"
                /\ UNCHANGED <<frontier, lastInput, added>>
           ELSE /\ frontier' = [pushed.frontier EXCEPT ![n] = SetLastArc(@, arc)]
                /\ lastInput' = input
                /\ added' = added \cup {[input |-> input, output |-> output]}
                /\ UNCHANGED phase
        /\ UNCHANGED <<emptyOutput, hasEmptyOutput, startNode>>

(* Builder.Finish and FST.Finish: nil when the root has no arcs and there is  *)
(* no output for the empty word.                                              *)
Finish ==
    LET frozen == FreezeTail(0)
        root == frozen.frontier[0]
        compiled == CompileNode(frozen, root, 0)
    IN  /\ phase = "building"
        /\ IF root.arcs = <<>> /\ emptyOutput = NoOutput
           THEN phase' = "nothing" /\ UNCHANGED <<frontier, nodes, lastFrozenNode, startNode>>
           ELSE /\ phase' = "built"
                /\ frontier' = [frozen.frontier EXCEPT ![0] = UnCompiledNode]
                /\ nodes' = compiled.nodes
                /\ lastFrozenNode' = compiled.lastFrozenNode
                /\ startNode' = IF compiled.address = FINAL_END_NODE /\ emptyOutput # NoOutput
                                THEN 0 ELSE compiled.address
        /\ UNCHANGED <<lastInput, emptyOutput, hasEmptyOutput, added>>

BuilderInit ==
    /\ frontier = [d \in 0..MaxLength |-> UnCompiledNode]
    /\ lastInput = <<>> /\ nodes = <<>> /\ lastFrozenNode = 0
    /\ emptyOutput = NoOutput /\ hasEmptyOutput = FALSE
    /\ startNode = -1 /\ phase = "building" /\ added = {}

BuilderNext ==
    \/ /\ Cardinality(added) < MaxWords
       /\ \E output \in Outputs :
            \/ AddEmpty(output)
            \/ \E input \in Words : AddInts(input, output)
    \/ Finish

BuilderSpec == BuilderInit /\ [][BuilderNext]_builderVars

-----------------------------------------------------------------------------
(* The variables are well typed: targets are addresses of nodes frozen        *)
(* before, so the automaton is acyclic, and the frontier beyond the last word *)
(* is clear.                                                                  *)
BuilderTypeOK ==
    /\ lastInput \in Words \cup {<<>>} /\ startNode \in -1..Len(nodes)
    /\ phase \in {"building", "failed", "built", "nothing"}
    /\ \A a \in DOMAIN nodes : \A i \in DOMAIN nodes[a].arcs :
         /\ nodes[a].arcs[i].label \in Nat
         /\ ReadTarget(nodes, a, i) \in -1..(a - 1)
    /\ \A d \in DOMAIN frontier : d > Len(lastInput) => frontier[d] = UnCompiledNode

(* The words a frozen node accepts below it, with their outputs. *)
RECURSIVE WordsFrom(_)
WordsFrom(a) ==
    UNION {LET arc == nodes[a].arcs[i]
               target == ReadTarget(nodes, a, i)
               below == IF target > 0 THEN WordsFrom(target) ELSE {}
               ends == IF arc.isFinal THEN {[input |-> <<>>, output |-> arc.nextFinalOutput]} ELSE {}
           IN  {[input |-> <<arc.label>> \o w.input, output |-> arc.output + w.output]
                  : w \in below \cup ends}
           : i \in DOMAIN nodes[a].arcs}

(* The words given to the builder; one for the empty word with no output is   *)
(* the same to the FST as none.                                               *)
Given == {w \in added : w.input # <<>> \/ w.output # NoOutput}

(* "Maps a term to an arbitrary output": the finished automaton accepts the   *)
(* words that were added and no other, each with its output, through all      *)
(* sharing of suffixes and pushing of outputs.                                *)
AcceptsTheWords ==
    phase = "built" =>
        Given = (IF startNode > 0 THEN WordsFrom(startNode) ELSE {})
                \cup (IF emptyOutput # NoOutput THEN {[input |-> <<>>, output |-> emptyOutput]} ELSE {})

(* "Builds a minimal FST": no two frozen nodes accept the same words with the *)
(* same outputs.                                                              *)
Minimal == \A a, b \in DOMAIN nodes : WordsFrom(a) = WordsFrom(b) => a = b

(* "The provided input must be sorted after the previous one": such an input  *)
(* is accepted.                                                               *)
SortedInputAccepted == phase # "failed"

(* "This will return null if nothing is accepted by the FST": Finish returns  *)
(* an FST whenever a word was added.                                          *)
FinishReturnsWords == phase = "nothing" => added = {}

(* What Builder.Add and Finish make of the words is right and minimal: the    *)
(* words with their outputs and no others, and no node twice.                 *)
FSTIsExactAndMinimal == AcceptsTheWords /\ Minimal
================================================================================
