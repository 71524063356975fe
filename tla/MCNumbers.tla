------------------------------- MODULE MCNumbers -------------------------------
(* How numbers and points are stored: packed arrays, blocks and pages of long  *)
(* values, paged arrays, and the selectors, sorters and trees of points. One   *)
(* of them runs in a behaviour; the others stay as they are.                   *)
EXTENDS PackedArrays, LongValues, BKDTree

(* Every width in a short array, and the widths that cross words or have loops of *)
(* their own in arrays longer than an iteration.                                  *)
SomeShapes == ({2} \X (1 .. 64)) \cup ({5, 66} \X {3, 8, 21, 24, 37})
SomeLongs == {-8, -3, 0, 1, 6, 7}

SomeKeys == {<<0, 0>>, <<0, 1>>, <<1, 0>>}
SomeSortKeys == {<<>>, <<0>>, <<1>>, <<0, 0>>, <<0, 1>>}

Config(dims, indexDims, bytes, maxLeaf, heap) ==
    [dims |-> dims, indexDims |-> indexDims, bytes |-> bytes, maxLeaf |-> maxLeaf,
     maxPointsSortInHeap |-> heap]
Tree(form, c, values) == [form |-> form, c |-> c, values |-> values]
OneDim == {<<0, 0>>, <<0, 1>>, <<1, 0>>, <<2, 1>>}
TwoDims == {<<0, 0, 0, 0>>, <<0, 1, 0, 2>>, <<0, 1, 1, 0>>, <<2, 0, 0, 1>>}
DataDim == {<<0, 1>>, <<1, 0>>, <<1, 1>>, <<2, 0>>}

(* Leaves of one, two and three points; the third points of the last trees no *)
(* longer fit in memory.                                                      *)
SomeTrees ==
    {Tree("binary", Config(1, 1, 2, 2, 9), OneDim), Tree("binary", Config(1, 1, 2, 1, 9), OneDim),
     Tree("binary", Config(2, 2, 2, 2, 9), TwoDims), Tree("binary", Config(2, 2, 2, 3, 9), TwoDims),
     Tree("text", Config(2, 2, 2, 2, 9), TwoDims),
     Tree("text", Config(2, 1, 1, 2, 9), DataDim),
     Tree("binary", Config(1, 1, 2, 2, 2), OneDim \ {<<1, 0>>}), Tree("text", Config(2, 1, 1, 2, 2), {<<0, 1>>})}

Flat(n, b) == [i \in 1 .. n |-> b]
SomeRanges(c) ==
    LET n == PackedIndexBytesLength(c)
    IN  {[lower |-> Flat(n, 0), upper |-> Flat(n, 2)],
         [lower |-> [Flat(n, 0) EXCEPT ![c.bytes] = 1], upper |-> [Flat(n, 2) EXCEPT ![1] = 1]],
         [lower |-> [Flat(n, 0) EXCEPT ![1] = 1], upper |-> [Flat(n, 2) EXCEPT ![n] = 1]]}

vars == <<arrayVars, longVars, pagedVars, sel, bkd>>

ArrayOff ==
    /\ mutable = NewMutable("packed64", 9, 0)
    /\ growMask = NotGrowable
    /\ expected = <<>>
    /\ arrayRatio = 0
    /\ stream = NoStream
    /\ arraySteps = MaxArraySteps
LongOff ==
    /\ codec = "off"
    /\ added = <<>>
    /\ buffer = <<>>
    /\ blocks = <<>>
    /\ finished = FALSE
    /\ iterator = NewIterator
PagedOff ==
    /\ pages = <<>>
    /\ pagedSize = 0
    /\ content = <<>>
    /\ ragged = FALSE
    /\ pagedSteps = MaxPagedSteps
SelectorOff == sel = [pc |-> "off"]
TreeOff == bkd = [pc |-> "off"]

Init ==
    \/ ArrayInit /\ LongOff /\ PagedOff /\ SelectorOff /\ TreeOff
    \/ ArrayOff /\ LongInit /\ PagedOff /\ SelectorOff /\ TreeOff
    \/ ArrayOff /\ LongOff /\ PagedInit /\ SelectorOff /\ TreeOff
    \/ ArrayOff /\ LongOff /\ PagedOff /\ SelectorInit /\ TreeOff
    \/ ArrayOff /\ LongOff /\ PagedOff /\ SelectorOff /\ TreeInit
Next ==
    \/ mutable.count > 0 /\ ArrayNext /\ UNCHANGED <<longVars, pagedVars, sel, bkd>>
    \/ codec # "off" /\ LongNext /\ UNCHANGED <<arrayVars, pagedVars, sel, bkd>>
    \/ pagedSize > 0 /\ PagedNext /\ UNCHANGED <<arrayVars, longVars, sel, bkd>>
    \/ SelectorNext /\ UNCHANGED <<arrayVars, longVars, pagedVars, bkd>>
    \/ TreeNext /\ UNCHANGED <<arrayVars, longVars, pagedVars, sel>>
Spec == Init /\ [][Next]_vars
================================================================================
