----------------------------- MODULE PriorityQueue -----------------------------
(* structure.PriorityQueue of core/util/structure: a binary heap in an array  *)
(* that starts at 1, of fixed capacity, whose top is its least element.       *)
(*                                                                            *)
(* A queue is a record of the array, of the number of elements and of the     *)
(* capacity; the operators return the queue a method leaves behind.           *)
(*                                                                            *)
(* Source: core/util/structure/priority_queue.go.                             *)
EXTENDS Integers, Sequences

CONSTANTS
    LessThan(_, _),   \* the lessThan function given to the constructor
    None              \* the zero value of the element type

Larger(a, b) == IF a > b THEN a ELSE b

(* NewPriorityQueueV1 with a supplier of fill; capacities below 2 become 2. *)
NewPriorityQueue(maxSize, fill) ==
    [heap |-> [i \in 1 .. Larger(2, maxSize) |-> fill], size |-> 0,
     maxSize |-> Larger(2, maxSize)]

SetSize(q, size) == [q EXCEPT !.size = size]
Top(q) == q.heap[1]

(* upHeap: the node at pos moves towards the root past every larger parent. *)
UpHeap(q, pos) ==
    LET node == q.heap[pos]
        Rises(i) == i > 1 /\ LessThan(node, q.heap[i \div 2])
        path[i \in 1 .. pos] == {i} \cup IF Rises(i) THEN path[i \div 2] ELSE {}
    IN  [q EXCEPT !.heap = [i \in DOMAIN @ |->
            IF i \notin path[pos] THEN @[i]
            ELSE IF Rises(i) THEN @[i \div 2] ELSE node]]

(* A mutant: the right child is never considered. *)
DownHeapLeft(q, pos) ==
    LET node == q.heap[pos]
        Sinks(i) == 2 * i <= q.size /\ LessThan(q.heap[2 * i], node)
        path[i \in 1 .. q.maxSize] == {i} \cup IF Sinks(i) THEN path[2 * i] ELSE {}
    IN  [q EXCEPT !.heap = [i \in DOMAIN @ |->
            IF i \notin path[pos] THEN @[i]
            ELSE IF Sinks(i) THEN @[2 * i] ELSE node]]

(* downHeap: the node at pos moves away from the root past the lesser child. *)
DownHeap(q, pos) ==
    LET node == q.heap[pos]
        Child(i) == IF 2 * i + 1 <= q.size /\ LessThan(q.heap[2 * i + 1], q.heap[2 * i])
                    THEN 2 * i + 1 ELSE 2 * i
        Sinks(i) == Child(i) <= q.size /\ LessThan(q.heap[Child(i)], node)
        path[i \in 1 .. q.maxSize] == {i} \cup IF Sinks(i) THEN path[Child(i)] ELSE {}
    IN  [q EXCEPT !.heap = [i \in DOMAIN @ |->
            IF i \notin path[pos] THEN @[i]
            ELSE IF Sinks(i) THEN @[Child(i)] ELSE node]]

Add(q, element) ==
    UpHeap([q EXCEPT !.heap[q.size + 1] = element, !.size = @ + 1], q.size + 1)

(* UpdateTop after the element on top changed to newTop. *)
UpdateTop(q, newTop) == DownHeap([q EXCEPT !.heap[1] = newTop], 1)

Popped(q) ==
    DownHeap([q EXCEPT !.heap[1] = q.heap[q.size], !.heap[q.size] = None,
                       !.size = @ - 1], 1)

(* A mutant: a full queue takes the elements that are less than its top. *)
InsertLesser(q, element) ==
    IF q.size < q.maxSize THEN [queue |-> Add(q, element), dropped |-> None]
    ELSE IF LessThan(element, Top(q))
    THEN [queue |-> UpdateTop(q, element), dropped |-> Top(q)]
    ELSE [queue |-> q, dropped |-> element]

(* InsertWithOverflow: the queue, and the element that found no place. *)
InsertWithOverflow(q, element) ==
    IF q.size < q.maxSize THEN [queue |-> Add(q, element), dropped |-> None]
    ELSE IF ~LessThan(element, Top(q))
    THEN [queue |-> UpdateTop(q, element), dropped |-> Top(q)]
    ELSE [queue |-> q, dropped |-> element]

(* Remove of the element at position i; upHeap says whether it moved. *)
RemoveAt(q, i) ==
    LET moved == [q EXCEPT !.heap[i] = q.heap[q.size], !.heap[q.size] = None,
                           !.size = @ - 1]
    IN  IF i > moved.size THEN moved
        ELSE IF UpHeap(moved, i) # moved THEN UpHeap(moved, i) ELSE DownHeap(moved, i)

Clear(q) ==
    [q EXCEPT !.heap = [i \in DOMAIN @ |-> IF i <= q.size THEN None ELSE @[i]],
              !.size = 0]

Elements(q) == [i \in 1 .. q.size |-> q.heap[i]]
================================================================================
