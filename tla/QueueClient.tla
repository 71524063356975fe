------------------------------ MODULE QueueClient ------------------------------
(* A client of structure.PriorityQueue that calls its methods in any order,   *)
(* within its capacity, on elements some of which compare equal.              *)
(*                                                                            *)
(* Source: core/util/structure/priority_queue.go.                             *)
EXTENDS Integers, Sequences, FiniteSets

CONSTANTS
    Items,            \* the elements, records [key, id] ordered by key
    Capacities,       \* the sizes asked for
    NoItem

ASSUME ItemsAssumption ==
    /\ \A e \in Items : e.key \in Int
    /\ Capacities \subseteq Nat /\ NoItem \notin Items

VARIABLES
    queue,
    held,             \* the elements put in and not yet returned
    dropped           \* what the last InsertWithOverflow returned

queueVars == <<queue, held, dropped>>

ItemLess(a, b) == a.key < b.key

PQ == INSTANCE PriorityQueue WITH LessThan <- ItemLess, None <- NoItem

QueueInit ==
    /\ \E n \in Capacities : queue = PQ!NewPriorityQueue(n, NoItem)
    /\ held = {}
    /\ dropped = NoItem

Fresh == Items \ held

AddItem(e) ==
    /\ queue.size < queue.maxSize
    /\ queue' = PQ!Add(queue, e)
    /\ held' = held \cup {e}
    /\ UNCHANGED dropped

InsertItem(e) ==
    LET r == PQ!InsertWithOverflow(queue, e)
    IN  /\ queue' = r.queue
        /\ dropped' = r.dropped
        /\ held' = (held \cup {e}) \ {r.dropped}

(* The top element changes its value and UpdateTop restores the order. *)
ChangeTop(e) ==
    /\ queue.size > 0
    /\ queue' = PQ!UpdateTop(queue, e)
    /\ held' = (held \ {PQ!Top(queue)}) \cup {e}
    /\ UNCHANGED dropped

PopItem ==
    /\ queue.size > 0
    /\ queue' = PQ!Popped(queue)
    /\ held' = held \ {PQ!Top(queue)}
    /\ UNCHANGED dropped

RemoveItem(e) ==
    \E i \in 1 .. queue.size :
        /\ queue.heap[i] = e
        /\ queue' = PQ!RemoveAt(queue, i)
        /\ held' = held \ {e}
        /\ UNCHANGED dropped

ClearItems ==
    /\ queue' = PQ!Clear(queue)
    /\ held' = {}
    /\ UNCHANGED dropped

QueueNext ==
    \/ \E e \in Fresh : AddItem(e) \/ InsertItem(e) \/ ChangeTop(e)
    \/ \E e \in held : RemoveItem(e)
    \/ PopItem
    \/ ClearItems

QueueSpec == QueueInit /\ [][QueueNext]_queueVars

-----------------------------------------------------------------------------
(* Whatever the sequence of calls, the queue holds exactly the elements put  *)
(* in and not yet returned, each once, and Top is a least one of them: the   *)
(* order survives Remove from the middle, UpdateTop and insertion when full. *)
TopIsLeast ==
    /\ {queue.heap[i] : i \in 1 .. queue.size} = held
    /\ queue.size = Cardinality(held)
    /\ \A e \in held : ~ItemLess(e, PQ!Top(queue))

(* InsertWithOverflow gives up a least element: what it returns is not larger *)
(* than anything that stays, so that a full queue keeps the best it has seen. *)
OverflowDropsLeast ==
    [][\A e \in Fresh : InsertItem(e) /\ dropped' # NoItem =>
            \A kept \in held' : ~ItemLess(kept, dropped')]_queueVars

(* The queue is in order after every sequence of calls, and an insertion into *)
(* a full one gives up a least element (InsertWithOverflow).                  *)
QueueKeepsOrder == []TopIsLeast /\ OverflowDropsLeast
================================================================================
