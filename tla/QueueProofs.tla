----------------------------- MODULE QueueProofs -----------------------------
(* The heap of structure.PriorityQueue keeps its order and its elements, for   *)
(* every capacity, every set of elements and every sequence of calls.          *)
EXTENDS QueueClient, FiniteSetTheorems, Recursion, TLAPS

-----------------------------------------------------------------------------
(* upHeap and downHeap move elements along such a chain.                       *)

Heap == INSTANCE HeapProofs WITH LessThan <- ItemLess, None <- NoItem

IsQueue(q) ==
    /\ q = [heap |-> q.heap, size |-> q.size, maxSize |-> q.maxSize]
    /\ q.maxSize \in Nat /\ q.maxSize >= 2 /\ q.size \in 0..q.maxSize
    /\ q.heap \in [1..q.maxSize -> Items \cup {NoItem}]
    /\ \A i \in 1..q.size : q.heap[i] \in Items

Keys(q) == [i \in 1..q.size |-> q.heap[i].key]

LEMMA KeysAreIntegers ==
    ASSUME NEW q, IsQueue(q)
    PROVE  Keys(q) \in [1..q.size -> Int]
  BY ItemsAssumption DEF IsQueue, Keys

LEMMA KeysCompare ==
    ASSUME NEW q, IsQueue(q)
    PROVE  Heap!IsQueue(q) /\ Heap!Keyed(q, Keys(q))
  <1>1. Heap!IsQueue(q)
    BY DEF IsQueue, Heap!IsQueue
  <1>2. \A i, j \in 1..q.size : ItemLess(q.heap[i], q.heap[j]) <=> Keys(q)[i] < Keys(q)[j]
    BY DEF ItemLess, Keys
  <1> QED BY <1>1, <1>2, KeysAreIntegers DEF Heap!Keyed

LEMMA UpHeapMoves ==
    ASSUME NEW q, IsQueue(q), NEW pos \in 1..q.size
    PROVE  \E P : /\ PathShape(1..pos, UpGoesOn(Keys(q), pos), UpLink(pos), UpRank(pos), P, pos)
                  /\ PQ!UpHeap(q, pos) =
                        [q EXCEPT !.heap = [i \in 1..q.maxSize |->
                            Moved(q.heap, P, UpGoesOn(Keys(q), pos), UpLink(pos), pos, i)]]
  <1>1. PQ!UpHeap(q, pos) = Heap!UpHeap(q, pos)
    BY DEF PQ!UpHeap, Heap!UpHeap
  <1>2. PICK P : /\ Heap!PathShape(1..pos, Heap!UpGoesOn(Keys(q), pos), Heap!UpLink(pos),
                                 Heap!UpRank(pos), P, pos)
               /\ Heap!UpHeap(q, pos) =
                     [q EXCEPT !.heap = [i \in 1..q.maxSize |->
                         Heap!Moved(q.heap, P, Heap!UpGoesOn(Keys(q), pos), Heap!UpLink(pos), pos, i)]]
    BY KeysCompare, Heap!UpHeapMoves
  <1>3. PathShape(1..pos, UpGoesOn(Keys(q), pos), UpLink(pos), UpRank(pos), P, pos)
    BY <1>2, Zenon DEF PathShape, Heap!PathShape, UpGoesOn, UpLink, UpRank, Rises,
          Heap!UpGoesOn, Heap!UpLink, Heap!UpRank, Heap!Rises
  <1>4. ASSUME NEW i
        PROVE  Heap!Moved(q.heap, P, Heap!UpGoesOn(Keys(q), pos), Heap!UpLink(pos), pos, i)
                  = Moved(q.heap, P, UpGoesOn(Keys(q), pos), UpLink(pos), pos, i)
    BY Zenon DEF Moved, Heap!Moved, UpGoesOn, UpLink, UpRank, Rises,
          Heap!UpGoesOn, Heap!UpLink, Heap!UpRank, Heap!Rises
  <1>5. [i \in 1..q.maxSize |->
            Heap!Moved(q.heap, P, Heap!UpGoesOn(Keys(q), pos), Heap!UpLink(pos), pos, i)]
           = [i \in 1..q.maxSize |->
                Moved(q.heap, P, UpGoesOn(Keys(q), pos), UpLink(pos), pos, i)]
    BY <1>4, Zenon
  <1> QED BY <1>1, <1>2, <1>3, <1>5, Zenon

LEMMA DownHeapMoves ==
    ASSUME NEW q, IsQueue(q), NEW pos \in 1..q.size
    PROVE  \E P : /\ PathShape(1..q.maxSize, DownGoesOn(Keys(q), q.size, pos, q.maxSize),
                               DownLink(Keys(q), q.size, q.maxSize), DownRank(q.maxSize), P, pos)
                  /\ PQ!DownHeap(q, pos) =
                        [q EXCEPT !.heap = [i \in 1..q.maxSize |->
                            Moved(q.heap, P, DownGoesOn(Keys(q), q.size, pos, q.maxSize),
                                  DownLink(Keys(q), q.size, q.maxSize), pos, i)]]
  <1>1. PQ!DownHeap(q, pos) = Heap!DownHeap(q, pos)
    BY DEF PQ!DownHeap, Heap!DownHeap
  <1>2. PICK P : /\ Heap!PathShape(1..q.maxSize, Heap!DownGoesOn(Keys(q), q.size, pos, q.maxSize),
                                 Heap!DownLink(Keys(q), q.size, q.maxSize),
                                 Heap!DownRank(q.maxSize), P, pos)
               /\ Heap!DownHeap(q, pos) =
                     [q EXCEPT !.heap = [i \in 1..q.maxSize |->
                         Heap!Moved(q.heap, P, Heap!DownGoesOn(Keys(q), q.size, pos, q.maxSize),
                                    Heap!DownLink(Keys(q), q.size, q.maxSize), pos, i)]]
    BY KeysCompare, Heap!DownHeapMoves
  <1>3. PathShape(1..q.maxSize, DownGoesOn(Keys(q), q.size, pos, q.maxSize),
                  DownLink(Keys(q), q.size, q.maxSize), DownRank(q.maxSize), P, pos)
    BY <1>2, Zenon DEF PathShape, Heap!PathShape, DownGoesOn, DownLink, DownRank, Sinks, Child,
          Heap!DownGoesOn, Heap!DownLink, Heap!DownRank, Heap!Sinks, Heap!Child
  <1>4. ASSUME NEW i
        PROVE  Heap!Moved(q.heap, P, Heap!DownGoesOn(Keys(q), q.size, pos, q.maxSize),
                         Heap!DownLink(Keys(q), q.size, q.maxSize), pos, i)
                  = Moved(q.heap, P, DownGoesOn(Keys(q), q.size, pos, q.maxSize),
                  DownLink(Keys(q), q.size, q.maxSize), pos, i)
    BY Zenon DEF Moved, Heap!Moved, DownGoesOn, DownLink, DownRank, Sinks, Child,
          Heap!DownGoesOn, Heap!DownLink, Heap!DownRank, Heap!Sinks, Heap!Child
  <1>5. [i \in 1..q.maxSize |->
            Heap!Moved(q.heap, P, Heap!DownGoesOn(Keys(q), q.size, pos, q.maxSize),
                       Heap!DownLink(Keys(q), q.size, q.maxSize), pos, i)]
           = [i \in 1..q.maxSize |->
                Moved(q.heap, P, DownGoesOn(Keys(q), q.size, pos, q.maxSize),
                      DownLink(Keys(q), q.size, q.maxSize), pos, i)]
    BY <1>4, Zenon
  <1> QED BY <1>1, <1>2, <1>3, <1>5, Zenon

Elems(q) == {q.heap[i] : i \in 1..q.size}

LEMMA MovedQueue ==
    ASSUME NEW q, IsQueue(q), NEW D, NEW g, NEW l, NEW rank, NEW P, NEW pos \in 1..q.size,
           pos \in D, PathShape(D, g, l, rank, P, pos), P \subseteq 1..q.size,
           NEW r, r = [q EXCEPT !.heap = [i \in 1..q.maxSize |-> Moved(q.heap, P, g, l, pos, i)]]
    PROVE  /\ IsQueue(r) /\ r.size = q.size /\ r.maxSize = q.maxSize /\ Elems(r) = Elems(q)
           /\ \A i \in 1..q.size : Keys(r)[i] = Moved(Keys(q), P, g, l, pos, i)
           /\ \A i \in 1..q.size : r.heap[i] = Moved(q.heap, P, g, l, pos, i)
  <1>1. /\ pos \in P
        /\ \A j \in P : g[j] => l[j] \in P
    BY DEF PathShape
  <1>2. /\ q.maxSize \in Nat /\ q.size \in 0..q.maxSize
        /\ q.heap \in [1..q.maxSize -> Items \cup {NoItem}]
        /\ \A i \in 1..q.size : q.heap[i] \in Items
        /\ q = [heap |-> q.heap, size |-> q.size, maxSize |-> q.maxSize]
        /\ q.maxSize >= 2
    BY DEF IsQueue
  <1>. DEFINE H == [i \in 1..q.maxSize |-> Moved(q.heap, P, g, l, pos, i)]
  <1>3. \A i \in 1..q.maxSize : H[i] = Moved(q.heap, P, g, l, pos, i)
    OBVIOUS
  <1>4. ASSUME NEW i \in 1..q.size PROVE H[i] \in Items /\ i \in 1..q.maxSize
    <2>1. i \in 1..q.maxSize
      BY <1>2
    <2>2. Moved(q.heap, P, g, l, pos, i) \in Items
      BY <1>1, <1>2 DEF Moved
    <2> QED BY <2>1, <2>2
  <1>5. ASSUME NEW i \in 1..q.maxSize PROVE H[i] \in Items \cup {NoItem}
    <2>1. CASE i \in P
      BY <1>4, <2>1
    <2>2. CASE i \notin P
      BY <1>2, <2>2 DEF Moved
    <2> QED BY <2>1, <2>2
  <1>6. H \in [1..q.maxSize -> Items \cup {NoItem}]
    <2>1. H = [i \in 1..q.maxSize |-> H[i]]
      OBVIOUS
    <2>. HIDE DEF H
    <2> QED BY <1>5, <2>1
  <1>7. r = [q EXCEPT !.heap = H]
    OBVIOUS
  <1>. HIDE DEF H
  <1>8. /\ r.heap = H /\ r.size = q.size /\ r.maxSize = q.maxSize
        /\ r = [heap |-> r.heap, size |-> r.size, maxSize |-> r.maxSize]
    <2>1. [q EXCEPT !.heap = H] = [heap |-> H, size |-> q.size, maxSize |-> q.maxSize]
      BY <1>2
    <2> QED BY <1>7, <2>1
  <1>9. IsQueue(r)
    BY <1>2, <1>4, <1>6, <1>8 DEF IsQueue
  <1>10. \A i \in 1..q.size : r.heap[i] = Moved(q.heap, P, g, l, pos, i)
    BY <1>3, <1>4, <1>8
  <1>11. Elems(r) = Elems(q)
    <2>. DEFINE I == 1..q.size
                F == r.heap
                E == q.heap
    <2>1. pos \in D /\ P \subseteq I /\ MovedTo(F, E, I, P, g, l, pos)
      BY <1>10 DEF MovedTo
    <2>. HIDE DEF I, F, E
    <2>2. SameValues(F, E, I)
      BY <2>1, SameElements
    <2>3. {F[i] : i \in I} = {E[i] : i \in I}
      BY <2>2 DEF SameValues
    <2> QED BY <1>8, <2>3 DEF Elems, I, F, E
  <1>12. ASSUME NEW i \in 1..q.size PROVE Keys(r)[i] = Moved(Keys(q), P, g, l, pos, i)
    <2>1. Keys(r)[i] = r.heap[i].key
      BY <1>8 DEF Keys
    <2>2. \A k \in 1..q.size : Keys(q)[k] = q.heap[k].key
      BY DEF Keys
    <2>3. CASE i \notin P
      BY <1>10, <2>1, <2>2, <2>3 DEF Moved
    <2>4. CASE i \in P /\ g[i]
      <3>1. l[i] \in 1..q.size
        BY <1>1, <2>4
      <3> QED BY <1>10, <2>1, <2>2, <2>4, <3>1 DEF Moved
    <2>5. CASE i \in P /\ ~g[i]
      BY <1>10, <2>1, <2>2, <2>5 DEF Moved
    <2> QED BY <2>3, <2>4, <2>5
  <1> QED BY <1>8, <1>9, <1>10, <1>11, <1>12

(* upHeap leaves a queue with the same elements, in order.                     *)
LEMMA UpHeapRestores ==
    ASSUME NEW q, IsQueue(q), NEW pos \in 1..q.size, InOrderBut(Keys(q), q.size, pos),
           \/ Rises(Keys(q), pos, pos)
           \/ \A j \in 2..q.size : j \div 2 = pos => Keys(q)[pos] <= Keys(q)[j],
           NEW r, r = PQ!UpHeap(q, pos)
    PROVE  /\ IsQueue(r) /\ r.size = q.size /\ r.maxSize = q.maxSize /\ Elems(r) = Elems(q)
           /\ InOrder(Keys(r), r.size)
  <1>. DEFINE K == Keys(q)
              n == q.size
              g == UpGoesOn(K, pos)
              l == UpLink(pos)
  <1>1. PICK P : /\ PathShape(1..pos, g, l, UpRank(pos), P, pos)
                 /\ PQ!UpHeap(q, pos) = [q EXCEPT !.heap = [i \in 1..q.maxSize |->
                                            Moved(q.heap, P, g, l, pos, i)]]
    BY UpHeapMoves
  <1>2. n \in Nat /\ K \in [1..n -> Int] /\ pos \in 1..pos
    BY KeysAreIntegers DEF IsQueue
  <1>3. P \subseteq 1..n
    <2>1. P \subseteq 1..pos
      BY <1>1 DEF PathShape
    <2> QED BY <1>2, <2>1
  <1>. HIDE DEF K, g, l
  <1>4. /\ IsQueue(r) /\ r.size = n /\ r.maxSize = q.maxSize /\ Elems(r) = Elems(q)
        /\ \A i \in 1..n : Keys(r)[i] = Moved(K, P, g, l, pos, i)
    BY <1>1, <1>2, <1>3, MovedQueue DEF K
  <1>. HIDE DEF n
  <1>5. InOrder(Keys(r), n)
    BY <1>1, <1>2, <1>4, UpOrder DEF K, n, g, l
  <1> QED BY <1>4, <1>5 DEF n

(* upHeap reports a move exactly when the element rises.                       *)
LEMMA UpHeapReports ==
    ASSUME NEW q, IsQueue(q), NEW pos \in 1..q.size
    PROVE  PQ!UpHeap(q, pos) # q <=> Rises(Keys(q), pos, pos)
  <1>. DEFINE K == Keys(q)
              n == q.size
              g == UpGoesOn(K, pos)
              l == UpLink(pos)
              r == PQ!UpHeap(q, pos)
  <1>1. PICK P : /\ PathShape(1..pos, g, l, UpRank(pos), P, pos)
                 /\ r = [q EXCEPT !.heap = [i \in 1..q.maxSize |->
                                            Moved(q.heap, P, g, l, pos, i)]]
    BY UpHeapMoves
  <1>2. n \in Nat /\ K \in [1..n -> Int] /\ pos \in 1..pos /\ pos \in Nat /\ pos \in 1..n
    BY KeysAreIntegers DEF IsQueue
  <1>3. P \subseteq 1..n /\ P \subseteq 1..pos /\ pos \in P
    <2>1. P \subseteq 1..pos /\ pos \in P
      BY <1>1 DEF PathShape
    <2> QED BY <1>2, <2>1
  <1>4. g[pos] = Rises(K, pos, pos)
    BY <1>2 DEF UpGoesOn
  <1>5. CASE Rises(K, pos, pos)
    <2>1. pos > 1 /\ K[pos] < K[pos \div 2] /\ l[pos] = pos \div 2
      BY <1>2, <1>5 DEF Rises, UpLink
    <2>2. pos \div 2 \in 1..n
      BY <1>2, <2>1, HalfFacts
    <2>3. Keys(r)[pos] = K[pos \div 2]
      <3>. HIDE DEF K, g, l, n, r
      <3>1. Keys(r)[pos] = Moved(K, P, g, l, pos, pos)
        BY <1>1, <1>2, <1>3, MovedQueue DEF K, n
      <3> QED BY <1>3, <1>4, <1>5, <2>1, <3>1 DEF Moved
    <2>4. K[pos] \in Int /\ K[pos \div 2] \in Int
      BY <1>2, <2>2
    <2>. HIDE DEF r
    <2>5. r # q
      BY <2>1, <2>3, <2>4
    <2> QED BY <1>5, <2>5 DEF r
  <1>6. CASE ~Rises(K, pos, pos)
    <2>1. P = {pos}
      <3>1. \A k \in P : UpRank(pos)[pos] <= UpRank(pos)[k]
        BY <1>1, <1>3, <1>4, <1>6 DEF PathShape
      <3>2. \A k \in P : pos <= k
        BY <1>2, <1>3, <3>1 DEF UpRank
      <3>3. \A k \in P : k = pos
        BY <1>2, <1>3, <3>2
      <3> QED BY <1>3, <3>3
    <2>2. \A i : Moved(q.heap, P, g, l, pos, i) = q.heap[i]
      BY <1>4, <1>6, <2>1 DEF Moved
    <2>3. r = [q EXCEPT !.heap = [i \in 1..q.maxSize |-> q.heap[i]]]
      <3>. HIDE DEF K, g, l, n, r
      <3> QED BY <1>1, <2>2
    <2>. HIDE DEF r
    <2>4. r = q
      BY <2>3 DEF IsQueue
    <2> QED BY <1>6, <2>4 DEF r
  <1> QED BY <1>5, <1>6

(* downHeap leaves a queue with the same elements, in order.                   *)
LEMMA DownHeapRestores ==
    ASSUME NEW q, IsQueue(q), NEW pos \in 1..q.size, InOrderBut(Keys(q), q.size, pos),
           pos > 1 => Keys(q)[pos \div 2] <= Keys(q)[pos],
           NEW r, r = PQ!DownHeap(q, pos)
    PROVE  /\ IsQueue(r) /\ r.size = q.size /\ r.maxSize = q.maxSize /\ Elems(r) = Elems(q)
           /\ InOrder(Keys(r), r.size)
  <1>. DEFINE K == Keys(q)
              n == q.size
              m == q.maxSize
              g == DownGoesOn(K, n, pos, m)
              l == DownLink(K, n, m)
  <1>1. PICK P : /\ PathShape(1..m, g, l, DownRank(m), P, pos)
                 /\ PQ!DownHeap(q, pos) = [q EXCEPT !.heap = [i \in 1..m |->
                                            Moved(q.heap, P, g, l, pos, i)]]
    BY DownHeapMoves
  <1>2. n \in Nat /\ K \in [1..n -> Int] /\ pos \in 1..m /\ m \in Nat /\ n \in 0..m /\ pos \in 1..n
    BY KeysAreIntegers DEF IsQueue
  <1>3. P \subseteq 1..n
    <2>. SUFFICES ASSUME NEW j \in P, j # pos PROVE j \in 1..n
      BY <1>2
    <2>1. j \in 1..m /\ \E c \in P : g[c] /\ l[c] = j
      BY <1>1 DEF PathShape
    <2>2. PICK c \in P : g[c] /\ l[c] = j
      BY <2>1
    <2>3. c \in 1..m
      BY <1>1 DEF PathShape
    <2>4. Child(K, n, c) <= n /\ Child(K, n, c) \in Nat
      <3>1. Sinks(K, n, pos, c)
        BY <2>2, <2>3 DEF DownGoesOn
      <3>2. c \in Nat /\ c >= 1
        BY <1>2, <2>3
      <3> QED BY <1>2, <3>1, <3>2, ChildFacts DEF Sinks
    <2>5. l[c] = Child(K, n, c)
      <3>1. Child(K, n, c) <= m
        BY <1>2, <2>4
      <3> QED BY <2>3, <3>1 DEF DownLink
    <2>. HIDE DEF n, m
    <2> QED BY <1>2, <2>1, <2>2, <2>4, <2>5
  <1>. HIDE DEF K, g, l
  <1>4. /\ IsQueue(r) /\ r.size = n /\ r.maxSize = m /\ Elems(r) = Elems(q)
        /\ \A i \in 1..n : Keys(r)[i] = Moved(K, P, g, l, pos, i)
    <2>. DEFINE D == 1..m
                rank == DownRank(m)
    <2>1. PathShape(D, g, l, rank, P, pos) /\ pos \in D /\ P \subseteq 1..q.size
      BY <1>1, <1>2, <1>3
    <2>2. r = [q EXCEPT !.heap = [i \in 1..q.maxSize |-> Moved(q.heap, P, g, l, pos, i)]]
      BY <1>1
    <2>. HIDE DEF D, rank
    <2> QED BY <2>1, <2>2, MovedQueue DEF K
  <1>. HIDE DEF n, m
  <1>5. InOrder(Keys(r), n)
    BY <1>1, <1>2, <1>4, DownOrder DEF K, n, g, l
  <1> QED BY <1>4, <1>5 DEF n, m

-----------------------------------------------------------------------------
(* A queue in order whose elements are the set S, each once.                   *)

Holds(q, S) ==
    /\ IsQueue(q) /\ InOrder(Keys(q), q.size)
    /\ Elems(q) = S /\ S \subseteq Items
    /\ IsFiniteSet(S) /\ q.size = Cardinality(S)

LEMMA TopLeast ==
    ASSUME NEW q, IsQueue(q), InOrder(Keys(q), q.size), NEW e \in Elems(q)
    PROVE  q.size > 0 /\ q.heap[1] \in Elems(q) /\ ~ItemLess(e, q.heap[1])
  <1>. DEFINE K == Keys(q)
              n == q.size
              Bad == {i \in 1..n : K[i] < K[1]}
  <1>1. n \in Nat /\ K \in [1..n -> Int] /\ \A i \in 1..n : K[i] = q.heap[i].key
    BY KeysAreIntegers DEF IsQueue, Keys
  <1>2. PICK k \in 1..n : e = q.heap[k]
    BY DEF Elems
  <1>3. n > 0 /\ 1 \in 1..n
    BY <1>1, <1>2
  <1>. HIDE DEF K, n
  <1>4. \A j \in 2..n : K[j \div 2] <= K[j]
    BY DEF InOrder, K, n
  <1>5. ASSUME NEW m \in Bad, \A i \in Bad : m <= i PROVE FALSE
    <2>1. m \in 1..n /\ K[m] < K[1] /\ m \in Nat /\ K[1] \in Int /\ K[m] \in Int
      BY <1>1, <1>3
    <2>2. m # 1
      BY <2>1
    <2>3. m \in 2..n /\ m \div 2 \in 1..n /\ m \div 2 < m
      BY <1>1, <2>1, <2>2, HalfFacts
    <2>4. K[m \div 2] <= K[m] /\ K[m \div 2] \in Int
      BY <1>1, <1>4, <2>3
    <2>5. m \div 2 \in Bad
      BY <2>1, <2>3, <2>4
    <2> QED BY <1>5, <2>1, <2>3, <2>5
  <1>6. Bad = {}
    <2>1. Bad \subseteq Nat
      OBVIOUS
    <2>. HIDE DEF Bad
    <2> QED BY <1>5, <2>1, LeastNat
  <1>7. ~(K[k] < K[1])
    BY <1>2, <1>6 DEF n
  <1>8. k \in 1..n
    BY <1>2 DEF n
  <1> QED BY <1>1, <1>2, <1>3, <1>7, <1>8 DEF ItemLess, Elems, n

(* No element is at two places.                                                *)
LEMMA PlacesDistinct ==
    ASSUME NEW q, IsQueue(q), q.size = Cardinality(Elems(q))
    PROVE  \A i, j \in 1..q.size : q.heap[i] = q.heap[j] => i = j
  <1>. DEFINE n == q.size
              S == 1..n
              T == Elems(q)
              f == [i \in S |-> q.heap[i]]
  <1>1. n \in Nat
    BY DEF IsQueue
  <1>2. IsFiniteSet(S) /\ Cardinality(S) = n
    <2>1. 1 \in Int /\ n \in Int
      BY <1>1
    <2>. HIDE DEF n
    <2>2. IsFiniteSet(1..n) /\ Cardinality(1..n) = IF 1 > n THEN 0 ELSE n - 1 + 1
      BY <2>1, FS_Interval, Zenon
    <2> QED BY <1>1, <2>2
  <1>3. f \in Surjection(S, T)
    BY DEF Surjection, Elems
  <1>4. Cardinality(T) = Cardinality(S)
    BY <1>2
  <1>5. f \in Injection(S, T)
    <2>. HIDE DEF S, T, f
    <2> QED BY <1>2, <1>3, <1>4, FS_Surjection, Zenon
  <1>6. \A a, b \in S : f[a] = f[b] => a = b
    BY <1>5 DEF Injection, IsInjective
  <1> QED BY <1>6

-----------------------------------------------------------------------------
(* The methods.                                                                *)

LEMMA Rebuilt ==
    ASSUME NEW q, q = [heap |-> q.heap, size |-> q.size, maxSize |-> q.maxSize], NEW h, NEW k
    PROVE  [q EXCEPT !.heap = h, !.size = k] = [heap |-> h, size |-> k, maxSize |-> q.maxSize]
  BY Heap!Rebuilt

LEMMA AddHolds ==
    ASSUME NEW q, NEW S, Holds(q, S), q.size < q.maxSize, NEW e \in Items \ S
    PROVE  Holds(PQ!Add(q, e), S \cup {e})
  <1>. DEFINE n == q.size
              r == [q EXCEPT !.heap[q.size + 1] = e, !.size = @ + 1]
  <1>1. /\ IsQueue(q) /\ InOrder(Keys(q), n) /\ Elems(q) = S /\ S \subseteq Items
        /\ IsFiniteSet(S) /\ n = Cardinality(S)
    BY DEF Holds
  <1>2. /\ q.maxSize \in Nat /\ q.maxSize >= 2 /\ n \in Nat /\ n + 1 \in 1..q.maxSize
        /\ q.heap \in [1..q.maxSize -> Items \cup {NoItem}]
        /\ \A i \in 1..n : q.heap[i] \in Items
        /\ q = [heap |-> q.heap, size |-> q.size, maxSize |-> q.maxSize]
    BY <1>1 DEF IsQueue
  <1>3. r = [heap |-> [q.heap EXCEPT ![n + 1] = e], size |-> n + 1, maxSize |-> q.maxSize]
    <2>1. r = [q EXCEPT !.heap = [q.heap EXCEPT ![n + 1] = e], !.size = n + 1]
      OBVIOUS
    <2>. HIDE DEF r, n
    <2> QED BY <1>2, <2>1, Rebuilt DEF n
  <1>. HIDE DEF r
  <1>4. r.heap = [q.heap EXCEPT ![n + 1] = e] /\ r.size = n + 1 /\ r.maxSize = q.maxSize
    BY <1>3
  <1>5. /\ r.heap \in [1..q.maxSize -> Items \cup {NoItem}]
        /\ r.heap[n + 1] = e /\ \A i \in 1..n : r.heap[i] = q.heap[i]
    BY <1>2, <1>4
  <1>6. 1..(n + 1) = 1..n \cup {n + 1}
    BY <1>2
  <1>7. IsQueue(r)
    BY <1>2, <1>3, <1>4, <1>5, <1>6 DEF IsQueue
  <1>8. Elems(r) = S \cup {e}
    BY <1>1, <1>4, <1>5, <1>6 DEF Elems
  <1>9. InOrderBut(Keys(r), n + 1, n + 1)
    <2>1. \A i \in 1..n : Keys(r)[i] = Keys(q)[i]
      BY <1>2, <1>4, <1>5, <1>6 DEF Keys
    <2>2. ASSUME NEW j \in 2..(n + 1)
          PROVE  j \div 2 # n + 1 /\ (j # n + 1 => Keys(r)[j \div 2] <= Keys(r)[j])
      <3>1. j \in Nat /\ j >= 2 /\ j <= n + 1
        BY <1>2
      <3>2. j \div 2 \in Nat /\ 1 <= j \div 2 /\ j \div 2 < j
        BY <3>1, HalfFacts
      <3>3. CASE j # n + 1
        <4>1. j \in 1..n /\ j \div 2 \in 1..n /\ j \in 2..n
          BY <1>2, <3>1, <3>2, <3>3
        <4>2. Keys(q)[j \div 2] <= Keys(q)[j]
          BY <1>1, <4>1 DEF InOrder
        <4> QED BY <1>2, <2>1, <3>1, <3>2, <4>1, <4>2
      <3>4. CASE j = n + 1
        BY <1>2, <3>1, <3>2, <3>4
      <3> QED BY <3>3, <3>4
    <2> QED BY <2>2 DEF InOrderBut
  <1>10. \A j \in 2..(n + 1) : j \div 2 # n + 1
    <2>. SUFFICES ASSUME NEW j \in 2..(n + 1) PROVE j \div 2 # n + 1
      OBVIOUS
    <2>1. j \in Nat /\ j >= 2 /\ j <= n + 1
      BY <1>2
    <2> QED BY <1>2, <2>1, HalfFacts
  <1>11. PQ!Add(q, e) = PQ!UpHeap(r, n + 1)
    BY DEF PQ!Add, r
  <1>. DEFINE t == PQ!Add(q, e)
              c == n + 1
  <1>. HIDE DEF t, n, c
  <1>12. c \in 1..r.size /\ InOrderBut(Keys(r), r.size, c) /\ t = PQ!UpHeap(r, c)
         /\ \A j \in 2..r.size : j \div 2 # c
    BY <1>2, <1>4, <1>9, <1>10, <1>11 DEF t, c
  <1>13. /\ IsQueue(t) /\ t.size = r.size /\ Elems(t) = Elems(r) /\ InOrder(Keys(t), t.size)
    BY <1>7, <1>12, UpHeapRestores
  <1>14. IsFiniteSet(S \cup {e}) /\ Cardinality(S \cup {e}) = n + 1
    <2>1. /\ IsFiniteSet(S \cup {e})
          /\ Cardinality(S \cup {e}) = IF e \in S THEN Cardinality(S) ELSE Cardinality(S) + 1
      BY <1>1, FS_AddElement, Zenon
    <2> QED BY <1>1, <2>1
  <1>15. S \cup {e} \subseteq Items
    BY <1>1
  <1> QED BY <1>4, <1>8, <1>13, <1>14, <1>15 DEF Holds, t

LEMMA UpdateTopHolds ==
    ASSUME NEW q, NEW S, Holds(q, S), q.size > 0, NEW e \in Items \ S
    PROVE  Holds(PQ!UpdateTop(q, e), (S \ {q.heap[1]}) \cup {e})
  <1>. DEFINE n == q.size
              r == [q EXCEPT !.heap[1] = e]
              T == (S \ {q.heap[1]}) \cup {e}
  <1>1. /\ IsQueue(q) /\ InOrder(Keys(q), n) /\ Elems(q) = S /\ S \subseteq Items
        /\ IsFiniteSet(S) /\ n = Cardinality(S)
    BY DEF Holds
  <1>2. /\ q.maxSize \in Nat /\ q.maxSize >= 2 /\ n \in 0..q.maxSize /\ 1 \in 1..n
        /\ n \in Nat
        /\ q.heap \in [1..q.maxSize -> Items \cup {NoItem}]
        /\ \A i \in 1..n : q.heap[i] \in Items
        /\ q = [heap |-> q.heap, size |-> q.size, maxSize |-> q.maxSize]
    BY <1>1 DEF IsQueue
  <1>3. r = [heap |-> [q.heap EXCEPT ![1] = e], size |-> n, maxSize |-> q.maxSize]
    BY <1>2
  <1>. HIDE DEF r
  <1>4. r.heap = [q.heap EXCEPT ![1] = e] /\ r.size = n /\ r.maxSize = q.maxSize
    BY <1>3
  <1>5. /\ r.heap \in [1..q.maxSize -> Items \cup {NoItem}]
        /\ r.heap[1] = e /\ \A i \in 1..n : i # 1 => r.heap[i] = q.heap[i]
    BY <1>2, <1>4
  <1>6. IsQueue(r)
    BY <1>2, <1>3, <1>4, <1>5 DEF IsQueue
  <1>7. \A i, j \in 1..n : q.heap[i] = q.heap[j] => i = j
    BY <1>1, PlacesDistinct
  <1>8. Elems(r) = T
    <2>1. ASSUME NEW x \in Elems(r) PROVE x \in T
      <3>1. PICK i \in 1..n : x = r.heap[i]
        BY <1>4 DEF Elems
      <3>2. CASE i = 1
        BY <1>5, <3>1, <3>2
      <3>3. CASE i # 1
        <4>1. x = q.heap[i] /\ x # q.heap[1]
          BY <1>2, <1>5, <1>7, <3>1, <3>3
        <4>2. x \in S
          BY <1>1, <4>1 DEF Elems
        <4> QED BY <4>1, <4>2
      <3> QED BY <3>2, <3>3
    <2>2. ASSUME NEW x \in T PROVE x \in Elems(r)
      <3>1. CASE x = e
        BY <1>2, <1>4, <1>5, <3>1 DEF Elems
      <3>2. CASE x \in S /\ x # q.heap[1]
        <4>1. PICK i \in 1..n : x = q.heap[i]
          BY <1>1, <3>2 DEF Elems
        <4>2. i # 1
          BY <3>2, <4>1
        <4> QED BY <1>4, <1>5, <4>1, <4>2 DEF Elems
      <3> QED BY <3>1, <3>2
    <2>. HIDE DEF T
    <2> QED BY <2>1, <2>2
  <1>9. InOrderBut(Keys(r), n, 1)
    <2>1. \A i \in 1..n : i # 1 => Keys(r)[i] = Keys(q)[i]
      BY <1>4, <1>5 DEF Keys
    <2>2. Keys(q) \in [1..n -> Int]
      BY <1>1, KeysAreIntegers
    <2>. DEFINE K == Keys(q)
                R == Keys(r)
    <2>. HIDE DEF K, R, n
    <2>3. K \in [1..n -> Int] /\ InOrder(K, n) /\ n \in 0..n
          /\ \A i \in 1..n : i # 1 => R[i] = K[i]
      BY <1>1, <1>2, <2>1, <2>2 DEF K, R
    <2>4. InOrderBut(R, n, 1)
      BY <1>2, <2>3, OutOfPlace
    <2> QED BY <2>4 DEF R
  <1>. DEFINE t == PQ!UpdateTop(q, e)
  <1>10. t = PQ!DownHeap(r, 1)
    BY DEF PQ!UpdateTop, r
  <1>. HIDE DEF t, n, T
  <1>11. 1 \in 1..r.size /\ InOrderBut(Keys(r), r.size, 1)
    BY <1>2, <1>4, <1>9
  <1>12. ~(1 > 1)
    OBVIOUS
  <1>13. /\ IsQueue(t) /\ t.size = r.size /\ Elems(t) = Elems(r) /\ InOrder(Keys(t), t.size)
    BY <1>6, <1>10, <1>11, <1>12, DownHeapRestores
  <1>14. IsFiniteSet(T) /\ Cardinality(T) = n
    <2>. DEFINE U == S \ {q.heap[1]}
    <2>1. /\ IsFiniteSet(U)
          /\ Cardinality(U) = IF q.heap[1] \in S THEN Cardinality(S) - 1 ELSE Cardinality(S)
      BY <1>1, FS_RemoveElement, Zenon
    <2>2. q.heap[1] \in S /\ e \notin U
      BY <1>1, <1>2 DEF Elems, n
    <2>. HIDE DEF U
    <2>3. /\ IsFiniteSet(U \cup {e})
          /\ Cardinality(U \cup {e}) = IF e \in U THEN Cardinality(U) ELSE Cardinality(U) + 1
      BY <2>1, FS_AddElement, Zenon
    <2>4. T = U \cup {e}
      BY DEF T, U
    <2> QED BY <1>1, <1>2, <2>1, <2>2, <2>3, <2>4
  <1>15. T \subseteq Items
    BY <1>1 DEF T
  <1> QED BY <1>4, <1>8, <1>13, <1>14, <1>15 DEF Holds, t, T

(* Place i takes the last element and the last place is given up, as Pop and   *)
(* Remove begin.                                                               *)
TakenOut(q, i) ==
    [q EXCEPT !.heap[i] = q.heap[q.size], !.heap[q.size] = NoItem, !.size = @ - 1]

LEMMA TakenOutHolds ==
    ASSUME NEW q, NEW S, Holds(q, S), NEW i \in 1..q.size, NEW r, r = TakenOut(q, i)
    PROVE  /\ IsQueue(r) /\ r.size = q.size - 1 /\ r.maxSize = q.maxSize
           /\ Elems(r) = S \ {q.heap[i]} /\ S \ {q.heap[i]} \subseteq Items
           /\ IsFiniteSet(S \ {q.heap[i]}) /\ r.size = Cardinality(S \ {q.heap[i]})
           /\ i <= r.size => InOrderBut(Keys(r), r.size, i)
           /\ i > r.size => InOrder(Keys(r), r.size)
  <1>. DEFINE n == q.size
              T == S \ {q.heap[i]}
              h == [q.heap EXCEPT ![i] = q.heap[n], ![n] = NoItem]
  <1>1. /\ IsQueue(q) /\ InOrder(Keys(q), n) /\ Elems(q) = S /\ S \subseteq Items
        /\ IsFiniteSet(S) /\ n = Cardinality(S)
    BY DEF Holds
  <1>2. /\ q.maxSize \in Nat /\ q.maxSize >= 2 /\ n \in 0..q.maxSize /\ n \in Nat /\ n >= 1
        /\ q.heap \in [1..q.maxSize -> Items \cup {NoItem}]
        /\ \A k \in 1..n : q.heap[k] \in Items
        /\ q = [heap |-> q.heap, size |-> q.size, maxSize |-> q.maxSize]
    BY <1>1 DEF IsQueue
  <1>3. r = [heap |-> h, size |-> n - 1, maxSize |-> q.maxSize]
    <2>1. r = [q EXCEPT !.heap = h, !.size = n - 1]
      BY DEF TakenOut
    <2>. HIDE DEF h, n
    <2> QED BY <1>2, <2>1, Rebuilt DEF n
  <1>. HIDE DEF h
  <1>4. r.heap = h /\ r.size = n - 1 /\ r.maxSize = q.maxSize
    BY <1>3
  <1>5. /\ h \in [1..q.maxSize -> Items \cup {NoItem}]
        /\ \A k \in 1..(n - 1) : h[k] = IF k = i THEN q.heap[n] ELSE q.heap[k]
    <2>1. i \in 1..q.maxSize /\ n \in 1..q.maxSize
      BY <1>2
    <2>2. q.heap[n] \in Items
      BY <1>2
    <2>3. \A k \in 1..(n - 1) : k \in 1..q.maxSize /\ k # n
      BY <1>2
    <2>. HIDE DEF n
    <2> QED BY <1>2, <2>1, <2>2, <2>3 DEF h
  <1>6. \A k \in 1..(n - 1) : k \in 1..n /\ k # n
    BY <1>2
  <1>7. n \in 1..n /\ n - 1 \in Nat
    BY <1>2
  <1>8. IsQueue(r)
    <2>1. \A k \in 1..(n - 1) : h[k] \in Items
      BY <1>2, <1>5, <1>6, <1>7
    <2>2. n - 1 \in 0..q.maxSize
      BY <1>2
    <2>. HIDE DEF n
    <2> QED BY <1>2, <1>3, <1>4, <1>5, <2>1, <2>2 DEF IsQueue
  <1>9. \A j, k \in 1..n : q.heap[j] = q.heap[k] => j = k
    BY <1>1, PlacesDistinct
  <1>10. Elems(r) = T
    <2>1. ASSUME NEW x \in Elems(r) PROVE x \in T
      <3>1. PICK k \in 1..(n - 1) : x = h[k]
        BY <1>4 DEF Elems
      <3>2. PICK j \in 1..n : x = q.heap[j] /\ j # i
        <4>1. CASE k = i
          BY <1>5, <1>6, <1>7, <3>1, <4>1
        <4>2. CASE k # i
          BY <1>5, <1>6, <3>1, <4>2
        <4> QED BY <4>1, <4>2
      <3>3. x \in S
        BY <1>1, <3>2 DEF Elems
      <3> QED BY <1>9, <3>2, <3>3
    <2>2. ASSUME NEW x \in T PROVE x \in Elems(r)
      <3>1. PICK j \in 1..n : x = q.heap[j]
        BY <1>1 DEF Elems
      <3>2. j # i
        BY <3>1
      <3>3. CASE j = n
        <4>1. i \in 1..(n - 1)
          BY <1>2, <3>2, <3>3
        <4>2. x = h[i]
          BY <1>5, <3>1, <3>3, <4>1
        <4> QED BY <1>4, <4>1, <4>2 DEF Elems
      <3>4. CASE j # n
        <4>1. j \in 1..(n - 1)
          BY <1>2, <3>4
        <4>2. x = h[j]
          BY <1>5, <3>1, <3>2, <4>1
        <4> QED BY <1>4, <4>1, <4>2 DEF Elems
      <3> QED BY <3>3, <3>4
    <2>. HIDE DEF T
    <2> QED BY <2>1, <2>2
  <1>11. IsFiniteSet(T) /\ Cardinality(T) = n - 1
    <2>1. /\ IsFiniteSet(T)
          /\ Cardinality(T) = IF q.heap[i] \in S THEN Cardinality(S) - 1 ELSE Cardinality(S)
      BY <1>1, FS_RemoveElement, Zenon
    <2>2. q.heap[i] \in S
      BY <1>1 DEF Elems
    <2> QED BY <1>1, <2>1, <2>2
  <1>. DEFINE K == Keys(q)
              R == Keys(r)
  <1>12. K \in [1..n -> Int]
    BY <1>1, KeysAreIntegers
  <1>13. \A k \in 1..(n - 1) : k # i => R[k] = K[k]
    BY <1>4, <1>5, <1>6 DEF Keys
  <1>14. InOrder(K, n) /\ n - 1 \in 0..n
    BY <1>1, <1>2
  <1>. HIDE DEF K, R, n
  <1>15. ASSUME i <= n - 1 PROVE InOrderBut(R, n - 1, i)
    <2>. DEFINE k == n - 1
    <2>1. i \in 1..k /\ k \in 0..n /\ \A j \in 1..k : j # i => R[j] = K[j]
      BY <1>2, <1>13, <1>14, <1>15
    <2>. HIDE DEF k
    <2>2. InOrderBut(R, k, i)
      BY <1>2, <1>12, <1>14, <2>1, OutOfPlace
    <2> QED BY <2>2 DEF k
  <1>16. ASSUME i > n - 1 PROVE InOrder(R, n - 1)
    <2>. SUFFICES ASSUME NEW j \in 2..(n - 1) PROVE R[j \div 2] <= R[j]
      BY DEF InOrder
    <2>1. j \in Nat /\ j >= 2 /\ j <= n - 1
      BY <1>2
    <2>2. j \div 2 \in Nat /\ 1 <= j \div 2 /\ j \div 2 < j
      BY <2>1, HalfFacts
    <2>3. j \in 1..(n - 1) /\ j \div 2 \in 1..(n - 1) /\ j # i /\ j \div 2 # i /\ j \in 2..n
      BY <1>2, <1>16, <2>1, <2>2
    <2> QED BY <1>13, <1>14, <2>3 DEF InOrder
  <1>17. T \subseteq Items
    BY <1>1
  <1> QED BY <1>4, <1>8, <1>10, <1>11, <1>15, <1>16, <1>17 DEF R, n

(* downHeap changes nothing in an empty queue.                                 *)
LEMMA DownHeapEmpty ==
    ASSUME NEW q, IsQueue(q), q.size = 0
    PROVE  PQ!DownHeap(q, 1) = q
  <1>1. PQ!DownHeap(q, 1) = Heap!DownHeap(q, 1)
    BY DEF PQ!DownHeap, Heap!DownHeap
  <1> QED BY <1>1, KeysCompare, Heap!DownHeapEmpty

LEMMA PopHolds ==
    ASSUME NEW q, NEW S, Holds(q, S), q.size > 0
    PROVE  Holds(PQ!Popped(q), S \ {q.heap[1]})
  <1>. DEFINE r == TakenOut(q, 1)
              t == PQ!Popped(q)
              T == S \ {q.heap[1]}
  <1>1. t = PQ!DownHeap(r, 1)
    BY DEF PQ!Popped, TakenOut
  <1>2. q.size \in Nat /\ 1 \in 1..q.size
    BY DEF Holds, IsQueue
  <1>. HIDE DEF r, t
  <1>3. /\ IsQueue(r) /\ r.size = q.size - 1 /\ Elems(r) = T /\ T \subseteq Items
        /\ IsFiniteSet(T) /\ r.size = Cardinality(T)
        /\ 1 <= r.size => InOrderBut(Keys(r), r.size, 1)
        /\ 1 > r.size => InOrder(Keys(r), r.size)
    <2>. DEFINE k == 1
    <2>1. k \in 1..q.size /\ r = TakenOut(q, k)
      BY <1>2 DEF r
    <2>. HIDE DEF k
    <2>2. /\ IsQueue(r) /\ r.size = q.size - 1
          /\ Elems(r) = S \ {q.heap[k]} /\ S \ {q.heap[k]} \subseteq Items
          /\ IsFiniteSet(S \ {q.heap[k]}) /\ r.size = Cardinality(S \ {q.heap[k]})
          /\ k <= r.size => InOrderBut(Keys(r), r.size, k)
          /\ k > r.size => InOrder(Keys(r), r.size)
      BY <2>1, TakenOutHolds
    <2> QED BY <2>2 DEF k
  <1>4. CASE r.size = 0
    <2>1. t = r
      BY <1>1, <1>3, <1>4, DownHeapEmpty
    <2> QED BY <1>3, <1>4, <2>1 DEF Holds, t
  <1>5. CASE r.size # 0
    <2>1. 1 \in 1..r.size /\ InOrderBut(Keys(r), r.size, 1) /\ ~(1 > 1)
      BY <1>2, <1>3, <1>5
    <2>2. /\ IsQueue(t) /\ t.size = r.size /\ Elems(t) = Elems(r)
          /\ InOrder(Keys(t), t.size)
      BY <1>1, <1>3, <2>1, DownHeapRestores
    <2> QED BY <1>3, <2>2 DEF Holds, t
  <1> QED BY <1>4, <1>5

LEMMA RemoveHolds ==
    ASSUME NEW q, NEW S, Holds(q, S), NEW i \in 1..q.size
    PROVE  Holds(PQ!RemoveAt(q, i), S \ {q.heap[i]})
  <1>. DEFINE r == TakenOut(q, i)
              t == PQ!RemoveAt(q, i)
              T == S \ {q.heap[i]}
  <1>1. t = IF i > r.size THEN r
            ELSE IF PQ!UpHeap(r, i) # r THEN PQ!UpHeap(r, i) ELSE PQ!DownHeap(r, i)
    BY DEF PQ!RemoveAt, TakenOut
  <1>2. q.size \in Nat /\ i \in Nat /\ i >= 1
    BY DEF Holds, IsQueue
  <1>. HIDE DEF r, t
  <1>3. /\ IsQueue(r) /\ r.size = q.size - 1 /\ Elems(r) = T /\ T \subseteq Items
        /\ IsFiniteSet(T) /\ r.size = Cardinality(T)
        /\ i <= r.size => InOrderBut(Keys(r), r.size, i)
        /\ i > r.size => InOrder(Keys(r), r.size)
    BY TakenOutHolds DEF r
  <1>4. r.size \in Nat
    BY <1>3 DEF IsQueue
  <1>5. CASE i > r.size
    BY <1>1, <1>3, <1>5 DEF Holds, t
  <1>6. CASE ~(i > r.size)
    <2>1. i \in 1..r.size /\ InOrderBut(Keys(r), r.size, i)
      BY <1>2, <1>3, <1>4, <1>6
    <2>2. PQ!UpHeap(r, i) # r <=> Rises(Keys(r), i, i)
      BY <1>3, <2>1, UpHeapReports
    <2>3. CASE Rises(Keys(r), i, i)
      <3>1. t = PQ!UpHeap(r, i)
        BY <1>1, <1>6, <2>2, <2>3
      <3>2. /\ IsQueue(t) /\ t.size = r.size /\ Elems(t) = Elems(r)
            /\ InOrder(Keys(t), t.size)
        BY <1>3, <2>1, <2>3, <3>1, UpHeapRestores
      <3> QED BY <1>3, <3>2 DEF Holds, t
    <2>4. CASE ~Rises(Keys(r), i, i)
      <3>1. t = PQ!DownHeap(r, i)
        BY <1>1, <1>6, <2>2, <2>4
      <3>2. i > 1 => Keys(r)[i \div 2] <= Keys(r)[i]
        <4>. SUFFICES ASSUME i > 1 PROVE Keys(r)[i \div 2] <= Keys(r)[i]
          OBVIOUS
        <4>1. i \div 2 \in 1..r.size
          BY <1>2, <1>4, <2>1, HalfFacts
        <4>2. Keys(r) \in [1..r.size -> Int]
          BY <1>3, KeysAreIntegers
        <4>3. Keys(r)[i \div 2] \in Int /\ Keys(r)[i] \in Int
          BY <2>1, <4>1, <4>2
        <4> QED BY <2>4, <4>3 DEF Rises
      <3>3. /\ IsQueue(t) /\ t.size = r.size /\ Elems(t) = Elems(r)
            /\ InOrder(Keys(t), t.size)
        BY <1>3, <2>1, <3>1, <3>2, DownHeapRestores
      <3> QED BY <1>3, <3>3 DEF Holds, t
    <2> QED BY <2>3, <2>4
  <1> QED BY <1>5, <1>6

LEMMA ClearHolds ==
    ASSUME NEW q, NEW S, Holds(q, S)
    PROVE  Holds(PQ!Clear(q), {})
  <1>. DEFINE h == [i \in 1..q.maxSize |-> IF i <= q.size THEN NoItem ELSE q.heap[i]]
              t == PQ!Clear(q)
  <1>1. /\ IsQueue(q) /\ q.maxSize \in Nat /\ q.maxSize >= 2
        /\ q.heap \in [1..q.maxSize -> Items \cup {NoItem}]
        /\ q = [heap |-> q.heap, size |-> q.size, maxSize |-> q.maxSize]
    BY DEF Holds, IsQueue
  <1>2. t = [q EXCEPT !.heap = h, !.size = 0]
    BY <1>1 DEF PQ!Clear
  <1>3. h \in [1..q.maxSize -> Items \cup {NoItem}]
    BY <1>1
  <1>. HIDE DEF h, t
  <1>4. t = [heap |-> h, size |-> 0, maxSize |-> q.maxSize]
    BY <1>1, <1>2, Rebuilt
  <1>5. t.heap = h /\ t.size = 0 /\ t.maxSize = q.maxSize
    BY <1>4
  <1>6. IsQueue(t)
    BY <1>1, <1>3, <1>4, <1>5 DEF IsQueue
  <1>7. Elems(t) = {} /\ InOrder(Keys(t), t.size)
    BY <1>5 DEF Elems, InOrder
  <1> QED BY <1>5, <1>6, <1>7, FS_EmptySet DEF Holds, t

-----------------------------------------------------------------------------
(* The client.                                                                 *)

QueueInv == Holds(queue, held)

LEMMA QueueStarts == QueueInit => QueueInv
  <1>. SUFFICES ASSUME QueueInit PROVE QueueInv
    OBVIOUS
  <1>1. PICK n \in Capacities : queue = PQ!NewPriorityQueue(n, NoItem)
    BY DEF QueueInit
  <1>. DEFINE m == PQ!Larger(2, n)
  <1>2. m \in Nat /\ m >= 2
    BY ItemsAssumption DEF PQ!Larger
  <1>3. queue = [heap |-> [i \in 1..m |-> NoItem], size |-> 0, maxSize |-> m]
    BY <1>1 DEF PQ!NewPriorityQueue
  <1>. HIDE DEF m
  <1>4. queue.heap = [i \in 1..m |-> NoItem] /\ queue.size = 0 /\ queue.maxSize = m
    BY <1>3
  <1>5. IsQueue(queue)
    BY <1>2, <1>3, <1>4 DEF IsQueue
  <1>6. Elems(queue) = {} /\ InOrder(Keys(queue), queue.size)
    BY <1>4 DEF Elems, InOrder
  <1>7. held = {}
    BY DEF QueueInit
  <1> QED BY <1>4, <1>5, <1>6, <1>7, FS_EmptySet DEF Holds, QueueInv

(* What InsertWithOverflow leaves and gives up.                                *)
LEMMA InsertHolds ==
    ASSUME QueueInv, NEW e \in Fresh, InsertItem(e)
    PROVE  /\ QueueInv'
           /\ dropped' # NoItem => \A kept \in held' : ~ItemLess(kept, dropped')
  <1>. DEFINE r == PQ!InsertWithOverflow(queue, e)
              top == queue.heap[1]
  <1>1. /\ queue' = r.queue /\ dropped' = r.dropped
        /\ held' = (held \cup {e}) \ {r.dropped}
    BY DEF InsertItem
  <1>2. Holds(queue, held) /\ e \in Items \ held
    BY DEF QueueInv, Fresh
  <1>3. /\ IsQueue(queue) /\ InOrder(Keys(queue), queue.size) /\ Elems(queue) = held
        /\ held \subseteq Items /\ NoItem \notin Items
        /\ queue.size \in Nat /\ queue.maxSize \in Nat /\ queue.maxSize >= 2
        /\ queue.size <= queue.maxSize
    BY <1>2, ItemsAssumption DEF Holds, IsQueue
  <1>4. CASE queue.size < queue.maxSize
    <2>1. r = [queue |-> PQ!Add(queue, e), dropped |-> NoItem]
      BY <1>4 DEF PQ!InsertWithOverflow
    <2>. HIDE DEF r
    <2>2. queue' = PQ!Add(queue, e) /\ dropped' = NoItem /\ held' = held \cup {e}
      BY <1>1, <1>2, <1>3, <2>1
    <2> QED BY <1>2, <1>4, <2>2, AddHolds DEF QueueInv
  <1>5. CASE ~(queue.size < queue.maxSize) /\ ~ItemLess(e, top)
    <2>1. r = [queue |-> PQ!UpdateTop(queue, e), dropped |-> top]
      BY <1>5 DEF PQ!InsertWithOverflow, PQ!Top
    <2>2. queue.size > 0 /\ top \in held
      <3>1. queue.size > 0
        BY <1>3, <1>5
      <3>2. 1 \in 1..queue.size
        BY <1>3, <3>1
      <3> QED BY <1>3, <3>1, <3>2 DEF Elems
    <2>3. e # top
      BY <1>2, <2>2
    <2>. HIDE DEF r
    <2>4. queue' = PQ!UpdateTop(queue, e) /\ dropped' = top /\ held' = (held \ {top}) \cup {e}
      BY <1>1, <2>1, <2>3
    <2>5. Holds(queue', held')
      BY <1>2, <2>2, <2>4, UpdateTopHolds
    <2>6. \A kept \in held' : ~ItemLess(kept, top)
      BY <1>3, <1>5, <2>4, TopLeast
    <2>7. QueueInv' <=> Holds(queue', held')
      BY DEF QueueInv, Holds, IsQueue, Keys, Elems
    <2> QED BY <2>4, <2>5, <2>6, <2>7
  <1>6. CASE ~(queue.size < queue.maxSize) /\ ItemLess(e, top)
    <2>1. r = [queue |-> queue, dropped |-> e]
      BY <1>6 DEF PQ!InsertWithOverflow, PQ!Top
    <2>. HIDE DEF r
    <2>2. queue' = queue /\ dropped' = e /\ held' = held
      BY <1>1, <1>2, <2>1
    <2>3. ASSUME NEW kept \in held PROVE ~ItemLess(kept, e)
      <3>1. ~ItemLess(kept, top) /\ top \in held
        BY <1>3, TopLeast
      <3>2. kept.key \in Int /\ e.key \in Int /\ top.key \in Int
        BY <1>2, <1>3, <3>1, ItemsAssumption
      <3> QED BY <1>6, <3>1, <3>2 DEF ItemLess
    <2> QED BY <1>2, <2>2, <2>3 DEF QueueInv
  <1> QED BY <1>4, <1>5, <1>6

LEMMA QueueStep ==
    ASSUME QueueInv, [QueueNext]_queueVars
    PROVE  QueueInv'
  <1>1. Holds(queue, held)
    BY DEF QueueInv
  <1>2. ASSUME NEW e \in Fresh, AddItem(e) PROVE Holds(queue', held')
    BY <1>1, <1>2, AddHolds DEF AddItem, Fresh
  <1>3. ASSUME NEW e \in Fresh, InsertItem(e) PROVE Holds(queue', held')
    BY <1>3, InsertHolds DEF QueueInv
  <1>4. ASSUME NEW e \in Fresh, ChangeTop(e) PROVE Holds(queue', held')
    BY <1>1, <1>4, UpdateTopHolds DEF ChangeTop, Fresh, PQ!Top
  <1>5. ASSUME NEW e \in held, RemoveItem(e) PROVE Holds(queue', held')
    <2>1. PICK i \in 1..queue.size : /\ queue.heap[i] = e
                                     /\ queue' = PQ!RemoveAt(queue, i) /\ held' = held \ {e}
      BY <1>5 DEF RemoveItem
    <2> QED BY <1>1, <2>1, RemoveHolds
  <1>6. ASSUME PopItem PROVE Holds(queue', held')
    BY <1>1, <1>6, PopHolds DEF PopItem, PQ!Top
  <1>7. ASSUME ClearItems PROVE Holds(queue', held')
    BY <1>1, <1>7, ClearHolds DEF ClearItems
  <1>8. ASSUME UNCHANGED queueVars PROVE Holds(queue', held')
    BY <1>1, <1>8 DEF queueVars
  <1>9. Holds(queue', held')
    BY <1>2, <1>3, <1>4, <1>5, <1>6, <1>7, <1>8 DEF QueueNext
  <1> QED BY <1>9 DEF QueueInv

LEMMA QueueInvGives == QueueInv => TopIsLeast
  <1>. SUFFICES ASSUME QueueInv PROVE TopIsLeast
    OBVIOUS
  <1>1. /\ IsQueue(queue) /\ InOrder(Keys(queue), queue.size) /\ Elems(queue) = held
        /\ queue.size = Cardinality(held)
    BY DEF QueueInv, Holds
  <1>2. \A e \in held : ~ItemLess(e, PQ!Top(queue))
    BY <1>1, TopLeast DEF PQ!Top
  <1> QED BY <1>1, <1>2 DEF TopIsLeast, Elems

(* After any calls of Add, InsertWithOverflow, UpdateTop, Pop, Remove and Clear,*)
(* for every capacity and all elements, the queue of priority_queue.go holds    *)
(* what was put in and not returned, each element once, with a least one on     *)
(* top; and a full queue gives up a least element.                              *)
THEOREM QueueStaysOrdered == QueueSpec => QueueKeepsOrder
  <1>1. QueueInit => QueueInv
    BY QueueStarts
  <1>2. QueueInv /\ [QueueNext]_queueVars => QueueInv'
    BY QueueStep
  <1>3. QueueInv => TopIsLeast
    BY QueueInvGives
  <1>4. QueueInv /\ [QueueNext]_queueVars =>
            [\A e \in Fresh : InsertItem(e) /\ dropped' # NoItem =>
                \A kept \in held' : ~ItemLess(kept, dropped')]_queueVars
    BY InsertHolds
  <1> QED BY <1>1, <1>2, <1>3, <1>4, PTL DEF QueueSpec, QueueKeepsOrder, OverflowDropsLeast
=============================================================================
