------------------------------ MODULE HeapProofs ------------------------------
(* The binary heap of structure.PriorityQueue, for every order of its elements: *)
(* UpHeap and DownHeap put a heap in order in which one element is out of       *)
(* place, and move elements from one place to another, each to a place of its   *)
(* own.                                                                         *)
EXTENDS PriorityQueue, FiniteSetTheorems, Recursion, TLAPS

IsQueue(q) ==
    /\ q = [heap |-> q.heap, size |-> q.size, maxSize |-> q.maxSize]
    /\ q.maxSize \in Nat /\ q.maxSize >= 1 /\ q.size \in 0..q.maxSize
    /\ q.heap = [i \in 1..q.maxSize |-> q.heap[i]]

(* K gives the elements of q integer keys that compare as they do.              *)
Keyed(q, K) ==
    /\ K \in [1..q.size -> Int]
    /\ \A i, j \in 1..q.size : LessThan(q.heap[i], q.heap[j]) <=> K[i] < K[j]

LEMMA UpHeapMoves ==
    ASSUME NEW q, IsQueue(q), NEW K, Keyed(q, K), NEW pos \in 1..q.size
    PROVE  \E P : /\ PathShape(1..pos, UpGoesOn(K, pos), UpLink(pos), UpRank(pos), P, pos)
                  /\ UpHeap(q, pos) =
                        [q EXCEPT !.heap = [i \in 1..q.maxSize |->
                            Moved(q.heap, P, UpGoesOn(K, pos), UpLink(pos), pos, i)]]
  <1>. DEFINE Up(i) == i > 1 /\ LessThan(q.heap[pos], q.heap[i \div 2])
              Chain(path) == path = [i \in 1..pos |-> {i} \cup IF Up(i) THEN path[i \div 2] ELSE {}]
              After(path) == [q EXCEPT !.heap = [i \in DOMAIN @ |->
                                IF i \notin path[pos] THEN @[i]
                                ELSE IF Up(i) THEN @[i \div 2] ELSE q.heap[pos]]]
              g == UpGoesOn(K, pos)
              l == UpLink(pos)
  <1>1. pos \in Nat /\ q.size \in Nat /\ pos <= q.size /\ 1 <= pos
    BY DEF IsQueue
  <1>2. ASSUME NEW i \in 1..pos
        PROVE  g[i] = Up(i) /\ (Up(i) => l[i] = i \div 2 /\ i \div 2 \in 1..pos)
    <2>1. CASE i > 1
      <3>1. i \div 2 \in 1..pos
        BY <1>1, <2>1, HalfFacts
      <3>2. i \div 2 \in 1..q.size /\ pos \in 1..q.size
        BY <1>1, <3>1
      <3>3. LessThan(q.heap[pos], q.heap[i \div 2]) <=> K[pos] < K[i \div 2]
        BY <3>2 DEF Keyed
      <3> QED BY <2>1, <3>1, <3>3 DEF UpGoesOn, UpLink, Rises
    <2>2. CASE ~(i > 1)
      BY <2>2 DEF UpGoesOn, Rises
    <2> QED BY <2>1, <2>2
  <1>3. Links(1..pos, g, l, UpRank(pos))
    BY <1>1, UpLinks
  <1>. HIDE DEF g, l
  <1>4. \E path : path = [i \in 1..pos |-> PathFrom(g, l, path, i)]
    <2>1. pos + 1 \in Nat /\ \A i \in 1..pos : UpRank(pos)[i] < pos + 1
      BY <1>1 DEF UpRank
    <2>. DEFINE D == 1..pos
                r == UpRank(pos)
                N == pos + 1
    <2>2. Links(D, g, l, r) /\ N \in Nat /\ \A i \in D : r[i] < N
      BY <1>3, <2>1
    <2>. HIDE DEF D, r, N
    <2>3. \E path : path = [i \in D |-> PathFrom(g, l, path, i)]
      BY <2>2, PathExists
    <2> QED BY <2>3 DEF D
  <1>5. ASSUME NEW path PROVE \A i \in 1..pos :
           PathFrom(g, l, path, i) = {i} \cup IF Up(i) THEN path[i \div 2] ELSE {}
    BY <1>2 DEF PathFrom
  <1>6. \E path : Chain(path)
    <2>1. PICK path : path = [i \in 1..pos |-> PathFrom(g, l, path, i)]
      BY <1>4
    <2>. HIDE DEF Up
    <2>2. Chain(path)
      BY <1>5, <2>1
    <2> QED BY <2>2
  <1>7. \E path : Chain(path) /\ UpHeap(q, pos) = After(path)
    BY <1>6, Zenon DEF UpHeap
  <1>8. PICK path : Chain(path) /\ UpHeap(q, pos) = After(path)
    BY <1>7
  <1>9. \A i \in 1..pos : path[i] = PathFrom(g, l, path, i)
    <2>. HIDE DEF Up
    <2> QED BY <1>5, <1>8
  <1>10. PathShape(1..pos, g, l, UpRank(pos), path[pos], pos)
    BY <1>1, <1>3, <1>9, PathsHaveShape
  <1>11. path[pos] \subseteq 1..pos
    BY <1>10 DEF PathShape
  <1>12. DOMAIN q.heap = 1..q.maxSize
    BY DEF IsQueue
  <1>13. After(path) = [q EXCEPT !.heap = [i \in 1..q.maxSize |->
                            Moved(q.heap, path[pos], g, l, pos, i)]]
    <2>. HIDE DEF Up
    <2>1. ASSUME NEW i \in 1..q.maxSize
          PROVE  Moved(q.heap, path[pos], g, l, pos, i) =
                    IF i \notin path[pos] THEN q.heap[i]
                    ELSE IF Up(i) THEN q.heap[i \div 2] ELSE q.heap[pos]
      BY <1>2, <1>11 DEF Moved
    <2> QED BY <1>12, <2>1
  <1> QED BY <1>8, <1>10, <1>13 DEF g, l

LEMMA DownHeapMoves ==
    ASSUME NEW q, IsQueue(q), NEW K, Keyed(q, K), NEW pos \in 1..q.size
    PROVE  \E P : /\ PathShape(1..q.maxSize, DownGoesOn(K, q.size, pos, q.maxSize),
                               DownLink(K, q.size, q.maxSize), DownRank(q.maxSize), P, pos)
                  /\ DownHeap(q, pos) =
                        [q EXCEPT !.heap = [i \in 1..q.maxSize |->
                            Moved(q.heap, P, DownGoesOn(K, q.size, pos, q.maxSize),
                                  DownLink(K, q.size, q.maxSize), pos, i)]]
  <1>. DEFINE n == q.size
              m == q.maxSize
              Next1(i) == IF 2 * i + 1 <= q.size /\ LessThan(q.heap[2 * i + 1], q.heap[2 * i])
                          THEN 2 * i + 1 ELSE 2 * i
              Down(i) == Next1(i) <= q.size /\ LessThan(q.heap[Next1(i)], q.heap[pos])
              Chain(path) == path = [i \in 1..q.maxSize |->
                                {i} \cup IF Down(i) THEN path[Next1(i)] ELSE {}]
              After(path) == [q EXCEPT !.heap = [i \in DOMAIN @ |->
                                IF i \notin path[pos] THEN @[i]
                                ELSE IF Down(i) THEN @[Next1(i)] ELSE q.heap[pos]]]
              g == DownGoesOn(K, n, pos, m)
              l == DownLink(K, n, m)
  <1>1. n \in Nat /\ m \in Nat /\ n \in 0..m /\ pos \in 1..n /\ pos \in 1..m
    BY DEF IsQueue
  <1>2. ASSUME NEW i \in 1..m
        PROVE  g[i] = Down(i) /\ (Down(i) => l[i] = Next1(i))
    <2>1. 2 * i \in Nat /\ 2 * i + 1 \in Nat /\ 2 * i >= 1
      BY <1>1
    <2>2. \A j, k \in 1..n : LessThan(q.heap[j], q.heap[k]) <=> K[j] < K[k]
      BY DEF Keyed
    <2>3. Child(K, n, i) = Next1(i)
      <3>1. CASE 2 * i + 1 <= n
        <4>1. 2 * i + 1 \in 1..n /\ 2 * i \in 1..n
          BY <1>1, <2>1, <3>1
        <4> QED BY <2>2, <4>1 DEF Child
      <3>2. CASE ~(2 * i + 1 <= n)
        BY <3>2 DEF Child
      <3> QED BY <3>1, <3>2
    <2>4. Child(K, n, i) \in Nat /\ Child(K, n, i) >= 1
      BY <1>1, ChildFacts
    <2>5. Child(K, n, i) <= n => Child(K, n, i) \in 1..n /\ Child(K, n, i) <= m
      BY <1>1, <2>4
    <2>. HIDE DEF n, m, Next1
    <2>6. Sinks(K, n, pos, i) = Down(i)
      BY <1>1, <2>2, <2>3, <2>5 DEF Sinks, n
    <2>7. g[i] = Sinks(K, n, pos, i) /\ (Child(K, n, i) <= m => l[i] = Child(K, n, i))
      BY DEF DownGoesOn, DownLink
    <2> QED BY <2>3, <2>5, <2>6, <2>7 DEF n
  <1>3. Links(1..m, g, l, DownRank(m))
    BY <1>1, DownLinks
  <1>. HIDE DEF g, l
  <1>4. \E path : path = [i \in 1..m |-> PathFrom(g, l, path, i)]
    <2>1. m + 1 \in Nat /\ \A i \in 1..m : DownRank(m)[i] < m + 1
      BY <1>1 DEF DownRank
    <2>. DEFINE D == 1..m
                r == DownRank(m)
                N == m + 1
    <2>2. Links(D, g, l, r) /\ N \in Nat /\ \A i \in D : r[i] < N
      BY <1>3, <2>1
    <2>. HIDE DEF D, r, N
    <2>3. \E path : path = [i \in D |-> PathFrom(g, l, path, i)]
      BY <2>2, PathExists
    <2> QED BY <2>3 DEF D
  <1>5. ASSUME NEW path PROVE \A i \in 1..m :
           PathFrom(g, l, path, i) = {i} \cup IF Down(i) THEN path[Next1(i)] ELSE {}
    <2>. HIDE DEF Down, Next1
    <2> QED BY <1>2 DEF PathFrom
  <1>6. \E path : Chain(path)
    <2>1. PICK path : path = [i \in 1..m |-> PathFrom(g, l, path, i)]
      BY <1>4
    <2>. HIDE DEF Down, Next1
    <2>2. Chain(path)
      BY <1>5, <2>1
    <2> QED BY <2>2
  <1>7. \E path : Chain(path) /\ DownHeap(q, pos) = After(path)
    BY <1>6, Zenon DEF DownHeap
  <1>8. PICK path : Chain(path) /\ DownHeap(q, pos) = After(path)
    BY <1>7
  <1>9. \A i \in 1..m : path[i] = PathFrom(g, l, path, i)
    <2>. HIDE DEF Down, Next1
    <2> QED BY <1>5, <1>8
  <1>10. PathShape(1..m, g, l, DownRank(m), path[pos], pos)
    <2>. HIDE DEF m
    <2> QED BY <1>1, <1>3, <1>9, PathsHaveShape
  <1>11. path[pos] \subseteq 1..m
    BY <1>10 DEF PathShape
  <1>12. DOMAIN q.heap = 1..q.maxSize
    BY DEF IsQueue
  <1>13. After(path) = [q EXCEPT !.heap = [i \in 1..q.maxSize |->
                            Moved(q.heap, path[pos], g, l, pos, i)]]
    <2>. HIDE DEF Down, Next1
    <2>1. ASSUME NEW i \in 1..q.maxSize
          PROVE  Moved(q.heap, path[pos], g, l, pos, i) =
                    IF i \notin path[pos] THEN q.heap[i]
                    ELSE IF Down(i) THEN q.heap[Next1(i)] ELSE q.heap[pos]
      BY <1>2, <1>11 DEF Moved
    <2> QED BY <1>12, <2>1
  <1> QED BY <1>8, <1>10, <1>13 DEF g, l

-----------------------------------------------------------------------------
(* Moving elements along a chain permutes the places.                          *)

Permutes(perm, n) == perm \in Bijection(1..n, 1..n)

LEMMA IntervalSize ==
    ASSUME NEW n \in Nat
    PROVE  IsFiniteSet(1..n) /\ Cardinality(1..n) = n
  <1>1. 1 \in Int /\ n \in Int
    OBVIOUS
  <1>2. IsFiniteSet(1..n) /\ Cardinality(1..n) = IF 1 > n THEN 0 ELSE n - 1 + 1
    BY <1>1, FS_Interval, Zenon
  <1> QED BY <1>2

LEMMA OntoPermutes ==
    ASSUME NEW n \in Nat, NEW f \in [1..n -> 1..n], \A k \in 1..n : \E i \in 1..n : f[i] = k
    PROVE  Permutes(f, n)
  <1>. DEFINE S == 1..n
  <1>1. IsFiniteSet(S) /\ Cardinality(S) = n
    BY IntervalSize
  <1>2. f \in Surjection(S, S)
    BY DEF Surjection
  <1>. HIDE DEF S
  <1>3. f \in Injection(S, S)
    BY <1>1, <1>2, FS_Surjection
  <1> QED BY <1>2, <1>3 DEF Permutes, Bijection, S

LEMMA MovedPermutes ==
    ASSUME NEW D, NEW g, NEW l, NEW rank, NEW P, NEW pos \in D, PathShape(D, g, l, rank, P, pos),
           NEW n \in Nat, P \subseteq 1..n
    PROVE  \E perm : /\ Permutes(perm, n)
                     /\ \A H : \A i \in 1..n : Moved(H, P, g, l, pos, i) = H[perm[i]]
  <1>1. /\ pos \in P
        /\ \A j \in P : g[j] => l[j] \in P
        /\ \A j \in P : j # pos => \E c \in P : g[c] /\ l[c] = j
        /\ \E e \in P : ~g[e]
    BY DEF PathShape
  <1>. DEFINE perm == [i \in 1..n |-> IF i \notin P THEN i ELSE IF g[i] THEN l[i] ELSE pos]
  <1>2. ASSUME NEW i \in 1..n PROVE perm[i] \in 1..n
    <2>1. CASE i \notin P
      BY <2>1
    <2>2. CASE i \in P /\ g[i]
      BY <1>1, <2>2
    <2>3. CASE i \in P /\ ~g[i]
      BY <1>1, <2>3
    <2> QED BY <2>1, <2>2, <2>3
  <1>3. ASSUME NEW k \in 1..n PROVE \E i \in 1..n : perm[i] = k
    <2>1. CASE k \notin P
      BY <2>1
    <2>2. CASE k \in P /\ k # pos
      <3>1. PICK c \in P : g[c] /\ l[c] = k
        BY <1>1, <2>2
      <3> QED BY <3>1
    <2>3. CASE k = pos
      <3>1. PICK e \in P : ~g[e]
        BY <1>1
      <3> QED BY <2>3, <3>1
    <2> QED BY <2>1, <2>2, <2>3
  <1>4. ASSUME NEW H, NEW i \in 1..n PROVE Moved(H, P, g, l, pos, i) = H[perm[i]]
    BY DEF Moved
  <1>5. perm = [i \in 1..n |-> perm[i]]
    OBVIOUS
  <1>. HIDE DEF perm
  <1>6. perm \in [1..n -> 1..n]
    BY <1>2, <1>5
  <1> QED BY <1>3, <1>4, <1>6, OntoPermutes

(* r is q with the elements in other places.                                   *)
Rearranged(q, r) ==
    /\ IsQueue(r) /\ r.size = q.size /\ r.maxSize = q.maxSize
    /\ \A i \in q.size + 1 .. q.maxSize : r.heap[i] = q.heap[i]
    /\ \E perm : Permutes(perm, q.size) /\ \A i \in 1..q.size : r.heap[i] = q.heap[perm[i]]

(* No element is less than the one above it.                                   *)
HeapOrdered(q) == \A j \in 2..q.size : ~LessThan(q.heap[j], q.heap[j \div 2])

LEMMA MovedInOrder ==
    ASSUME NEW q, IsQueue(q), NEW K, Keyed(q, K), NEW D, NEW g, NEW l, NEW rank, NEW P,
           NEW pos \in 1..q.size, pos \in D, PathShape(D, g, l, rank, P, pos), P \subseteq 1..q.size,
           NEW r, r = [q EXCEPT !.heap = [i \in 1..q.maxSize |-> Moved(q.heap, P, g, l, pos, i)]],
           \A R : (\A i \in 1..q.size : R[i] = Moved(K, P, g, l, pos, i)) => InOrder(R, q.size)
    PROVE  Rearranged(q, r) /\ HeapOrdered(r)
  <1>. DEFINE n == q.size
              H == [i \in 1..q.maxSize |-> Moved(q.heap, P, g, l, pos, i)]
              R == [i \in 1..n |-> Moved(K, P, g, l, pos, i)]
  <1>1. n \in Nat /\ n \in 0..q.maxSize /\ q.maxSize \in Nat
    BY DEF IsQueue
  <1>2. /\ r.heap = H /\ r.size = n /\ r.maxSize = q.maxSize
        /\ r = [heap |-> r.heap, size |-> r.size, maxSize |-> r.maxSize]
    <2>1. q = [heap |-> q.heap, size |-> n, maxSize |-> q.maxSize]
      BY DEF IsQueue
    <2>2. r = [q EXCEPT !.heap = H]
      OBVIOUS
    <2>. HIDE DEF H, n
    <2>3. [q EXCEPT !.heap = H] = [heap |-> H, size |-> n, maxSize |-> q.maxSize]
      BY <2>1
    <2> QED BY <2>2, <2>3
  <1>3. IsQueue(r)
    BY <1>2 DEF IsQueue
  <1>4. ASSUME NEW i \in n + 1 .. q.maxSize PROVE r.heap[i] = q.heap[i]
    <2>1. i \in 1..q.maxSize /\ i \notin P
      BY <1>1
    <2> QED BY <1>2, <2>1 DEF Moved
  <1>5. PICK perm : /\ Permutes(perm, n)
                    /\ \A F : \A i \in 1..n : Moved(F, P, g, l, pos, i) = F[perm[i]]
    BY <1>1, MovedPermutes
  <1>6. \A i \in 1..n : r.heap[i] = q.heap[perm[i]] /\ R[i] = K[perm[i]] /\ perm[i] \in 1..n
    <2>1. \A i \in 1..n : i \in 1..q.maxSize
      BY <1>1
    <2>2. \A i \in 1..n : perm[i] \in 1..n
      BY <1>5 DEF Permutes, Bijection, Injection
    <2> QED BY <1>2, <1>5, <2>1, <2>2
  <1>7. InOrder(R, n)
    OBVIOUS
  <1>. HIDE DEF R
  <1>8. HeapOrdered(r)
    <2>. SUFFICES ASSUME NEW j \in 2..n PROVE ~LessThan(r.heap[j], r.heap[j \div 2])
      BY <1>2 DEF HeapOrdered
    <2>1. j \in 1..n /\ j \div 2 \in 1..n
      BY <1>1, HalfFacts
    <2>2. R[j \div 2] <= R[j] /\ R[j] \in Int /\ R[j \div 2] \in Int
      BY <1>6, <1>7, <2>1 DEF InOrder, Keyed
    <2>3. LessThan(q.heap[perm[j]], q.heap[perm[j \div 2]]) <=> R[j] < R[j \div 2]
      BY <1>6, <2>1 DEF Keyed
    <2>4. ~LessThan(q.heap[perm[j]], q.heap[perm[j \div 2]])
      BY <2>2, <2>3
    <2>5. r.heap[j] = q.heap[perm[j]] /\ r.heap[j \div 2] = q.heap[perm[j \div 2]]
      BY <1>6, <2>1
    <2> QED BY <2>4, <2>5, Zenon
  <1> QED BY <1>2, <1>3, <1>4, <1>5, <1>6, <1>8 DEF Rearranged

(* upHeap and downHeap put a queue in order.                                   *)
LEMMA UpHeapRestores ==
    ASSUME NEW q, IsQueue(q), NEW K, Keyed(q, K), NEW pos \in 1..q.size, InOrderBut(K, q.size, pos),
           \/ Rises(K, pos, pos)
           \/ \A j \in 2..q.size : j \div 2 = pos => K[pos] <= K[j]
    PROVE  Rearranged(q, UpHeap(q, pos)) /\ HeapOrdered(UpHeap(q, pos))
  <1>. DEFINE n == q.size
              g == UpGoesOn(K, pos)
              l == UpLink(pos)
              D == 1..pos
              rank == UpRank(pos)
  <1>1. PICK P : /\ PathShape(D, g, l, rank, P, pos)
                 /\ UpHeap(q, pos) = [q EXCEPT !.heap = [i \in 1..q.maxSize |->
                                            Moved(q.heap, P, g, l, pos, i)]]
    BY UpHeapMoves
  <1>2. n \in Nat /\ K \in [1..n -> Int] /\ pos \in D
    BY DEF IsQueue, Keyed
  <1>3. P \subseteq 1..n
    <2>1. P \subseteq 1..pos
      BY <1>1 DEF PathShape
    <2> QED BY <1>2, <2>1
  <1>4. ASSUME NEW R, \A i \in 1..n : R[i] = Moved(K, P, g, l, pos, i) PROVE InOrder(R, n)
    <2>. HIDE DEF n
    <2> QED BY <1>1, <1>2, <1>4, UpOrder DEF n
  <1>. HIDE DEF g, l, D, rank
  <1> QED BY <1>1, <1>2, <1>3, <1>4, MovedInOrder

LEMMA DownHeapRestores ==
    ASSUME NEW q, IsQueue(q), NEW K, Keyed(q, K), NEW pos \in 1..q.size, InOrderBut(K, q.size, pos),
           pos > 1 => K[pos \div 2] <= K[pos]
    PROVE  Rearranged(q, DownHeap(q, pos)) /\ HeapOrdered(DownHeap(q, pos))
  <1>. DEFINE n == q.size
              m == q.maxSize
              g == DownGoesOn(K, n, pos, m)
              l == DownLink(K, n, m)
              D == 1..m
              rank == DownRank(m)
  <1>1. PICK P : /\ PathShape(D, g, l, rank, P, pos)
                 /\ DownHeap(q, pos) = [q EXCEPT !.heap = [i \in 1..m |->
                                            Moved(q.heap, P, g, l, pos, i)]]
    BY DownHeapMoves
  <1>2. n \in Nat /\ K \in [1..n -> Int] /\ pos \in 1..m /\ m \in Nat /\ n \in 0..m /\ pos \in 1..n
    BY DEF IsQueue, Keyed
  <1>3. P \subseteq 1..n
    <2>. SUFFICES ASSUME NEW j \in P, j # pos PROVE j \in 1..n
      BY <1>2
    <2>1. PICK c \in P : g[c] /\ l[c] = j
      BY <1>1 DEF PathShape
    <2>2. c \in 1..m /\ j \in 1..m
      BY <1>1 DEF PathShape
    <2>3. Child(K, n, c) <= n /\ Child(K, n, c) \in Nat
      <3>1. Sinks(K, n, pos, c)
        BY <2>1, <2>2 DEF DownGoesOn
      <3>2. c \in Nat /\ c >= 1
        BY <1>2, <2>2
      <3> QED BY <1>2, <3>1, <3>2, ChildFacts DEF Sinks
    <2>4. l[c] = Child(K, n, c)
      <3>1. Child(K, n, c) <= m
        BY <1>2, <2>3
      <3> QED BY <2>2, <3>1 DEF DownLink
    <2>. HIDE DEF n, m
    <2> QED BY <1>2, <2>1, <2>2, <2>3, <2>4
  <1>4. ASSUME NEW R, \A i \in 1..n : R[i] = Moved(K, P, g, l, pos, i) PROVE InOrder(R, n)
    <2>1. /\ InOrderBut(K, n, pos)
          /\ pos > 1 => K[pos \div 2] <= K[pos]
      OBVIOUS
    <2>. HIDE DEF n, m
    <2> QED BY <1>1, <1>2, <1>4, <2>1, DownOrder
  <1>5. pos \in D
    BY <1>2
  <1>. HIDE DEF g, l, D, rank
  <1> QED BY <1>1, <1>2, <1>3, <1>4, <1>5, MovedInOrder

-----------------------------------------------------------------------------
(* The methods, for elements of a set V on which LessThan is an order.         *)

Orders(V) ==
    \A a, b, c \in V :
        /\ ~LessThan(a, a)
        /\ LessThan(a, b) /\ LessThan(b, c) => LessThan(a, c)
        /\ LessThan(a, c) => LessThan(a, b) \/ LessThan(b, c)

HoldsOnly(q, V) == \A i \in 1..q.size : q.heap[i] \in V

(* An element's key is the number of elements less than it.                    *)
LEMMA KeysExist ==
    ASSUME NEW q, IsQueue(q), NEW V, Orders(V), HoldsOnly(q, V)
    PROVE  \E K : Keyed(q, K)
  <1>. DEFINE n == q.size
              D == 1..n
              Less(i, j) == LessThan(q.heap[i], q.heap[j])
              Below(i) == {k \in D : Less(k, i)}
              K == [i \in D |-> Cardinality(Below(i))]
  <1>1. IsFiniteSet(D)
    BY IntervalSize DEF IsQueue
  <1>2. \A i, j, k \in D : /\ ~Less(i, i)
                           /\ Less(i, j) /\ Less(j, k) => Less(i, k)
                           /\ Less(i, k) => Less(i, j) \/ Less(j, k)
    BY DEF HoldsOnly, Orders
  <1>. HIDE DEF D, Less
  <1>3. ASSUME NEW i \in D PROVE IsFiniteSet(Below(i)) /\ K[i] = Cardinality(Below(i)) /\ K[i] \in Int
    <2>1. IsFiniteSet(Below(i))
      BY <1>1, FS_Subset
    <2> QED BY <2>1, FS_CardinalityType
  <1>4. ASSUME NEW i \in D, NEW j \in D, Less(i, j) PROVE K[i] < K[j]
    <2>1. Below(i) \subseteq Below(j) /\ i \in Below(j) /\ i \notin Below(i)
      BY <1>2, <1>4
    <2>2. Cardinality(Below(i)) <= Cardinality(Below(j)) /\ Cardinality(Below(i)) # Cardinality(Below(j))
      <3>. DEFINE S == Below(j)
                  T == Below(i)
      <3>1. IsFiniteSet(S) /\ T \in SUBSET S /\ S # T
        BY <1>3, <2>1
      <3>. HIDE DEF S, T
      <3>2. Cardinality(T) <= Cardinality(S) /\ Cardinality(S) # Cardinality(T)
        BY <3>1, FS_Subset
      <3> QED BY <3>2 DEF S, T
    <2>. HIDE DEF K
    <2> QED BY <1>3, <2>2
  <1>5. ASSUME NEW i \in D, NEW j \in D, ~Less(i, j) PROVE K[j] <= K[i]
    <2>1. Below(j) \subseteq Below(i)
      BY <1>2, <1>5
    <2>2. Cardinality(Below(j)) <= Cardinality(Below(i))
      <3>. DEFINE S == Below(i)
                  T == Below(j)
      <3>1. IsFiniteSet(S) /\ T \in SUBSET S
        BY <1>3, <2>1
      <3>. HIDE DEF S, T
      <3>2. Cardinality(T) <= Cardinality(S)
        BY <3>1, FS_Subset
      <3> QED BY <3>2 DEF S, T
    <2>. HIDE DEF K
    <2> QED BY <1>3, <2>2
  <1>6. K \in [D -> Int]
    <2>1. K = [i \in D |-> K[i]]
      OBVIOUS
    <2>. HIDE DEF K
    <2> QED BY <1>3, <2>1
  <1>7. \A i, j \in D : Less(i, j) <=> K[i] < K[j]
    <2>. SUFFICES ASSUME NEW i \in D, NEW j \in D PROVE Less(i, j) <=> K[i] < K[j]
      OBVIOUS
    <2>. HIDE DEF K
    <2>1. K[i] \in Int /\ K[j] \in Int
      BY <1>3
    <2>2. CASE Less(i, j)
      BY <1>4, <2>2
    <2>3. CASE ~Less(i, j)
      <3>1. K[j] <= K[i]
        BY <1>5, <2>3
      <3> QED BY <2>1, <2>3, <3>1
    <2> QED BY <2>2, <2>3
  <1>. HIDE DEF K
  <1> QED BY <1>6, <1>7 DEF Keyed, D, Less

(* The top is a least element.                                                 *)
LEMMA TopLeast ==
    ASSUME NEW q, IsQueue(q), NEW V, Orders(V), HoldsOnly(q, V), HeapOrdered(q), NEW k \in 1..q.size
    PROVE  ~LessThan(q.heap[k], q.heap[1])
  <1>. DEFINE n == q.size
              Bad == {i \in 1..n : LessThan(q.heap[i], q.heap[1])}
  <1>1. n \in Nat /\ 1 \in 1..n /\ \A i \in 1..n : q.heap[i] \in V
    BY DEF IsQueue, HoldsOnly
  <1>2. ASSUME NEW m \in Bad, \A i \in Bad : m <= i PROVE FALSE
    <2>1. m \in 1..n /\ LessThan(q.heap[m], q.heap[1]) /\ m \in Nat
      BY <1>1
    <2>2. m # 1
      BY <1>1, <2>1 DEF Orders
    <2>3. m \in 2..n /\ m \div 2 \in 1..n /\ m \div 2 < m
      BY <1>1, <2>1, <2>2, HalfFacts
    <2>4. ~LessThan(q.heap[m], q.heap[m \div 2])
      BY <2>3 DEF HeapOrdered
    <2>5. q.heap[m] \in V /\ q.heap[m \div 2] \in V /\ q.heap[1] \in V
      BY <1>1, <2>1, <2>3
    <2>6. LessThan(q.heap[m \div 2], q.heap[1])
      <3>. DEFINE a == q.heap[m]
                  b == q.heap[m \div 2]
                  c == q.heap[1]
      <3>. HIDE DEF a, b, c
      <3>1. LessThan(a, c) /\ ~LessThan(a, b) /\ a \in V /\ b \in V /\ c \in V
        BY <2>1, <2>4, <2>5 DEF a, b, c
      <3>2. LessThan(b, c)
        BY <3>1 DEF Orders
      <3> QED BY <3>2 DEF b, c
    <2>7. m \div 2 \in Bad
      BY <2>3, <2>6
    <2> QED BY <1>2, <2>1, <2>3, <2>7
  <1>3. Bad = {}
    <2>1. Bad \subseteq Nat
      OBVIOUS
    <2>. HIDE DEF Bad
    <2> QED BY <1>2, <2>1, LeastNat
  <1> QED BY <1>3

(* A queue of k elements in which all but the one at pos are where q has them. *)
OrderedBut(q, r, pos) ==
    /\ IsQueue(r) /\ r.size <= q.size
    /\ \A i \in 1..r.size : i # pos => r.heap[i] = q.heap[i]

LEMMA OutOfPlaceKeys ==
    ASSUME NEW q, IsQueue(q), NEW V, Orders(V), HoldsOnly(q, V), HeapOrdered(q),
           NEW r, HoldsOnly(r, V), OrderedBut(q, r, 1)
    PROVE  \E K : Keyed(r, K) /\ InOrderBut(K, r.size, 1)
  <1>1. PICK K : Keyed(r, K)
    BY KeysExist DEF OrderedBut
  <1>2. ASSUME NEW j \in 2..r.size, j # 1, j \div 2 # 1 PROVE K[j \div 2] <= K[j]
    <2>1. r.size \in Nat /\ q.size \in Nat /\ r.size <= q.size
      BY DEF IsQueue, OrderedBut
    <2>2. j \in 1..r.size /\ j \div 2 \in 1..r.size /\ j \in 2..q.size
      BY <2>1, HalfFacts
    <2>3. ~LessThan(q.heap[j], q.heap[j \div 2])
      BY <2>2 DEF HeapOrdered
    <2>4. r.heap[j] = q.heap[j] /\ r.heap[j \div 2] = q.heap[j \div 2]
      BY <1>2, <2>2 DEF OrderedBut
    <2>5. ~LessThan(r.heap[j], r.heap[j \div 2])
      BY <2>3, <2>4, Zenon
    <2>6. K[j] \in Int /\ K[j \div 2] \in Int /\ ~(K[j] < K[j \div 2])
      BY <1>1, <2>2, <2>5 DEF Keyed
    <2> QED BY <2>6
  <1>3. InOrderBut(K, r.size, 1)
    BY <1>2 DEF InOrderBut
  <1> QED BY <1>1, <1>3

LEMMA UpdateTopRestores ==
    ASSUME NEW q, IsQueue(q), NEW V, Orders(V), HoldsOnly(q, V), HeapOrdered(q), q.size > 0, NEW e \in V
    PROVE  /\ IsQueue(UpdateTop(q, e)) /\ HeapOrdered(UpdateTop(q, e))
           /\ UpdateTop(q, e).size = q.size /\ UpdateTop(q, e).maxSize = q.maxSize
           /\ \E perm : /\ Permutes(perm, q.size)
                        /\ \A i \in 1..q.size : UpdateTop(q, e).heap[i] =
                               IF perm[i] = 1 THEN e ELSE q.heap[perm[i]]
  <1>. DEFINE n == q.size
              r == [q EXCEPT !.heap[1] = e]
              h == [q.heap EXCEPT ![1] = e]
  <1>1. /\ n \in Nat /\ 1 \in 1..n /\ 1 \in 1..q.maxSize /\ \A i \in 1..n : i \in 1..q.maxSize
        /\ DOMAIN q.heap = 1..q.maxSize
        /\ q = [heap |-> q.heap, size |-> n, maxSize |-> q.maxSize]
    BY DEF IsQueue
  <1>2. r = [heap |-> h, size |-> n, maxSize |-> q.maxSize]
    <2>1. r = [q EXCEPT !.heap = h]
      OBVIOUS
    <2>. HIDE DEF h, r, n
    <2> QED BY <1>1, <2>1
  <1>3. h[1] = e /\ (\A i \in 1..q.maxSize : i # 1 => h[i] = q.heap[i]) /\ h = [i \in 1..q.maxSize |-> h[i]]
    BY <1>1
  <1>. HIDE DEF r, h
  <1>4. r.heap = h /\ r.size = n /\ r.maxSize = q.maxSize
    BY <1>2
  <1>5. IsQueue(r)
    BY <1>2, <1>3, <1>4 DEF IsQueue
  <1>6. HoldsOnly(r, V)
    BY <1>1, <1>3, <1>4 DEF HoldsOnly
  <1>7. OrderedBut(q, r, 1)
    BY <1>1, <1>3, <1>4, <1>5 DEF OrderedBut
  <1>8. PICK K : Keyed(r, K) /\ InOrderBut(K, r.size, 1)
    BY <1>6, <1>7, OutOfPlaceKeys
  <1>9. UpdateTop(q, e) = DownHeap(r, 1)
    BY DEF UpdateTop, r
  <1>10. Rearranged(r, UpdateTop(q, e)) /\ HeapOrdered(UpdateTop(q, e))
    <2>1. 1 \in 1..r.size /\ ~(1 > 1)
      BY <1>1, <1>4
    <2> QED BY <1>5, <1>8, <1>9, <2>1, DownHeapRestores
  <1>. DEFINE t == UpdateTop(q, e)
  <1>. HIDE DEF t
  <1>11. PICK perm : Permutes(perm, n) /\ \A i \in 1..n : t.heap[i] = r.heap[perm[i]]
    BY <1>4, <1>10 DEF Rearranged, t
  <1>12. \A i \in 1..n : t.heap[i] = IF perm[i] = 1 THEN e ELSE q.heap[perm[i]]
    <2>1. \A i \in 1..n : perm[i] \in 1..n
      BY <1>11 DEF Permutes, Bijection, Injection
    <2> QED BY <1>1, <1>3, <1>4, <1>11, <2>1
  <1> QED BY <1>4, <1>10, <1>11, <1>12 DEF Rearranged, t

LEMMA Rebuilt ==
    ASSUME NEW q, q = [heap |-> q.heap, size |-> q.size, maxSize |-> q.maxSize], NEW h, NEW k
    PROVE  [q EXCEPT !.heap = h, !.size = k] = [heap |-> h, size |-> k, maxSize |-> q.maxSize]
  <1>1. ASSUME NEW a, NEW b, NEW c, NEW r
        PROVE  r \in [heap : {a}, size : {b}, maxSize : {c}]
                    <=> r = [heap |-> a, size |-> b, maxSize |-> c]
    OBVIOUS
  <1>2. ASSUME NEW a, NEW b, NEW c, NEW r \in [heap : {a}, size : {b}, maxSize : {c}]
        PROVE  [r EXCEPT !.heap = h, !.size = k] \in [heap : {h}, size : {k}, maxSize : {c}]
    OBVIOUS
  <1>. DEFINE a == q.heap
              b == q.size
              c == q.maxSize
              r == [q EXCEPT !.heap = h, !.size = k]
  <1>. HIDE DEF a, b, c
  <1>3. q = [heap |-> a, size |-> b, maxSize |-> c]
    BY DEF a, b, c
  <1>4. q \in [heap : {a}, size : {b}, maxSize : {c}]
    BY <1>1, <1>3, Zenon
  <1>5. r \in [heap : {h}, size : {k}, maxSize : {c}]
    BY <1>2, <1>4, Zenon
  <1>. HIDE DEF r
  <1>6. r = [heap |-> h, size |-> k, maxSize |-> c]
    BY <1>1, <1>5, Zenon
  <1> QED BY <1>6, Zenon DEF r, c

LEMMA DownHeapEmpty ==
    ASSUME NEW q, IsQueue(q), q.size = 0
    PROVE  DownHeap(q, 1) = q
  <1>. DEFINE Next1(i) == IF 2 * i + 1 <= q.size /\ LessThan(q.heap[2 * i + 1], q.heap[2 * i])
                          THEN 2 * i + 1 ELSE 2 * i
              Down(i) == Next1(i) <= q.size /\ LessThan(q.heap[Next1(i)], q.heap[1])
              Chain(path) == path = [i \in 1..q.maxSize |->
                                {i} \cup IF Down(i) THEN path[Next1(i)] ELSE {}]
              After(path) == [q EXCEPT !.heap = [i \in DOMAIN @ |->
                                IF i \notin path[1] THEN @[i]
                                ELSE IF Down(i) THEN @[Next1(i)] ELSE q.heap[1]]]
  <1>1. \A i \in 1..q.maxSize : ~Down(i)
    BY DEF IsQueue
  <1>2. 1 \in 1..q.maxSize /\ DOMAIN q.heap = 1..q.maxSize
    BY DEF IsQueue
  <1>3. \E path : Chain(path)
    <2>. DEFINE one == [i \in 1..q.maxSize |-> {i}]
    <2>. HIDE DEF Down, Next1
    <2>1. Chain(one)
      BY <1>1
    <2> QED BY <2>1
  <1>4. \E path : Chain(path) /\ DownHeap(q, 1) = After(path)
    BY <1>3, Zenon DEF DownHeap
  <1>5. PICK path : Chain(path) /\ DownHeap(q, 1) = After(path)
    BY <1>4
  <1>. HIDE DEF Down, Next1
  <1>6. path[1] = {1}
    BY <1>1, <1>2, <1>5
  <1>7. After(path) = [q EXCEPT !.heap = [i \in 1..q.maxSize |-> q.heap[i]]]
    BY <1>1, <1>2, <1>6
  <1>8. [q EXCEPT !.heap = [i \in 1..q.maxSize |-> q.heap[i]]] = q
    BY DEF IsQueue
  <1> QED BY <1>5, <1>7, <1>8

LEMMA PoppedRestores ==
    ASSUME NEW q, IsQueue(q), NEW V, Orders(V), HoldsOnly(q, V), HeapOrdered(q), q.size > 0
    PROVE  /\ IsQueue(Popped(q)) /\ HeapOrdered(Popped(q))
           /\ Popped(q).size = q.size - 1 /\ Popped(q).maxSize = q.maxSize
           /\ \E perm : /\ Permutes(perm, q.size - 1)
                        /\ \A i \in 1..(q.size - 1) : Popped(q).heap[i] =
                               q.heap[IF perm[i] = 1 THEN q.size ELSE perm[i]]
  <1>. DEFINE n == q.size
              m == n - 1
              h == [q.heap EXCEPT ![1] = q.heap[n], ![n] = None]
              r == [q EXCEPT !.heap[1] = q.heap[q.size], !.heap[q.size] = None, !.size = @ - 1]
              t == Popped(q)
  <1>1. /\ n \in Nat /\ m \in Nat /\ m = n - 1 /\ n \in 1..n /\ 1 \in 1..n /\ n \in 1..q.maxSize
        /\ 1 \in 1..q.maxSize /\ \A i \in 1..m : i \in 1..n /\ i \in 1..q.maxSize /\ i # n
        /\ DOMAIN q.heap = 1..q.maxSize /\ m \in 0..q.maxSize /\ q.maxSize \in Nat /\ q.maxSize >= 1
        /\ q = [heap |-> q.heap, size |-> q.size, maxSize |-> q.maxSize]
    BY DEF IsQueue
  <1>2. r = [heap |-> h, size |-> m, maxSize |-> q.maxSize]
    <2>1. r = [q EXCEPT !.heap = h, !.size = m]
      OBVIOUS
    <2>. HIDE DEF h, m, r
    <2> QED BY <1>1, <2>1, Rebuilt
  <1>3. /\ h = [i \in 1..q.maxSize |-> h[i]]
        /\ 1 \in 1..m => h[1] = q.heap[n]
        /\ \A i \in 1..m : i # 1 => h[i] = q.heap[i]
    BY <1>1
  <1>4. t = DownHeap(r, 1)
    BY DEF Popped
  <1>. HIDE DEF r, h, m, t
  <1>5. r.heap = h /\ r.size = m /\ r.maxSize = q.maxSize
    BY <1>2
  <1>6. IsQueue(r)
    BY <1>1, <1>2, <1>3, <1>5 DEF IsQueue
  <1>7. HoldsOnly(r, V)
    BY <1>1, <1>3, <1>5 DEF HoldsOnly
  <1>8. CASE m = 0
    <2>1. t = r
      BY <1>4, <1>5, <1>6, <1>8, DownHeapEmpty
    <2>2. HeapOrdered(r)
      BY <1>5, <1>8 DEF HeapOrdered
    <2>3. \E perm : Permutes(perm, m)
      <3>. DEFINE none == [i \in 1..m |-> i]
      <3>1. none \in [1..m -> 1..m] /\ \A k \in 1..m : \E i \in 1..m : none[i] = k
        OBVIOUS
      <3>. HIDE DEF none
      <3> QED BY <1>1, <3>1, OntoPermutes
    <2>4. \A i : i \notin 1..m
      BY <1>8
    <2> QED BY <1>5, <1>6, <2>1, <2>2, <2>3, <2>4 DEF t, m
  <1>9. CASE m # 0
    <2>1. 1 \in 1..r.size /\ ~(1 > 1) /\ r.size <= q.size
      BY <1>1, <1>5, <1>9
    <2>2. OrderedBut(q, r, 1)
      BY <1>3, <1>5, <1>6, <2>1 DEF OrderedBut
    <2>3. PICK K : Keyed(r, K) /\ InOrderBut(K, r.size, 1)
      BY <1>7, <2>2, OutOfPlaceKeys
    <2>4. Rearranged(r, t) /\ HeapOrdered(t)
      BY <1>4, <1>6, <2>1, <2>3, DownHeapRestores
    <2>5. PICK perm : Permutes(perm, m) /\ \A i \in 1..m : t.heap[i] = r.heap[perm[i]]
      BY <1>5, <2>4 DEF Rearranged
    <2>6. \A i \in 1..m : t.heap[i] = q.heap[IF perm[i] = 1 THEN n ELSE perm[i]]
      <3>1. \A i \in 1..m : perm[i] \in 1..m
        BY <2>5 DEF Permutes, Bijection, Injection
      <3>2. 1 \in 1..m
        BY <1>5, <2>1
      <3>. SUFFICES ASSUME NEW i \in 1..m
                    PROVE  t.heap[i] = q.heap[IF perm[i] = 1 THEN n ELSE perm[i]]
        OBVIOUS
      <3>3. CASE perm[i] = 1
        BY <1>3, <1>5, <2>5, <3>2, <3>3
      <3>4. CASE perm[i] # 1
        BY <1>3, <1>5, <2>5, <3>1, <3>4
      <3> QED BY <3>3, <3>4
    <2> QED BY <1>5, <2>4, <2>5, <2>6 DEF Rearranged, t, m
  <1> QED BY <1>8, <1>9

LEMMA AddRestores ==
    ASSUME NEW q, IsQueue(q), NEW V, Orders(V), HoldsOnly(q, V), HeapOrdered(q), q.size < q.maxSize,
           NEW e \in V
    PROVE  /\ IsQueue(Add(q, e)) /\ HeapOrdered(Add(q, e))
           /\ Add(q, e).size = q.size + 1 /\ Add(q, e).maxSize = q.maxSize
           /\ \E perm : /\ Permutes(perm, q.size + 1)
                        /\ \A i \in 1..(q.size + 1) : Add(q, e).heap[i] =
                               IF perm[i] = q.size + 1 THEN e ELSE q.heap[perm[i]]
  <1>. DEFINE n == q.size
              m == n + 1
              h == [q.heap EXCEPT ![m] = e]
              r == [q EXCEPT !.heap[q.size + 1] = e, !.size = @ + 1]
              t == Add(q, e)
  <1>1. /\ n \in Nat /\ m \in Nat /\ m = n + 1 /\ m \in 1..q.maxSize /\ m \in 1..m
        /\ \A i \in 1..m : i # m => i \in 1..n /\ i \in 1..q.maxSize
        /\ DOMAIN q.heap = 1..q.maxSize /\ m \in 0..q.maxSize /\ q.maxSize \in Nat /\ q.maxSize >= 1
        /\ q = [heap |-> q.heap, size |-> q.size, maxSize |-> q.maxSize]
    BY DEF IsQueue
  <1>2. r = [heap |-> h, size |-> m, maxSize |-> q.maxSize]
    <2>1. r = [q EXCEPT !.heap = h, !.size = m]
      OBVIOUS
    <2>. HIDE DEF h, m, r
    <2> QED BY <1>1, <2>1, Rebuilt
  <1>3. /\ h = [i \in 1..q.maxSize |-> h[i]] /\ h[m] = e
        /\ \A i \in 1..m : i # m => h[i] = q.heap[i]
    BY <1>1
  <1>4. t = UpHeap(r, m)
    BY DEF Add
  <1>. HIDE DEF r, h, m, t
  <1>5. r.heap = h /\ r.size = m /\ r.maxSize = q.maxSize
    BY <1>2
  <1>6. IsQueue(r)
    BY <1>1, <1>2, <1>3, <1>5 DEF IsQueue
  <1>7. HoldsOnly(r, V)
    BY <1>1, <1>3, <1>5 DEF HoldsOnly
  <1>8. PICK K : Keyed(r, K)
    BY <1>6, <1>7, KeysExist
  <1>9. ASSUME NEW j \in 2..m
        PROVE  /\ j \div 2 # m /\ j \div 2 \in 1..n /\ j \in 1..m /\ j \div 2 \in 1..m
               /\ j # m => j \in 2..n
    <2>1. j \in Nat /\ j >= 2 /\ j <= n + 1
      BY <1>1
    <2>2. j \div 2 \in Nat /\ 1 <= j \div 2 /\ j \div 2 < j
      BY <2>1, HalfFacts
    <2> QED BY <1>1, <2>1, <2>2
  <1>10. ASSUME NEW j \in 2..m, j # m PROVE K[j \div 2] <= K[j]
    <2>1. ~LessThan(q.heap[j], q.heap[j \div 2])
      BY <1>9, <1>10 DEF HeapOrdered
    <2>2. r.heap[j] = q.heap[j] /\ r.heap[j \div 2] = q.heap[j \div 2]
      BY <1>3, <1>5, <1>9, <1>10
    <2>3. ~LessThan(r.heap[j], r.heap[j \div 2])
      BY <2>1, <2>2, Zenon
    <2>4. K[j] \in Int /\ K[j \div 2] \in Int /\ ~(K[j] < K[j \div 2])
      BY <1>5, <1>8, <1>9, <2>3 DEF Keyed
    <2> QED BY <2>4
  <1>11. InOrderBut(K, m, m)
    BY <1>9, <1>10 DEF InOrderBut
  <1>12. Rearranged(r, t) /\ HeapOrdered(t)
    <2>1. m \in 1..r.size /\ InOrderBut(K, r.size, m) /\ \A j \in 2..r.size : j \div 2 # m
      BY <1>1, <1>5, <1>9, <1>11
    <2> QED BY <1>4, <1>6, <1>8, <2>1, UpHeapRestores
  <1>13. PICK perm : Permutes(perm, m) /\ \A i \in 1..m : t.heap[i] = r.heap[perm[i]]
    BY <1>5, <1>12 DEF Rearranged
  <1>14. \A i \in 1..m : t.heap[i] = IF perm[i] = m THEN e ELSE q.heap[perm[i]]
    <2>1. \A i \in 1..m : perm[i] \in 1..m
      BY <1>13 DEF Permutes, Bijection, Injection
    <2> QED BY <1>3, <1>5, <1>13, <2>1
  <1> QED BY <1>5, <1>12, <1>13, <1>14 DEF Rearranged, t, m

-----------------------------------------------------------------------------
(* Popping all of a queue: its elements come off in their order.               *)

PoppedSoFar(q, u, ix, i) ==
    /\ Permutes(ix, q.size)
    /\ IsQueue(u[i]) /\ HeapOrdered(u[i]) /\ u[i].size = q.size - i
    /\ \A j \in 1..(q.size - i) : u[i].heap[j] = q.heap[ix[i + j]]
    /\ \A j \in 1..i : Top(u[j - 1]) = q.heap[ix[j]]
    /\ \A j \in 1..i : \A k \in j..q.size : ~LessThan(q.heap[ix[k]], q.heap[ix[j]])

LEMMA OnePop ==
    ASSUME NEW q, IsQueue(q), NEW V, Orders(V), HoldsOnly(q, V), NEW i \in Nat, i < q.size,
           NEW u, u[i + 1] = Popped(u[i]), NEW ix, PoppedSoFar(q, u, ix, i)
    PROVE  \E jx : PoppedSoFar(q, u, jx, i + 1)
  <1>. DEFINE n == q.size
              m == n - i
              v == u[i]
              w == Popped(v)
  <1>1. /\ n \in Nat /\ m \in Nat /\ m >= 1 /\ i + 1 \in 1..n
        /\ \A j \in 1..m : i + j \in 1..n
        /\ ix \in [1..n -> 1..n]
    BY DEF IsQueue, PoppedSoFar, Permutes, Bijection, Injection
  <1>2. /\ IsQueue(v) /\ HeapOrdered(v) /\ v.size = m
        /\ \A j \in 1..m : v.heap[j] = q.heap[ix[i + j]]
    BY DEF PoppedSoFar
  <1>3. HoldsOnly(v, V)
    BY <1>1, <1>2 DEF HoldsOnly
  <1>. HIDE DEF v, w
  <1>4. /\ IsQueue(w) /\ HeapOrdered(w) /\ w.size = m - 1
        /\ \E perm : /\ Permutes(perm, m - 1)
                     /\ \A j \in 1..(m - 1) : w.heap[j] = v.heap[IF perm[j] = 1 THEN m ELSE perm[j]]
    <2>1. v.size > 0
      BY <1>1, <1>2
    <2> QED BY <1>2, <1>3, <2>1, PoppedRestores DEF w
  <1>5. PICK perm : /\ Permutes(perm, m - 1)
                    /\ \A j \in 1..(m - 1) : w.heap[j] = v.heap[IF perm[j] = 1 THEN m ELSE perm[j]]
    BY <1>4
  <1>6. /\ perm \in [1..(m - 1) -> 1..(m - 1)]
        /\ \A k \in 1..(m - 1) : \E j \in 1..(m - 1) : perm[j] = k
    BY <1>5 DEF Permutes, Bijection, Surjection
  <1>. DEFINE s == [j \in 1..(m - 1) |-> IF perm[j] = 1 THEN m ELSE perm[j]]
              jx == [k \in 1..n |-> IF k <= i + 1 THEN ix[k] ELSE ix[i + s[k - i - 1]]]
  <1>7. ASSUME NEW j \in 1..(m - 1)
        PROVE  s[j] \in 2..m /\ s[j] \in 1..m /\ i + s[j] \in 1..n
    <2>1. perm[j] \in 1..(m - 1)
      BY <1>6
    <2>2. CASE perm[j] = 1
      BY <1>1, <2>2
    <2>3. CASE perm[j] # 1
      BY <1>1, <2>1, <2>3
    <2> QED BY <2>2, <2>3
  <1>8. ASSUME NEW k \in 2..m PROVE \E j \in 1..(m - 1) : s[j] = k
    <2>1. PICK c \in 1..(m - 1) : c = IF k = m THEN 1 ELSE k
      BY <1>1
    <2>2. PICK j \in 1..(m - 1) : perm[j] = c
      BY <1>6
    <2> QED BY <1>1, <2>1, <2>2
  <1>9. \A j \in 1..(m - 1) : w.heap[j] = v.heap[s[j]]
    BY <1>5
  <1>. HIDE DEF s
  <1>10. /\ \A k \in 1..(i + 1) : k \in 1..n /\ jx[k] = ix[k]
         /\ \A j \in 1..(m - 1) : i + 1 + j \in 1..n /\ jx[i + 1 + j] = ix[i + s[j]]
    <2>1. \A k \in 1..(i + 1) : k \in 1..n
      BY <1>1
    <2>2. \A j \in 1..(m - 1) : i + 1 + j \in 1..n /\ i + 1 + j - i - 1 = j /\ ~(i + 1 + j <= i + 1)
      BY <1>1
    <2>3. \A k \in 1..(i + 1) : jx[k] = ix[k]
      BY <2>1
    <2>4. \A j \in 1..(m - 1) : jx[i + 1 + j] = ix[i + s[j]]
      BY <2>2
    <2> QED BY <2>1, <2>2, <2>3, <2>4
  <1>11. jx \in [1..n -> 1..n]
    BY <1>1, <1>7
  <1>12. ASSUME NEW k \in 1..n PROVE \E h \in 1..n : jx[h] = ix[k]
    <2>1. CASE k <= i + 1
      BY <1>10, <2>1
    <2>2. CASE ~(k <= i + 1)
      <3>1. k - i \in 2..m
        BY <1>1, <2>2
      <3>2. PICK j \in 1..(m - 1) : s[j] = k - i
        BY <1>8, <3>1
      <3>3. i + s[j] = k
        BY <1>1, <3>2
      <3> QED BY <1>10, <3>3
    <2> QED BY <2>1, <2>2
  <1>. HIDE DEF jx
  <1>13. Permutes(jx, n)
    <2>1. \A k \in 1..n : \E h \in 1..n : ix[h] = k
      BY DEF PoppedSoFar, Permutes, Bijection, Surjection
    <2>2. \A k \in 1..n : \E h \in 1..n : jx[h] = k
      BY <1>12, <2>1
    <2> QED BY <1>1, <1>11, <2>2, OntoPermutes
  <1>14. \A j \in 1..(n - (i + 1)) : w.heap[j] = q.heap[jx[i + 1 + j]]
    <2>1. n - (i + 1) = m - 1
      BY <1>1
    <2> QED BY <1>2, <1>7, <1>9, <1>10, <2>1
  <1>15. \A j \in 1..(i + 1) : Top(u[j - 1]) = q.heap[jx[j]]
    <2>1. \A j \in 1..i : Top(u[j - 1]) = q.heap[ix[j]] /\ j \in 1..(i + 1)
      BY DEF PoppedSoFar
    <2>2. Top(u[i]) = q.heap[ix[i + 1]]
      <3>1. 1 \in 1..m
        BY <1>1
      <3> QED BY <1>2, <3>1 DEF Top, v
    <2>3. i + 1 - 1 = i
      OBVIOUS
    <2>4. \A j \in 1..(i + 1) : j \in 1..i \/ j = i + 1
      OBVIOUS
    <2> QED BY <1>10, <2>1, <2>2, <2>3, <2>4
  <1>16. ASSUME NEW j \in 1..(i + 1), NEW k \in j..n
         PROVE  ~LessThan(q.heap[jx[k]], q.heap[jx[j]])
    <2>1. PICK h \in 1..n : jx[k] = ix[h] /\ j <= h
      <3>1. CASE k <= i + 1
        <4>1. k \in 1..(i + 1) /\ k \in 1..n
          BY <1>1, <3>1
        <4> QED BY <1>10, <4>1
      <3>2. CASE ~(k <= i + 1)
        <4>1. k - i - 1 \in 1..(m - 1) /\ k = i + 1 + (k - i - 1)
          BY <1>1, <3>2
        <4>2. jx[k] = ix[i + s[k - i - 1]] /\ i + s[k - i - 1] \in 1..n
          BY <1>7, <1>10, <4>1
        <4>3. j <= i + s[k - i - 1]
          BY <1>1, <1>7, <4>1
        <4> QED BY <4>2, <4>3
      <3> QED BY <3>1, <3>2
    <2>2. jx[j] = ix[j]
      BY <1>10
    <2>3. CASE j <= i
      <3>1. j \in 1..i /\ h \in j..n
        BY <2>1, <2>3
      <3>2. ~LessThan(q.heap[ix[h]], q.heap[ix[j]])
        BY <3>1 DEF PoppedSoFar
      <3> QED BY <2>1, <2>2, <3>2, Zenon
    <2>4. CASE ~(j <= i)
      <3>1. j = i + 1 /\ h - i \in 1..m /\ h = i + (h - i) /\ 1 \in 1..m
        BY <1>1, <2>1, <2>4
      <3>2. ~LessThan(v.heap[h - i], v.heap[1])
        <4>1. h - i \in 1..v.size
          BY <1>2, <3>1
        <4> QED BY <1>2, <1>3, <4>1, TopLeast
      <3>3. v.heap[h - i] = q.heap[ix[h]] /\ v.heap[1] = q.heap[ix[j]]
        BY <1>2, <3>1
      <3> QED BY <2>1, <2>2, <3>2, <3>3, Zenon
    <2> QED BY <2>3, <2>4
  <1>17. w.size = n - (i + 1)
    BY <1>1, <1>4
  <1>18. w = u[i + 1]
    BY DEF w, v
  <1> QED BY <1>4, <1>13, <1>14, <1>15, <1>16, <1>17, <1>18 DEF PoppedSoFar

LEMMA PopsInOrder ==
    ASSUME NEW q, IsQueue(q), NEW V, Orders(V), HoldsOnly(q, V), HeapOrdered(q),
           NEW u, u[0] = q, \A i \in 1..q.size : u[i] = Popped(u[i - 1])
    PROVE  \E ix : /\ Permutes(ix, q.size)
                   /\ \A j \in 1..q.size : Top(u[j - 1]) = q.heap[ix[j]]
                   /\ \A j, k \in 1..q.size : j <= k => ~LessThan(q.heap[ix[k]], q.heap[ix[j]])
  <1>. DEFINE Bad == {i \in 0..q.size : ~\E ix : PoppedSoFar(q, u, ix, i)}
  <1>1. q.size \in Nat
    BY DEF IsQueue
  <1>2. 0 \notin Bad
    <2>. DEFINE ix == [i \in 1..q.size |-> i]
    <2>1. ix \in [1..q.size -> 1..q.size] /\ \A k \in 1..q.size : \E i \in 1..q.size : ix[i] = k
      OBVIOUS
    <2>2. Permutes(ix, q.size)
      BY <1>1, <2>1, OntoPermutes
    <2>3. \A j \in 1..(q.size - 0) : ix[0 + j] = j
      BY <1>1
    <2>4. q.size - 0 = q.size /\ 1..0 = {}
      BY <1>1
    <2>. HIDE DEF ix
    <2>5. PoppedSoFar(q, u, ix, 0)
      BY <2>2, <2>3, <2>4 DEF PoppedSoFar
    <2> QED BY <2>5
  <1>3. ASSUME NEW i \in Bad, \A j \in Bad : i <= j PROVE FALSE
    <2>1. i \in 0..q.size /\ i # 0
      BY <1>2
    <2>2. i - 1 \in Nat /\ i - 1 \in 0..q.size /\ i - 1 < q.size /\ i - 1 + 1 = i /\ ~(i <= i - 1)
          /\ i \in 1..q.size
      BY <1>1, <2>1
    <2>3. PICK ix : PoppedSoFar(q, u, ix, i - 1)
      BY <1>3, <2>2
    <2>4. u[i - 1 + 1] = Popped(u[i - 1])
      BY <2>2
    <2>5. \E jx : PoppedSoFar(q, u, jx, i - 1 + 1)
      BY <2>2, <2>3, <2>4, OnePop
    <2> QED BY <2>2, <2>5
  <1>4. Bad = {}
    <2>1. Bad \subseteq Nat
      BY <1>1
    <2>. HIDE DEF Bad
    <2> QED BY <1>3, <2>1, LeastNat
  <1>5. PICK ix : PoppedSoFar(q, u, ix, q.size)
    BY <1>1, <1>4
  <1>6. \A j, k \in 1..q.size : j <= k => k \in j..q.size
    BY <1>1
  <1> QED BY <1>5, <1>6 DEF PoppedSoFar

-----------------------------------------------------------------------------
(* Rankings.  The first k elements t[1..k] of a set S in the order of LessThan: *)
(* none of those that t has not reached comes before the next.                 *)

LeastFirst(t, k, S) ==
    /\ t \in [1..k -> S]
    /\ \A i, j \in 1..k : t[i] = t[j] => i = j
    /\ \A i \in 1..k : \A x \in S : (\A j \in 1..(i - 1) : t[j] # x) => ~LessThan(x, t[i])

Before(S, x) == {y \in S : LessThan(y, x)}

(* The elements by the number of those before them. *)
Ranking(S) == [i \in 1..Cardinality(S) |-> CHOOSE x \in S : Cardinality(Before(S, x)) = i - 1]

Separates(S) == \A a, b \in S : a = b \/ LessThan(a, b) \/ LessThan(b, a)

LEMMA LessAreEarlier ==
    ASSUME NEW S, NEW k \in Nat, NEW t, LeastFirst(t, k, S), NEW i \in 1..k,
           NEW m \in Nat, NEW s \in [1..m -> S], \A a, b \in 1..m : s[a] = s[b] => a = b,
           \A j \in 1..m : LessThan(s[j], t[i])
    PROVE  m <= i - 1
  <1>1. ASSUME NEW j \in 1..m PROVE \E h \in 1..(i - 1) : t[h] = s[j]
    BY DEF LeastFirst
  <1>. DEFINE S1 == 1..m
              T1 == 1..(i - 1)
              f == [j \in S1 |-> CHOOSE h \in T1 : t[h] = s[j]]
  <1>2. \A j \in S1 : f[j] \in T1 /\ t[f[j]] = s[j]
    BY <1>1
  <1>3. f \in [S1 -> T1]
    BY <1>2
  <1>4. i - 1 \in Nat /\ IsFiniteSet(S1) /\ Cardinality(S1) = m
        /\ IsFiniteSet(T1) /\ Cardinality(T1) = i - 1
    BY IntervalSize
  <1>5. ASSUME NEW a \in S1, NEW b \in S1, f[a] = f[b] PROVE a = b
    <2>. HIDE DEF f
    <2> QED BY <1>2, <1>5
  <1>. HIDE DEF S1, T1, f
  <1>6. ~(Cardinality(T1) < Cardinality(S1))
    <2>1. SUFFICES ASSUME Cardinality(T1) < Cardinality(S1) PROVE FALSE
      OBVIOUS
    <2>2. PICK a, b \in S1 : a # b /\ f[a] = f[b]
      BY <1>3, <1>4, <2>1, FS_PigeonHole
    <2> QED BY <1>5, <2>2
  <1> QED BY <1>4, <1>6

LEMMA RankingsAgree ==
    ASSUME NEW V, Orders(V), NEW S, S \subseteq V, NEW k \in Nat,
           NEW s, LeastFirst(s, k, S), NEW t, LeastFirst(t, k, S), NEW i \in 1..k
    PROVE  ~LessThan(s[i], t[i])
  <1>1. SUFFICES ASSUME LessThan(s[i], t[i]) PROVE FALSE
    OBVIOUS
  <1>2. ASSUME NEW j \in 1..i PROVE LessThan(s[j], t[i])
    <2>1. j \in 1..k /\ s[j] \in V /\ s[i] \in V /\ t[i] \in V /\ s[i] \in S
      BY DEF LeastFirst
    <2>2. \A h \in 1..(j - 1) : s[h] # s[i]
      <3>1. \A h \in 1..(j - 1) : h \in 1..k /\ h # i
        OBVIOUS
      <3> QED BY <3>1 DEF LeastFirst
    <2>3. ~LessThan(s[i], s[j])
      BY <2>1, <2>2 DEF LeastFirst
    <2> QED BY <1>1, <2>1, <2>3 DEF Orders
  <1>. DEFINE r == [j \in 1..i |-> s[j]]
  <1>3. /\ r \in [1..i -> S]
        /\ \A a, b \in 1..i : r[a] = r[b] => a = b
        /\ \A j \in 1..i : LessThan(r[j], t[i])
    <2>1. \A j \in 1..i : j \in 1..k /\ r[j] = s[j] /\ s[j] \in S
      BY DEF LeastFirst
    <2>2. \A j \in 1..i : LessThan(r[j], t[i])
      <3>1. ASSUME NEW j \in 1..i PROVE LessThan(r[j], t[i])
        <4>1. r[j] = s[j]
          OBVIOUS
        <4> QED BY <1>2, <4>1, Zenon
      <3> QED BY <3>1
    <2>3. r \in [1..i -> S]
      BY <2>1
    <2>4. \A a, b \in 1..i : r[a] = r[b] => a = b
      <3>. HIDE DEF r
      <3> QED BY <2>1 DEF LeastFirst
    <2> QED BY <2>2, <2>3, <2>4
  <1>. HIDE DEF r
  <1>4. i \in Nat
    OBVIOUS
  <1>5. i <= i - 1
    BY <1>3, <1>4, LessAreEarlier
  <1> QED BY <1>4, <1>5

(* A shorter ranking is the beginning of a longer one.                         *)
LEMMA RankingsCut ==
    ASSUME NEW S, NEW k \in Nat, NEW t, LeastFirst(t, k, S), NEW m \in 0..k
    PROVE  LeastFirst([i \in 1..m |-> t[i]], m, S)
  <1>. DEFINE r == [i \in 1..m |-> t[i]]
  <1>1. \A i \in 1..m : i \in 1..k /\ r[i] = t[i] /\ \A j \in 1..(i - 1) : j \in 1..m /\ r[j] = t[j]
    OBVIOUS
  <1>2. r \in [1..m -> S]
    BY <1>1 DEF LeastFirst
  <1>. HIDE DEF r
  <1>3. \A i, j \in 1..m : r[i] = r[j] => i = j
    BY <1>1 DEF LeastFirst
  <1>4. ASSUME NEW i \in 1..m, NEW x \in S, \A j \in 1..(i - 1) : r[j] # x
        PROVE  ~LessThan(x, r[i])
    <2>1. ~LessThan(x, t[i])
      BY <1>1, <1>4 DEF LeastFirst
    <2> QED BY <1>1, <2>1, Zenon
  <1> QED BY <1>2, <1>3, <1>4 DEF LeastFirst, r

LEMMA RankingIsLeastFirst ==
    ASSUME NEW S, IsFiniteSet(S), Orders(S), Separates(S)
    PROVE  /\ Cardinality(S) \in Nat
           /\ LeastFirst(Ranking(S), Cardinality(S), S)
           /\ \A x \in S : \E i \in 1..Cardinality(S) : Ranking(S)[i] = x
  <1>. DEFINE n == Cardinality(S)
              R(x) == Cardinality(Before(S, x))
  <1>1. n \in Nat
    BY FS_CardinalityType
  <1>2. ASSUME NEW x \in S
        PROVE  IsFiniteSet(Before(S, x)) /\ R(x) \in 0..(n - 1)
    <2>1. IsFiniteSet(S \ {x}) /\ Cardinality(S \ {x}) = n - 1
      BY FS_RemoveElement
    <2>2. Before(S, x) \in SUBSET (S \ {x})
      BY DEF Before, Orders
    <2>3. IsFiniteSet(Before(S, x)) /\ R(x) <= n - 1
      BY <2>1, <2>2, FS_Subset, Zenon
    <2>4. R(x) \in Nat
      BY <2>3, FS_CardinalityType
    <2> QED BY <1>1, <2>3, <2>4
  <1>3. ASSUME NEW x \in S, NEW y \in S, LessThan(x, y) PROVE R(x) < R(y)
    <2>1. Before(S, x) \cup {x} \in SUBSET Before(S, y)
      BY <1>3 DEF Before, Orders
    <2>2. x \notin Before(S, x)
      BY DEF Before, Orders
    <2>3. Cardinality(Before(S, x) \cup {x}) = R(x) + 1
      BY <1>2, <2>2, FS_AddElement
    <2>4. Cardinality(Before(S, x) \cup {x}) <= R(y)
      BY <1>2, <2>1, FS_Subset
    <2>5. R(x) \in Int /\ R(y) \in Int
      BY <1>2
    <2> QED BY <2>3, <2>4, <2>5
  <1>4. ASSUME NEW x \in S, NEW y \in S, R(x) = R(y) PROVE x = y
    <2>1. R(x) \in Int /\ R(y) \in Int
      BY <1>2
    <2>2. ~LessThan(x, y) /\ ~LessThan(y, x)
      BY <1>3, <1>4, <2>1
    <2> QED BY <2>2 DEF Separates
  <1>. DEFINE D == 0..(n - 1)
              f == [x \in S |-> R(x)]
  <1>5. f \in Injection(S, D)
    <2>1. f \in [S -> D]
      BY <1>2
    <2>2. \A x, y \in S : f[x] = f[y] => x = y
      BY <1>4
    <2> QED BY <2>1, <2>2 DEF Injection, IsInjective
  <1>6. IsFiniteSet(D) /\ Cardinality(D) = n
    <2>1. 0 \in Int /\ n - 1 \in Int
      BY <1>1
    <2>2. IsFiniteSet(0..(n - 1)) /\ Cardinality(0..(n - 1)) = IF 0 > n - 1 THEN 0 ELSE n - 1 - 0 + 1
      BY <2>1, FS_Interval, Zenon
    <2> QED BY <1>1, <2>2
  <1>7. \A i \in D : \E x \in S : R(x) = i
    <2>1. f \in Surjection(S, D)
      <3>. HIDE DEF f, D, n
      <3>1. IsFiniteSet(S) /\ Cardinality(S) = n
        BY DEF n
      <3> QED BY <1>5, <1>6, <3>1, FS_Injection
    <2>2. \A i \in D : \E x \in S : f[x] = i
      <3>. HIDE DEF f, D
      <3> QED BY <2>1 DEF Surjection
    <2> QED BY <2>2
  <1>. DEFINE t == Ranking(S)
  <1>8. ASSUME NEW i \in 1..n PROVE t[i] \in S /\ R(t[i]) = i - 1
    <2>1. i - 1 \in D
      BY <1>1
    <2>2. \E x \in S : R(x) = i - 1
      BY <1>7, <2>1
    <2>3. t[i] = CHOOSE x \in S : R(x) = i - 1
      BY DEF Ranking
    <2>. HIDE DEF t, R
    <2> QED BY <2>2, <2>3, Zenon
  <1>9. ASSUME NEW x \in S PROVE R(x) + 1 \in 1..n /\ t[R(x) + 1] = x
    <2>1. PICK i \in 1..n : i = R(x) + 1 /\ i - 1 = R(x)
      BY <1>1, <1>2
    <2>. HIDE DEF R, t
    <2>2. t[i] \in S /\ R(t[i]) = R(x)
      BY <1>8, <2>1
    <2>3. t[i] = x
      BY <1>4, <2>2
    <2> QED BY <2>1, <2>3
  <1>10. t \in [1..n -> S]
    <2>1. t = [i \in 1..n |-> t[i]]
      BY DEF Ranking
    <2>. HIDE DEF t
    <2> QED BY <1>8, <2>1
  <1>. HIDE DEF t
  <1>11. ASSUME NEW i \in 1..n, NEW j \in 1..n, t[i] = t[j] PROVE i = j
    <2>1. i - 1 = j - 1
      BY <1>8, <1>11
    <2> QED BY <1>1, <2>1
  <1>12. ASSUME NEW i \in 1..n, NEW x \in S, \A j \in 1..(i - 1) : t[j] # x
         PROVE  ~LessThan(x, t[i])
    <2>1. SUFFICES ASSUME LessThan(x, t[i]) PROVE FALSE
      OBVIOUS
    <2>2. R(x) < i - 1
      BY <1>3, <1>8, <2>1
    <2>3. R(x) + 1 \in 1..(i - 1)
      BY <1>1, <1>2, <2>2
    <2> QED BY <1>9, <1>12, <2>3
  <1>13. \A x \in S : \E i \in 1..n : t[i] = x
    BY <1>9
  <1> QED BY <1>1, <1>10, <1>11, <1>12, <1>13 DEF LeastFirst, t
==============================================================================
