------------------------------ MODULE Recursion ------------------------------
(* Facts about functions that are defined by recursion, from the well-ordering *)
(* of the naturals: a chain follows a link from one place to the next for as   *)
(* long as it goes on, as upHeap and downHeap of a binary heap do.             *)
EXTENDS Integers, WellFoundedInduction, TLAPS

LEMMA LeastNat ==
    ASSUME NEW T, T \subseteq Nat, T # {}
    PROVE  \E x \in T : \A y \in T : x <= y
  <1>1. PICK R : R = OpToRel(<, Nat)
    OBVIOUS
  <1>2. IsWellFoundedOn(R, Nat)
    BY <1>1, NatLessThanWellFounded
  <1>3. PICK x \in T : \A y \in T : ~(<<y, x>> \in R)
    BY <1>2, WFMin
  <1>4. R = {ss \in Nat \X Nat : ss[1] < ss[2]}
    BY <1>1 DEF OpToRel
  <1>5. ASSUME NEW y \in T PROVE x <= y
    <2>1. x \in Nat /\ y \in Nat
      OBVIOUS
    <2>2. <<y, x>> \in R <=> y < x
      BY <1>4, <2>1
    <2> QED BY <1>3, <2>1, <2>2
  <1> QED BY <1>5

(* goesOn says at which places of D a chain goes on, link where to; the rank   *)
(* falls with every link.                                                      *)
Links(D, goesOn, link, rank) ==
    /\ goesOn \in [D -> BOOLEAN] /\ link \in [D -> D] /\ rank \in [D -> Nat]
    /\ \A i \in D : goesOn[i] => rank[link[i]] < rank[i]

(* The places of the chain that starts at i. *)
PathFrom(goesOn, link, path, i) == {i} \cup IF goesOn[i] THEN path[link[i]] ELSE {}

LEMMA PathExists ==
    ASSUME NEW D, NEW goesOn, NEW link, NEW rank, Links(D, goesOn, link, rank),
           NEW N \in Nat, \A i \in D : rank[i] < N
    PROVE  \E path : path = [i \in D |-> PathFrom(goesOn, link, path, i)]
  <1>. DEFINE Good(f, k) == \A i \in D : rank[i] < k => f[i] = PathFrom(goesOn, link, f, i)
              Bad == {k \in Nat : ~\E f : Good(f, k)}
  <1>1. goesOn \in [D -> BOOLEAN] /\ link \in [D -> D] /\ rank \in [D -> Nat]
    BY DEF Links
  <1>2. ASSUME NEW m \in Bad, \A k \in Bad : m <= k PROVE FALSE
    <2>1. m \in Nat /\ ~\E f : Good(f, m)
      OBVIOUS
    <2>2. m # 0
      <3>1. Good({}, 0)
        BY <1>1
      <3> QED BY <2>1, <3>1
    <2>3. m - 1 \in Nat /\ m - 1 < m
      BY <2>1, <2>2
    <2>4. m - 1 \notin Bad
      <3>. HIDE DEF Bad
      <3> QED BY <1>2, <2>1, <2>3
    <2>5. PICK f : Good(f, m - 1)
      BY <2>3, <2>4
    <2>. DEFINE h == [i \in D |-> IF rank[i] < m - 1 THEN f[i] ELSE PathFrom(goesOn, link, f, i)]
    <2>6. ASSUME NEW i \in D, rank[i] < m PROVE h[i] = PathFrom(goesOn, link, h, i)
      <3>1. h[i] = PathFrom(goesOn, link, f, i)
        BY <2>5
      <3>2. CASE goesOn[i]
        <4>1. rank[link[i]] < m - 1 /\ link[i] \in D
          BY <1>1, <2>1, <2>6, <3>2 DEF Links
        <4>2. h[link[i]] = f[link[i]]
          BY <4>1
        <4>. HIDE DEF h
        <4> QED BY <3>1, <4>2 DEF PathFrom
      <3>3. CASE ~goesOn[i]
        <4>. HIDE DEF h
        <4> QED BY <3>1, <3>3 DEF PathFrom
      <3> QED BY <3>2, <3>3
    <2>7. Good(h, m)
      <3>. HIDE DEF h
      <3> QED BY <2>6
    <2> QED BY <2>1, <2>7
  <1>3. Bad = {}
    <2>1. Bad \subseteq Nat
      OBVIOUS
    <2>. HIDE DEF Bad
    <2> QED BY <1>2, <2>1, LeastNat
  <1>4. PICK f : Good(f, N)
    BY <1>3
  <1>. DEFINE path == [i \in D |-> f[i]]
  <1>5. ASSUME NEW i \in D PROVE path[i] = PathFrom(goesOn, link, path, i)
    <2>1. f[i] = PathFrom(goesOn, link, f, i)
      BY <1>4
    <2>2. path[i] = f[i] /\ path[link[i]] = f[link[i]]
      BY <1>1
    <2>. HIDE DEF path
    <2> QED BY <2>1, <2>2 DEF PathFrom
  <1>6. path = [i \in D |-> path[i]]
    OBVIOUS
  <1>7. path = [i \in D |-> PathFrom(goesOn, link, path, i)]
    <2>. HIDE DEF path
    <2> QED BY <1>5, <1>6
  <1> QED BY <1>7

(* What is known of the chain P that starts at i: it falls, it is closed under *)
(* links, every place but the first is linked to, and it ends at its lowest    *)
(* place.                                                                      *)
PathShape(D, goesOn, link, rank, P, i) ==
    /\ P \subseteq D /\ i \in P
    /\ \A j \in P : j = i \/ rank[j] < rank[i]
    /\ \A j \in P : goesOn[j] => link[j] \in P
    /\ \A j \in P : j # i => \E c \in P : goesOn[c] /\ link[c] = j
    /\ \E e \in P : ~goesOn[e]
    /\ \A j, k \in P : ~goesOn[j] => rank[j] <= rank[k]

LEMMA PathsHaveShape ==
    ASSUME NEW D, NEW goesOn, NEW link, NEW rank, Links(D, goesOn, link, rank),
           NEW path, \A i \in D : path[i] = PathFrom(goesOn, link, path, i)
    PROVE  \A i \in D : PathShape(D, goesOn, link, rank, path[i], i)
  <1>. DEFINE Shaped(i) == PathShape(D, goesOn, link, rank, path[i], i)
              Bad == {k \in Nat : \E i \in D : rank[i] = k /\ ~Shaped(i)}
  <1>1. goesOn \in [D -> BOOLEAN] /\ link \in [D -> D] /\ rank \in [D -> Nat]
    BY DEF Links
  <1>. HIDE DEF Shaped
  <1>2. ASSUME NEW m \in Bad, \A k \in Bad : m <= k PROVE FALSE
    <2>1. PICK i \in D : rank[i] = m /\ ~Shaped(i)
      OBVIOUS
    <2>2. m \in Nat
      OBVIOUS
    <2>3. CASE ~goesOn[i]
      <3>1. path[i] = {i}
        BY <2>3 DEF PathFrom
      <3>2. rank[i] \in Nat
        BY <1>1
      <3> QED BY <2>1, <2>3, <3>1, <3>2 DEF Shaped, PathShape
    <2>4. CASE goesOn[i]
      <3>. DEFINE n == link[i]
      <3>1. n \in D /\ rank[n] < rank[i] /\ rank[n] \in Nat
        BY <1>1, <2>4 DEF Links
      <3>2. Shaped(n)
        <4>1. rank[n] \notin Bad
          <5>. HIDE DEF Bad
          <5> QED BY <1>2, <2>1, <2>2, <3>1
        <4> QED BY <3>1, <4>1
      <3>3. path[i] = {i} \cup path[n]
        BY <2>4 DEF PathFrom
      <3>. DEFINE P == path[n]
      <3>. HIDE DEF P
      <3>4. /\ P \subseteq D /\ n \in P
            /\ \A j \in P : j = n \/ rank[j] < rank[n]
            /\ \A j \in P : goesOn[j] => link[j] \in P
            /\ \A j \in P : j # n => \E c \in P : goesOn[c] /\ link[c] = j
            /\ \E e \in P : ~goesOn[e]
            /\ \A j, k \in P : ~goesOn[j] => rank[j] <= rank[k]
        BY <3>2 DEF P, Shaped, PathShape
      <3>5. path[i] = {i} \cup P
        BY <3>3 DEF P
      <3>6. \A j \in P : rank[j] < rank[i]
        BY <1>1, <3>1, <3>4
      <3>7. \A j \in path[i] : j # i => \E c \in path[i] : goesOn[c] /\ link[c] = j
        BY <2>4, <3>4, <3>5
      <3>8. \A j, k \in path[i] : ~goesOn[j] => rank[j] <= rank[k]
        <4>. SUFFICES ASSUME NEW j \in path[i], NEW k \in path[i], ~goesOn[j]
                      PROVE  rank[j] <= rank[k]
          OBVIOUS
        <4>1. j \in P
          BY <2>4, <3>5
        <4>2. j \in D /\ k \in D /\ rank[j] \in Nat /\ rank[k] \in Nat
          BY <1>1, <3>4, <3>5
        <4>3. CASE k = i
          BY <3>6, <4>1, <4>2, <4>3
        <4>4. CASE k \in P
          BY <3>4, <4>1, <4>4
        <4> QED BY <3>5, <4>3, <4>4
      <3>9. /\ path[i] \subseteq D /\ i \in path[i]
            /\ \A j \in path[i] : j = i \/ rank[j] < rank[i]
            /\ \A j \in path[i] : goesOn[j] => link[j] \in path[i]
            /\ \E e \in path[i] : ~goesOn[e]
        BY <3>4, <3>5, <3>6
      <3> QED BY <2>1, <3>7, <3>8, <3>9 DEF Shaped, PathShape
    <2> QED BY <1>1, <2>3, <2>4
  <1>3. Bad = {}
    <2>1. Bad \subseteq Nat
      OBVIOUS
    <2>. HIDE DEF Bad
    <2> QED BY <1>2, <2>1, LeastNat
  <1>4. \A i \in D : rank[i] \in Nat
    BY <1>1
  <1> QED BY <1>3, <1>4 DEF Shaped

-----------------------------------------------------------------------------
(* Binary heaps, on integer keys.                                            *)

LEMMA HalfFacts ==
    ASSUME NEW i \in Nat, i >= 2
    PROVE  /\ i \div 2 \in Nat /\ 1 <= i \div 2 /\ i \div 2 < i
           /\ i = 2 * (i \div 2) \/ i = 2 * (i \div 2) + 1
  OBVIOUS

LEMMA HalfOfChild ==
    ASSUME NEW i \in Nat
    PROVE  (2 * i) \div 2 = i /\ (2 * i + 1) \div 2 = i
  OBVIOUS

-----------------------------------------------------------------------------
(* Moving elements along a chain of places.                                   *)

(* What is at place i when the element at pos goes to the end of the chain P  *)
(* and the others go one place back.                                          *)
Moved(H, P, goesOn, link, pos, i) ==
    IF i \notin P THEN H[i] ELSE IF goesOn[i] THEN H[link[i]] ELSE H[pos]

(* Over the places I, G is H with the elements of the chain moved.            *)
MovedTo(G, H, I, P, goesOn, link, pos) ==
    \A i \in I : G[i] = Moved(H, P, goesOn, link, pos, i)

SameValues(G, H, I) ==
    /\ \A i \in I : \E k \in I : G[i] = H[k]
    /\ \A k \in I : \E i \in I : H[k] = G[i]

LEMMA SameElements ==
    ASSUME NEW D, NEW goesOn, NEW link, NEW rank, NEW P, NEW pos \in D,
           PathShape(D, goesOn, link, rank, P, pos),
           NEW I, P \subseteq I, NEW H, NEW G, MovedTo(G, H, I, P, goesOn, link, pos)
    PROVE  SameValues(G, H, I)
  <1>. USE DEF MovedTo
  <1>1. /\ pos \in P
        /\ \A j \in P : goesOn[j] => link[j] \in P
        /\ \A j \in P : j # pos => \E c \in P : goesOn[c] /\ link[c] = j
        /\ \E e \in P : ~goesOn[e]
    BY DEF PathShape
  <1>2. ASSUME NEW i \in I PROVE \E k \in I : G[i] = H[k]
    <2>1. CASE i \notin P
      BY <2>1 DEF Moved
    <2>2. CASE i \in P /\ goesOn[i]
      BY <1>1, <2>2 DEF Moved
    <2>3. CASE i \in P /\ ~goesOn[i]
      BY <1>1, <2>3 DEF Moved
    <2> QED BY <2>1, <2>2, <2>3
  <1>3. ASSUME NEW k \in I PROVE \E i \in I : H[k] = G[i]
    <2>1. CASE k \notin P
      BY <2>1 DEF Moved
    <2>2. CASE k \in P /\ k # pos
      <3>1. PICK c \in P : goesOn[c] /\ link[c] = k
        BY <1>1, <2>2
      <3> QED BY <3>1 DEF Moved
    <2>3. CASE k = pos
      <3>1. PICK e \in P : ~goesOn[e]
        BY <1>1
      <3> QED BY <2>3, <3>1 DEF Moved
    <2> QED BY <2>1, <2>2, <2>3
  <1> QED BY <1>2, <1>3 DEF SameValues

-----------------------------------------------------------------------------
(* Order, on the keys K of the places 1..n.                                   *)

InOrder(K, n) == \A j \in 2..n : K[j \div 2] <= K[j]

(* The element at pos may be out of place; those under it are not less than   *)
(* the one above it.                                                          *)
InOrderBut(K, n, pos) ==
    /\ \A j \in 2..n : j # pos /\ j \div 2 # pos => K[j \div 2] <= K[j]
    /\ pos > 1 => \A j \in 2..n : j \div 2 = pos => K[pos \div 2] <= K[j]

Rises(K, pos, i) == i > 1 /\ K[pos] < K[i \div 2]
UpGoesOn(K, pos) == [i \in 1..pos |-> Rises(K, pos, i)]
UpLink(pos) == [i \in 1..pos |-> IF i > 1 THEN i \div 2 ELSE i]
UpRank(pos) == [i \in 1..pos |-> i]

LEMMA UpLinks ==
    ASSUME NEW K, NEW pos \in Nat
    PROVE  Links(1..pos, UpGoesOn(K, pos), UpLink(pos), UpRank(pos))
  <1>1. UpGoesOn(K, pos) \in [1..pos -> BOOLEAN]
    BY DEF UpGoesOn, Rises
  <1>2. ASSUME NEW i \in 1..pos
        PROVE  UpLink(pos)[i] \in 1..pos /\ (i > 1 => UpLink(pos)[i] < i)
    <2>1. CASE i > 1
      <3>1. i \in Nat /\ i >= 2 /\ i <= pos
        BY <2>1
      <3>2. i \div 2 \in Nat /\ 1 <= i \div 2 /\ i \div 2 < i
        BY <3>1, HalfFacts
      <3>3. UpLink(pos)[i] = i \div 2
        BY <2>1 DEF UpLink
      <3> QED BY <3>1, <3>2, <3>3
    <2>2. CASE ~(i > 1)
      BY <2>2 DEF UpLink
    <2> QED BY <2>1, <2>2
  <1>3. UpLink(pos) \in [1..pos -> 1..pos]
    <2>1. UpLink(pos) = [i \in 1..pos |-> UpLink(pos)[i]]
      BY DEF UpLink
    <2> QED BY <1>2, <2>1
  <1>4. UpRank(pos) \in [1..pos -> Nat]
    BY DEF UpRank
  <1>5. ASSUME NEW i \in 1..pos, UpGoesOn(K, pos)[i]
        PROVE  UpRank(pos)[UpLink(pos)[i]] < UpRank(pos)[i]
    <2>1. i > 1
      BY <1>5 DEF UpGoesOn, Rises
    <2> QED BY <1>2, <2>1 DEF UpRank
  <1> QED BY <1>1, <1>3, <1>4, <1>5 DEF Links

(* upHeap puts the keys in order, when the key at pos rises or is not larger  *)
(* than those below it.                                                       *)
LEMMA UpOrder ==
    ASSUME NEW n \in Nat, NEW K \in [1..n -> Int], NEW pos \in 1..n, InOrderBut(K, n, pos),
           Rises(K, pos, pos) \/ \A j \in 2..n : j \div 2 = pos => K[pos] <= K[j],
           NEW P, PathShape(1..pos, UpGoesOn(K, pos), UpLink(pos), UpRank(pos), P, pos),
           NEW R, \A i \in 1..n : R[i] = Moved(K, P, UpGoesOn(K, pos), UpLink(pos), pos, i)
    PROVE  InOrder(R, n)
  <1>1. /\ P \subseteq 1..pos /\ pos \in P
        /\ \A j \in P : Rises(K, pos, j) => j \div 2 \in P
        /\ \A j \in P : j # pos => \E c \in P : Rises(K, pos, c) /\ c \div 2 = j
        /\ \A j, k \in P : ~Rises(K, pos, j) => j <= k
    <2>1. \A j \in 1..pos : UpGoesOn(K, pos)[j] = Rises(K, pos, j)
      BY DEF UpGoesOn
    <2>2. \A j \in 1..pos : Rises(K, pos, j) => UpLink(pos)[j] = j \div 2
      BY DEF UpLink, Rises
    <2>3. \A j \in 1..pos : UpRank(pos)[j] = j
      BY DEF UpRank
    <2>. DEFINE g == UpGoesOn(K, pos)
                l == UpLink(pos)
                r == UpRank(pos)
    <2>. HIDE DEF g, l, r
    <2>4. /\ P \subseteq 1..pos /\ pos \in P
          /\ \A j \in P : g[j] => l[j] \in P
          /\ \A j \in P : j # pos => \E c \in P : g[c] /\ l[c] = j
          /\ \A j, k \in P : ~g[j] => r[j] <= r[k]
      BY DEF PathShape, g, l, r
    <2>5. /\ \A j \in 1..pos : g[j] = Rises(K, pos, j) /\ r[j] = j
          /\ \A j \in 1..pos : Rises(K, pos, j) => l[j] = j \div 2
      BY <2>1, <2>2, <2>3 DEF g, l, r
    <2>6. ASSUME NEW j \in P PROVE Rises(K, pos, j) => j \div 2 \in P
      <3>1. j \in 1..pos
        BY <2>4
      <3> QED BY <2>4, <2>5, <3>1
    <2>7. ASSUME NEW j \in P, j # pos PROVE \E c \in P : Rises(K, pos, c) /\ c \div 2 = j
      <3>1. PICK c \in P : g[c] /\ l[c] = j
        BY <2>4, <2>7
      <3>2. c \in 1..pos
        BY <2>4
      <3> QED BY <2>5, <3>1, <3>2
    <2>8. ASSUME NEW j \in P, NEW k \in P, ~Rises(K, pos, j) PROVE j <= k
      <3>1. j \in 1..pos /\ k \in 1..pos
        BY <2>4
      <3> QED BY <2>4, <2>5, <2>8, <3>1
    <2> QED BY <2>4, <2>6, <2>7, <2>8
  <1>2. \A i \in 1..n : R[i] = IF i \notin P THEN K[i]
                             ELSE IF Rises(K, pos, i) THEN K[i \div 2] ELSE K[pos]
    BY <1>1 DEF Moved, UpGoesOn, UpLink, Rises
  <1>. SUFFICES ASSUME NEW j \in 2..n PROVE R[j \div 2] <= R[j]
    BY DEF InOrder
  <1>. DEFINE p == j \div 2
  <1>3. j \in Nat /\ j >= 2 /\ j <= n /\ p \in 1..n /\ p < j /\ p \in Nat /\ j \in 1..n
    BY HalfFacts
  <1>4. p > 1 => p \div 2 \in 1..n /\ p \div 2 < p
    <2>. SUFFICES ASSUME p > 1 PROVE p \div 2 \in 1..n /\ p \div 2 < p
      OBVIOUS
    <2>1. p \in Nat /\ p >= 2
      BY <1>3
    <2>. HIDE DEF p
    <2> QED BY <1>3, <2>1, HalfFacts
  <1>5. \A i \in 1..n : K[i] \in Int
    OBVIOUS
  <1>6. CASE j \notin P /\ p \notin P
    BY <1>1, <1>2, <1>3, <1>6 DEF InOrderBut
  <1>7. CASE j \in P /\ p \notin P
    <2>1. ~Rises(K, pos, j)
      BY <1>1, <1>7
    <2>2. R[j] = K[pos] /\ R[p] = K[p]
      BY <1>2, <1>3, <1>7, <2>1
    <2> QED BY <1>3, <1>5, <2>1, <2>2 DEF Rises
  <1>8. CASE j \in P /\ p \in P
    <2>1. j <= pos /\ p < pos /\ p # pos
      BY <1>1, <1>3, <1>8
    <2>2. Rises(K, pos, j)
      BY <1>1, <1>3, <1>8
    <2>3. R[j] = K[p]
      BY <1>2, <1>3, <1>8, <2>2
    <2>4. K[pos] < K[p]
      BY <2>2 DEF Rises
    <2>5. CASE Rises(K, pos, p)
      <3>1. p > 1 /\ p \in 2..n
        BY <1>3, <2>5 DEF Rises
      <3>2. p \div 2 # pos
        BY <1>3, <1>4, <1>8, <2>1, <3>1
      <3>3. K[p \div 2] <= K[p]
        <4>. HIDE DEF p
        <4> QED BY <2>1, <3>1, <3>2 DEF InOrderBut
      <3>4. R[p] = K[p \div 2]
        <4>. HIDE DEF p
        <4> QED BY <1>2, <1>3, <1>8, <2>5
      <3> QED BY <2>3, <3>3, <3>4
    <2>6. CASE ~Rises(K, pos, p)
      <3>1. R[p] = K[pos]
        <4>. HIDE DEF p
        <4> QED BY <1>2, <1>3, <1>8, <2>6
      <3> QED BY <1>3, <1>5, <2>3, <2>4, <3>1
    <2> QED BY <2>5, <2>6
  <1>9. CASE j \notin P /\ p \in P
    <2>1. R[j] = K[j] /\ j # pos
      BY <1>1, <1>2, <1>3, <1>9
    <2>2. CASE p = pos /\ Rises(K, pos, pos)
      <3>1. R[p] = K[pos \div 2]
        <4>. HIDE DEF p
        <4> QED BY <1>2, <1>3, <1>9, <2>2
      <3>2. pos > 1
        BY <2>2 DEF Rises
      <3> QED BY <2>1, <2>2, <3>1, <3>2 DEF InOrderBut
    <2>3. CASE p = pos /\ ~Rises(K, pos, pos)
      <3>1. R[p] = K[pos]
        <4>. HIDE DEF p
        <4> QED BY <1>2, <1>3, <1>9, <2>3
      <3> QED BY <2>1, <2>3, <3>1
    <2>4. CASE p # pos
      <3>1. K[p] <= K[j]
        BY <2>1, <2>4 DEF InOrderBut
      <3>2. PICK c \in P : Rises(K, pos, c) /\ c \div 2 = p
        BY <1>1, <1>9, <2>4
      <3>3. K[pos] < K[p]
        BY <3>2 DEF Rises
      <3>4. CASE Rises(K, pos, p)
        <4>1. p > 1 /\ p \in 2..n /\ p < pos
          BY <1>1, <1>3, <1>9, <2>4, <3>4 DEF Rises
        <4>2. p \div 2 # pos /\ p \div 2 \in 1..n
          BY <1>3, <1>4, <1>9, <4>1
        <4>3. K[p \div 2] <= K[p]
          <5>. HIDE DEF p
          <5> QED BY <2>4, <4>1, <4>2 DEF InOrderBut
        <4>4. R[p] = K[p \div 2]
          <5>. HIDE DEF p
          <5> QED BY <1>2, <1>3, <1>9, <3>4
        <4>. HIDE DEF p
        <4> QED BY <1>3, <1>5, <2>1, <3>1, <4>2, <4>3, <4>4 DEF p
      <3>5. CASE ~Rises(K, pos, p)
        <4>1. R[p] = K[pos]
          <5>. HIDE DEF p
          <5> QED BY <1>2, <1>3, <1>9, <3>5
        <4> QED BY <1>3, <1>5, <2>1, <3>1, <3>3, <4>1
      <3> QED BY <3>4, <3>5
    <2> QED BY <2>2, <2>3, <2>4
  <1> QED BY <1>6, <1>7, <1>8, <1>9

Child(K, n, i) == IF 2 * i + 1 <= n /\ K[2 * i + 1] < K[2 * i] THEN 2 * i + 1 ELSE 2 * i
Sinks(K, n, pos, i) == Child(K, n, i) <= n /\ K[Child(K, n, i)] < K[pos]
DownGoesOn(K, n, pos, m) == [i \in 1..m |-> Sinks(K, n, pos, i)]
DownLink(K, n, m) == [i \in 1..m |-> IF Child(K, n, i) <= m THEN Child(K, n, i) ELSE i]
DownRank(m) == [i \in 1..m |-> m - i]

LEMMA ChildFacts ==
    ASSUME NEW K, NEW n \in Nat, NEW i \in Nat, i >= 1
    PROVE  /\ Child(K, n, i) \in Nat /\ Child(K, n, i) > i /\ Child(K, n, i) >= 2
           /\ Child(K, n, i) \div 2 = i
  <1>1. Child(K, n, i) = 2 * i \/ Child(K, n, i) = 2 * i + 1
    BY DEF Child
  <1> QED BY <1>1, HalfOfChild

(* The child that downHeap looks at is the lesser one. *)
LEMMA LesserChild ==
    ASSUME NEW n \in Nat, NEW K \in [1..n -> Int], NEW j \in 2..n
    PROVE  /\ Child(K, n, j \div 2) \in 2..n
           /\ K[Child(K, n, j \div 2)] <= K[j]
  <1>. DEFINE p == j \div 2
  <1>1. p \in Nat /\ p >= 1 /\ (j = 2 * p \/ j = 2 * p + 1)
    BY HalfFacts
  <1>. HIDE DEF p
  <1>2. 2 * p \in 1..n /\ (2 * p + 1 <= n => 2 * p + 1 \in 1..n)
    BY <1>1
  <1>3. CASE 2 * p + 1 <= n /\ K[2 * p + 1] < K[2 * p]
    <2>1. Child(K, n, p) = 2 * p + 1
      BY <1>3 DEF Child
    <2>2. K[2 * p + 1] \in Int /\ K[2 * p] \in Int
      BY <1>2, <1>3
    <2>3. 2 * p + 1 \in 2..n /\ K[2 * p + 1] <= K[j]
      BY <1>1, <1>2, <1>3, <2>2
    <2> QED BY <2>1, <2>3 DEF p
  <1>4. CASE ~(2 * p + 1 <= n /\ K[2 * p + 1] < K[2 * p])
    <2>1. Child(K, n, p) = 2 * p
      BY <1>4 DEF Child
    <2>2. K[2 * p] \in Int /\ (2 * p + 1 <= n => K[2 * p + 1] \in Int)
      BY <1>2
    <2>3. 2 * p \in 2..n /\ K[2 * p] <= K[j]
      BY <1>1, <1>2, <1>4, <2>2
    <2> QED BY <2>1, <2>3 DEF p
  <1> QED BY <1>3, <1>4

LEMMA DownLinks ==
    ASSUME NEW K, NEW m \in Nat, NEW n \in 0..m, NEW pos
    PROVE  Links(1..m, DownGoesOn(K, n, pos, m), DownLink(K, n, m), DownRank(m))
  <1>1. DownGoesOn(K, n, pos, m) \in [1..m -> BOOLEAN]
    BY DEF DownGoesOn, Sinks
  <1>2. ASSUME NEW i \in 1..m
        PROVE  /\ DownLink(K, n, m)[i] \in 1..m
               /\ Child(K, n, i) <= n => DownLink(K, n, m)[i] > i
    <2>1. Child(K, n, i) \in Nat /\ Child(K, n, i) > i
      BY ChildFacts
    <2>2. DownLink(K, n, m)[i] = IF Child(K, n, i) <= m THEN Child(K, n, i) ELSE i
      BY DEF DownLink
    <2> QED BY <2>1, <2>2
  <1>3. DownLink(K, n, m) \in [1..m -> 1..m]
    <2>1. DownLink(K, n, m) = [i \in 1..m |-> DownLink(K, n, m)[i]]
      BY DEF DownLink
    <2> QED BY <1>2, <2>1
  <1>4. DownRank(m) \in [1..m -> Nat]
    BY DEF DownRank
  <1>5. ASSUME NEW i \in 1..m, DownGoesOn(K, n, pos, m)[i]
        PROVE  DownRank(m)[DownLink(K, n, m)[i]] < DownRank(m)[i]
    <2>1. Child(K, n, i) <= n
      BY <1>5 DEF DownGoesOn, Sinks
    <2> QED BY <1>2, <2>1 DEF DownRank
  <1> QED BY <1>1, <1>3, <1>4, <1>5 DEF Links

(* downHeap puts the keys in order, when the key at pos is not less than the  *)
(* one above it.                                                              *)
LEMMA DownOrder ==
    ASSUME NEW m \in Nat, NEW n \in 0..m, NEW K \in [1..n -> Int], NEW pos \in 1..n,
           InOrderBut(K, n, pos), pos > 1 => K[pos \div 2] <= K[pos],
           NEW P,
           PathShape(1..m, DownGoesOn(K, n, pos, m), DownLink(K, n, m), DownRank(m), P, pos),
           NEW R, \A i \in 1..n : R[i] = Moved(K, P, DownGoesOn(K, n, pos, m),
                                               DownLink(K, n, m), pos, i)
    PROVE  InOrder(R, n)
  <1>0. n \in Nat
    OBVIOUS
  <1>1. /\ P \subseteq 1..m /\ pos \in P
        /\ \A j \in P : j >= pos
        /\ \A j \in P : Sinks(K, n, pos, j) => Child(K, n, j) \in P
        /\ \A j \in P : j # pos => \E c \in P : Sinks(K, n, pos, c) /\ Child(K, n, c) = j
    <2>. DEFINE g == DownGoesOn(K, n, pos, m)
                l == DownLink(K, n, m)
                r == DownRank(m)
    <2>1. /\ \A j \in 1..m : g[j] = Sinks(K, n, pos, j) /\ r[j] = m - j
          /\ \A j \in 1..m : Child(K, n, j) <= n => l[j] = Child(K, n, j)
      <3>1. ASSUME NEW j \in 1..m, Child(K, n, j) <= n PROVE Child(K, n, j) <= m
        BY <3>1, ChildFacts
      <3>2. \A j \in 1..m : g[j] = Sinks(K, n, pos, j) /\ r[j] = m - j
        BY DEF DownGoesOn, DownRank
      <3> QED BY <3>1, <3>2 DEF DownLink
    <2>2. \A j \in 1..m : Sinks(K, n, pos, j) => l[j] = Child(K, n, j)
      BY <2>1 DEF Sinks
    <2>. HIDE DEF g, l, r
    <2>3. /\ P \subseteq 1..m /\ pos \in P
          /\ \A j \in P : j = pos \/ r[j] < r[pos]
          /\ \A j \in P : g[j] => l[j] \in P
          /\ \A j \in P : j # pos => \E c \in P : g[c] /\ l[c] = j
      BY DEF PathShape, g, l, r
    <2>4. ASSUME NEW j \in P PROVE j >= pos /\ (Sinks(K, n, pos, j) => Child(K, n, j) \in P)
      <3>1. j \in 1..m /\ pos \in 1..m
        BY <2>3
      <3>2. r[j] = m - j /\ r[pos] = m - pos
        BY <2>1, <3>1
      <3>3. j >= pos
        BY <2>3, <3>1, <3>2
      <3> QED BY <2>1, <2>2, <2>3, <3>1, <3>3
    <2>5. ASSUME NEW j \in P, j # pos
          PROVE  \E c \in P : Sinks(K, n, pos, c) /\ Child(K, n, c) = j
      <3>1. PICK c \in P : g[c] /\ l[c] = j
        BY <2>3, <2>5
      <3>2. c \in 1..m
        BY <2>3
      <3> QED BY <2>1, <2>2, <3>1, <3>2
    <2> QED BY <2>3, <2>4, <2>5
  <1>2. ASSUME NEW i \in 1..n
        PROVE  R[i] = IF i \notin P THEN K[i]
                      ELSE IF Sinks(K, n, pos, i) THEN K[Child(K, n, i)] ELSE K[pos]
    <2>1. i \in 1..m
      OBVIOUS
    <2>2. DownGoesOn(K, n, pos, m)[i] = Sinks(K, n, pos, i)
      BY <2>1 DEF DownGoesOn
    <2>3. Sinks(K, n, pos, i) => DownLink(K, n, m)[i] = Child(K, n, i)
      <3>1. Child(K, n, i) \in Nat
        BY ChildFacts
      <3> QED BY <2>1, <3>1 DEF DownLink, Sinks
    <2>4. R[i] = Moved(K, P, DownGoesOn(K, n, pos, m), DownLink(K, n, m), pos, i)
      OBVIOUS
    <2> QED BY <2>2, <2>3, <2>4 DEF Moved
  <1>. SUFFICES ASSUME NEW j \in 2..n PROVE R[j \div 2] <= R[j]
    BY DEF InOrder
  <1>. DEFINE p == j \div 2
  <1>3. j \in Nat /\ j >= 2 /\ j <= n /\ p \in 1..n /\ p < j /\ p \in Nat /\ j \in 1..n /\ p >= 1
    BY HalfFacts
  <1>4. \A i \in 1..n : K[i] \in Int
    OBVIOUS
  <1>5. Child(K, n, p) \in 2..n /\ K[Child(K, n, p)] <= K[j]
    BY <1>0, LesserChild
  <1>6. Child(K, n, j) \in Nat /\ Child(K, n, j) > j /\ Child(K, n, j) \div 2 = j
        /\ Child(K, n, j) >= 2
    BY <1>3, ChildFacts
  <1>7. CASE j \notin P /\ p \notin P
    BY <1>1, <1>2, <1>3, <1>7 DEF InOrderBut
  <1>8. CASE j \in P /\ j # pos
    <2>1. PICK c \in P : Sinks(K, n, pos, c) /\ Child(K, n, c) = j
      BY <1>1, <1>8
    <2>2. c = p
      <3>1. c \in Nat /\ c >= 1
        BY <1>1
      <3> QED BY <2>1, <3>1, ChildFacts
    <2>3. R[p] = K[j] /\ K[j] < K[pos]
      <3>. HIDE DEF p
      <3> QED BY <1>2, <1>3, <2>1, <2>2 DEF Sinks
    <2>4. CASE Sinks(K, n, pos, j)
      <3>1. Child(K, n, j) \in 2..n /\ Child(K, n, j) # pos
        BY <1>1, <1>3, <1>6, <1>8, <2>4 DEF Sinks
      <3>2. K[j] <= K[Child(K, n, j)]
        BY <1>6, <1>8, <3>1 DEF InOrderBut
      <3>3. R[j] = K[Child(K, n, j)]
        BY <1>2, <1>3, <1>8, <2>4
      <3> QED BY <2>3, <3>2, <3>3
    <2>5. CASE ~Sinks(K, n, pos, j)
      <3>1. R[j] = K[pos]
        BY <1>2, <1>3, <1>8, <2>5
      <3> QED BY <1>3, <1>4, <2>3, <3>1
    <2> QED BY <2>4, <2>5
  <1>9. CASE j = pos
    <2>1. p \notin P /\ R[p] = K[p]
      <3>1. p \notin P
        BY <1>1, <1>3, <1>9
      <3>. HIDE DEF p
      <3> QED BY <1>2, <1>3, <3>1
    <2>2. CASE Sinks(K, n, pos, pos)
      <3>1. Child(K, n, j) \in 2..n
        BY <1>6, <1>9, <2>2 DEF Sinks
      <3>2. R[j] = K[Child(K, n, j)]
        BY <1>1, <1>2, <1>3, <1>9, <2>2
      <3>3. K[p] <= K[Child(K, n, j)]
        BY <1>3, <1>6, <1>9, <3>1 DEF InOrderBut
      <3> QED BY <2>1, <3>2, <3>3
    <2>3. CASE ~Sinks(K, n, pos, pos)
      <3>1. R[j] = K[pos]
        BY <1>1, <1>2, <1>3, <1>9, <2>3
      <3> QED BY <1>3, <1>9, <2>1, <3>1
    <2> QED BY <2>2, <2>3
  <1>10. CASE j \notin P /\ p \in P
    <2>1. R[j] = K[j]
      BY <1>2, <1>3, <1>10
    <2>2. Child(K, n, p) \in 1..n /\ K[Child(K, n, p)] \in Int
      BY <1>4, <1>5
    <2>3. CASE Sinks(K, n, pos, p)
      <3>1. R[p] = K[Child(K, n, p)]
        <4>. HIDE DEF p
        <4> QED BY <1>2, <1>3, <1>10, <2>3
      <3> QED BY <1>5, <2>1, <3>1
    <2>4. CASE ~Sinks(K, n, pos, p)
      <3>1. R[p] = K[pos]
        <4>. HIDE DEF p
        <4> QED BY <1>2, <1>3, <1>10, <2>4
      <3>2. K[pos] <= K[Child(K, n, p)]
        <4>. HIDE DEF p
        <4> QED BY <1>4, <1>5, <2>2, <2>4 DEF Sinks
      <3>. HIDE DEF p
      <3> QED BY <1>3, <1>4, <1>5, <2>1, <2>2, <3>1, <3>2 DEF p
    <2> QED BY <2>3, <2>4
  <1> QED BY <1>7, <1>8, <1>9, <1>10

(* An array with another element at pos is in order but for that place.        *)
LEMMA OutOfPlace ==
    ASSUME NEW n \in Nat, NEW K \in [1..n -> Int], InOrder(K, n), NEW k \in 0..n,
           NEW pos \in 1..k, NEW R, \A i \in 1..k : i # pos => R[i] = K[i]
    PROVE  InOrderBut(R, k, pos)
  <1>1. ASSUME NEW j \in 2..k
        PROVE  /\ j \in 1..n /\ j \in 2..n /\ j \in 1..k
               /\ j \div 2 \in 1..k /\ j \div 2 # j /\ j \div 2 \in 1..n
               /\ K[j \div 2] <= K[j] /\ K[j] \in Int /\ K[j \div 2] \in Int
    <2>1. j \in Nat /\ j >= 2 /\ j <= n /\ j <= k
      OBVIOUS
    <2>2. j \div 2 \in Nat /\ 1 <= j \div 2 /\ j \div 2 < j
      BY <2>1, HalfFacts
    <2> QED BY <2>1, <2>2 DEF InOrder
  <1>2. ASSUME NEW j \in 2..k, j # pos, j \div 2 # pos PROVE R[j \div 2] <= R[j]
    BY <1>1, <1>2
  <1>3. ASSUME pos > 1, NEW j \in 2..k, j \div 2 = pos PROVE R[pos \div 2] <= R[j]
    <2>1. pos \in 2..k
      BY <1>3
    <2>2. K[pos \div 2] <= K[pos] /\ pos \div 2 \in 1..k /\ pos \div 2 # pos
          /\ K[pos \div 2] \in Int /\ K[pos] \in Int
      BY <1>1, <2>1
    <2>3. K[pos] <= K[j] /\ j # pos /\ j \in 1..k /\ K[j] \in Int
      BY <1>1, <1>3
    <2> QED BY <2>2, <2>3
  <1> QED BY <1>2, <1>3 DEF InOrderBut

=============================================================================
