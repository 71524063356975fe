----------------------------- MODULE SearchProofs -----------------------------
(* A search returns the best live matches in their order, whatever the scorer *)
(* leaves out; its count is honest; a page and a merge of answers are windows *)
(* of the ranking they are taken from: for every reader, every number of hits *)
(* and every threshold. And the composite reader that is searched is its sub  *)
(* readers one after the other, however many and of whatever length.          *)
EXTENDS TopDocsSearch, CompositeReader, FiniteSetTheorems, SequenceTheorems, Recursion, TLAPS

-----------------------------------------------------------------------------
(* Sums of counts.                                                            *)

LEMMA SumsExist ==
    ASSUME NEW counts \in Seq(Nat)
    PROVE  Sums(counts) =
             [i \in 0 .. Len(counts) |-> IF i = 0 THEN 0 ELSE Sums(counts)[i - 1] + counts[i]]
  <1>. DEFINE n == Len(counts)
              Good(f, k) == f = [i \in 0 .. k |-> IF i = 0 THEN 0 ELSE f[i - 1] + counts[i]]
              Bad == {k \in 0 .. n : ~\E f : Good(f, k)}
  <1>1. n \in Nat
    OBVIOUS
  <1>2. 0 \notin Bad
    <2>. DEFINE f == [i \in 0 .. 0 |-> 0]
    <2>1. Good(f, 0)
      OBVIOUS
    <2> QED BY <2>1
  <1>3. ASSUME NEW k \in Bad, \A j \in Bad : k <= j PROVE FALSE
    <2>0. k \in 0 .. n /\ k # 0
      BY <1>2
    <2>1. k \in 1 .. n /\ k - 1 \in 0 .. n /\ ~(k <= k - 1)
      BY <1>1, <2>0
    <2>2. PICK f : Good(f, k - 1)
      BY <1>3, <2>1
    <2>. DEFINE g == [i \in 0 .. k |-> IF i = k THEN f[k - 1] + counts[k] ELSE f[i]]
    <2>3. ASSUME NEW i \in 0 .. k
          PROVE  g[i] = IF i = 0 THEN 0 ELSE g[i - 1] + counts[i]
      <3>1. CASE i = k
        <4>1. g[i - 1] = f[k - 1]
          BY <2>1, <3>1
        <4> QED BY <2>1, <3>1, <4>1
      <3>2. CASE i # k
        <4>1. i \in 0 .. (k - 1) /\ (i # 0 => i - 1 \in 0 .. (k - 1) /\ i - 1 \in 0 .. k /\ i - 1 # k)
          BY <2>1, <3>2
        <4>2. g[i] = f[i] /\ (i # 0 => g[i - 1] = f[i - 1])
          BY <3>2, <4>1
        <4>3. f[i] = IF i = 0 THEN 0 ELSE f[i - 1] + counts[i]
          BY <2>2, <4>1
        <4> QED BY <4>2, <4>3
      <3> QED BY <3>1, <3>2
    <2>4. g = [i \in 0 .. k |-> g[i]]
      OBVIOUS
    <2>. HIDE DEF g
    <2>5. Good(g, k)
      BY <2>3, <2>4
    <2> QED BY <2>5
  <1>4. Bad = {}
    <2>1. Bad \subseteq Nat
      BY <1>1
    <2>. HIDE DEF Bad
    <2> QED BY <1>3, <2>1, LeastNat
  <1>5. \E f : Good(f, n)
    BY <1>1, <1>4
  <1>6. \E f : Good(f, n) /\ Sums(counts) = f
    <2>1. Sums(counts) = CHOOSE f : Good(f, n)
      BY DEF Sums
    <2>. HIDE DEF Good
    <2> QED BY <1>5, <2>1, Zenon
  <1> QED BY <1>6

LEMMA SumsAdd ==
    ASSUME NEW counts \in Seq(Nat)
    PROVE  /\ Sums(counts)[0] = 0
           /\ \A i \in 0 .. Len(counts) : Sums(counts)[i] \in Nat
           /\ \A i \in 1 .. Len(counts) : Sums(counts)[i] = Sums(counts)[i - 1] + counts[i]
           /\ \A i, j \in 0 .. Len(counts) : i <= j => Sums(counts)[i] <= Sums(counts)[j]
  <1>. DEFINE n == Len(counts)
              S == Sums(counts)
  <1>1. /\ n \in Nat
        /\ \A i \in 1 .. n : counts[i] \in Nat
    OBVIOUS
  <1>2. S[0] = 0 /\ \A i \in 1 .. n : i \in 0 .. n /\ S[i] = S[i - 1] + counts[i]
    <2>1. S = [i \in 0 .. n |-> IF i = 0 THEN 0 ELSE S[i - 1] + counts[i]]
      BY SumsExist
    <2>. HIDE DEF S, n
    <2> QED BY <1>1, <2>1
  <1>. HIDE DEF S, n
  <1>3. ASSUME NEW j \in 0 .. n
        PROVE  S[j] \in Nat /\ \A i \in 0 .. j : S[i] \in Nat /\ S[i] <= S[j]
    <2>. DEFINE Good(k) == S[k] \in Nat /\ \A i \in 0 .. k : S[i] \in Nat /\ S[i] <= S[k]
                Bad == {k \in 0 .. n : ~Good(k)}
    <2>1. ASSUME NEW k \in Bad, \A h \in Bad : k <= h PROVE FALSE
      <3>1. k # 0
        BY <1>2
      <3>2. k \in 1 .. n /\ k - 1 \in 0 .. n /\ ~(k <= k - 1)
        BY <1>1, <3>1
      <3>3. Good(k - 1)
        BY <2>1, <3>2
      <3>4. S[k] = S[k - 1] + counts[k] /\ counts[k] \in Nat
        BY <1>1, <1>2, <3>2
      <3>5. \A i \in 0 .. k : i = k \/ i \in 0 .. (k - 1)
        BY <3>2
      <3>6. Good(k)
        BY <3>3, <3>4, <3>5
      <3> QED BY <3>6
    <2>2. Bad = {}
      <3>1. Bad \subseteq Nat
        BY <1>1
      <3>. HIDE DEF Bad
      <3> QED BY <2>1, <3>1, LeastNat
    <2> QED BY <2>2
  <1>4. \A i, j \in 0 .. n : i <= j => S[i] <= S[j]
    <2>1. \A i, j \in 0 .. n : i <= j => i \in 0 .. j
      BY <1>1
    <2> QED BY <1>3, <2>1
  <1> QED BY <1>2, <1>3, <1>4 DEF S, n

-----------------------------------------------------------------------------
(* The documents of a reader.                                                 *)

IsReader(r) == r \in Seq(Seq(Docs))

Found(r, l, d) == [doc |-> DocBase(r, l) + d - 1, score |-> r[l][d].score]

LEMMA ReaderParts ==
    ASSUME NEW r, IsReader(r)
    PROVE  /\ Len(r) \in Nat /\ DOMAIN r = 1 .. Len(r)
           /\ \A l \in DOMAIN r :
                /\ Len(r[l]) \in Nat /\ DOMAIN r[l] = 1 .. Len(r[l])
                /\ \A d \in DOMAIN r[l] : /\ r[l][d].score \in Nat \cup {NoMatch}
                                          /\ r[l][d].live \in BOOLEAN
  <1>1. ASSUME NEW l \in DOMAIN r
        PROVE  r[l] \in Seq(Docs)
    BY DEF IsReader
  <1>2. ASSUME NEW l \in DOMAIN r, NEW d \in DOMAIN r[l]
        PROVE  r[l][d] \in Docs
    BY <1>1
  <1> QED BY <1>1, <1>2 DEF IsReader, Docs

LEMMA LeafBases ==
    ASSUME NEW T, NEW r \in Seq(Seq(T))
    PROVE  /\ MaxDoc(r) \in Nat /\ MaxDoc(r) = DocBase(r, Len(r) + 1) /\ DocBase(r, 1) = 0
           /\ \A l \in 1 .. Len(r) + 1 : DocBase(r, l) \in Nat
           /\ \A l \in 1 .. Len(r) : DocBase(r, l + 1) = DocBase(r, l) + Len(r[l])
           /\ \A l, k \in 1 .. Len(r) + 1 : l <= k => DocBase(r, l) <= DocBase(r, k)
  <1>. DEFINE c == DocCounts(r)
              n == Len(r)
  <1>1. c \in Seq(Nat) /\ Len(c) = n /\ n \in Nat /\ \A l \in 1 .. n : c[l] = Len(r[l])
    <2>0. n \in Nat /\ DOMAIN r = 1 .. n /\ \A l \in 1 .. n : Len(r[l]) \in Nat
      OBVIOUS
    <2>1. c \in [1 .. n -> Nat] /\ \A l \in 1 .. n : c[l] = Len(r[l])
      BY <2>0 DEF DocCounts
    <2>. HIDE DEF c, n
    <2> QED BY <2>0, <2>1
  <1>. HIDE DEF c
  <1>2. /\ Sums(c)[0] = 0
        /\ \A i \in 0 .. n : Sums(c)[i] \in Nat
        /\ \A i \in 1 .. n : Sums(c)[i] = Sums(c)[i - 1] + c[i]
        /\ \A i, j \in 0 .. n : i <= j => Sums(c)[i] <= Sums(c)[j]
    BY <1>1, SumsAdd
  <1>3. /\ MaxDoc(r) = Sums(c)[n]
        /\ \A l : DocBase(r, l) = Sums(c)[l - 1]
    BY DEF MaxDoc, DocBase, c
  <1>. HIDE DEF n
  <1>4. n \in 0 .. n /\ n + 1 - 1 = n /\ 1 - 1 = 0
    BY <1>1
  <1>5. /\ \A l \in 1 .. n + 1 : l - 1 \in 0 .. n
        /\ \A l \in 1 .. n : l + 1 - 1 = l
    BY <1>1
  <1>6. /\ MaxDoc(r) \in Nat /\ MaxDoc(r) = DocBase(r, n + 1) /\ DocBase(r, 1) = 0
        /\ \A l \in 1 .. n + 1 : DocBase(r, l) \in Nat
    <2>1. MaxDoc(r) \in Nat /\ MaxDoc(r) = DocBase(r, n + 1) /\ DocBase(r, 1) = 0
      BY <1>2, <1>3, <1>4
    <2>2. \A l \in 1 .. n + 1 : DocBase(r, l) \in Nat
      BY <1>2, <1>3, <1>5
    <2> QED BY <2>1, <2>2
  <1>7. ASSUME NEW l \in 1 .. n PROVE DocBase(r, l + 1) = DocBase(r, l) + Len(r[l])
    <2>1. DocBase(r, l + 1) = Sums(c)[l + 1 - 1] /\ l + 1 - 1 = l
      BY <1>3, <1>5
    <2>2. DocBase(r, l + 1) = Sums(c)[l]
      BY <2>1
    <2> QED BY <1>1, <1>2, <1>3, <2>2
  <1>8. \A l, k \in 1 .. n + 1 : l <= k => DocBase(r, l) <= DocBase(r, k)
    <2>1. \A l, k \in 1 .. n + 1 : l <= k => l - 1 <= k - 1
      BY <1>1
    <2> QED BY <1>2, <1>3, <1>5, <2>1
  <1> QED BY <1>6, <1>7, <1>8 DEF n

LEMMA Bases ==
    ASSUME NEW r, IsReader(r)
    PROVE  /\ MaxDoc(r) \in Nat /\ MaxDoc(r) = DocBase(r, Len(r) + 1) /\ DocBase(r, 1) = 0
           /\ \A l \in 1 .. Len(r) + 1 : DocBase(r, l) \in Nat
           /\ \A l \in 1 .. Len(r) : DocBase(r, l + 1) = DocBase(r, l) + Len(r[l])
           /\ \A l, k \in 1 .. Len(r) + 1 : l <= k => DocBase(r, l) <= DocBase(r, k)
  BY LeafBases DEF IsReader

LEMMA MatchesAre ==
    ASSUME NEW r, NEW x
    PROVE  x \in Matches(r) <=>
             \E l \in DOMAIN r : \E d \in DOMAIN r[l] :
                /\ r[l][d].live /\ r[l][d].score # NoMatch
                /\ x = Found(r, l, d)
  BY DEF Matches, Found

LEMMA FoundIn ==
    ASSUME NEW r, IsReader(r), NEW l \in DOMAIN r, NEW d \in DOMAIN r[l]
    PROVE  /\ l \in 1 .. Len(r) /\ l \in 1 .. Len(r) + 1 /\ l + 1 \in 1 .. Len(r) + 1 /\ Len(r) \in Nat
           /\ d \in 1 .. Len(r[l]) /\ Len(r[l]) \in Nat /\ DocBase(r, l) \in Nat
           /\ Found(r, l, d).doc \in Nat
           /\ Found(r, l, d).doc = DocBase(r, l) + d - 1
           /\ DocBase(r, l) <= Found(r, l, d).doc /\ Found(r, l, d).doc < DocBase(r, l + 1)
           /\ Found(r, l, d).score = r[l][d].score
  <1>1. /\ l \in 1 .. Len(r) /\ l \in 1 .. Len(r) + 1 /\ l + 1 \in 1 .. Len(r) + 1 /\ Len(r) \in Nat
        /\ d \in 1 .. Len(r[l]) /\ Len(r[l]) \in Nat
    BY ReaderParts
  <1>2. DocBase(r, l) \in Nat /\ DocBase(r, l + 1) = DocBase(r, l) + Len(r[l])
    BY <1>1, Bases
  <1>3. Found(r, l, d).doc = DocBase(r, l) + d - 1 /\ Found(r, l, d).score = r[l][d].score
    BY DEF Found
  <1> QED BY <1>1, <1>2, <1>3

(* A document number belongs to one document. *)
LEMMA NumberedOnce ==
    ASSUME NEW r, IsReader(r), NEW l \in DOMAIN r, NEW d \in DOMAIN r[l],
           NEW k \in DOMAIN r, NEW e \in DOMAIN r[k]
    PROVE  /\ Found(r, l, d).doc = Found(r, k, e).doc => l = k /\ d = e
           /\ l < k => Found(r, l, d).doc < DocBase(r, k)
  <1>1. ASSUME NEW a \in DOMAIN r, NEW f \in DOMAIN r[a], NEW b \in DOMAIN r, NEW g \in DOMAIN r[b], a < b
        PROVE  Found(r, a, f).doc < DocBase(r, b) /\ DocBase(r, b) <= Found(r, b, g).doc
    <2>1. /\ a + 1 \in 1 .. Len(r) + 1 /\ Found(r, a, f).doc < DocBase(r, a + 1) /\ a \in 1 .. Len(r)
          /\ Found(r, a, f).doc \in Nat
      BY FoundIn
    <2>2. b \in 1 .. Len(r) + 1 /\ DocBase(r, b) <= Found(r, b, g).doc /\ DocBase(r, b) \in Nat
          /\ Len(r) \in Nat
      BY FoundIn
    <2>3. a + 1 <= b
      BY <1>1, <2>1, <2>2
    <2>4. DocBase(r, a + 1) <= DocBase(r, b) /\ DocBase(r, a + 1) \in Nat
      BY <2>1, <2>2, <2>3, Bases
    <2> QED BY <2>1, <2>2, <2>4
  <1>2. /\ l \in Nat /\ k \in Nat /\ d \in Nat /\ e \in Nat
        /\ Found(r, l, d).doc \in Nat /\ Found(r, k, e).doc \in Nat
        /\ DocBase(r, k) \in Nat /\ DocBase(r, l) \in Nat
        /\ Found(r, l, d).doc = DocBase(r, l) + d - 1
        /\ Found(r, k, e).doc = DocBase(r, k) + e - 1
    <2>1. /\ l \in Nat /\ d \in Nat /\ Found(r, l, d).doc \in Nat /\ DocBase(r, l) \in Nat
          /\ Found(r, l, d).doc = DocBase(r, l) + d - 1
      <3>1. /\ l \in 1 .. Len(r) /\ d \in 1 .. Len(r[l]) /\ Found(r, l, d).doc \in Nat
            /\ DocBase(r, l) \in Nat /\ Found(r, l, d).doc = DocBase(r, l) + d - 1
        BY FoundIn, Zenon
      <3> QED BY <3>1
    <2>2. /\ k \in Nat /\ e \in Nat /\ Found(r, k, e).doc \in Nat /\ DocBase(r, k) \in Nat
          /\ Found(r, k, e).doc = DocBase(r, k) + e - 1
      <3>1. /\ k \in 1 .. Len(r) /\ e \in 1 .. Len(r[k]) /\ Found(r, k, e).doc \in Nat
            /\ DocBase(r, k) \in Nat /\ Found(r, k, e).doc = DocBase(r, k) + e - 1
        BY FoundIn, Zenon
      <3> QED BY <3>1
    <2> QED BY <2>1, <2>2
  <1>3. CASE l < k
    <2>1. Found(r, l, d).doc < DocBase(r, k) /\ DocBase(r, k) <= Found(r, k, e).doc
      BY <1>1, <1>3
    <2> QED BY <1>2, <1>3, <2>1
  <1>4. CASE k < l
    <2>1. Found(r, k, e).doc < DocBase(r, l) /\ DocBase(r, l) <= Found(r, l, d).doc
      BY <1>1, <1>4
    <2> QED BY <1>2, <1>4, <2>1
  <1>5. CASE k = l
    <2>1. DocBase(r, k) = DocBase(r, l)
      BY <1>5
    <2> QED BY <1>2, <1>5, <2>1
  <1> QED BY <1>2, <1>3, <1>4, <1>5

LEMMA MatchesAreNumbered ==
    ASSUME NEW r, IsReader(r)
    PROVE  /\ \A x \in Matches(r) : /\ x = [doc |-> x.doc, score |-> x.score]
                                    /\ x.doc \in Nat /\ x.score \in Nat
                                    /\ x.doc < MaxDoc(r)
           /\ \A x, y \in Matches(r) : x.doc = y.doc => x = y
           /\ IsFiniteSet(Matches(r)) /\ Cardinality(Matches(r)) \in Nat
           /\ Cardinality(Matches(r)) <= MaxDoc(r)
  <1>. DEFINE M == Matches(r)
              D == 0 .. (MaxDoc(r) - 1)
              f == [x \in M |-> x.doc]
  <1>1. MaxDoc(r) \in Nat /\ MaxDoc(r) = DocBase(r, Len(r) + 1)
    BY Bases
  <1>2. ASSUME NEW x \in M
        PROVE  /\ x = [doc |-> x.doc, score |-> x.score]
               /\ x.doc \in Nat /\ x.score \in Nat /\ x.doc < MaxDoc(r)
    <2>1a. PICK l \in DOMAIN r : \E d \in DOMAIN r[l] : r[l][d].score # NoMatch /\ x = Found(r, l, d)
      BY MatchesAre
    <2>1. PICK d \in DOMAIN r[l] : r[l][d].score # NoMatch /\ x = Found(r, l, d)
      BY <2>1a
    <2>2. /\ x.doc \in Nat /\ x.doc < DocBase(r, l + 1) /\ l + 1 \in 1 .. Len(r) + 1 /\ Len(r) \in Nat
          /\ x.score = r[l][d].score
      BY <2>1, FoundIn
    <2>3. r[l][d].score \in Nat \cup {NoMatch}
      BY ReaderParts
    <2>4. x.score \in Nat
      BY <2>1, <2>2, <2>3
    <2>5. Len(r) + 1 \in 1 .. Len(r) + 1 /\ l + 1 <= Len(r) + 1
      BY <2>2
    <2>6. DocBase(r, l + 1) <= MaxDoc(r) /\ DocBase(r, l + 1) \in Nat
      BY <1>1, <2>2, <2>5, Bases
    <2>7. x = [doc |-> x.doc, score |-> x.score]
      BY <2>1 DEF Found
    <2> QED BY <1>1, <2>2, <2>4, <2>6, <2>7
  <1>3. ASSUME NEW x \in M, NEW y \in M, x.doc = y.doc PROVE x = y
    <2>1a. PICK l \in DOMAIN r : \E d \in DOMAIN r[l] : x = Found(r, l, d)
      BY MatchesAre
    <2>1. PICK d \in DOMAIN r[l] : x = Found(r, l, d)
      BY <2>1a
    <2>2a. PICK k \in DOMAIN r : \E e \in DOMAIN r[k] : y = Found(r, k, e)
      BY MatchesAre
    <2>2. PICK e \in DOMAIN r[k] : y = Found(r, k, e)
      BY <2>2a
    <2>3. l = k /\ d = e
      BY <1>3, <2>1, <2>2, NumberedOnce
    <2> QED BY <2>1, <2>2, <2>3
  <1>. HIDE DEF M
  <1>4. f \in Injection(M, D)
    <2>1. f \in [M -> D]
      BY <1>1, <1>2
    <2>2. \A x, y \in M : f[x] = f[y] => x = y
      BY <1>3
    <2> QED BY <2>1, <2>2 DEF Injection, IsInjective
  <1>5. IsFiniteSet(D) /\ Cardinality(D) = MaxDoc(r)
    <2>1. 0 \in Int /\ MaxDoc(r) - 1 \in Int
      BY <1>1
    <2>2. IsFiniteSet(0 .. (MaxDoc(r) - 1))
          /\ Cardinality(0 .. (MaxDoc(r) - 1)) = IF 0 > MaxDoc(r) - 1 THEN 0 ELSE MaxDoc(r) - 1 - 0 + 1
      BY <2>1, FS_Interval, Zenon
    <2> QED BY <1>1, <2>2
  <1>. HIDE DEF f, D
  <1>6. IsFiniteSet(M) /\ Cardinality(M) <= MaxDoc(r)
    BY <1>4, <1>5, FS_Injection
  <1>7. Cardinality(M) \in Nat
    BY <1>6, FS_CardinalityType
  <1> QED BY <1>2, <1>3, <1>6, <1>7 DEF M

(* The matches with a number below b: those the search has passed when the next *)
(* number is b.                                                                 *)
Below(r, b) == {x \in Matches(r) : x.doc < b}

LEMMA AllBelow ==
    ASSUME NEW r, IsReader(r)
    PROVE  Below(r, DocBase(r, 1)) = {} /\ Below(r, DocBase(r, Len(r) + 1)) = Matches(r)
  <1>1. DocBase(r, 1) = 0 /\ DocBase(r, Len(r) + 1) = MaxDoc(r)
    BY Bases
  <1>2. \A x \in Matches(r) : x.doc \in Nat /\ x.doc < MaxDoc(r)
    BY MatchesAreNumbered
  <1> QED BY <1>1, <1>2 DEF Below

LEMMA BelowGrows ==
    ASSUME NEW r, IsReader(r), NEW l \in DOMAIN r, NEW b \in 0 .. Len(r[l]), NEW a \in 0 .. b, NEW x
    PROVE  x \in Below(r, DocBase(r, l) + b) <=>
             \/ x \in Below(r, DocBase(r, l) + a)
             \/ \E d \in a + 1 .. b : /\ d \in DOMAIN r[l] /\ r[l][d].live /\ r[l][d].score # NoMatch
                                      /\ x = Found(r, l, d)
  <1>1. /\ Len(r[l]) \in Nat /\ DOMAIN r[l] = 1 .. Len(r[l]) /\ l \in 1 .. Len(r) /\ Len(r) \in Nat
        /\ DocBase(r, l) \in Nat /\ DocBase(r, l + 1) = DocBase(r, l) + Len(r[l])
    <2>1. /\ Len(r[l]) \in Nat /\ DOMAIN r[l] = 1 .. Len(r[l]) /\ l \in 1 .. Len(r) /\ Len(r) \in Nat
      BY ReaderParts
    <2>2. l \in 1 .. Len(r) + 1
      BY <2>1
    <2> QED BY <2>1, <2>2, Bases
  <1>1a. /\ \A i \in 1 .. Len(r) + 1 : DocBase(r, i) \in Nat
         /\ \A i, j \in 1 .. Len(r) + 1 : i <= j => DocBase(r, i) <= DocBase(r, j)
    BY Bases, Zenon
  <1>0. a \in Nat /\ b \in Nat /\ a <= b /\ b <= Len(r[l])
    BY <1>1
  <1>2. ASSUME x \in Below(r, DocBase(r, l) + b), x \notin Below(r, DocBase(r, l) + a)
        PROVE  \E d \in a + 1 .. b : /\ d \in DOMAIN r[l] /\ r[l][d].live /\ r[l][d].score # NoMatch
                                     /\ x = Found(r, l, d)
    <2>1a. PICK k \in DOMAIN r : \E d \in DOMAIN r[k] :
               /\ r[k][d].live /\ r[k][d].score # NoMatch
               /\ x = Found(r, k, d)
      BY <1>2, MatchesAre DEF Below
    <2>1. PICK d \in DOMAIN r[k] :
               /\ r[k][d].live /\ r[k][d].score # NoMatch
               /\ x = Found(r, k, d)
      BY <2>1a
    <2>2. x.doc < DocBase(r, l) + b /\ ~(x.doc < DocBase(r, l) + a)
      BY <1>2 DEF Below
    <2>3. /\ x.doc \in Nat /\ x.doc = DocBase(r, k) + d - 1 /\ DocBase(r, k) \in Nat
          /\ k \in 1 .. Len(r) /\ k \in 1 .. Len(r) + 1 /\ d \in Nat /\ DocBase(r, k) <= x.doc
          /\ x.doc < DocBase(r, k + 1) /\ k + 1 \in 1 .. Len(r) + 1
      BY <2>1, FoundIn
    <2>4. ~(k < l)
      <3>1. SUFFICES ASSUME k < l PROVE FALSE
        OBVIOUS
      <3>2. l \in 1 .. Len(r) + 1 /\ k + 1 <= l
        <4>1. l \in 1 .. Len(r) /\ k \in 1 .. Len(r) /\ Len(r) \in Nat
          BY <1>1, <2>3
        <4> QED BY <3>1, <4>1
      <3>3. DocBase(r, k + 1) <= DocBase(r, l) /\ DocBase(r, k + 1) \in Nat
        BY <1>1a, <2>3, <3>2, Zenon
      <3>4. ~(x.doc < DocBase(r, l) + a) /\ x.doc < DocBase(r, k + 1) /\ x.doc \in Nat
        BY <2>2, <2>3
      <3> QED BY <1>0, <1>1, <3>3, <3>4
    <2>5. ~(l < k)
      <3>1. SUFFICES ASSUME l < k PROVE FALSE
        OBVIOUS
      <3>2. l + 1 \in 1 .. Len(r) + 1 /\ l + 1 <= k
        <4>1. l \in 1 .. Len(r) /\ k \in 1 .. Len(r) /\ Len(r) \in Nat
          BY <1>1, <2>3
        <4> QED BY <3>1, <4>1
      <3>3. DocBase(r, l + 1) <= DocBase(r, k)
        BY <1>1a, <2>3, <3>2, Zenon
      <3>4. x.doc < DocBase(r, l) + b /\ DocBase(r, k) <= x.doc /\ DocBase(r, k) \in Nat /\ x.doc \in Nat
        BY <2>2, <2>3
      <3>5. DocBase(r, l) + b <= DocBase(r, l + 1) /\ DocBase(r, l) \in Nat /\ DocBase(r, l + 1) \in Nat
        BY <1>0, <1>1
      <3> QED BY <1>0, <3>3, <3>4, <3>5
    <2>6. k = l
      BY <1>1, <2>3, <2>4, <2>5
    <2>7. x.doc = DocBase(r, l) + d - 1 /\ DocBase(r, l) \in Nat
      BY <1>1, <2>3, <2>6
    <2>8. d \in a + 1 .. b
      <3>. DEFINE at == DocBase(r, l)
      <3>1. at \in Nat /\ d \in Nat /\ at + d - 1 < at + b /\ ~(at + d - 1 < at + a)
        BY <2>2, <2>3, <2>7
      <3>. HIDE DEF at
      <3> QED BY <1>0, <3>1
    <2> QED BY <2>1, <2>6, <2>8
  <1>3. ASSUME NEW d \in a + 1 .. b, d \in DOMAIN r[l], r[l][d].live, r[l][d].score # NoMatch,
               x = Found(r, l, d)
        PROVE  x \in Below(r, DocBase(r, l) + b)
    <2>1. x \in Matches(r)
      BY <1>3, MatchesAre
    <2>2. x.doc = DocBase(r, l) + d - 1
      BY <1>3, FoundIn
    <2> QED BY <1>1, <2>1, <2>2 DEF Below
  <1>4. ASSUME x \in Below(r, DocBase(r, l) + a) PROVE x \in Below(r, DocBase(r, l) + b)
    <2>1. x \in Matches(r) /\ x.doc < DocBase(r, l) + a
      BY <1>4 DEF Below
    <2>2. x.doc \in Nat
      BY <2>1, MatchesAreNumbered
    <2> QED BY <1>1, <2>1, <2>2 DEF Below
  <1> QED BY <1>2, <1>3, <1>4

-----------------------------------------------------------------------------
(* The collector's heap: of the matches P it was given, those that are in it  *)
(* are there once, and the others are worse than all that is in it.           *)

HQ == INSTANCE HeapProofs WITH LessThan <- HitLess, None <- Sentinel

Hits == [doc : Int, score : Int, shardIndex : Int]
HitOf(x) == Hit(x.doc, x.score)

LEMMA HitsOrdered == HQ!Orders(Hits)
  <1>1. ASSUME NEW a \in Hits, NEW b \in Hits, NEW c \in Hits
        PROVE  /\ ~HitLess(a, a)
               /\ HitLess(a, b) /\ HitLess(b, c) => HitLess(a, c)
               /\ HitLess(a, c) => HitLess(a, b) \/ HitLess(b, c)
    <2>1. /\ a.score \in Int /\ b.score \in Int /\ c.score \in Int
          /\ a.doc \in Int /\ b.doc \in Int /\ c.doc \in Int
      BY DEF Hits
    <2> QED BY <2>1 DEF HitLess
  <1> QED BY <1>1, Zenon DEF HQ!Orders

LEMMA SameQueue ==
    ASSUME NEW q, NEW e
    PROVE  /\ HitQueue!Top(q) = q.heap[1] /\ HQ!Top(q) = q.heap[1]
           /\ HitQueue!UpdateTop(q, e) = HQ!UpdateTop(q, e)
           /\ HitQueue!Popped(q) = HQ!Popped(q)
  BY DEF HitQueue!Top, HQ!Top, HitQueue!UpdateTop, HQ!UpdateTop, HitQueue!Popped, HQ!Popped,
         HitQueue!DownHeap, HQ!DownHeap

LEMMA PermutesIs ==
    ASSUME NEW n, NEW perm, HQ!Permutes(perm, n)
    PROVE  /\ perm \in [1 .. n -> 1 .. n]
           /\ \A i, j \in 1 .. n : perm[i] = perm[j] => i = j
           /\ \A k \in 1 .. n : \E i \in 1 .. n : perm[i] = k
  BY DEF HQ!Permutes, HQ!Bijection, HQ!Surjection, HQ!Injection, HQ!IsInjective

Keeps(q, P) ==
    /\ HQ!IsQueue(q) /\ HQ!HeapOrdered(q) /\ q.size >= 1
    /\ \A i \in 1 .. q.size : q.heap[i] = Sentinel \/ \E x \in P : q.heap[i] = HitOf(x)
    /\ \A i, j \in 1 .. q.size : q.heap[i] = q.heap[j] /\ q.heap[i] # Sentinel => i = j
    /\ \A x \in P : \/ \E i \in 1 .. q.size : q.heap[i] = HitOf(x)
                    \/ \A i \in 1 .. q.size : HitLess(HitOf(x), q.heap[i])

Numbered(P) == \A x \in P : x = [doc |-> x.doc, score |-> x.score] /\ x.doc \in Nat /\ x.score \in Nat

LEMMA HitsOf ==
    ASSUME NEW P, Numbered(P), NEW x \in P
    PROVE  /\ HitOf(x) \in Hits /\ HitOf(x).doc = x.doc /\ HitOf(x).score = x.score
           /\ HitOf(x) # Sentinel /\ x.score \in Nat /\ x.doc \in Nat /\ HitOf(x).shardIndex = -1
           /\ \A y \in P : HitOf(y) = HitOf(x) => y = x
  <1>1. x.doc \in Nat /\ x.score \in Nat /\ x = [doc |-> x.doc, score |-> x.score]
    BY DEF Numbered
  <1>2. HitOf(x) = [doc |-> x.doc, score |-> x.score, shardIndex |-> -1]
    BY DEF HitOf, Hit
  <1>3. Sentinel.score = -1
    BY DEF Sentinel, Hit, NegInf
  <1>4. HitOf(x) \in Hits /\ HitOf(x).doc = x.doc /\ HitOf(x).score = x.score /\ HitOf(x).shardIndex = -1
    BY <1>1, <1>2 DEF Hits
  <1>5. ASSUME NEW y \in P, HitOf(y) = HitOf(x) PROVE y = x
    <2>1. y = [doc |-> y.doc, score |-> y.score]
      BY DEF Numbered
    <2>2. HitOf(y) = [doc |-> y.doc, score |-> y.score, shardIndex |-> -1]
      BY DEF HitOf, Hit
    <2>3. HitOf(y).doc = y.doc /\ HitOf(y).score = y.score
      BY <2>2
    <2>4. y.doc = x.doc /\ y.score = x.score
      BY <1>4, <1>5, <2>3
    <2> QED BY <1>1, <2>1, <2>4
  <1> QED BY <1>1, <1>3, <1>4, <1>5

LEMMA SentinelIsHit == Sentinel \in Hits /\ Sentinel.score = -1
  BY DEF Sentinel, Hits, Hit, NegInf, MaxDocID

LEMMA KeptHits ==
    ASSUME NEW q, NEW P, Numbered(P), Keeps(q, P)
    PROVE  /\ q.size \in Nat /\ 1 \in 1 .. q.size /\ HQ!HoldsOnly(q, Hits)
           /\ \A i \in 1 .. q.size :
                /\ q.heap[i] \in Hits
                /\ q.heap[i].score \in Nat \cup {-1} /\ q.heap[i].doc \in Nat
                /\ q.heap[i].score = -1 <=> q.heap[i] = Sentinel
                /\ ~HitLess(q.heap[i], q.heap[1])
                /\ q.heap[1].score <= q.heap[i].score
  <1>1. q.size \in Nat /\ 1 \in 1 .. q.size
    BY DEF Keeps, HQ!IsQueue
  <1>2. ASSUME NEW i \in 1 .. q.size
        PROVE  /\ q.heap[i] \in Hits
               /\ q.heap[i].score \in Nat \cup {-1} /\ q.heap[i].doc \in Nat
               /\ q.heap[i].score = -1 <=> q.heap[i] = Sentinel
    <2>1. CASE q.heap[i] = Sentinel
      <3>1. Sentinel.doc \in Nat
        BY DEF Sentinel, Hit, MaxDocID
      <3> QED BY <2>1, <3>1, SentinelIsHit
    <2>2. CASE q.heap[i] # Sentinel
      <3>1. PICK x \in P : q.heap[i] = HitOf(x)
        BY <2>2 DEF Keeps
      <3>2. HitOf(x) \in Hits /\ HitOf(x).score = x.score /\ x.score \in Nat /\ HitOf(x).doc = x.doc
            /\ x.doc \in Nat
        BY HitsOf
      <3> QED BY <2>2, <3>1, <3>2
    <2> QED BY <2>1, <2>2
  <1>3. HQ!HoldsOnly(q, Hits)
    BY <1>2 DEF HQ!HoldsOnly
  <1>4. ASSUME NEW i \in 1 .. q.size
        PROVE  /\ ~HitLess(q.heap[i], q.heap[1])
               /\ q.heap[1].score <= q.heap[i].score
    <2>1. ~HitLess(q.heap[i], q.heap[1])
      BY <1>3, HitsOrdered, HQ!TopLeast DEF Keeps
    <2>2. q.heap[1].score \in Int /\ q.heap[i].score \in Int
      BY <1>1, <1>2
    <2> QED BY <2>1, <2>2 DEF HitLess
  <1> QED BY <1>1, <1>2, <1>3, <1>4

(* Matches that are left out are worse than all that is kept. *)
LEMMA KeepsLeavingOut ==
    ASSUME NEW q, NEW P, Keeps(q, P), NEW Q, P \subseteq Q,
           \A x \in Q : x \in P \/ \A i \in 1 .. q.size : HitLess(HitOf(x), q.heap[i])
    PROVE  Keeps(q, Q)
  <1>1. /\ HQ!IsQueue(q) /\ HQ!HeapOrdered(q) /\ q.size >= 1
        /\ \A i, j \in 1 .. q.size : q.heap[i] = q.heap[j] /\ q.heap[i] # Sentinel => i = j
    BY DEF Keeps
  <1>2. \A i \in 1 .. q.size : q.heap[i] = Sentinel \/ \E x \in Q : q.heap[i] = HitOf(x)
    BY DEF Keeps
  <1>3. \A x \in Q : \/ \E i \in 1 .. q.size : q.heap[i] = HitOf(x)
                     \/ \A i \in 1 .. q.size : HitLess(HitOf(x), q.heap[i])
    BY Zenon DEF Keeps
  <1> QED BY <1>1, <1>2, <1>3 DEF Keeps

(* A match that is better than the worst takes its place. *)
LEMMA KeepsBetter ==
    ASSUME NEW q, NEW P, Numbered(P), Keeps(q, P),
           NEW x, Numbered({x}), \A y \in P : y.doc < x.doc, x.score > q.heap[1].score,
           NEW r, r = HQ!UpdateTop(q, HitOf(x))
    PROVE  /\ Keeps(r, P \cup {x}) /\ r.size = q.size
           /\ \A i \in 1 .. r.size : q.heap[1].score <= r.heap[i].score
           /\ (\A i \in 1 .. q.size : q.heap[i] # Sentinel) => \A i \in 1 .. r.size : r.heap[i] # Sentinel
  <1>. DEFINE n == q.size
              e == HitOf(x)
              w == q.heap[1]
  <1>1. /\ n \in Nat /\ 1 \in 1 .. n /\ HQ!HoldsOnly(q, Hits) /\ n > 0
        /\ \A i \in 1 .. n : /\ q.heap[i] \in Hits /\ q.heap[i].score \in Nat \cup {-1}
                             /\ q.heap[i].doc \in Nat
                             /\ q.heap[i].score = -1 <=> q.heap[i] = Sentinel
                             /\ ~HitLess(q.heap[i], w)
                             /\ w.score <= q.heap[i].score
    BY KeptHits
  <1>2. /\ e \in Hits /\ e.doc = x.doc /\ e.score = x.score /\ x.score \in Nat /\ x.doc \in Nat
        /\ e # Sentinel
    <2>1. x \in {x}
      OBVIOUS
    <2> QED BY <2>1, HitsOf
  <1>3. /\ HQ!IsQueue(r) /\ HQ!HeapOrdered(r) /\ r.size = n
        /\ \E perm : /\ HQ!Permutes(perm, n)
                     /\ \A i \in 1 .. n : r.heap[i] = IF perm[i] = 1 THEN e ELSE q.heap[perm[i]]
    BY <1>1, <1>2, HitsOrdered, HQ!UpdateTopRestores DEF Keeps
  <1>4. PICK perm : /\ HQ!Permutes(perm, n)
                    /\ \A i \in 1 .. n : r.heap[i] = IF perm[i] = 1 THEN e ELSE q.heap[perm[i]]
    BY <1>3
  <1>5. /\ perm \in [1 .. n -> 1 .. n]
        /\ \A i, j \in 1 .. n : perm[i] = perm[j] => i = j
        /\ \A k \in 1 .. n : \E i \in 1 .. n : perm[i] = k
    <2>1. HQ!Permutes(perm, n)
      BY <1>4
    <2>. HIDE DEF n
    <2> QED BY <2>1, PermutesIs
  <1>. HIDE DEF e, n, w
  <1>6. \A i \in 1 .. n : \/ perm[i] = 1 /\ r.heap[i] = e
                          \/ perm[i] # 1 /\ r.heap[i] = q.heap[perm[i]]
    BY <1>4
  <1>7. \A y \in P : HitOf(y) # e /\ HitOf(y).doc = y.doc /\ HitOf(y).score = y.score /\ y.doc < x.doc
                     /\ HitOf(y) \in Hits
    <2>1. \A y \in P : HitOf(y).doc = y.doc /\ HitOf(y).score = y.score /\ y.doc \in Nat /\ HitOf(y) \in Hits
      BY HitsOf
    <2> QED BY <1>2, <2>1
  <1>8. \A i \in 1 .. n : q.heap[i] # e
    <2>1. ASSUME NEW i \in 1 .. n PROVE q.heap[i] # e
      <3>1. q.heap[i] = Sentinel \/ \E y \in P : q.heap[i] = HitOf(y)
        BY DEF Keeps, n
      <3> QED BY <1>2, <1>7, <3>1
    <2> QED BY <2>1
  <1>9. \A i \in 1 .. n : r.heap[i] = Sentinel \/ \E y \in P \cup {x} : r.heap[i] = HitOf(y)
    <2>1. ASSUME NEW i \in 1 .. n
          PROVE  r.heap[i] = Sentinel \/ \E y \in P \cup {x} : r.heap[i] = HitOf(y)
      <3>1. CASE r.heap[i] = e
        BY <3>1 DEF e
      <3>2. CASE perm[i] \in 1 .. n /\ r.heap[i] = q.heap[perm[i]]
        <4>1. q.heap[perm[i]] = Sentinel \/ \E y \in P : q.heap[perm[i]] = HitOf(y)
          BY <3>2 DEF Keeps, n
        <4> QED BY <3>2, <4>1
      <3> QED BY <1>5, <1>6, <3>1, <3>2
    <2> QED BY <2>1
  <1>10. ASSUME NEW i \in 1 .. n, NEW j \in 1 .. n, r.heap[i] = r.heap[j], r.heap[i] # Sentinel
         PROVE  i = j
    <2>1. perm[i] \in 1 .. n /\ perm[j] \in 1 .. n
      BY <1>5
    <2>2. CASE perm[i] = 1 /\ perm[j] = 1
      BY <1>5, <2>2
    <2>3. CASE perm[i] # 1 /\ perm[j] # 1
      <3>1. q.heap[perm[i]] = q.heap[perm[j]] /\ q.heap[perm[i]] # Sentinel
        BY <1>6, <1>10, <2>3
      <3>2. perm[i] = perm[j]
        BY <2>1, <3>1 DEF Keeps, n
      <3> QED BY <1>5, <3>2
    <2>4. CASE perm[i] = 1 /\ perm[j] # 1
      BY <1>6, <1>8, <1>10, <2>1, <2>4
    <2>5. CASE perm[i] # 1 /\ perm[j] = 1
      BY <1>6, <1>8, <1>10, <2>1, <2>5
    <2> QED BY <2>2, <2>3, <2>4, <2>5
  <1>11. HitLess(w, e)
    <2>1. w.score \in Int
      BY <1>1 DEF w
    <2>2. w.score < e.score
      BY <1>2, <2>1 DEF w
    <2> QED BY <1>2, <2>1, <2>2 DEF HitLess
  <1>12. \A a, b, c \in Hits : /\ HitLess(a, b) /\ HitLess(b, c) => HitLess(a, c)
                               /\ HitLess(a, c) => HitLess(a, b) \/ HitLess(b, c)
    BY HitsOrdered, Zenon DEF HQ!Orders
  <1>13. w \in Hits
    BY <1>1 DEF w
  <1>14. ASSUME NEW y \in P \cup {x}, \A i \in 1 .. n : r.heap[i] # HitOf(y), NEW i \in 1 .. n
         PROVE  HitLess(HitOf(y), r.heap[i])
    <2>1. y \in P
      <3>1. PICK k \in 1 .. n : perm[k] = 1
        BY <1>1, <1>5
      <3>2. r.heap[k] = e
        BY <1>6, <3>1
      <3> QED BY <1>14, <3>2 DEF e
    <2>2. CASE \E k \in 1 .. n : q.heap[k] = HitOf(y)
      <3>1. PICK k \in 1 .. n : q.heap[k] = HitOf(y)
        BY <2>2
      <3>2. k = 1
        <4>1. SUFFICES ASSUME k # 1 PROVE FALSE
          OBVIOUS
        <4>2. PICK h \in 1 .. n : perm[h] = k
          BY <1>5
        <4> QED BY <1>6, <1>14, <3>1, <4>1, <4>2
      <3>3. w = HitOf(y)
        BY <3>1, <3>2 DEF w
      <3>4. CASE r.heap[i] = e
        BY <1>11, <3>3, <3>4, Zenon
      <3>5. CASE perm[i] # 1 /\ r.heap[i] = q.heap[perm[i]]
        <4>1. perm[i] \in 1 .. n
          BY <1>5
        <4>2. ~HitLess(q.heap[perm[i]], w) /\ q.heap[perm[i]] \in Hits
          BY <1>1, <4>1
        <4>3. q.heap[perm[i]].score \in Int /\ q.heap[perm[i]].doc \in Int /\ w.score \in Int /\ w.doc \in Int
          BY <1>1, <4>1 DEF w
        <4>4. HitLess(w, q.heap[perm[i]]) \/ (w.score = q.heap[perm[i]].score /\ w.doc = q.heap[perm[i]].doc)
          BY <4>2, <4>3 DEF HitLess
        <4>5. ~(w.score = q.heap[perm[i]].score /\ w.doc = q.heap[perm[i]].doc)
          <5>1. SUFFICES ASSUME w.score = q.heap[perm[i]].score, w.doc = q.heap[perm[i]].doc
                         PROVE  FALSE
            OBVIOUS
          <5>2. w # Sentinel /\ w.score # -1
            <6>1. HitOf(y) # Sentinel
              BY <2>1, HitsOf
            <6> QED BY <1>1, <3>3, <6>1 DEF w
          <5>3. q.heap[perm[i]] # Sentinel
            BY <1>1, <4>1, <5>1, <5>2
          <5>4. PICK z \in P : q.heap[perm[i]] = HitOf(z)
            BY <4>1, <5>3 DEF Keeps, n
          <5>5. z.score = y.score /\ z.doc = y.doc
            BY <1>7, <2>1, <3>3, <5>1, <5>4
          <5>6. z = y
            BY <2>1, <5>5 DEF Numbered
          <5>7. q.heap[perm[i]] = q.heap[1] /\ q.heap[1] # Sentinel
            BY <3>3, <5>2, <5>4, <5>6 DEF w
          <5>8. perm[i] = 1
            BY <1>1, <4>1, <5>7 DEF Keeps, n
          <5> QED BY <3>5, <5>8
        <4> QED BY <3>3, <3>5, <4>4, <4>5, Zenon
      <3> QED BY <1>6, <3>4, <3>5
    <2>3. CASE \A k \in 1 .. n : q.heap[k] # HitOf(y)
      <3>1. \A k \in 1 .. n : HitLess(HitOf(y), q.heap[k])
        BY <2>1, <2>3, Zenon DEF Keeps, n
      <3>2. CASE r.heap[i] = e
        <4>1. HitLess(HitOf(y), w)
          BY <1>1, <3>1 DEF w
        <4>2. HitLess(HitOf(y), e)
          BY <1>2, <1>7, <1>11, <1>12, <1>13, <2>1, <4>1
        <4> QED BY <3>2, <4>2, Zenon
      <3>3. CASE r.heap[i] = q.heap[perm[i]]
        <4>1. perm[i] \in 1 .. n
          BY <1>5
        <4>2. HitLess(HitOf(y), q.heap[perm[i]])
          BY <3>1, <4>1, Zenon
        <4> QED BY <3>3, <4>2, Zenon
      <3> QED BY <1>6, <3>2, <3>3
    <2> QED BY <2>2, <2>3
  <1>15. \A y \in P \cup {x} : \/ \E i \in 1 .. n : r.heap[i] = HitOf(y)
                               \/ \A i \in 1 .. n : HitLess(HitOf(y), r.heap[i])
    BY <1>14, Zenon
  <1>16. Keeps(r, P \cup {x})
    BY <1>1, <1>3, <1>9, <1>10, <1>15 DEF Keeps, n
  <1>17. \A i \in 1 .. n : w.score <= r.heap[i].score
    <2>1. w.score \in Int /\ e.score \in Int /\ w.score < e.score
      BY <1>1, <1>2 DEF w
    <2>2. ASSUME NEW i \in 1 .. n PROVE w.score <= r.heap[i].score
      <3>1. CASE r.heap[i] = e
        BY <2>1, <3>1
      <3>2. CASE r.heap[i] = q.heap[perm[i]]
        <4>1. perm[i] \in 1 .. n
          BY <1>5
        <4> QED BY <1>1, <3>2, <4>1
      <3> QED BY <1>6, <3>1, <3>2
    <2> QED BY <2>2
  <1>18. ASSUME \A i \in 1 .. n : q.heap[i] # Sentinel, NEW i \in 1 .. n PROVE r.heap[i] # Sentinel
    <2>1. perm[i] \in 1 .. n
      BY <1>5
    <2> QED BY <1>2, <1>6, <1>18, <2>1
  <1> QED BY <1>3, <1>16, <1>17, <1>18 DEF n, w

-----------------------------------------------------------------------------
(* Reading the heap off, from the worst hit to the best.                      *)

Pops(q, k, f) == f = [i \in 0 .. k |-> IF i = 0 THEN q ELSE HitQueue!Popped(f[i - 1])]

LEMMA PopsAgree ==
    ASSUME NEW q, NEW k \in Nat, NEW f, Pops(q, k, f), NEW m \in Nat, m <= k, NEW g, Pops(q, m, g)
    PROVE  \A i \in 0 .. m : f[i] = g[i]
  <1>. DEFINE Bad == {i \in 0 .. m : f[i] # g[i]}
  <1>1. ASSUME NEW i \in 0 .. m
        PROVE  /\ f[i] = IF i = 0 THEN q ELSE HitQueue!Popped(f[i - 1])
               /\ g[i] = IF i = 0 THEN q ELSE HitQueue!Popped(g[i - 1])
    <2>1. i \in 0 .. k
      OBVIOUS
    <2> QED BY <2>1 DEF Pops
  <1>2. ASSUME NEW i \in Bad, \A j \in Bad : i <= j PROVE FALSE
    <2>1. i # 0
      BY <1>1
    <2>2. i - 1 \in 0 .. m /\ ~(i <= i - 1)
      BY <2>1
    <2>3. f[i - 1] = g[i - 1]
      BY <1>2, <2>2
    <2> QED BY <1>1, <2>1, <2>3
  <1>3. Bad = {}
    <2>1. Bad \subseteq Nat
      OBVIOUS
    <2>. HIDE DEF Bad
    <2> QED BY <1>2, <2>1, LeastNat
  <1> QED BY <1>3

LEMMA PopsExist ==
    ASSUME NEW q, NEW n \in Nat
    PROVE  \E f : Pops(q, n, f)
  <1>. DEFINE Bad == {k \in Nat : ~\E f : Pops(q, k, f)}
  <1>1. ASSUME NEW k \in Bad, \A j \in Bad : k <= j PROVE FALSE
    <2>1. CASE k = 0
      <3>. DEFINE f == [i \in 0 .. 0 |-> q]
      <3>1. Pops(q, 0, f)
        BY DEF Pops
      <3> QED BY <2>1, <3>1
    <2>2. CASE k # 0
      <3>1. k \in Nat /\ k - 1 \in Nat /\ ~(k <= k - 1)
        BY <2>2
      <3>2. PICK f : Pops(q, k - 1, f)
        BY <1>1, <3>1
      <3>. DEFINE g == [i \in 0 .. k |-> IF i = k THEN HitQueue!Popped(f[k - 1]) ELSE f[i]]
      <3>3. ASSUME NEW i \in 0 .. k
            PROVE  g[i] = IF i = 0 THEN q ELSE HitQueue!Popped(g[i - 1])
        <4>1. CASE i = k
          <5>1. g[i - 1] = f[k - 1] /\ g[i] = HitQueue!Popped(f[k - 1]) /\ i # 0
            BY <2>2, <3>1, <4>1
          <5> QED BY <5>1
        <4>2. CASE i # k
          <5>1. i \in 0 .. (k - 1) /\ (i # 0 => i - 1 \in 0 .. k /\ i - 1 # k)
            BY <3>1, <4>2
          <5>2. g[i] = f[i] /\ (i # 0 => g[i - 1] = f[i - 1])
            BY <4>2, <5>1
          <5>3. f[i] = IF i = 0 THEN q ELSE HitQueue!Popped(f[i - 1])
            BY <3>2, <5>1 DEF Pops
          <5>4. CASE i = 0
            BY <5>2, <5>3, <5>4
          <5>5. CASE i # 0
            BY <5>2, <5>3, <5>5
          <5> QED BY <5>4, <5>5
        <4> QED BY <4>1, <4>2
      <3>4. g = [i \in 0 .. k |-> g[i]]
        OBVIOUS
      <3>. HIDE DEF g
      <3>5. Pops(q, k, g)
        BY <3>3, <3>4 DEF Pops
      <3> QED BY <3>5
    <2> QED BY <2>1, <2>2
  <1>2. Bad = {}
    <2>1. Bad \subseteq Nat
      OBVIOUS
    <2>. HIDE DEF Bad
    <2> QED BY <1>1, <2>1, LeastNat
  <1> QED BY <1>2

LEMMA UnwoundPops ==
    ASSUME NEW q, NEW n \in Nat
    PROVE  \E f : Pops(q, n, f) /\ \A i \in 0 .. n : f[i] = Unwound(q, i)
  <1>1. ASSUME NEW k \in Nat
        PROVE  \E f : Pops(q, k, f) /\ Unwound(q, k) = f[k]
    <2>1. \E f : Pops(q, k, f)
      BY PopsExist
    <2>2. Unwound(q, k) = (CHOOSE f : Pops(q, k, f))[k]
      BY DEF Unwound, Pops
    <2> QED BY <2>1, <2>2, Zenon
  <1>2. PICK f : Pops(q, n, f)
    BY PopsExist
  <1>3. ASSUME NEW i \in 0 .. n PROVE f[i] = Unwound(q, i)
    <2>1. i \in Nat /\ i <= n /\ i \in 0 .. i
      OBVIOUS
    <2>2. PICK g : Pops(q, i, g) /\ Unwound(q, i) = g[i]
      BY <1>1, <2>1
    <2> QED BY <1>2, <2>1, <2>2, PopsAgree
  <1> QED BY <1>2, <1>3

LEMMA UnwoundSteps ==
    ASSUME NEW q
    PROVE  /\ Unwound(q, 0) = q
           /\ \A n \in Nat : Unwound(q, n + 1) = HitQueue!Popped(Unwound(q, n))
  <1>1. Unwound(q, 0) = q
    <2>1. PICK f : Pops(q, 0, f) /\ \A i \in 0 .. 0 : f[i] = Unwound(q, i)
      BY UnwoundPops
    <2> QED BY <2>1 DEF Pops
  <1>2. ASSUME NEW n \in Nat PROVE Unwound(q, n + 1) = HitQueue!Popped(Unwound(q, n))
    <2>1. PICK f : Pops(q, n + 1, f) /\ \A i \in 0 .. (n + 1) : f[i] = Unwound(q, i)
      BY UnwoundPops
    <2>2. n + 1 \in 0 .. (n + 1) /\ n \in 0 .. (n + 1) /\ n + 1 - 1 = n /\ n + 1 # 0
      OBVIOUS
    <2>3. f[n + 1] = HitQueue!Popped(f[n + 1 - 1])
      BY <2>1, <2>2 DEF Pops
    <2> QED BY <2>1, <2>2, <2>3
  <1> QED BY <1>1, <1>2

LEMMA UnwoundTwice ==
    ASSUME NEW q, NEW a \in Nat, NEW b \in Nat
    PROVE  Unwound(Unwound(q, a), b) = Unwound(q, a + b)
  <1>. DEFINE Bad == {k \in Nat : Unwound(Unwound(q, a), k) # Unwound(q, a + k)}
  <1>1. ASSUME NEW k \in Bad, \A j \in Bad : k <= j PROVE FALSE
    <2>1. k # 0
      BY UnwoundSteps
    <2>2. k - 1 \in Nat /\ ~(k <= k - 1) /\ k - 1 + 1 = k /\ a + (k - 1) \in Nat /\ a + (k - 1) + 1 = a + k
      BY <2>1
    <2>3. Unwound(Unwound(q, a), k - 1) = Unwound(q, a + (k - 1))
      BY <1>1, <2>2
    <2>4. /\ Unwound(Unwound(q, a), k - 1 + 1) = HitQueue!Popped(Unwound(Unwound(q, a), k - 1))
          /\ Unwound(q, a + (k - 1) + 1) = HitQueue!Popped(Unwound(q, a + (k - 1)))
      BY <2>2, UnwoundSteps
    <2>5. Unwound(Unwound(q, a), k) = Unwound(q, a + k)
      BY <2>2, <2>3, <2>4
    <2> QED BY <2>5
  <1>2. Bad = {}
    <2>1. Bad \subseteq Nat
      OBVIOUS
    <2>. HIDE DEF Bad
    <2> QED BY <1>1, <2>1, LeastNat
  <1> QED BY <1>2

BR == INSTANCE HeapProofs WITH LessThan <- Better, None <- Sentinel

(* Matches of different numbers have one ranking. *)
LEMMA BestRanking ==
    ASSUME NEW P, IsFiniteSet(P), Numbered(P), \A x, y \in P : x.doc = y.doc => x = y
    PROVE  /\ Cardinality(P) \in Nat
           /\ BR!Orders(P) /\ RankedBy(P, Better) = BR!Ranking(P)
           /\ BR!LeastFirst(RankedBy(P, Better), Cardinality(P), P)
           /\ \A x \in P : \E i \in 1 .. Cardinality(P) : RankedBy(P, Better)[i] = x
           /\ \A x, y \in P : ~Better(x, y) /\ ~Better(y, x) => x = y
  <1>1. \A x \in P : x.doc \in Nat /\ x.score \in Nat
    BY DEF Numbered
  <1>2. ASSUME NEW a \in P, NEW b \in P, NEW c \in P
        PROVE  /\ ~Better(a, a)
               /\ Better(a, b) /\ Better(b, c) => Better(a, c)
               /\ Better(a, c) => Better(a, b) \/ Better(b, c)
    <2>1. /\ a.score \in Int /\ b.score \in Int /\ c.score \in Int
          /\ a.doc \in Int /\ b.doc \in Int /\ c.doc \in Int
      BY <1>1
    <2> QED BY <2>1 DEF Better, HitLess
  <1>3. ASSUME NEW a \in P, NEW b \in P PROVE a = b \/ Better(a, b) \/ Better(b, a)
    <2>1. a.score \in Int /\ b.score \in Int /\ a.doc \in Int /\ b.doc \in Int
      BY <1>1
    <2>2. a.doc = b.doc => a = b
      OBVIOUS
    <2> QED BY <2>1, <2>2 DEF Better, HitLess
  <1>4. BR!Orders(P)
    BY <1>2, Zenon DEF BR!Orders
  <1>5. BR!Separates(P)
    BY <1>3, Zenon DEF BR!Separates
  <1>0. \A S : BR!Cardinality(S) = Cardinality(S) /\ (BR!IsFiniteSet(S) <=> IsFiniteSet(S))
    BY Zenon DEF Cardinality, IsFiniteSet, BR!Cardinality, BR!IsFiniteSet
  <1>6. RankedBy(P, Better) = BR!Ranking(P)
    <2>1. \A x : BR!Before(P, x) = {y \in P : Better(y, x)}
      BY DEF BR!Before
    <2>2. \A x : BR!Cardinality(BR!Before(P, x)) = Cardinality({y \in P : Better(y, x)})
      BY <1>0, <2>1
    <2>3. BR!Cardinality(P) = Cardinality(P)
      BY <1>0
    <2> QED BY <2>2, <2>3 DEF RankedBy, BR!Ranking
  <1>7. /\ Cardinality(P) \in Nat
        /\ BR!LeastFirst(BR!Ranking(P), Cardinality(P), P)
        /\ \A x \in P : \E i \in 1 .. Cardinality(P) : BR!Ranking(P)[i] = x
    <2>1. BR!IsFiniteSet(P) /\ BR!Cardinality(P) = Cardinality(P)
      BY <1>0
    <2>2. /\ BR!Cardinality(P) \in Nat
          /\ BR!LeastFirst(BR!Ranking(P), BR!Cardinality(P), P)
          /\ \A x \in P : \E i \in 1 .. BR!Cardinality(P) : BR!Ranking(P)[i] = x
      BY <1>4, <1>5, <2>1, BR!RankingIsLeastFirst
    <2> QED BY <2>1, <2>2
  <1> QED BY <1>3, <1>4, <1>6, <1>7

(* What is read off a heap q, best first: the i-th is on top after q.size - i pops. *)
ReadOff(q) == [i \in 1 .. q.size |-> HitQueue!Top(Unwound(q, q.size - i))]

LEMMA ReadOffInOrder ==
    ASSUME NEW q, NEW P, Numbered(P), Keeps(q, P), NEW b, b = ReadOff(q)
    PROVE  /\ \A i \in 1 .. q.size : \E k \in 1 .. q.size : b[i] = q.heap[k]
           /\ \A k \in 1 .. q.size : \E i \in 1 .. q.size : b[i] = q.heap[k]
           /\ \A i, j \in 1 .. q.size : i <= j => ~HitLess(b[i], b[j])
           /\ \A i, j \in 1 .. q.size : b[i] = b[j] /\ b[i] # Sentinel => i = j
  <1>. DEFINE n == q.size
              u == [i \in 0 .. n |-> Unwound(q, i)]
  <1>1. n \in Nat /\ HQ!HoldsOnly(q, Hits) /\ HQ!IsQueue(q) /\ HQ!HeapOrdered(q)
    BY KeptHits DEF Keeps
  <1>2. u[0] = q /\ \A i \in 1 .. n : u[i] = HQ!Popped(u[i - 1])
    <2>1. 0 \in 0 .. n /\ u[0] = q
      BY <1>1, UnwoundSteps
    <2>2. ASSUME NEW i \in 1 .. n PROVE u[i] = HQ!Popped(u[i - 1])
      <3>1. PICK j \in Nat : j = i - 1 /\ j + 1 = i /\ j \in 0 .. n /\ i \in 0 .. n
        BY <1>1
      <3>2. Unwound(q, j + 1) = HitQueue!Popped(Unwound(q, j))
        BY UnwoundSteps
      <3>3. u[i] = Unwound(q, i) /\ u[j] = Unwound(q, j)
        BY <3>1
      <3>4. HitQueue!Popped(u[j]) = HQ!Popped(u[j])
        BY SameQueue
      <3>. HIDE DEF u
      <3> QED BY <3>1, <3>2, <3>3, <3>4
    <2> QED BY <2>1, <2>2
  <1>. HIDE DEF u
  <1>3. \E ix : /\ HQ!Permutes(ix, n)
                /\ \A j \in 1 .. n : HQ!Top(u[j - 1]) = q.heap[ix[j]]
                /\ \A j, k \in 1 .. n : j <= k => ~HitLess(q.heap[ix[k]], q.heap[ix[j]])
    BY <1>1, <1>2, HitsOrdered, HQ!PopsInOrder
  <1>4. PICK ix : /\ HQ!Permutes(ix, n)
                  /\ \A j \in 1 .. n : HQ!Top(u[j - 1]) = q.heap[ix[j]]
                  /\ \A j, k \in 1 .. n : j <= k => ~HitLess(q.heap[ix[k]], q.heap[ix[j]])
    BY <1>3
  <1>5. /\ ix \in [1 .. n -> 1 .. n]
        /\ \A i, j \in 1 .. n : ix[i] = ix[j] => i = j
        /\ \A k \in 1 .. n : \E i \in 1 .. n : ix[i] = k
    <2>1. HQ!Permutes(ix, n)
      BY <1>4
    <2>. HIDE DEF n
    <2> QED BY <2>1, PermutesIs
  <1>6. ASSUME NEW i \in 1 .. n
        PROVE  \E j \in 1 .. n : j = n + 1 - i /\ b[i] = q.heap[ix[j]]
    <2>1. PICK j \in 1 .. n : j = n + 1 - i
      BY <1>1
    <2>2. j - 1 = n - i /\ n - i \in 0 .. n
      BY <1>1, <2>1
    <2>3. b[i] = HitQueue!Top(u[n - i])
      BY <2>2 DEF ReadOff, u
    <2>4. HitQueue!Top(u[n - i]) = HQ!Top(u[n - i])
      BY SameQueue
    <2>5. HQ!Top(u[j - 1]) = q.heap[ix[j]]
      BY <1>4
    <2>6. b[i] = q.heap[ix[j]]
      BY <2>2, <2>3, <2>4, <2>5
    <2> QED BY <2>1, <2>6
  <1>. HIDE DEF n
  <1>7. \A i \in 1 .. n : \E k \in 1 .. n : b[i] = q.heap[k]
    BY <1>5, <1>6
  <1>8. ASSUME NEW k \in 1 .. n PROVE \E i \in 1 .. n : b[i] = q.heap[k]
    <2>1. PICK j \in 1 .. n : ix[j] = k
      BY <1>5
    <2>2. PICK i \in 1 .. n : i = n + 1 - j
      BY <1>1
    <2>3. PICK h \in 1 .. n : h = n + 1 - i /\ b[i] = q.heap[ix[h]]
      BY <1>6
    <2>4. h = j
      BY <1>1, <2>2, <2>3
    <2> QED BY <2>1, <2>3, <2>4
  <1>9. ASSUME NEW i \in 1 .. n, NEW j \in 1 .. n, i <= j PROVE ~HitLess(b[i], b[j])
    <2>1. PICK h \in 1 .. n : h = n + 1 - i /\ b[i] = q.heap[ix[h]]
      BY <1>6
    <2>2. PICK k \in 1 .. n : k = n + 1 - j /\ b[j] = q.heap[ix[k]]
      BY <1>6
    <2>3. k <= h
      BY <1>1, <1>9, <2>1, <2>2
    <2>4. ~HitLess(q.heap[ix[h]], q.heap[ix[k]])
      BY <1>4, <2>3
    <2> QED BY <2>1, <2>2, <2>4, Zenon
  <1>10. ASSUME NEW i \in 1 .. n, NEW j \in 1 .. n, b[i] = b[j], b[i] # Sentinel PROVE i = j
    <2>1. PICK h \in 1 .. n : h = n + 1 - i /\ b[i] = q.heap[ix[h]]
      BY <1>6
    <2>2. PICK k \in 1 .. n : k = n + 1 - j /\ b[j] = q.heap[ix[k]]
      BY <1>6
    <2>3. ix[h] \in 1 .. n /\ ix[k] \in 1 .. n /\ q.heap[ix[h]] = q.heap[ix[k]] /\ q.heap[ix[h]] # Sentinel
      BY <1>5, <1>10, <2>1, <2>2
    <2>4. ix[h] = ix[k]
      BY <2>3 DEF Keeps, n
    <2>5. h = k
      BY <1>5, <2>4
    <2> QED BY <1>1, <2>1, <2>2, <2>5
  <1> QED BY <1>7, <1>8, <1>9, <1>10 DEF n

(* What is read off is the beginning of the ranking of the matches given. *)
LEMMA ReadOffIsBest ==
    ASSUME NEW P, IsFiniteSet(P), Numbered(P), \A x, y \in P : x.doc = y.doc => x = y,
           NEW q, Keeps(q, P),
           NEW m \in Nat, m <= q.size, m <= Cardinality(P), m = q.size \/ m = Cardinality(P),
           NEW i \in 1 .. m
    PROVE  /\ RankedBy(P, Better)[i] \in P
           /\ ReadOff(q)[i] = HitOf(RankedBy(P, Better)[i])
  <1>. DEFINE n == q.size
              c == Cardinality(P)
              b == ReadOff(q)
              s == RankedBy(P, Better)
  <1>1. /\ n \in Nat /\ c \in Nat /\ \A j \in 1 .. m : j \in 1 .. n /\ j \in 1 .. c
    BY KeptHits, FS_CardinalityType
  <1>2. /\ \A j \in 1 .. n : \E k \in 1 .. n : b[j] = q.heap[k]
        /\ \A k \in 1 .. n : \E j \in 1 .. n : b[j] = q.heap[k]
        /\ \A j, k \in 1 .. n : j <= k => ~HitLess(b[j], b[k])
        /\ \A j, k \in 1 .. n : b[j] = b[k] /\ b[j] # Sentinel => j = k
    BY ReadOffInOrder
  <1>. HIDE DEF b, n, c, s
  <1>3. \A x \in P : HitOf(x) \in Hits /\ HitOf(x) # Sentinel /\ HitOf(x).score \in Nat
                     /\ HitOf(x).score = x.score /\ HitOf(x).doc = x.doc /\ HitOf(x).doc \in Nat
                     /\ \A y \in P : HitOf(y) = HitOf(x) => y = x
    BY HitsOf
  <1>4. \A j \in 1 .. n : /\ b[j] \in Hits /\ b[j].score \in Nat \cup {-1} /\ b[j].doc \in Nat
                          /\ b[j].score = -1 <=> b[j] = Sentinel
                          /\ b[j] # Sentinel => \E x \in P : b[j] = HitOf(x)
    <2>1. ASSUME NEW k \in 1 .. n
          PROVE /\ q.heap[k] \in Hits /\ q.heap[k].score \in Nat \cup {-1} /\ q.heap[k].doc \in Nat
                /\ q.heap[k].score = -1 <=> q.heap[k] = Sentinel
                /\ q.heap[k] # Sentinel => \E x \in P : q.heap[k] = HitOf(x)
      BY KeptHits DEF Keeps, n
    <2>2. ASSUME NEW j \in 1 .. n
          PROVE /\ b[j] \in Hits /\ b[j].score \in Nat \cup {-1} /\ b[j].doc \in Nat
                /\ b[j].score = -1 <=> b[j] = Sentinel
                /\ b[j] # Sentinel => \E x \in P : b[j] = HitOf(x)
      <3>1. PICK k \in 1 .. n : b[j] = q.heap[k]
        BY <1>2
      <3> QED BY <2>1, <3>1, Zenon
    <2> QED BY <2>2
  <1>5. \A x \in P : \/ \E j \in 1 .. n : b[j] = HitOf(x)
                     \/ \A j \in 1 .. n : HitLess(HitOf(x), b[j])
    <2>1. ASSUME NEW x \in P
          PROVE  \/ \E j \in 1 .. n : b[j] = HitOf(x)
                 \/ \A j \in 1 .. n : HitLess(HitOf(x), b[j])
      <3>1. CASE \E k \in 1 .. n : q.heap[k] = HitOf(x)
        BY <1>2, <3>1
      <3>2. CASE \A k \in 1 .. n : HitLess(HitOf(x), q.heap[k])
        <4>1. ASSUME NEW j \in 1 .. n PROVE HitLess(HitOf(x), b[j])
          <5>1. PICK k \in 1 .. n : b[j] = q.heap[k]
            BY <1>2
          <5>2. HitLess(HitOf(x), q.heap[k])
            BY <3>2
          <5> QED BY <5>1, <5>2, Zenon
        <4> QED BY <4>1
      <3> QED BY <3>1, <3>2, Zenon DEF Keeps, n
    <2> QED BY <2>1
  <1>6. ASSUME NEW h \in 1 .. m, b[h] = Sentinel PROVE FALSE
    <2>0. h \in 1 .. n
      BY <1>1
    <2>1. ASSUME NEW x \in P PROVE \E j \in 1 .. (h - 1) : b[j] = HitOf(x)
      <3>1. ~HitLess(HitOf(x), b[h])
        <4>1. b[h].score = -1 /\ HitOf(x).score \in Nat
          BY <1>3, <1>4, <1>6, <2>0
        <4> QED BY <4>1 DEF HitLess
      <3>2. PICK j \in 1 .. n : b[j] = HitOf(x)
        BY <1>5, <2>0, <3>1
      <3>3. ~(h <= j)
        <4>1. SUFFICES ASSUME h <= j PROVE FALSE
          OBVIOUS
        <4>2. ~HitLess(b[h], b[j])
          BY <1>2, <2>0, <4>1
        <4>3. b[h].score = -1 /\ b[j].score \in Nat
          BY <1>3, <1>4, <1>6, <2>0, <3>2
        <4> QED BY <4>2, <4>3 DEF HitLess
      <3>4. j \in 1 .. (h - 1)
        BY <3>3
      <3> QED BY <3>2, <3>4
    <2>. DEFINE T == 1 .. (h - 1)
                f == [x \in P |-> CHOOSE j \in T : b[j] = HitOf(x)]
    <2>2. \A x \in P : f[x] \in T /\ b[f[x]] = HitOf(x)
      BY <2>1
    <2>3. f \in [P -> T]
      BY <2>2
    <2>4. \A x, y \in P : f[x] = f[y] => x = y
      <3>. HIDE DEF f, T
      <3> QED BY <1>3, <2>2
    <2>5. f \in Injection(P, T)
      <3>. HIDE DEF f, T
      <3> QED BY <2>3, <2>4 DEF Injection, IsInjective
    <2>6. h - 1 \in Nat /\ IsFiniteSet(T) /\ Cardinality(T) = h - 1
      <3>1. h - 1 \in Nat
        OBVIOUS
      <3>2. IsFiniteSet(1 .. (h - 1)) /\ Cardinality(1 .. (h - 1)) = IF 1 > h - 1 THEN 0 ELSE h - 1 - 1 + 1
        <4>1. 1 \in Int /\ h - 1 \in Int
          OBVIOUS
        <4> QED BY <4>1, FS_Interval, Zenon
      <3> QED BY <3>1, <3>2
    <2>7. c <= h - 1
      <3>. HIDE DEF f, T
      <3> QED BY <2>5, <2>6, FS_Injection DEF c
    <2> QED BY <1>1, <2>6, <2>7 DEF c
  <1>. DEFINE t == [j \in 1 .. m |-> CHOOSE x \in P : b[j] = HitOf(x)]
  <1>7. ASSUME NEW j \in 1 .. m PROVE t[j] \in P /\ b[j] = HitOf(t[j]) /\ j \in 1 .. n
    <2>1. j \in 1 .. n /\ \E x \in P : b[j] = HitOf(x)
      BY <1>1, <1>4, <1>6
    <2> QED BY <2>1
  <1>8. BR!LeastFirst(t, m, P)
    <2>1. t \in [1 .. m -> P]
      BY <1>7
    <2>. HIDE DEF t
    <2>2. \A j, k \in 1 .. m : t[j] = t[k] => j = k
      <3>1. ASSUME NEW j \in 1 .. m, NEW k \in 1 .. m, t[j] = t[k] PROVE j = k
        <4>1. b[j] = b[k] /\ b[j] # Sentinel
          BY <1>3, <1>7, <3>1
        <4> QED BY <1>2, <1>7, <4>1
      <3> QED BY <3>1
    <2>3. ASSUME NEW j \in 1 .. m, NEW x \in P, \A h \in 1 .. (j - 1) : t[h] # x
          PROVE  ~Better(x, t[j])
      <3>1. ~HitLess(b[j], HitOf(x))
        <4>1. CASE \E k \in 1 .. n : b[k] = HitOf(x)
          <5>1. PICK k \in 1 .. n : b[k] = HitOf(x)
            BY <4>1
          <5>2. ~(k < j)
            <6>1. SUFFICES ASSUME k < j PROVE FALSE
              OBVIOUS
            <6>2. k \in 1 .. (j - 1) /\ k \in 1 .. m
              BY <6>1
            <6>3. t[k] = x
              BY <1>3, <1>7, <5>1, <6>2
            <6> QED BY <2>3, <6>2, <6>3
          <5>3. j <= k
            BY <1>1, <5>2
          <5>4. ~HitLess(b[j], b[k])
            BY <1>2, <1>7, <5>3
          <5> QED BY <5>1, <5>4, Zenon
        <4>2. CASE \A k \in 1 .. n : HitLess(HitOf(x), b[k])
          <5>1. HitLess(HitOf(x), b[j])
            BY <1>7, <4>2
          <5>2. b[j] \in Hits /\ HitOf(x) \in Hits
            BY <1>3, <1>4, <1>7
          <5> QED BY <5>1, <5>2, HitsOrdered, Zenon DEF HQ!Orders
        <4> QED BY <1>5, <4>1, <4>2
      <3>2. /\ b[j].score = t[j].score /\ b[j].doc = t[j].doc
            /\ HitOf(x).score = x.score /\ HitOf(x).doc = x.doc
        BY <1>3, <1>7
      <3> QED BY <3>1, <3>2 DEF Better, HitLess
    <2> QED BY <2>1, <2>2, <2>3, Zenon DEF BR!LeastFirst
  <1>9. /\ BR!Orders(P) /\ BR!LeastFirst(s, c, P)
        /\ \A x, y \in P : ~Better(x, y) /\ ~Better(y, x) => x = y
    BY BestRanking DEF s, c
  <1>. DEFINE r == [j \in 1 .. m |-> s[j]]
  <1>10. BR!LeastFirst(r, m, P)
    <2>1. m \in 0 .. c
      BY <1>1 DEF c
    <2> QED BY <1>1, <1>9, <2>1, BR!RankingsCut
  <1>. HIDE DEF r, t
  <1>11. ~Better(r[i], t[i]) /\ ~Better(t[i], r[i])
    <2>1. P \subseteq P
      OBVIOUS
    <2>2. ~Better(r[i], t[i])
      BY <1>8, <1>9, <1>10, <2>1, BR!RankingsAgree
    <2>3. ~Better(t[i], r[i])
      BY <1>8, <1>9, <1>10, <2>1, BR!RankingsAgree
    <2> QED BY <2>2, <2>3
  <1>12. r[i] \in P /\ r[i] = s[i]
    <2>1. r[i] \in P
      BY <1>10 DEF BR!LeastFirst
    <2> QED BY <2>1 DEF r
  <1>13. r[i] = t[i]
    BY <1>7, <1>9, <1>11, <1>12
  <1> QED BY <1>7, <1>12, <1>13 DEF b, s

-----------------------------------------------------------------------------
(* The collector while a reader is searched.                                  *)

LEMMA TwoNumbers ==
    ASSUME NEW a \in Int, NEW b \in Int
    PROVE  /\ Min({a, b}) = IF a <= b THEN a ELSE b
           /\ Max({a, b}) = IF a >= b THEN a ELSE b
  <1>. DEFINE m == IF a <= b THEN a ELSE b
              M == IF a >= b THEN a ELSE b
  <1>1. m \in {a, b} /\ \A y \in {a, b} : m <= y
    OBVIOUS
  <1>2. \A x \in {a, b} : (\A y \in {a, b} : x <= y) => x = m
    OBVIOUS
  <1>3. M \in {a, b} /\ \A y \in {a, b} : M >= y
    OBVIOUS
  <1>4. \A x \in {a, b} : (\A y \in {a, b} : x >= y) => x = M
    OBVIOUS
  <1>. HIDE DEF m, M
  <1>5. Min({a, b}) = m
    BY <1>1, <1>2, Zenon DEF Min
  <1>6. Max({a, b}) = M
    BY <1>3, <1>4, Zenon DEF Max
  <1> QED BY <1>5, <1>6 DEF m, M

LEMMA BelowIs ==
    ASSUME NEW r, IsReader(r), NEW b
    PROVE  /\ Numbered(Below(r, b)) /\ IsFiniteSet(Below(r, b)) /\ Cardinality(Below(r, b)) \in Nat
           /\ \A x, y \in Below(r, b) : x.doc = y.doc => x = y
           /\ Below(r, b) \subseteq Matches(r)
  <1>1. Below(r, b) \subseteq Matches(r)
    BY DEF Below
  <1>2. IsFiniteSet(Matches(r))
    BY MatchesAreNumbered
  <1>3. IsFiniteSet(Below(r, b)) /\ Cardinality(Below(r, b)) \in Nat
    BY <1>1, <1>2, FS_Subset, FS_CardinalityType
  <1>4. \A x, y \in Below(r, b) : x.doc = y.doc => x = y
    BY <1>1, MatchesAreNumbered
  <1>5. Numbered(Below(r, b))
    BY <1>1, MatchesAreNumbered DEF Numbered
  <1> QED BY <1>1, <1>3, <1>4, <1>5

LEMMA ThresholdGrows ==
    ASSUME wanted \in Nat, NEW h \in Nat
    PROVE  IsThresholdReached(h) <=> h > TotalHitsThreshold /\ h > wanted
  <1>1. TotalHitsThreshold \in Nat
    BY SearchAssumption
  <1>2. Max({TotalHitsThreshold, wanted}) = IF TotalHitsThreshold >= wanted THEN TotalHitsThreshold ELSE wanted
    BY <1>1, TwoNumbers
  <1> QED BY <1>1, <1>2 DEF IsThresholdReached

CapFor(r) == Min({wanted, Max({1, MaxDoc(r)})})

LEMMA CapIs ==
    ASSUME wanted \in Nat, NEW r, IsReader(r)
    PROVE  /\ CapFor(r) \in Nat /\ CapFor(r) <= wanted
           /\ \A c \in Nat : c <= MaxDoc(r) => /\ c <= CapFor(r) <=> c <= wanted
                                               /\ CapFor(r) <= c => CapFor(r) = wanted \/ c = CapFor(r)
  <1>1. MaxDoc(r) \in Nat
    BY Bases
  <1>2. Max({1, MaxDoc(r)}) = IF 1 >= MaxDoc(r) THEN 1 ELSE MaxDoc(r)
    <2>1. 1 \in Int /\ MaxDoc(r) \in Int
      BY <1>1
    <2> QED BY <2>1, TwoNumbers, Zenon
  <1>3. CapFor(r) = IF wanted <= Max({1, MaxDoc(r)}) THEN wanted ELSE Max({1, MaxDoc(r)})
    BY <1>1, <1>2, TwoNumbers DEF CapFor
  <1> QED BY <1>1, <1>2, <1>3

(* The collector has been given the matches of r with a number below b.       *)
Collected(r, b, q, hits, relation) ==
    /\ Keeps(q, Below(r, b)) /\ q.size = CapFor(r) /\ hits \in Nat
    /\ \/ relation = "EQUAL_TO" /\ hits = Cardinality(Below(r, b))
       \/ /\ relation = "GREATER_THAN_OR_EQUAL_TO"
          /\ IsThresholdReached(hits) /\ hits <= Cardinality(Below(r, b))

(* A scorer may leave out what is worse than all that is kept, and nothing     *)
(* while the count is exact.                                                   *)
Told(q, relation, min) ==
    /\ min \in Nat
    /\ min = 0 \/ \A i \in 1 .. q.size : min <= q.heap[i].score
    /\ relation = "EQUAL_TO" => min = 0

LEMMA LeavingOut ==
    ASSUME NEW r, IsReader(r), NEW l \in DOMAIN r, NEW b \in 0 .. Len(r[l]), NEW a \in 0 .. b,
           NEW q, NEW hits, NEW relation, NEW min,
           Collected(r, DocBase(r, l) + a, q, hits, relation), Told(q, relation, min),
           \A d \in a + 1 .. b :
                d \in DOMAIN r[l] /\ r[l][d].live /\ r[l][d].score # NoMatch => r[l][d].score < min
    PROVE  Collected(r, DocBase(r, l) + b, q, hits, relation)
  <1>. DEFINE P == Below(r, DocBase(r, l) + a)
              Q == Below(r, DocBase(r, l) + b)
  <1>1. \A x : x \in Q <=> \/ x \in P
                           \/ \E d \in a + 1 .. b :
                                /\ d \in DOMAIN r[l] /\ r[l][d].live /\ r[l][d].score # NoMatch
                                /\ x = Found(r, l, d)
    BY BelowGrows
  <1>2. /\ Numbered(Q) /\ IsFiniteSet(Q) /\ Cardinality(Q) \in Nat
        /\ Numbered(P) /\ IsFiniteSet(P) /\ Cardinality(P) \in Nat
    BY BelowIs
  <1>. HIDE DEF P, Q
  <1>3. P \subseteq Q
    BY <1>1
  <1>4. Cardinality(P) <= Cardinality(Q)
    BY <1>2, <1>3, FS_Subset
  <1>5. ASSUME NEW x \in Q, x \notin P
        PROVE  x.score \in Nat /\ x.score < min
    <2>1. PICK d \in a + 1 .. b : /\ d \in DOMAIN r[l] /\ r[l][d].live /\ r[l][d].score # NoMatch
                                  /\ x = Found(r, l, d)
      BY <1>1, <1>5
    <2>2. x.score = r[l][d].score
      BY <2>1, FoundIn
    <2> QED BY <1>2, <2>1, <2>2 DEF Numbered
  <1>6. Keeps(q, P) /\ q.size = CapFor(r) /\ hits \in Nat
    BY DEF Collected, P
  <1>7. Keeps(q, Q)
    <2>1. ASSUME NEW x \in Q, x \notin P, NEW i \in 1 .. q.size PROVE HitLess(HitOf(x), q.heap[i])
      <3>1. HitOf(x).score = x.score /\ x.score \in Nat
        BY <1>2, HitsOf
      <3>2. min <= q.heap[i].score /\ min \in Nat
        BY <1>5, <2>1 DEF Told
      <3>3. q.heap[i].score \in Int
        BY <1>2, <1>6, KeptHits
      <3>4. x.score < q.heap[i].score
        BY <1>5, <2>1, <3>1, <3>2, <3>3
      <3> QED BY <3>1, <3>3, <3>4 DEF HitLess
    <2>2. \A x \in Q : x \in P \/ \A i \in 1 .. q.size : HitLess(HitOf(x), q.heap[i])
      BY <2>1, Zenon
    <2> QED BY <1>3, <1>6, <2>2, KeepsLeavingOut
  <1>8. CASE relation = "EQUAL_TO"
    <2>1. min = 0
      BY <1>8 DEF Told
    <2>2. P = Q
      BY <1>3, <1>5, <2>1
    <2>3. hits = Cardinality(Q)
      BY <1>8, <2>2 DEF Collected, P
    <2> QED BY <1>6, <1>7, <1>8, <2>3 DEF Collected, Q
  <1>9. CASE relation # "EQUAL_TO"
    <2>1. /\ relation = "GREATER_THAN_OR_EQUAL_TO"
          /\ IsThresholdReached(hits) /\ hits <= Cardinality(P)
      BY <1>9 DEF Collected, P
    <2>2. hits <= Cardinality(Q)
      BY <1>2, <1>4, <1>6, <2>1
    <2> QED BY <1>6, <1>7, <2>1, <2>2 DEF Collected, Q
  <1> QED BY <1>8, <1>9

LEMMA MinUpdated ==
    ASSUME NEW P, Numbered(P), NEW q, Keeps(q, P), wanted \in Nat, NEW hits \in Nat,
           NEW min, NEW smin, Told(q, totalHitsRelation, smin),
           UpdateMinCompetitiveScore(q, hits, min, smin)
    PROVE  /\ Told(q, totalHitsRelation', scorerMin')
           /\ \/ totalHitsRelation' = totalHitsRelation
              \/ totalHitsRelation' = "GREATER_THAN_OR_EQUAL_TO" /\ IsThresholdReached(hits)
  <1>1. CASE /\ IsThresholdReached(hits) /\ HitQueue!Top(q).score # NegInf
             /\ HitQueue!Top(q).score > min
    <2>1. scorerMin' = q.heap[1].score /\ totalHitsRelation' = "GREATER_THAN_OR_EQUAL_TO"
          /\ q.heap[1].score # -1
      BY <1>1, SameQueue DEF UpdateMinCompetitiveScore, NegInf
    <2>2. /\ 1 \in 1 .. q.size /\ q.heap[1].score \in Nat \cup {-1}
          /\ \A i \in 1 .. q.size : q.heap[1].score <= q.heap[i].score
      BY KeptHits
    <2> QED BY <1>1, <2>1, <2>2 DEF Told
  <1>2. CASE ~(/\ IsThresholdReached(hits) /\ HitQueue!Top(q).score # NegInf
               /\ HitQueue!Top(q).score > min)
    <2>1. scorerMin' = smin /\ totalHitsRelation' = totalHitsRelation
      BY <1>2, Zenon DEF UpdateMinCompetitiveScore
    <2> QED BY <2>1
  <1> QED BY <1>1, <1>2

LEMMA Collects ==
    ASSUME IsReader(Current), wanted \in Nat, leaf \in DOMAIN Current, NEW d \in DOMAIN Current[leaf],
           Current[leaf][d].live, Current[leaf][d].score # NoMatch,
           Collected(Current, DocBase(Current, leaf) + (d - 1), pq, totalHits, totalHitsRelation),
           Told(pq, totalHitsRelation, scorerMin), Collect(d)
    PROVE  /\ Collected(Current, DocBase(Current, leaf) + d, pq', totalHits', totalHitsRelation')
           /\ Told(pq', totalHitsRelation', scorerMin')
  <1>. DEFINE r == Current
              x == Found(Current, leaf, d)
              P == Below(Current, DocBase(Current, leaf) + (d - 1))
              Q == Below(Current, DocBase(Current, leaf) + d)
              s == Current[leaf][d].score
              w == pq.heap[1]
              better == HitQueue!UpdateTop(pq, Hit(d - 1 + DocBase(Current, leaf), s))
  <1>1. d \in 1 .. Len(Current[leaf]) /\ Len(Current[leaf]) \in Nat /\ DocBase(Current, leaf) \in Nat
        /\ x.doc = DocBase(Current, leaf) + d - 1 /\ x.score = s /\ x.doc \in Nat
    BY FoundIn
  <1>2. Q = P \cup {x} /\ \A y \in P : y.doc < x.doc
    <2>1. d \in 0 .. Len(Current[leaf]) /\ d - 1 \in 0 .. d
      BY <1>1
    <2>2. \A y : y \in Q <=> \/ y \in P
                             \/ \E e \in d - 1 + 1 .. d :
                                /\ e \in DOMAIN Current[leaf] /\ Current[leaf][e].live
                                /\ Current[leaf][e].score # NoMatch /\ y = Found(Current, leaf, e)
      BY <2>1, BelowGrows
    <2>3. d - 1 + 1 .. d = {d}
      BY <1>1
    <2>4. \A y \in P : y.doc < x.doc
      BY <1>1 DEF Below
    <2>. HIDE DEF P, Q, x
    <2>5. \A y : y \in Q <=> y \in P \/ y = Found(Current, leaf, d)
      BY <2>2, <2>3
    <2> QED BY <2>4, <2>5 DEF x
  <1>3. /\ Numbered(P) /\ IsFiniteSet(P) /\ Cardinality(P) \in Nat
        /\ Numbered(Q) /\ IsFiniteSet(Q) /\ Cardinality(Q) \in Nat
    BY BelowIs
  <1>4. Hit(d - 1 + DocBase(Current, leaf), s) = HitOf(x)
    <2>1. d - 1 + DocBase(Current, leaf) = x.doc
      BY <1>1
    <2> QED BY <1>1, <2>1 DEF HitOf
  <1>5. /\ Keeps(pq, P) /\ pq.size = CapFor(r) /\ totalHits \in Nat
        /\ \/ totalHitsRelation = "EQUAL_TO" /\ totalHits = Cardinality(P)
           \/ /\ totalHitsRelation = "GREATER_THAN_OR_EQUAL_TO"
              /\ IsThresholdReached(totalHits) /\ totalHits <= Cardinality(P)
    BY DEF Collected
  <1>6. totalHits' = totalHits + 1 /\ totalHits + 1 \in Nat
    BY <1>5 DEF Collect
  <1>7. IF s <= w.score
        THEN /\ pq' = pq
             /\ IF totalHitsRelation = "EQUAL_TO"
                THEN UpdateMinCompetitiveScore(pq, totalHits + 1, minCompetitiveScore, scorerMin)
                ELSE UNCHANGED <<scorerMin, minCompetitiveScore, totalHitsRelation>>
        ELSE /\ pq' = better
             /\ UpdateMinCompetitiveScore(better, totalHits + 1, minCompetitiveScore, scorerMin)
    <2>1. HitQueue!Top(pq) = pq.heap[1]
      BY SameQueue
    <2>2. IF s <= HitQueue!Top(pq).score
          THEN /\ pq' = pq
               /\ IF totalHitsRelation = "EQUAL_TO"
                  THEN UpdateMinCompetitiveScore(pq, totalHits + 1, minCompetitiveScore, scorerMin)
                  ELSE UNCHANGED <<scorerMin, minCompetitiveScore, totalHitsRelation>>
          ELSE /\ pq' = better
               /\ UpdateMinCompetitiveScore(better, totalHits + 1, minCompetitiveScore, scorerMin)
      BY Zenon DEF Collect
    <2> QED BY <2>1, <2>2, Zenon
  <1>8. x \in Q /\ x.score \in Nat /\ Numbered({x})
    BY <1>2, <1>3 DEF Numbered
  <1>9. /\ 1 \in 1 .. pq.size /\ w.score \in Int
        /\ \A i \in 1 .. pq.size : /\ pq.heap[i].score \in Nat \cup {-1} /\ pq.heap[i].doc \in Nat
                                   /\ pq.heap[i].score = -1 <=> pq.heap[i] = Sentinel
                                   /\ w.score <= pq.heap[i].score
    BY <1>3, <1>5, KeptHits
  <1>10. Cardinality(Q) = Cardinality(P) + 1
    <2>1. x \notin P
      BY <1>1, <1>2
    <2> QED BY <1>2, <1>3, <2>1, FS_AddElement
  <1>11. /\ totalHitsRelation = "EQUAL_TO" => totalHits + 1 = Cardinality(Q)
         /\ totalHitsRelation # "EQUAL_TO" =>
                /\ totalHitsRelation = "GREATER_THAN_OR_EQUAL_TO" /\ IsThresholdReached(totalHits + 1)
         /\ totalHits + 1 <= Cardinality(Q)
    <2>1. IsThresholdReached(totalHits) => IsThresholdReached(totalHits + 1)
      <3>1. TotalHitsThreshold \in Nat
        BY SearchAssumption
      <3>2. /\ IsThresholdReached(totalHits) <=> totalHits > TotalHitsThreshold /\ totalHits > wanted
            /\ IsThresholdReached(totalHits + 1) <=>
                  totalHits + 1 > TotalHitsThreshold /\ totalHits + 1 > wanted
        BY <1>5, <1>6, ThresholdGrows
      <3> QED BY <1>5, <3>1, <3>2
    <2>. HIDE DEF P, Q
    <2> QED BY <1>3, <1>5, <1>10, <2>1
  <1>. HIDE DEF P, Q, x, s, w, better, r
  <1>12. \A q : /\ Keeps(q, Q) /\ q.size = CapFor(r) /\ pq' = q
                /\ Told(q, totalHitsRelation', scorerMin')
                /\ \/ totalHitsRelation' = totalHitsRelation
                   \/ totalHitsRelation' = "GREATER_THAN_OR_EQUAL_TO" /\ IsThresholdReached(totalHits + 1)
                => /\ Collected(Current, DocBase(Current, leaf) + d, pq', totalHits', totalHitsRelation')
                   /\ Told(pq', totalHitsRelation', scorerMin')
    BY <1>6, <1>11 DEF Collected, Q, r
  <1>13. CASE s <= w.score
    <2>1. Keeps(pq, Q)
      <3>1. ASSUME NEW i \in 1 .. pq.size PROVE HitLess(HitOf(x), pq.heap[i])
        <4>1. HitOf(x).score = s /\ HitOf(x).doc = x.doc /\ s \in Nat
          BY <1>1, <1>3, <1>8, HitsOf DEF x, s
        <4>2. s <= pq.heap[i].score /\ pq.heap[i].score \in Nat /\ pq.heap[i] # Sentinel
          BY <1>9, <1>13, <4>1
        <4>3. PICK y \in P : pq.heap[i] = HitOf(y)
          BY <1>5, <4>2 DEF Keeps
        <4>4. pq.heap[i].doc < x.doc /\ pq.heap[i].doc \in Nat /\ x.doc \in Nat
          BY <1>1, <1>2, <1>3, <4>3, HitsOf DEF x
        <4> QED BY <4>1, <4>2, <4>4 DEF HitLess
      <3>2. \A y \in Q : y \in P \/ \A i \in 1 .. pq.size : HitLess(HitOf(y), pq.heap[i])
        BY <1>2, <3>1, Zenon
      <3>3. P \subseteq Q
        BY <1>2
      <3> QED BY <1>5, <3>2, <3>3, KeepsLeavingOut
    <2>2. CASE totalHitsRelation = "EQUAL_TO"
      <3>1. UpdateMinCompetitiveScore(pq, totalHits + 1, minCompetitiveScore, scorerMin) /\ pq' = pq
        BY <1>7, <1>13, <2>2
      <3>2. /\ Told(pq, totalHitsRelation', scorerMin')
            /\ \/ totalHitsRelation' = totalHitsRelation
               \/ totalHitsRelation' = "GREATER_THAN_OR_EQUAL_TO" /\ IsThresholdReached(totalHits + 1)
        BY <1>3, <1>6, <2>1, <3>1, MinUpdated
      <3> QED BY <1>5, <1>12, <2>1, <3>1, <3>2
    <2>3. CASE totalHitsRelation # "EQUAL_TO"
      <3>1. pq' = pq /\ scorerMin' = scorerMin /\ totalHitsRelation' = totalHitsRelation
        BY <1>7, <1>13, <2>3
      <3>2. Told(pq, totalHitsRelation', scorerMin')
        BY <3>1
      <3> QED BY <1>5, <1>12, <2>1, <3>1, <3>2
    <2> QED BY <2>2, <2>3
  <1>14. CASE ~(s <= w.score)
    <2>1. pq' = better /\ UpdateMinCompetitiveScore(better, totalHits + 1, minCompetitiveScore, scorerMin)
      BY <1>7, <1>14
    <2>2. better = HQ!UpdateTop(pq, HitOf(x))
      BY <1>4, SameQueue DEF better
    <2>3. x.score > pq.heap[1].score
      BY <1>1, <1>8, <1>9, <1>14 DEF w, x, s
    <2>4. /\ Keeps(better, P \cup {x}) /\ better.size = pq.size
          /\ \A i \in 1 .. better.size : pq.heap[1].score <= better.heap[i].score
      BY <1>2, <1>3, <1>5, <1>8, <2>2, <2>3, KeepsBetter
    <2>5. Keeps(better, Q) /\ better.size = CapFor(r)
      BY <1>2, <1>5, <2>4
    <2>6. Told(better, totalHitsRelation, scorerMin)
      <3>1. \A i \in 1 .. better.size : better.heap[i].score \in Int
        BY <1>3, <2>5, KeptHits
      <3> QED BY <1>9, <2>4, <3>1 DEF Told, w
    <2>7. /\ Told(better, totalHitsRelation', scorerMin')
          /\ \/ totalHitsRelation' = totalHitsRelation
             \/ totalHitsRelation' = "GREATER_THAN_OR_EQUAL_TO" /\ IsThresholdReached(totalHits + 1)
      BY <1>3, <1>6, <2>1, <2>5, <2>6, MinUpdated
    <2> QED BY <1>12, <2>1, <2>5, <2>7
  <1> QED BY <1>13, <1>14

-----------------------------------------------------------------------------
(* The answer of a finished search.                                           *)

LEMMA SubSeqIs ==
    ASSUME NEW s, NEW m \in Int, NEW n \in Int
    PROVE  SubSeq(s, m, n) = [i \in 1 .. (1 + n - m) |-> s[i + m - 1]]
  OBVIOUS

LEMMA LenIs ==
    ASSUME NEW n \in Nat, NEW s, s = [i \in 1 .. n |-> s[i]]
    PROVE  Len(s) = n /\ DOMAIN s = 1 .. n
  OBVIOUS

LEMMA RankedIs ==
    ASSUME NEW r, IsReader(r)
    PROVE  /\ Cardinality(Matches(r)) \in Nat /\ Len(Ranked(r)) = Cardinality(Matches(r))
           /\ BR!Orders(Matches(r)) /\ BR!LeastFirst(Ranked(r), Cardinality(Matches(r)), Matches(r))
           /\ \A i \in 1 .. Cardinality(Matches(r)) : Ranked(r)[i] \in Matches(r)
  <1>. DEFINE M == Matches(r)
              c == Cardinality(M)
              s == RankedBy(M, Better)
  <1>1. IsFiniteSet(M) /\ Numbered(M) /\ \A x, y \in M : x.doc = y.doc => x = y
    BY MatchesAreNumbered DEF Numbered
  <1>2. c \in Nat /\ BR!Orders(M) /\ BR!LeastFirst(s, c, M)
    BY <1>1, BestRanking
  <1>3. s \in [1 .. c -> M]
    BY <1>2 DEF BR!LeastFirst
  <1>4. s = Ranked(r)
    BY DEF Ranked
  <1>. HIDE DEF s, c, M
  <1>5. Len(s) = c /\ \A i \in 1 .. c : s[i] \in M
    BY <1>2, <1>3
  <1> QED BY <1>2, <1>4, <1>5 DEF c, M

(* The windows of Best, which has T hits in all. *)
WindowsAre(r, T) ==
    \A p \in [start : Nat, size : Nat, setShardIndex : BOOLEAN] :
      \A n \in Nat :
        n = (IF p.start >= T \/ p.size <= 0 THEN 0 ELSE Min({T - p.start, p.size})) =>
            Window(Best(r), p) = [i \in 1 .. n |-> Ranked(r)[p.start + i]]

LEMMA BestIs ==
    ASSUME NEW r, IsReader(r), wanted \in Nat
    PROVE  \E T \in Nat :
             /\ T = Min({wanted, Cardinality(Matches(r))})
             /\ T <= wanted /\ T <= Cardinality(Matches(r))
             /\ T = wanted \/ T = Cardinality(Matches(r))
             /\ Best(r) = [i \in 1 .. T |-> Ranked(r)[i]] /\ DOMAIN Best(r) = 1 .. T
             /\ WindowsAre(r, T)
  <1>. DEFINE c == Cardinality(Matches(r))
              s == Ranked(r)
              T == Min({wanted, c})
              B == [i \in 1 .. T |-> s[i]]
  <1>1. c \in Nat /\ Len(s) = c
    BY RankedIs
  <1>2. T = IF wanted <= c THEN wanted ELSE c
    BY <1>1, TwoNumbers
  <1>3. T \in Nat
    BY <1>1, <1>2
  <1>. HIDE DEF T, c, s
  <1>4. Best(r) = B
    <2>1. Best(r) = SubSeq(s, 1, T)
      BY <1>1 DEF Best, T, s
    <2>2. SubSeq(s, 1, T) = [i \in 1 .. (1 + T - 1) |-> s[i + 1 - 1]]
      BY <1>3, SubSeqIs
    <2>3. 1 + T - 1 = T /\ \A i \in 1 .. T : i + 1 - 1 = i
      BY <1>3
    <2>4. [i \in 1 .. (1 + T - 1) |-> s[i + 1 - 1]] = B
      BY <2>3
    <2> QED BY <2>1, <2>2, <2>4
  <1>5. Len(B) = T /\ DOMAIN B = 1 .. T /\ \A i \in 1 .. T : B[i] = s[i]
    <2>1. B = [i \in 1 .. T |-> B[i]]
      OBVIOUS
    <2>2. DOMAIN B = 1 .. T /\ \A i \in 1 .. T : B[i] = s[i]
      OBVIOUS
    <2>. HIDE DEF B
    <2> QED BY <1>3, <2>1, <2>2, LenIs
  <1>. HIDE DEF B
  <1>6. ASSUME NEW p \in [start : Nat, size : Nat, setShardIndex : BOOLEAN], NEW n \in Nat,
               n = IF p.start >= T \/ p.size <= 0 THEN 0 ELSE Min({T - p.start, p.size})
        PROVE  Window(B, p) = [i \in 1 .. n |-> s[p.start + i]]
    <2>. DEFINE a == p.start
                h == p.size
                m == Min({a + h, T})
    <2>1. a \in Nat /\ h \in Nat
      OBVIOUS
    <2>. HIDE DEF a, h
    <2>2. m = IF a + h <= T THEN a + h ELSE T
      BY <1>3, <2>1, TwoNumbers
    <2>3. n = IF a >= T \/ h <= 0 THEN 0 ELSE IF T - a <= h THEN T - a ELSE h
      <3>1. Min({T - a, h}) = IF T - a <= h THEN T - a ELSE h
        BY <1>3, <2>1, TwoNumbers
      <3> QED BY <1>6, <3>1 DEF a, h
    <2>. HIDE DEF m
    <2>4. m \in Int /\ a + 1 \in Int
      BY <1>3, <2>1, <2>2
    <2>5. Window(B, p) = [i \in 1 .. (1 + m - (a + 1)) |-> B[i + (a + 1) - 1]]
      <3>1. Window(B, p) = SubSeq(B, a + 1, m)
        BY <1>5 DEF Window, a, m, h
      <3> QED BY <2>4, <3>1, SubSeqIs
    <2>6. 1 .. (1 + m - (a + 1)) = 1 .. n
      BY <1>3, <2>1, <2>2, <2>3
    <2>7. ASSUME NEW i \in 1 .. n PROVE B[i + (a + 1) - 1] = s[a + i]
      <3>1. i + (a + 1) - 1 = a + i /\ a + i \in 1 .. T
        BY <1>3, <2>1, <2>3
      <3> QED BY <1>5, <3>1
    <2>8. [i \in 1 .. (1 + m - (a + 1)) |-> B[i + (a + 1) - 1]] = [i \in 1 .. n |-> s[a + i]]
      BY <2>6, <2>7
    <2> QED BY <2>5, <2>8 DEF a
  <1>7. T <= wanted /\ T <= c /\ (T = wanted \/ T = c)
    BY <1>1, <1>2
  <1>8. /\ T = Min({wanted, c}) /\ Best(r) = [i \in 1 .. T |-> s[i]] /\ DOMAIN Best(r) = 1 .. T
    BY <1>4, <1>5 DEF T, B
  <1>9. \A p \in [start : Nat, size : Nat, setShardIndex : BOOLEAN] :
          \A n \in Nat :
            n = (IF p.start >= T \/ p.size <= 0 THEN 0 ELSE Min({T - p.start, p.size})) =>
                Window(Best(r), p) = [i \in 1 .. n |-> s[p.start + i]]
    BY <1>4, <1>6, Zenon
  <1>10. WindowsAre(r, T)
    BY <1>9, Zenon DEF WindowsAre, s
  <1> QED BY <1>3, <1>7, <1>8, <1>10 DEF c, s

(* The search is at its end. *)
Finished == Collected(Current, DocBase(Current, Len(Current) + 1), pq, totalHits, totalHitsRelation)

LEMMA FinishedIs ==
    ASSUME IsReader(Current), wanted \in Nat, Finished
    PROVE  /\ Keeps(pq, Matches(Current)) /\ pq.size \in Nat /\ pq.size >= 1 /\ totalHits \in Nat
           /\ TopDocsSize \in Nat /\ TopDocsSize <= pq.size
           /\ TopDocsSize <= Cardinality(Matches(Current))
           /\ TopDocsSize = pq.size \/ TopDocsSize = Cardinality(Matches(Current))
           /\ TopDocsSize = Min({wanted, Cardinality(Matches(Current))})
           /\ \/ totalHitsRelation = "EQUAL_TO" /\ totalHits = Cardinality(Matches(Current))
              \/ /\ totalHitsRelation = "GREATER_THAN_OR_EQUAL_TO"
                 /\ IsThresholdReached(totalHits) /\ totalHits <= Cardinality(Matches(Current))
                 /\ TopDocsSize >= 1
           /\ pq.size = CapFor(Current)
  <1>. DEFINE M == Matches(Current)
              c == Cardinality(M)
  <1>1. Below(Current, DocBase(Current, Len(Current) + 1)) = M
    BY AllBelow
  <1>2. Keeps(pq, M) /\ pq.size = CapFor(Current) /\ totalHits \in Nat
        /\ \/ totalHitsRelation = "EQUAL_TO" /\ totalHits = c
           \/ /\ totalHitsRelation = "GREATER_THAN_OR_EQUAL_TO"
              /\ IsThresholdReached(totalHits) /\ totalHits <= c
    BY <1>1 DEF Finished, Collected
  <1>3. pq.size \in Nat /\ pq.size >= 1
    <2>1. CapFor(Current) \in Nat
      BY CapIs
    <2> QED BY <1>2, <2>1 DEF Keeps
  <1>4. c \in Nat /\ c <= MaxDoc(Current)
    BY MatchesAreNumbered
  <1>. HIDE DEF M, c
  <1>5. /\ CapFor(Current) <= wanted
        /\ c <= CapFor(Current) <=> c <= wanted
        /\ CapFor(Current) <= c => CapFor(Current) = wanted \/ c = CapFor(Current)
    BY <1>4, CapIs
  <1>6. IsThresholdReached(totalHits) <=> totalHits > TotalHitsThreshold /\ totalHits > wanted
    BY <1>2, ThresholdGrows
  <1>7. TopDocsSize = IF totalHits <= pq.size THEN totalHits ELSE pq.size
    BY <1>2, <1>3, TwoNumbers DEF TopDocsSize
  <1>8. Min({wanted, c}) = IF wanted <= c THEN wanted ELSE c
    BY <1>4, TwoNumbers
  <1>9. CASE totalHitsRelation = "EQUAL_TO" /\ totalHits = c
    BY <1>2, <1>3, <1>4, <1>5, <1>7, <1>8, <1>9 DEF c, M
  <1>10. CASE /\ totalHitsRelation = "GREATER_THAN_OR_EQUAL_TO"
              /\ IsThresholdReached(totalHits) /\ totalHits <= c
    BY <1>2, <1>3, <1>4, <1>5, <1>6, <1>7, <1>8, <1>10 DEF c, M
  <1> QED BY <1>2, <1>9, <1>10

(* td is the window of howMany hits from start on.                             *)
IsRange(start, howMany, td) ==
    /\ \E n \in Nat :
         /\ n = IF start >= TopDocsSize \/ howMany <= 0 THEN 0
                ELSE Min({TopDocsSize - start, howMany})
         /\ td.scoreDocs = [i \in 1 .. n |-> HitOf(Ranked(Current)[start + i])]
         /\ \A i \in 1 .. n : Ranked(Current)[start + i] \in Matches(Current)
         /\ Plain(td.scoreDocs) = [i \in 1 .. n |-> Ranked(Current)[start + i]]
    /\ \/ td.totalHits = totalHits /\ td.relation = totalHitsRelation
       \/ /\ start >= TopDocsSize \/ howMany <= 0
          /\ td.totalHits = 0 /\ td.relation = "EQUAL_TO"

LEMMA RangeIs ==
    ASSUME IsReader(Current), wanted \in Nat, Finished, NEW start \in Nat, NEW howMany \in Nat,
           NEW td, td = TopDocsRange(start, howMany)
    PROVE  IsRange(start, howMany, td)
  <1>. DEFINE T == TopDocsSize
              M == Matches(Current)
              s == Ranked(Current)
              empty == start >= T \/ howMany <= 0
              n == IF empty THEN 0 ELSE Min({T - start, howMany})
              k == pq.size
              first == Unwound(pq, k - start - n)
              docs == [i \in 1 .. n |-> HitOf(s[start + i])]
  <1>1. /\ Keeps(pq, M) /\ k \in Nat /\ T \in Nat /\ T <= k /\ T <= Cardinality(M)
        /\ T = k \/ T = Cardinality(M)
    BY FinishedIs
  <1>2. n = IF empty THEN 0 ELSE IF T - start <= howMany THEN T - start ELSE howMany
    <2>1. Min({T - start, howMany}) = IF T - start <= howMany THEN T - start ELSE howMany
      BY <1>1, TwoNumbers
    <2> QED BY <2>1
  <1>3. IsFiniteSet(M) /\ Numbered(M) /\ \A x, y \in M : x.doc = y.doc => x = y
    BY MatchesAreNumbered DEF Numbered
  <1>. HIDE DEF T, M, s, empty, k
  <1>4. /\ n \in Nat /\ \A i \in 1 .. n : start + i \in 1 .. T /\ start + i \in 1 .. k
        /\ ~empty => k - start - n \in Nat
    BY <1>1, <1>2 DEF empty
  <1>. HIDE DEF n
  <1>5. ASSUME NEW i \in 1 .. T
        PROVE  s[i] \in M /\ ReadOff(pq)[i] = HitOf(s[i])
    <2>1. pq.size = k /\ s = RankedBy(M, Better)
      BY DEF k, s, M, Ranked
    <2> QED BY <1>1, <1>3, <2>1, ReadOffIsBest
  <1>6. \A i \in 1 .. n : s[start + i] \in M
    BY <1>4, <1>5
  <1>7. td.scoreDocs = docs
    <2>1. CASE empty
      <3>1. n = 0 /\ td.scoreDocs = <<>>
        BY <1>2, <2>1 DEF TopDocsRange, empty, T, EmptyTopDocs
      <3>2. 1 .. n = {}
        BY <3>1
      <3> QED BY <3>1, <3>2
    <2>2. CASE ~empty
      <3>1. n = Min({T - start, howMany})
        BY <2>2 DEF n
      <3>2. td.scoreDocs = [i \in 1 .. n |-> HitQueue!Top(Unwound(first, n - i))]
        BY <2>2, <3>1 DEF TopDocsRange, empty, T, k
      <3>3. ASSUME NEW i \in 1 .. n
            PROVE  HitQueue!Top(Unwound(first, n - i)) = HitOf(s[start + i])
        <4>1. n - i \in Nat /\ k - start - n \in Nat /\ k - start - n + (n - i) = k - (start + i)
          BY <1>1, <1>4, <2>2
        <4>2. Unwound(first, n - i) = Unwound(pq, k - (start + i))
          BY <4>1, UnwoundTwice
        <4>3. ReadOff(pq)[start + i] = HitQueue!Top(Unwound(pq, k - (start + i)))
          BY <1>4 DEF ReadOff, k
        <4>4. ReadOff(pq)[start + i] = HitOf(s[start + i])
          BY <1>4, <1>5
        <4> QED BY <4>2, <4>3, <4>4
      <3> QED BY <3>2, <3>3
    <2> QED BY <2>1, <2>2
  <1>8. Plain(docs) = [i \in 1 .. n |-> s[start + i]]
    <2>1. DOMAIN docs = 1 .. n /\ \A i \in 1 .. n : docs[i] = HitOf(s[start + i])
      OBVIOUS
    <2>2. Plain(docs) = [i \in 1 .. n |-> [doc |-> docs[i].doc, score |-> docs[i].score]]
      BY <2>1 DEF Plain
    <2>. HIDE DEF docs
    <2>3. ASSUME NEW i \in 1 .. n
          PROVE  [doc |-> docs[i].doc, score |-> docs[i].score] = s[start + i]
      <3>. DEFINE x == s[start + i]
      <3>1. x \in M /\ docs[i] = HitOf(x)
        BY <1>6, <2>1
      <3>. HIDE DEF x
      <3>2. HitOf(x).doc = x.doc /\ HitOf(x).score = x.score /\ x = [doc |-> x.doc, score |-> x.score]
        BY <1>3, <3>1, HitsOf DEF Numbered
      <3>3. [doc |-> docs[i].doc, score |-> docs[i].score] = x
        BY <3>1, <3>2
      <3> QED BY <3>3 DEF x
    <2> QED BY <2>2, <2>3
  <1>9. \/ td.totalHits = totalHits /\ td.relation = totalHitsRelation
        \/ empty /\ td.totalHits = 0 /\ td.relation = "EQUAL_TO"
    <2>1. CASE empty
      BY <2>1 DEF TopDocsRange, empty, T, EmptyTopDocs
    <2>2. CASE ~empty
      BY <2>2 DEF TopDocsRange, empty, T
    <2> QED BY <2>1, <2>2
  <1> QED BY <1>4, <1>6, <1>7, <1>8, <1>9 DEF n, empty, T, M, s, IsRange

(* No match of the answer scores less than a scorer was told. *)
LEMMA ToldIsSafe ==
    ASSUME NEW r, IsReader(r), wanted \in Nat, NEW b, NEW q, NEW hits, NEW relation, NEW min,
           Collected(r, b, q, hits, relation), Told(q, relation, min), NEW i \in DOMAIN Best(r)
    PROVE  Best(r)[i].score >= min
  <1>. DEFINE M == Matches(r)
              c == Cardinality(M)
              s == Ranked(r)
              P == Below(r, b)
              n == q.size
  <1>1. PICK T \in Nat : /\ T <= wanted /\ T <= c /\ DOMAIN Best(r) = 1 .. T
                         /\ Best(r) = [j \in 1 .. T |-> s[j]]
    BY BestIs
  <1>2. c \in Nat /\ BR!LeastFirst(s, c, M) /\ \A j \in 1 .. c : s[j] \in M
    BY RankedIs
  <1>3. i \in 1 .. T /\ i \in 1 .. c /\ Best(r)[i] = s[i] /\ s[i] \in M
    BY <1>1, <1>2
  <1>4. Numbered(P) /\ P \subseteq M
    BY BelowIs
  <1>5. Keeps(q, P) /\ n = CapFor(r)
    BY DEF Collected
  <1>6. \A x \in M : x.score \in Nat
    BY MatchesAreNumbered
  <1>7. T <= n /\ n \in Nat
    <2>1. c <= MaxDoc(r)
      BY MatchesAreNumbered
    <2>2. MaxDoc(r) \in Nat
      BY Bases
    <2>3. T <= MaxDoc(r)
      BY <1>1, <1>2, <2>1, <2>2
    <2> QED BY <1>1, <1>5, <2>3, CapIs
  <1>. HIDE DEF M, c, s, P, n
  <1>8. SUFFICES ASSUME ~(s[i].score >= min) PROVE FALSE
    BY <1>3
  <1>9. min \in Nat /\ min # 0 /\ \A j \in 1 .. n : min <= q.heap[j].score
    BY <1>3, <1>6, <1>8 DEF Told, n
  <1>10. ASSUME NEW j \in 1 .. n PROVE \E x \in P : q.heap[j] = HitOf(x)
    <2>1. q.heap[j] # Sentinel
      <3>1. q.heap[j].score >= min
        BY <1>9
      <3>2. Sentinel.score = -1
        BY SentinelIsHit
      <3> QED BY <1>9, <3>1, <3>2
    <2> QED BY <1>5, <2>1 DEF Keeps, n
  <1>. DEFINE t == [j \in 1 .. n |-> CHOOSE x \in P : q.heap[j] = HitOf(x)]
  <1>11. \A j \in 1 .. n : t[j] \in P /\ q.heap[j] = HitOf(t[j])
    BY <1>10
  <1>12. t \in [1 .. n -> M]
    BY <1>4, <1>11
  <1>. HIDE DEF t
  <1>13. \A a, d \in 1 .. n : t[a] = t[d] => a = d
    <2>1. ASSUME NEW a \in 1 .. n, NEW d \in 1 .. n, t[a] = t[d] PROVE a = d
      <3>1. q.heap[a] = q.heap[d]
        BY <1>11, <2>1
      <3>2. q.heap[a] # Sentinel
        BY <1>4, <1>11, HitsOf
      <3> QED BY <1>5, <3>1, <3>2 DEF Keeps, n
    <2> QED BY <2>1
  <1>14. ASSUME NEW j \in 1 .. n PROVE Better(t[j], s[i])
    <2>1. q.heap[j].score = t[j].score /\ t[j].score \in Nat
      BY <1>4, <1>11, HitsOf
    <2>2. s[i].score < t[j].score /\ s[i].score \in Nat
      BY <1>3, <1>6, <1>8, <1>9, <2>1
    <2> QED BY <2>1, <2>2 DEF Better, HitLess
  <1>15. n <= i - 1
    BY <1>2, <1>3, <1>7, <1>12, <1>13, <1>14, BR!LessAreEarlier
  <1> QED BY <1>3, <1>7, <1>15

-----------------------------------------------------------------------------
(* Merging answers.  A reference stands for the i-th hit of shard s; the merge *)
(* takes them in the order of RefLess.                                         *)

MQ == INSTANCE HeapProofs WITH LessThan <- RefLess, None <- Sentinel

Relations == {"EQUAL_TO", "GREATER_THAN_OR_EQUAL_TO"}
Answers == [totalHits : Nat, relation : Relations, scoreDocs : Seq(Hits)]

(* The hits of an answer get worse and come from one shard.                    *)
Descending(docs) ==
    \A i, j \in 1 .. Len(docs) :
        i <= j => docs[j].score <= docs[i].score /\ docs[j].shardIndex = docs[i].shardIndex

AreAnswers(sh) == sh \in Seq(Answers) /\ \A s \in 1 .. Len(sh) : Descending(sh[s].scoreDocs)

RefSet == [shard : Int, hitIndex : Int, score : Int, shardIndex : Int]
Size(sh, s) == Len(sh[s].scoreDocs)
Refs(sh, flag) == UNION {{ShardRef(sh, flag, s, i) : i \in 1 .. Size(sh, s)} : s \in 1 .. Len(sh)}

LEMMA RefsOrdered == MQ!Orders(RefSet)
  <1>1. ASSUME NEW a \in RefSet, NEW b \in RefSet, NEW c \in RefSet
        PROVE  /\ ~RefLess(a, a)
               /\ RefLess(a, b) /\ RefLess(b, c) => RefLess(a, c)
               /\ RefLess(a, c) => RefLess(a, b) \/ RefLess(b, c)
    <2>1. /\ a.score \in Int /\ b.score \in Int /\ c.score \in Int
          /\ a.shardIndex \in Int /\ b.shardIndex \in Int /\ c.shardIndex \in Int
          /\ a.hitIndex \in Int /\ b.hitIndex \in Int /\ c.hitIndex \in Int
      BY DEF RefSet
    <2> QED BY <2>1 DEF RefLess
  <1> QED BY <1>1, Zenon DEF MQ!Orders

LEMMA SameMerge ==
    ASSUME NEW q, NEW e
    PROVE  /\ MergeQueue!Top(q) = q.heap[1] /\ MQ!Top(q) = q.heap[1]
           /\ MergeQueue!UpdateTop(q, e) = MQ!UpdateTop(q, e)
           /\ MergeQueue!Popped(q) = MQ!Popped(q)
           /\ MergeQueue!Add(q, e) = MQ!Add(q, e)
  BY DEF MergeQueue!Top, MQ!Top, MergeQueue!UpdateTop, MQ!UpdateTop, MergeQueue!Popped, MQ!Popped,
         MergeQueue!DownHeap, MQ!DownHeap, MergeQueue!Add, MQ!Add, MergeQueue!UpHeap, MQ!UpHeap

LEMMA MergePermutesIs ==
    ASSUME NEW n, NEW perm, MQ!Permutes(perm, n)
    PROVE  /\ perm \in [1 .. n -> 1 .. n]
           /\ \A i, j \in 1 .. n : perm[i] = perm[j] => i = j
           /\ \A k \in 1 .. n : \E i \in 1 .. n : perm[i] = k
  BY DEF MQ!Permutes, MQ!Bijection, MQ!Surjection, MQ!Injection, MQ!IsInjective

LEMMA AnswerParts ==
    ASSUME NEW sh, AreAnswers(sh)
    PROVE  /\ Len(sh) \in Nat /\ DOMAIN sh = 1 .. Len(sh)
           /\ \A s \in 1 .. Len(sh) :
                /\ sh[s] \in Answers /\ sh[s].totalHits \in Nat /\ sh[s].relation \in Relations
                /\ sh[s].scoreDocs \in Seq(Hits) /\ Descending(sh[s].scoreDocs)
                /\ Size(sh, s) \in Nat /\ DOMAIN sh[s].scoreDocs = 1 .. Size(sh, s)
                /\ sh[s].scoreDocs = <<>> <=> Size(sh, s) = 0
                /\ \A i \in 1 .. Size(sh, s) : /\ sh[s].scoreDocs[i] \in Hits
                                               /\ sh[s].scoreDocs[i].score \in Int
                                               /\ sh[s].scoreDocs[i].shardIndex \in Int
                                               /\ sh[s].scoreDocs[i].doc \in Int
  <1>1. sh \in Seq(Answers) /\ \A s \in 1 .. Len(sh) : Descending(sh[s].scoreDocs)
    BY DEF AreAnswers
  <1>2. ASSUME NEW s \in 1 .. Len(sh)
        PROVE  sh[s] \in Answers
    BY <1>1
  <1>3. ASSUME NEW s \in 1 .. Len(sh)
        PROVE  /\ sh[s].totalHits \in Nat /\ sh[s].relation \in Relations
               /\ sh[s].scoreDocs \in Seq(Hits)
    BY <1>2 DEF Answers
  <1>4. ASSUME NEW s \in 1 .. Len(sh), NEW i \in 1 .. Size(sh, s)
        PROVE  /\ sh[s].scoreDocs[i] \in Hits /\ sh[s].scoreDocs[i].score \in Int
               /\ sh[s].scoreDocs[i].shardIndex \in Int /\ sh[s].scoreDocs[i].doc \in Int
    <2>1. sh[s].scoreDocs[i] \in Hits
      BY <1>3 DEF Size
    <2> QED BY <2>1 DEF Hits
  <1>5. ASSUME NEW s \in 1 .. Len(sh)
        PROVE  /\ Size(sh, s) \in Nat /\ DOMAIN sh[s].scoreDocs = 1 .. Size(sh, s)
               /\ sh[s].scoreDocs = <<>> <=> Size(sh, s) = 0
    <2>. DEFINE t == sh[s].scoreDocs
    <2>1. t \in Seq(Hits)
      BY <1>3
    <2>. HIDE DEF t
    <2>2. Len(t) \in Nat /\ DOMAIN t = 1 .. Len(t) /\ (t = <<>> <=> Len(t) = 0)
      BY <2>1
    <2> QED BY <2>2 DEF t, Size
  <1> QED BY <1>1, <1>2, <1>3, <1>4, <1>5

LEMMA RefIs ==
    ASSUME NEW sh, AreAnswers(sh), NEW flag \in BOOLEAN, NEW s \in 1 .. Len(sh),
           NEW i \in 1 .. Size(sh, s), NEW x, x = ShardRef(sh, flag, s, i)
    PROVE  /\ x \in RefSet /\ x.shard = s /\ x.hitIndex = i /\ x.score = sh[s].scoreDocs[i].score
           /\ x.shardIndex = IF flag THEN s - 1 ELSE sh[s].scoreDocs[i].shardIndex
           /\ x \in Refs(sh, flag) /\ s \in Nat /\ i \in Nat
  <1>1. /\ sh[s].scoreDocs[i].score \in Int /\ sh[s].scoreDocs[i].shardIndex \in Int
        /\ Size(sh, s) \in Nat /\ Len(sh) \in Nat
    BY AnswerParts
  <1>2. s \in Nat /\ i \in Nat
    BY <1>1
  <1>3. x = [shard |-> s, hitIndex |-> i, score |-> sh[s].scoreDocs[i].score,
             shardIndex |-> IF flag THEN s - 1 ELSE sh[s].scoreDocs[i].shardIndex]
    BY DEF ShardRef
  <1>4. x \in Refs(sh, flag)
    BY DEF Refs
  <1> QED BY <1>1, <1>2, <1>3, <1>4 DEF RefSet

LEMMA RefsAre ==
    ASSUME NEW sh, AreAnswers(sh), NEW flag \in BOOLEAN, NEW x \in Refs(sh, flag)
    PROVE  /\ x.shard \in 1 .. Len(sh) /\ x.hitIndex \in 1 .. Size(sh, x.shard)
           /\ x = ShardRef(sh, flag, x.shard, x.hitIndex) /\ x \in RefSet
  <1>1a. PICK s \in 1 .. Len(sh) : \E i \in 1 .. Size(sh, s) : x = ShardRef(sh, flag, s, i)
    BY DEF Refs
  <1>1. PICK i \in 1 .. Size(sh, s) : x = ShardRef(sh, flag, s, i)
    BY <1>1a
  <1>2. x.shard = s /\ x.hitIndex = i /\ x \in RefSet
    BY <1>1, RefIs
  <1> QED BY <1>1, <1>2

(* Later hits of a shard do not come before earlier ones.                      *)
LEMMA LaterRefs ==
    ASSUME NEW sh, AreAnswers(sh), NEW flag \in BOOLEAN, NEW s \in 1 .. Len(sh),
           NEW i \in 1 .. Size(sh, s), NEW j \in 1 .. Size(sh, s), i <= j
    PROVE  /\ ~RefLess(ShardRef(sh, flag, s, j), ShardRef(sh, flag, s, i))
           /\ i < j => RefLess(ShardRef(sh, flag, s, i), ShardRef(sh, flag, s, j))
  <1>. DEFINE a == ShardRef(sh, flag, s, i)
              b == ShardRef(sh, flag, s, j)
  <1>1. /\ a \in RefSet /\ a.hitIndex = i /\ a.score = sh[s].scoreDocs[i].score
        /\ a.shardIndex = IF flag THEN s - 1 ELSE sh[s].scoreDocs[i].shardIndex
    BY RefIs
  <1>2. /\ b \in RefSet /\ b.hitIndex = j /\ b.score = sh[s].scoreDocs[j].score
        /\ b.shardIndex = IF flag THEN s - 1 ELSE sh[s].scoreDocs[j].shardIndex
    BY RefIs
  <1>3. /\ sh[s].scoreDocs[j].score <= sh[s].scoreDocs[i].score
        /\ sh[s].scoreDocs[j].shardIndex = sh[s].scoreDocs[i].shardIndex
    BY AnswerParts DEF Descending, Size
  <1>. HIDE DEF a, b
  <1>4. b.score <= a.score /\ a.shardIndex = b.shardIndex
    BY <1>1, <1>2, <1>3
  <1>5. a.score \in Int /\ b.score \in Int /\ a.shardIndex \in Int
    BY <1>1, <1>2 DEF RefSet
  <1>6. ~RefLess(b, a) /\ (i < j => RefLess(a, b))
    BY <1>1, <1>2, <1>4, <1>5 DEF RefLess
  <1> QED BY <1>6 DEF a, b

(* The queue holds the next hit of every shard, up to m, that has one left.    *)
Queued(sh, flag, m, next, q) ==
    /\ MQ!IsQueue(q) /\ MQ!HeapOrdered(q)
    /\ \A j \in 1 .. q.size : \E s \in 1 .. m : /\ next[s] \in 1 .. Size(sh, s)
                                                /\ q.heap[j] = ShardRef(sh, flag, s, next[s])
    /\ \A s \in 1 .. m : next[s] \in 1 .. Size(sh, s) =>
            \E j \in 1 .. q.size : q.heap[j] = ShardRef(sh, flag, s, next[s])
    /\ \A j, k \in 1 .. q.size : q.heap[j] = q.heap[k] => j = k

LEMMA QueuedIs ==
    ASSUME NEW sh, AreAnswers(sh), NEW flag \in BOOLEAN, NEW m \in 0 .. Len(sh), NEW next, NEW q,
           Queued(sh, flag, m, next, q)
    PROVE  /\ q.size \in Nat /\ MQ!IsQueue(q) /\ MQ!HeapOrdered(q)
           /\ MQ!HoldsOnly(q, RefSet) /\ m \in Nat
           /\ \A s \in 1 .. m : s \in 1 .. Len(sh)
  <1>1. Len(sh) \in Nat
    BY AnswerParts
  <1>2. \A s \in 1 .. m : s \in 1 .. Len(sh)
    BY <1>1
  <1>3. ASSUME NEW j \in 1 .. q.size PROVE q.heap[j] \in RefSet
    <2>1. PICK s \in 1 .. m : /\ next[s] \in 1 .. Size(sh, s)
                              /\ q.heap[j] = ShardRef(sh, flag, s, next[s])
      BY DEF Queued
    <2> QED BY <1>2, <2>1, RefIs
  <1>4. MQ!IsQueue(q) /\ MQ!HeapOrdered(q)
    BY DEF Queued
  <1>5. q.size \in Nat
    BY <1>4 DEF MQ!IsQueue
  <1>6. MQ!HoldsOnly(q, RefSet)
    BY <1>3 DEF MQ!HoldsOnly
  <1> QED BY <1>1, <1>2, <1>4, <1>5, <1>6

(* p is q with the next hit of shard o, if there is one, in place of the top.   *)
Shifted(sh, flag, o, after, q, p) ==
    /\ MQ!IsQueue(p) /\ MQ!HeapOrdered(p)
    /\ \A j \in 1 .. p.size :
            \/ after[o] \in 1 .. Size(sh, o) /\ p.heap[j] = ShardRef(sh, flag, o, after[o])
            \/ \E k \in 2 .. q.size : p.heap[j] = q.heap[k]
    /\ \A k \in 2 .. q.size : \E j \in 1 .. p.size : p.heap[j] = q.heap[k]
    /\ after[o] \in 1 .. Size(sh, o) =>
            \E j \in 1 .. p.size : p.heap[j] = ShardRef(sh, flag, o, after[o])
    /\ \A j, k \in 1 .. p.size : p.heap[j] = p.heap[k] => j = k

LEMMA QueuedMoves ==
    ASSUME NEW sh, AreAnswers(sh), NEW flag \in BOOLEAN, NEW m \in 0 .. Len(sh), NEW next, NEW q,
           Queued(sh, flag, m, next, q), q.size >= 1,
           NEW o \in 1 .. m, next[o] \in 1 .. Size(sh, o), q.heap[1] = ShardRef(sh, flag, o, next[o]),
           NEW after, after[o] = next[o] + 1, \A s \in 1 .. m : s # o => after[s] = next[s],
           NEW p, Shifted(sh, flag, o, after, q, p)
    PROVE  Queued(sh, flag, m, after, p)
  <1>0. /\ MQ!IsQueue(p) /\ MQ!HeapOrdered(p)
        /\ \A j \in 1 .. p.size :
                \/ after[o] \in 1 .. Size(sh, o) /\ p.heap[j] = ShardRef(sh, flag, o, after[o])
                \/ \E k \in 2 .. q.size : p.heap[j] = q.heap[k]
        /\ \A k \in 2 .. q.size : \E j \in 1 .. p.size : p.heap[j] = q.heap[k]
        /\ after[o] \in 1 .. Size(sh, o) =>
                \E j \in 1 .. p.size : p.heap[j] = ShardRef(sh, flag, o, after[o])
        /\ \A j, k \in 1 .. p.size : p.heap[j] = p.heap[k] => j = k
    BY DEF Shifted
  <1>1. /\ q.size \in Nat /\ m \in Nat /\ \A s \in 1 .. m : s \in 1 .. Len(sh)
    BY QueuedIs
  <1>2. ASSUME NEW k \in 2 .. q.size
        PROVE  \E s \in 1 .. m : /\ after[s] \in 1 .. Size(sh, s)
                                 /\ q.heap[k] = ShardRef(sh, flag, s, after[s])
    <2>1. k \in 1 .. q.size /\ 1 \in 1 .. q.size /\ k # 1
      BY <1>1
    <2>2. PICK s \in 1 .. m : /\ next[s] \in 1 .. Size(sh, s)
                              /\ q.heap[k] = ShardRef(sh, flag, s, next[s])
      BY <2>1 DEF Queued
    <2>3. s # o
      <3>1. SUFFICES ASSUME s = o PROVE FALSE
        OBVIOUS
      <3>2. q.heap[k] = q.heap[1]
        BY <2>2, <3>1
      <3> QED BY <2>1, <3>2 DEF Queued
    <2> QED BY <2>2, <2>3
  <1>3. ASSUME NEW j \in 1 .. p.size
        PROVE  \E s \in 1 .. m : /\ after[s] \in 1 .. Size(sh, s)
                                 /\ p.heap[j] = ShardRef(sh, flag, s, after[s])
    <2>1. CASE after[o] \in 1 .. Size(sh, o) /\ p.heap[j] = ShardRef(sh, flag, o, after[o])
      BY <2>1
    <2>2. CASE \E k \in 2 .. q.size : p.heap[j] = q.heap[k]
      BY <1>2, <2>2
    <2> QED BY <1>0, <2>1, <2>2
  <1>4. ASSUME NEW s \in 1 .. m, after[s] \in 1 .. Size(sh, s)
        PROVE  \E j \in 1 .. p.size : p.heap[j] = ShardRef(sh, flag, s, after[s])
    <2>1. CASE s = o
      BY <1>0, <1>4, <2>1
    <2>2. CASE s # o
      <3>1. after[s] = next[s]
        BY <2>2
      <3>2. PICK k \in 1 .. q.size : q.heap[k] = ShardRef(sh, flag, s, next[s])
        BY <1>4, <3>1 DEF Queued
      <3>3. k # 1
        <4>1. SUFFICES ASSUME k = 1 PROVE FALSE
          OBVIOUS
        <4>2. ShardRef(sh, flag, s, next[s]) = ShardRef(sh, flag, o, next[o])
          BY <3>2, <4>1
        <4>3. ShardRef(sh, flag, s, next[s]).shard = s /\ ShardRef(sh, flag, o, next[o]).shard = o
          BY DEF ShardRef
        <4> QED BY <2>2, <4>2, <4>3
      <3>4. k \in 2 .. q.size
        BY <1>1, <3>3
      <3>5. PICK j \in 1 .. p.size : p.heap[j] = q.heap[k]
        BY <1>0, <3>4
      <3> QED BY <3>1, <3>2, <3>5
    <2> QED BY <2>1, <2>2
  <1> QED BY <1>0, <1>3, <1>4 DEF Queued

LEMMA QueuedUpdates ==
    ASSUME NEW sh, AreAnswers(sh), NEW flag \in BOOLEAN, NEW m \in 0 .. Len(sh), NEW next, NEW q,
           Queued(sh, flag, m, next, q), q.size >= 1,
           NEW o \in 1 .. m, next[o] \in 1 .. Size(sh, o), q.heap[1] = ShardRef(sh, flag, o, next[o]),
           NEW after, after[o] = next[o] + 1, \A s \in 1 .. m : s # o => after[s] = next[s],
           NEW p, p = IF next[o] < Size(sh, o)
                      THEN MQ!UpdateTop(q, ShardRef(sh, flag, o, after[o])) ELSE MQ!Popped(q)
    PROVE  Queued(sh, flag, m, after, p)
  <1>. DEFINE n == q.size
              e == ShardRef(sh, flag, o, after[o])
  <1>1. /\ n \in Nat /\ MQ!IsQueue(q) /\ MQ!HeapOrdered(q) /\ MQ!HoldsOnly(q, RefSet)
        /\ o \in 1 .. Len(sh)
    BY QueuedIs
  <1>2. Size(sh, o) \in Nat /\ next[o] \in Nat
    BY <1>1, AnswerParts
  <1>3. \A j, k \in 1 .. n : q.heap[j] = q.heap[k] => j = k
    BY DEF Queued
  <1>4. CASE next[o] < Size(sh, o)
    <2>1. after[o] \in 1 .. Size(sh, o)
      BY <1>2, <1>4
    <2>2. e \in RefSet /\ e.shard = o /\ e.hitIndex = after[o]
      BY <1>1, <2>1, RefIs
    <2>3. p = MQ!UpdateTop(q, e)
      BY <1>4
    <2>. HIDE DEF e
    <2>4. /\ MQ!IsQueue(p) /\ MQ!HeapOrdered(p) /\ p.size = n
          /\ \E perm : /\ MQ!Permutes(perm, n)
                       /\ \A i \in 1 .. n : p.heap[i] = IF perm[i] = 1 THEN e ELSE q.heap[perm[i]]
      <3>1. q.size > 0
        BY <1>1
      <3> QED BY <1>1, <2>2, <2>3, <3>1, RefsOrdered, MQ!UpdateTopRestores
    <2>5. PICK perm : /\ MQ!Permutes(perm, n)
                      /\ \A i \in 1 .. n : p.heap[i] = IF perm[i] = 1 THEN e ELSE q.heap[perm[i]]
      BY <2>4
    <2>. HIDE DEF n
    <2>6. /\ perm \in [1 .. n -> 1 .. n]
          /\ \A i, j \in 1 .. n : perm[i] = perm[j] => i = j
          /\ \A k \in 1 .. n : \E i \in 1 .. n : perm[i] = k
      BY <2>5, MergePermutesIs
    <2>7. \A j \in 1 .. n : \/ perm[j] = 1 /\ p.heap[j] = e
                            \/ perm[j] \in 2 .. n /\ p.heap[j] = q.heap[perm[j]]
      <3>1. ASSUME NEW j \in 1 .. n, perm[j] # 1
            PROVE  perm[j] \in 2 .. n /\ p.heap[j] = q.heap[perm[j]]
        <4>1. perm[j] \in 1 .. n
          BY <2>6
        <4>2. perm[j] \in 2 .. n
          BY <1>1, <3>1, <4>1 DEF n
        <4> QED BY <2>5, <3>1, <4>2
      <3> QED BY <2>5, <3>1
    <2>8. \A k \in 2 .. n : \E j \in 1 .. n : p.heap[j] = q.heap[k]
      <3>1. ASSUME NEW k \in 2 .. n PROVE \E j \in 1 .. n : p.heap[j] = q.heap[k]
        <4>1. k \in 1 .. n /\ k # 1
          BY <1>1
        <4>2. PICK j \in 1 .. n : perm[j] = k
          BY <2>6, <4>1
        <4> QED BY <2>7, <4>1, <4>2
      <3> QED BY <3>1
    <2>9. \E j \in 1 .. n : p.heap[j] = e
      <3>1. 1 \in 1 .. n
        BY <1>1 DEF n
      <3> QED BY <2>6, <2>7, <3>1
    <2>10. \A k \in 2 .. n : q.heap[k] # e
      <3>1. ASSUME NEW k \in 2 .. n, q.heap[k] = e PROVE FALSE
        <4>1. k \in 1 .. n /\ 1 \in 1 .. n /\ k # 1
          BY <1>1
        <4>2. PICK s \in 1 .. m : q.heap[k] = ShardRef(sh, flag, s, next[s])
          BY <4>1 DEF Queued, n
        <4>3. ShardRef(sh, flag, s, next[s]).shard = s /\ ShardRef(sh, flag, s, next[s]).hitIndex = next[s]
          BY DEF ShardRef
        <4>4. s = o /\ next[s] = after[o]
          BY <2>2, <3>1, <4>2, <4>3
        <4> QED BY <1>2, <4>4
      <3> QED BY <3>1
    <2>11. ASSUME NEW j \in 1 .. n, NEW k \in 1 .. n, p.heap[j] = p.heap[k] PROVE j = k
      <3>1. CASE perm[j] = 1 /\ perm[k] = 1
        BY <2>6, <3>1
      <3>2. CASE perm[j] \in 2 .. n /\ perm[k] \in 2 .. n /\ q.heap[perm[j]] = q.heap[perm[k]]
        <4>0. perm[j] \in 1 .. n /\ perm[k] \in 1 .. n
          BY <2>6
        <4>1. perm[j] = perm[k]
          BY <1>3, <3>2, <4>0
        <4> QED BY <2>6, <4>1
      <3> QED BY <2>7, <2>10, <2>11, <3>1, <3>2
    <2>12. p.size = n
      BY <2>4
    <2>13. \A j \in 1 .. p.size : \/ after[o] \in 1 .. Size(sh, o) /\ p.heap[j] = e
                                  \/ \E k \in 2 .. n : p.heap[j] = q.heap[k]
      BY <2>1, <2>7, <2>12
    <2>14. /\ MQ!IsQueue(p) /\ MQ!HeapOrdered(p)
           /\ \A k \in 2 .. n : \E j \in 1 .. p.size : p.heap[j] = q.heap[k]
           /\ \E j \in 1 .. p.size : p.heap[j] = e
           /\ \A j, k \in 1 .. p.size : p.heap[j] = p.heap[k] => j = k
      BY <2>4, <2>8, <2>9, <2>11, <2>12
    <2>15. Shifted(sh, flag, o, after, q, p)
      BY <2>13, <2>14 DEF Shifted, e, n
    <2> QED BY <2>15, QueuedMoves
  <1>5. CASE ~(next[o] < Size(sh, o))
    <2>1. after[o] \notin 1 .. Size(sh, o)
      BY <1>2, <1>5
    <2>2. /\ MQ!IsQueue(p) /\ MQ!HeapOrdered(p) /\ p.size = n - 1
          /\ \E perm : /\ MQ!Permutes(perm, n - 1)
                       /\ \A i \in 1 .. (n - 1) : p.heap[i] = q.heap[IF perm[i] = 1 THEN n ELSE perm[i]]
      <3>1. q.size > 0 /\ p = MQ!Popped(q)
        BY <1>1, <1>5
      <3> QED BY <1>1, <3>1, RefsOrdered, MQ!PoppedRestores
    <2>3. PICK perm : /\ MQ!Permutes(perm, n - 1)
                      /\ \A i \in 1 .. (n - 1) : p.heap[i] = q.heap[IF perm[i] = 1 THEN n ELSE perm[i]]
      BY <2>2
    <2>4. n >= 1
      OBVIOUS
    <2>. HIDE DEF n
    <2>5. /\ perm \in [1 .. (n - 1) -> 1 .. (n - 1)]
          /\ \A i, j \in 1 .. (n - 1) : perm[i] = perm[j] => i = j
          /\ \A k \in 1 .. (n - 1) : \E i \in 1 .. (n - 1) : perm[i] = k
      BY <2>3, MergePermutesIs
    <2>. DEFINE g == [j \in 1 .. (n - 1) |-> IF perm[j] = 1 THEN n ELSE perm[j]]
    <2>6. ASSUME NEW j \in 1 .. (n - 1)
          PROVE  g[j] \in 2 .. n /\ g[j] \in 1 .. n /\ p.heap[j] = q.heap[g[j]]
      <3>1. perm[j] \in 1 .. (n - 1)
        BY <2>5
      <3> QED BY <1>1, <2>3, <3>1
    <2>7. ASSUME NEW k \in 2 .. n PROVE \E j \in 1 .. (n - 1) : g[j] = k
      <3>1. PICK c \in 1 .. (n - 1) : c = IF k = n THEN 1 ELSE k
        BY <1>1
      <3>2. PICK j \in 1 .. (n - 1) : perm[j] = c
        BY <2>5
      <3> QED BY <1>1, <3>1, <3>2
    <2>8. ASSUME NEW j \in 1 .. (n - 1), NEW k \in 1 .. (n - 1), g[j] = g[k] PROVE j = k
      <3>1. perm[j] \in 1 .. (n - 1) /\ perm[k] \in 1 .. (n - 1)
        BY <2>5
      <3>2. perm[j] = perm[k]
        BY <1>1, <2>8, <3>1
      <3> QED BY <2>5, <3>2
    <2>. HIDE DEF g
    <2>9. p.size = n - 1
      BY <2>2
    <2>10. /\ MQ!IsQueue(p) /\ MQ!HeapOrdered(p)
           /\ \A j \in 1 .. p.size : \E k \in 2 .. n : p.heap[j] = q.heap[k]
           /\ \A k \in 2 .. n : \E j \in 1 .. p.size : p.heap[j] = q.heap[k]
           /\ \A j, k \in 1 .. p.size : p.heap[j] = p.heap[k] => j = k
      <3>1. ASSUME NEW j \in 1 .. (n - 1), NEW k \in 1 .. (n - 1), p.heap[j] = p.heap[k] PROVE j = k
        <4>1. g[j] = g[k]
          BY <1>3, <2>6, <3>1
        <4> QED BY <2>8, <4>1
      <3> QED BY <2>2, <2>6, <2>7, <2>9, <3>1
    <2>11. Shifted(sh, flag, o, after, q, p)
      BY <2>1, <2>10 DEF Shifted, n
    <2> QED BY <2>11, QueuedMoves
  <1> QED BY <1>4, <1>5

(* The state of the merge after i rounds: t are the references taken so far.   *)
Merged(sh, flag, next, q, t, i) ==
    /\ \A s \in 1 .. Len(sh) : next[s] \in 1 .. Size(sh, s) + 1
    /\ Queued(sh, flag, Len(sh), next, q)
    /\ MQ!LeastFirst(t, i, Refs(sh, flag))
    /\ \A x \in Refs(sh, flag) : (\E j \in 1 .. i : t[j] = x) <=> x.hitIndex < next[x.shard]

(* One round takes the reference on top of the queue.                          *)
QueueAfter(sh, flag, q, ref) ==
    IF ref.hitIndex < Size(sh, ref.shard)
    THEN MQ!UpdateTop(q, ShardRef(sh, flag, ref.shard, ref.hitIndex + 1))
    ELSE MQ!Popped(q)
Longer(t, i, ref) == [j \in 1 .. (i + 1) |-> IF j = i + 1 THEN ref ELSE t[j]]

LEMMA MergedRound ==
    ASSUME NEW sh, AreAnswers(sh), NEW flag \in BOOLEAN, NEW next, NEW q, NEW t, NEW i \in Nat,
           Merged(sh, flag, next, q, t, i), q.size >= 1
    PROVE  \E after : Merged(sh, flag, after, QueueAfter(sh, flag, q, q.heap[1]),
                             Longer(t, i, q.heap[1]), i + 1)
  <1>. DEFINE N == Len(sh)
              R == Refs(sh, flag)
              ref == q.heap[1]
              p == QueueAfter(sh, flag, q, ref)
              u == Longer(t, i, ref)
  <1>0. /\ ref = q.heap[1]
        /\ p = IF ref.hitIndex < Size(sh, ref.shard)
               THEN MQ!UpdateTop(q, ShardRef(sh, flag, ref.shard, ref.hitIndex + 1))
               ELSE MQ!Popped(q)
        /\ u = [j \in 1 .. (i + 1) |-> IF j = i + 1 THEN ref ELSE t[j]]
    BY DEF QueueAfter, Longer
  <1>. HIDE DEF ref, p, u
  <1>1. N \in Nat /\ N \in 0 .. N
    BY AnswerParts
  <1>2. Queued(sh, flag, N, next, q)
    BY DEF Merged
  <1>3. /\ q.size \in Nat /\ MQ!IsQueue(q) /\ MQ!HeapOrdered(q) /\ MQ!HoldsOnly(q, RefSet)
        /\ 1 \in 1 .. q.size
    <2>1. /\ q.size \in Nat /\ MQ!IsQueue(q) /\ MQ!HeapOrdered(q) /\ MQ!HoldsOnly(q, RefSet)
      BY <1>1, <1>2, QueuedIs
    <2> QED BY <2>1
  <1>4. PICK o \in 1 .. N : next[o] \in 1 .. Size(sh, o) /\ ref = ShardRef(sh, flag, o, next[o])
    BY <1>0, <1>2, <1>3 DEF Queued
  <1>5. /\ ref \in RefSet /\ ref.shard = o /\ ref.hitIndex = next[o] /\ ref \in R
        /\ next[o] \in Nat /\ o \in Nat
    BY <1>4, RefIs
  <1>. DEFINE after == [s \in 1 .. N |-> IF s = o THEN next[s] + 1 ELSE next[s]]
  <1>6. after[o] = next[o] + 1 /\ \A s \in 1 .. N : s # o => after[s] = next[s]
    OBVIOUS
  <1>. HIDE DEF after
  <1>7. Queued(sh, flag, N, after, p)
    <2>1. p = IF next[o] < Size(sh, o)
              THEN MQ!UpdateTop(q, ShardRef(sh, flag, o, after[o])) ELSE MQ!Popped(q)
      BY <1>0, <1>5, <1>6
    <2>2. q.heap[1] = ShardRef(sh, flag, o, next[o])
      BY <1>0, <1>4
    <2>. HIDE DEF N
    <2> QED BY <1>1, <1>2, <1>4, <1>6, <2>1, <2>2, QueuedUpdates DEF N
  <1>8. ASSUME NEW s \in 1 .. N PROVE after[s] \in 1 .. Size(sh, s) + 1
    <2>1. next[s] \in 1 .. Size(sh, s) + 1 /\ Size(sh, s) \in Nat
      BY AnswerParts DEF Merged
    <2>2. CASE s = o
      BY <1>4, <1>6, <2>1, <2>2
    <2>3. CASE s # o
      BY <1>6, <2>1, <2>3
    <2> QED BY <2>2, <2>3
  <1>9. /\ t \in [1 .. i -> R] /\ \A a, b \in 1 .. i : t[a] = t[b] => a = b
        /\ \A a \in 1 .. i : \A x \in R : (\A b \in 1 .. (a - 1) : t[b] # x) => ~RefLess(x, t[a])
        /\ \A x \in R : (\E j \in 1 .. i : t[j] = x) <=> x.hitIndex < next[x.shard]
    BY DEF Merged, MQ!LeastFirst
  <1>. HIDE DEF R
  <1>10. /\ \A j \in 1 .. i : j \in 1 .. (i + 1) /\ u[j] = t[j]
         /\ u[i + 1] = ref /\ \A j \in 1 .. (i + 1) : j \in 1 .. i \/ j = i + 1
    BY <1>0
  <1>11. \A j \in 1 .. i : t[j] # ref
    BY <1>5, <1>9
  <1>12. u \in [1 .. (i + 1) -> R]
    BY <1>0, <1>5, <1>9, <1>10
  <1>13. ASSUME NEW a \in 1 .. (i + 1), NEW b \in 1 .. (i + 1), u[a] = u[b] PROVE a = b
    BY <1>9, <1>10, <1>11, <1>13
  <1>14. ASSUME NEW x \in R, \A b \in 1 .. i : t[b] # x PROVE ~RefLess(x, ref)
    <2>. DEFINE s == x.shard
                k == x.hitIndex
                y == ShardRef(sh, flag, s, next[s])
    <2>1. s \in 1 .. N /\ k \in 1 .. Size(sh, s) /\ x = ShardRef(sh, flag, s, k) /\ x \in RefSet
      BY RefsAre DEF R
    <2>2. ~(k < next[s])
      BY <1>9, <1>14
    <2>3. next[s] \in 1 .. Size(sh, s) + 1 /\ Size(sh, s) \in Nat
      BY <2>1, AnswerParts DEF Merged
    <2>4. next[s] \in 1 .. Size(sh, s) /\ next[s] <= k
      BY <2>1, <2>2, <2>3
    <2>5. PICK j \in 1 .. q.size : q.heap[j] = y
      BY <1>2, <2>1, <2>4 DEF Queued
    <2>6. ~RefLess(y, ref)
      <3>1. ~RefLess(q.heap[j], q.heap[1])
        BY <1>3, RefsOrdered, MQ!TopLeast
      <3> QED BY <1>0, <2>5, <3>1, Zenon
    <2>7. ~RefLess(x, y)
      <3>1. ~RefLess(ShardRef(sh, flag, s, k), ShardRef(sh, flag, s, next[s]))
        BY <2>1, <2>4, LaterRefs
      <3> QED BY <2>1, <3>1, Zenon
    <2>8. y \in RefSet
      BY <2>1, <2>4, RefIs
    <2>9. \A a, b, c \in RefSet : RefLess(a, c) => RefLess(a, b) \/ RefLess(b, c)
      BY RefsOrdered, Zenon DEF MQ!Orders
    <2>. HIDE DEF y
    <2> QED BY <1>5, <2>1, <2>6, <2>7, <2>8, <2>9
  <1>15. ASSUME NEW a \in 1 .. (i + 1), NEW x \in R, \A b \in 1 .. (a - 1) : u[b] # x
         PROVE  ~RefLess(x, u[a])
    <2>1. CASE a \in 1 .. i
      <3>1. \A b \in 1 .. (a - 1) : b \in 1 .. i
        BY <2>1
      <3>2. \A b \in 1 .. (a - 1) : t[b] # x
        BY <1>10, <1>15, <3>1
      <3>3. ~RefLess(x, t[a])
        BY <1>9, <2>1, <3>2
      <3>4. t[a] = u[a]
        BY <1>10, <2>1
      <3> QED BY <3>3, <3>4, Zenon
    <2>2. CASE a = i + 1
      <3>1. a - 1 = i
        BY <2>2
      <3>2. \A b \in 1 .. i : t[b] # x
        BY <1>10, <1>15, <3>1
      <3>3. ~RefLess(x, ref) /\ u[a] = ref
        BY <1>10, <1>14, <2>2, <3>2
      <3> QED BY <3>3, Zenon
    <2> QED BY <1>10, <2>1, <2>2
  <1>16. MQ!LeastFirst(u, i + 1, R)
    BY <1>12, <1>13, <1>15, Zenon DEF MQ!LeastFirst
  <1>17. ASSUME NEW x \in R
         PROVE  (\E j \in 1 .. (i + 1) : u[j] = x) <=> x.hitIndex < after[x.shard]
    <2>1. /\ x.shard \in 1 .. N /\ x.hitIndex \in 1 .. Size(sh, x.shard)
          /\ x = ShardRef(sh, flag, x.shard, x.hitIndex)
      BY RefsAre DEF R
    <2>2. (\E j \in 1 .. (i + 1) : u[j] = x) <=> (\E j \in 1 .. i : t[j] = x) \/ x = ref
      BY <1>10
    <2>3. (\E j \in 1 .. i : t[j] = x) <=> x.hitIndex < next[x.shard]
      BY <1>9
    <2>4. x.hitIndex \in Nat
      <3>1. Size(sh, x.shard) \in Nat
        BY <2>1, AnswerParts
      <3> QED BY <2>1, <3>1
    <2>5. CASE x.shard = o
      <3>1. x = ref <=> x.hitIndex = next[o]
        BY <1>4, <1>5, <2>1, <2>5
      <3>2. next[x.shard] = next[o] /\ after[x.shard] = next[o] + 1
        BY <1>6, <2>5
      <3> QED BY <1>5, <2>2, <2>3, <2>4, <3>1, <3>2
    <2>6. CASE x.shard # o
      <3>1. x # ref /\ after[x.shard] = next[x.shard]
        BY <1>5, <1>6, <2>1, <2>6
      <3> QED BY <2>2, <2>3, <3>1
    <2> QED BY <2>5, <2>6
  <1>18. Merged(sh, flag, after, p, u, i + 1)
    BY <1>7, <1>8, <1>16, <1>17 DEF Merged, R
  <1> QED BY <1>18 DEF p, u, ref

(* S has counts[s] elements in row s.                                          *)
InRows(counts, S, row, col) ==
    /\ \A x \in S : row[x] \in 1 .. Len(counts) /\ col[x] \in 1 .. counts[row[x]]
    /\ \A x, y \in S : row[x] = row[y] /\ col[x] = col[y] => x = y
    /\ \A s \in 1 .. Len(counts) : \A i \in 1 .. counts[s] : \E x \in S : row[x] = s /\ col[x] = i

LEMMA CountedUp ==
    ASSUME NEW counts \in Seq(Nat), NEW S, NEW row, NEW col, InRows(counts, S, row, col)
    PROVE  IsFiniteSet(S) /\ Cardinality(S) = Sums(counts)[Len(counts)]
  <1>. DEFINE N == Len(counts)
              A == Sums(counts)
              total == A[N]
              T == 1 .. total
              f == [x \in S |-> A[row[x] - 1] + col[x]]
  <1>0. /\ \A x \in S : row[x] \in 1 .. Len(counts) /\ col[x] \in 1 .. counts[row[x]]
        /\ \A x, y \in S : row[x] = row[y] /\ col[x] = col[y] => x = y
        /\ \A s \in 1 .. Len(counts) : \A i \in 1 .. counts[s] : \E x \in S : row[x] = s /\ col[x] = i
    BY DEF InRows
  <1>1. /\ N \in Nat /\ A[0] = 0 /\ \A i \in 0 .. N : A[i] \in Nat
        /\ \A i \in 1 .. N : A[i] = A[i - 1] + counts[i]
        /\ \A i, j \in 0 .. N : i <= j => A[i] <= A[j]
        /\ \A i \in 1 .. N : counts[i] \in Nat
    <2>1. /\ A[0] = 0 /\ \A i \in 0 .. N : A[i] \in Nat
          /\ \A i \in 1 .. N : A[i] = A[i - 1] + counts[i]
          /\ \A i, j \in 0 .. N : i <= j => A[i] <= A[j]
      BY SumsAdd, Zenon
    <2>2. N \in Nat /\ \A i \in 1 .. N : counts[i] \in Nat
      OBVIOUS
    <2> QED BY <2>1, <2>2
  <1>. HIDE DEF N, A
  <1>2. total \in Nat
    BY <1>1
  <1>. DEFINE lo == [x \in S |-> A[row[x] - 1]]
              hi == [x \in S |-> A[row[x]]]
  <1>3. ASSUME NEW x \in S
        PROVE  /\ row[x] \in 1 .. N /\ row[x] \in Nat /\ lo[x] \in Nat /\ hi[x] \in Nat
               /\ hi[x] = lo[x] + counts[row[x]] /\ hi[x] <= total
               /\ lo[x] = A[row[x] - 1] /\ hi[x] = A[row[x]]
    <2>1. PICK s \in 1 .. N : s = row[x]
      BY <1>0 DEF N
    <2>2. s - 1 \in 0 .. N /\ s \in 0 .. N /\ s \in Nat /\ s <= N /\ N \in 0 .. N
      BY <1>1
    <2>3. lo[x] = A[s - 1] /\ hi[x] = A[s]
      BY <2>1
    <2>4. A[s - 1] \in Nat /\ A[s] \in Nat /\ A[s] = A[s - 1] + counts[s] /\ A[s] <= A[N]
      BY <1>1, <2>2
    <2>. HIDE DEF lo, hi
    <2> QED BY <2>1, <2>2, <2>3, <2>4
  <1>. HIDE DEF total, lo, hi
  <1>3a. ASSUME NEW x \in S
         PROVE  /\ col[x] \in Nat /\ col[x] >= 1 /\ f[x] = lo[x] + col[x] /\ f[x] \in Nat
                /\ f[x] <= hi[x] /\ f[x] \in T /\ f[x] > lo[x]
    <2>1. col[x] \in 1 .. counts[row[x]] /\ counts[row[x]] \in Nat
      BY <1>0, <1>1, <1>3
    <2>2. f[x] = lo[x] + col[x]
      BY <1>3
    <2>3. lo[x] \in Nat /\ hi[x] = lo[x] + counts[row[x]] /\ hi[x] <= total /\ hi[x] \in Nat
      BY <1>3
    <2>. HIDE DEF f
    <2>4. col[x] \in Nat /\ col[x] >= 1 /\ col[x] <= counts[row[x]]
      BY <2>1
    <2>5. lo[x] < lo[x] + col[x] /\ lo[x] + col[x] \in Nat /\ lo[x] + col[x] <= lo[x] + counts[row[x]]
      BY <2>1, <2>3, <2>4
    <2>6. f[x] \in Nat /\ f[x] <= hi[x] /\ f[x] > lo[x]
      BY <2>2, <2>3, <2>5
    <2>7. f[x] \in T
      BY <1>2, <2>3, <2>6
    <2> QED BY <2>2, <2>4, <2>6, <2>7
  <1>3b. ASSUME NEW x \in S, NEW y \in S, row[x] < row[y] PROVE hi[x] <= lo[y]
    <2>1. PICK s \in 1 .. N : s = row[x]
      BY <1>3
    <2>2. PICK r \in 1 .. N : r = row[y]
      BY <1>3
    <2>3. PICK k \in 0 .. N : k = r - 1 /\ s \in 0 .. N /\ s <= k
      <3>1. N \in Nat /\ s < r
        BY <1>1, <1>3b, <2>1, <2>2
      <3>2. r - 1 \in 0 .. N /\ s \in 0 .. N /\ s <= r - 1
        BY <2>1, <2>2, <3>1
      <3> QED BY <3>2
    <2>4. A[s] <= A[k]
      BY <1>1, <2>3
    <2> QED BY <1>3, <2>1, <2>2, <2>3, <2>4
  <1>4. f \in [S -> T]
    <2>1. \A x \in S : f[x] \in T
      BY <1>3a
    <2> QED BY <2>1
  <1>. HIDE DEF f
  <1>5. ASSUME NEW x \in S, NEW y \in S, f[x] = f[y] PROVE x = y
    <2>1. /\ f[x] = lo[x] + col[x] /\ f[x] <= hi[x] /\ f[x] > lo[x] /\ f[x] \in Nat
          /\ f[y] = lo[y] + col[y] /\ f[y] <= hi[y] /\ f[y] > lo[y]
          /\ col[x] \in Nat /\ col[y] \in Nat
      BY <1>3a
    <2>2. /\ lo[x] \in Nat /\ lo[y] \in Nat /\ hi[x] \in Nat /\ hi[y] \in Nat
          /\ row[x] \in Nat /\ row[y] \in Nat
      BY <1>3
    <2>3. ~(row[x] < row[y])
      BY <1>3b, <1>5, <2>1, <2>2
    <2>4. ~(row[y] < row[x])
      BY <1>3b, <1>5, <2>1, <2>2
    <2>5. row[x] = row[y]
      BY <2>2, <2>3, <2>4
    <2>6. lo[x] = lo[y]
      BY <1>3, <2>5
    <2>7. col[x] = col[y]
      <3>1. col[x] = f[x] - lo[x]
        BY <2>1, <2>2
      <3>2. col[y] = f[y] - lo[y]
        BY <2>1, <2>2
      <3> QED BY <1>5, <2>6, <3>1, <3>2, Zenon
    <2> QED BY <1>0, <2>5, <2>7
  <1>6. ASSUME NEW v \in T PROVE \E x \in S : f[x] = v
    <2>. DEFINE G == {s \in 0 .. N : v <= A[s]}
    <2>1. G \subseteq Nat /\ G # {}
      <3>1. N \in 0 .. N /\ v <= A[N]
        BY <1>1 DEF total
      <3>2. N \in G
        BY <3>1
      <3>3. G \subseteq Nat
        BY <1>1
      <3> QED BY <3>2, <3>3, Zenon
    <2>2. PICK s \in G : \A y \in G : s <= y
      <3>. HIDE DEF G
      <3> QED BY <2>1, LeastNat
    <2>3. v \in Nat /\ v >= 1
      BY <1>2
    <2>4. s \in 1 .. N /\ s - 1 \in 0 .. N /\ ~(s <= s - 1)
      <3>1. s # 0
        BY <1>1, <2>3
      <3> QED BY <1>1, <3>1
    <2>5. ~(v <= A[s - 1]) /\ v <= A[s]
      BY <2>2, <2>4
    <2>6. A[s] = A[s - 1] + counts[s] /\ A[s - 1] \in Nat /\ counts[s] \in Nat
      BY <1>1, <2>4
    <2>7. v - A[s - 1] \in 1 .. counts[s]
      BY <2>3, <2>5, <2>6
    <2>8. PICK x \in S : row[x] = s /\ col[x] = v - A[s - 1]
      BY <1>0, <2>4, <2>7 DEF N
    <2>9. f[x] = A[s - 1] + col[x]
      BY <1>3, <1>3a, <2>8
    <2> QED BY <2>3, <2>6, <2>8, <2>9
  <1>7. f \in Injection(S, T) /\ f \in Surjection(S, T)
    <2>. HIDE DEF T
    <2> QED BY <1>4, <1>5, <1>6 DEF Injection, IsInjective, Surjection
  <1>8. IsFiniteSet(T) /\ Cardinality(T) = total
    <2>1. 1 \in Int /\ total \in Int
      BY <1>2
    <2>2. IsFiniteSet(1 .. total) /\ Cardinality(1 .. total) = IF 1 > total THEN 0 ELSE total - 1 + 1
      BY <2>1, FS_Interval, Zenon
    <2> QED BY <1>2, <2>2
  <1>. HIDE DEF T
  <1>9. IsFiniteSet(S) /\ Cardinality(S) = Cardinality(T)
    BY <1>7, <1>8, FS_Injection
  <1> QED BY <1>8, <1>9 DEF total, A, N

LEMMA HitCountsAre ==
    ASSUME NEW sh, AreAnswers(sh)
    PROVE  /\ HitCounts(sh) \in Seq(Nat) /\ Len(HitCounts(sh)) = Len(sh)
           /\ \A s \in 1 .. Len(sh) : HitCounts(sh)[s] = Size(sh, s)
  <1>1. /\ Len(sh) \in Nat /\ DOMAIN sh = 1 .. Len(sh)
        /\ \A s \in 1 .. Len(sh) : Size(sh, s) \in Nat
    BY AnswerParts
  <1>. DEFINE n == Len(sh)
              c == HitCounts(sh)
  <1>2. c = [s \in 1 .. n |-> Size(sh, s)]
    BY <1>1 DEF HitCounts, Size
  <1>. HIDE DEF n, c
  <1>3. c \in [1 .. n -> Nat] /\ \A s \in 1 .. n : c[s] = Size(sh, s)
    BY <1>1, <1>2 DEF n
  <1> QED BY <1>1, <1>3 DEF n, c

LEMMA RefsCounted ==
    ASSUME NEW sh, AreAnswers(sh), NEW flag \in BOOLEAN
    PROVE  /\ IsFiniteSet(Refs(sh, flag))
           /\ Cardinality(Refs(sh, flag)) = Sums(HitCounts(sh))[Len(sh)]
           /\ Sums(HitCounts(sh))[Len(sh)] \in Nat
  <1>. DEFINE S == Refs(sh, flag)
              row == [x \in S |-> x.shard]
              col == [x \in S |-> x.hitIndex]
              c == HitCounts(sh)
  <1>1. c \in Seq(Nat) /\ Len(c) = Len(sh) /\ \A s \in 1 .. Len(sh) : c[s] = Size(sh, s)
    BY HitCountsAre
  <1>. HIDE DEF c
  <1>2. ASSUME NEW x \in S PROVE row[x] \in 1 .. Len(c) /\ col[x] \in 1 .. c[row[x]]
    <2>1. x.shard \in 1 .. Len(sh) /\ x.hitIndex \in 1 .. Size(sh, x.shard)
      BY RefsAre
    <2> QED BY <1>1, <2>1
  <1>3. ASSUME NEW x \in S, NEW y \in S, row[x] = row[y], col[x] = col[y] PROVE x = y
    <2>1. x = ShardRef(sh, flag, x.shard, x.hitIndex) /\ y = ShardRef(sh, flag, y.shard, y.hitIndex)
      BY RefsAre
    <2>2. x.shard = y.shard /\ x.hitIndex = y.hitIndex
      BY <1>3
    <2> QED BY <2>1, <2>2
  <1>4. ASSUME NEW s \in 1 .. Len(c), NEW i \in 1 .. c[s] PROVE \E x \in S : row[x] = s /\ col[x] = i
    <2>. DEFINE x == ShardRef(sh, flag, s, i)
    <2>1. s \in 1 .. Len(sh) /\ i \in 1 .. Size(sh, s)
      BY <1>1
    <2>2. x \in S /\ x.shard = s /\ x.hitIndex = i
      BY <2>1, RefIs
    <2>. HIDE DEF x, S
    <2> QED BY <2>2
  <1>. HIDE DEF row, col, S
  <1>5. IsFiniteSet(S) /\ Cardinality(S) = Sums(c)[Len(c)]
    <2>1. \A x, y \in S : row[x] = row[y] /\ col[x] = col[y] => x = y
      BY <1>3
    <2>2. \A x \in S : row[x] \in 1 .. Len(c) /\ col[x] \in 1 .. c[row[x]]
      BY <1>2
    <2>3. \A s \in 1 .. Len(c) : \A i \in 1 .. c[s] : \E x \in S : row[x] = s /\ col[x] = i
      BY <1>4
    <2>4. InRows(c, S, row, col)
      BY <2>1, <2>2, <2>3 DEF InRows
    <2> QED BY <1>1, <2>4, CountedUp
  <1>6. Sums(c)[Len(c)] \in Nat
    <2>1. Cardinality(S) \in Nat
      BY <1>5, FS_CardinalityType
    <2> QED BY <1>5, <2>1
  <1> QED BY <1>1, <1>5, <1>6 DEF S, c

LEMMA MergeGoesOn ==
    ASSUME NEW sh, AreAnswers(sh), NEW flag \in BOOLEAN, NEW next, NEW q, NEW t, NEW i \in Nat,
           Merged(sh, flag, next, q, t, i), i < Cardinality(Refs(sh, flag))
    PROVE  q.size >= 1
  <1>. DEFINE R == Refs(sh, flag)
              N == Len(sh)
  <1>1. N \in Nat /\ N \in 0 .. N /\ \A s \in 1 .. N : Size(sh, s) \in Nat
    BY AnswerParts
  <1>2. Queued(sh, flag, N, next, q)
    BY DEF Merged
  <1>3. q.size \in Nat
    BY <1>1, <1>2, QueuedIs
  <1>4. SUFFICES ASSUME q.size = 0 PROVE FALSE
    BY <1>3
  <1>5. t \in [1 .. i -> R] /\ \A x \in R : (\E j \in 1 .. i : t[j] = x) <=> x.hitIndex < next[x.shard]
    BY DEF Merged, MQ!LeastFirst
  <1>6. ASSUME NEW x \in R PROVE \E j \in 1 .. i : t[j] = x
    <2>1. x.shard \in 1 .. N /\ x.hitIndex \in 1 .. Size(sh, x.shard)
      BY RefsAre
    <2>2. next[x.shard] \in 1 .. Size(sh, x.shard) + 1 /\ next[x.shard] \notin 1 .. Size(sh, x.shard)
      <3>1. ~\E j \in 1 .. q.size : TRUE
        BY <1>4
      <3> QED BY <1>2, <2>1, <3>1 DEF Merged, Queued
    <2>3. x.hitIndex < next[x.shard]
      BY <1>1, <2>1, <2>2
    <2> QED BY <1>5, <2>3
  <1>. DEFINE D == 1 .. i
  <1>7. IsFiniteSet(D) /\ Cardinality(D) = i
    <2>1. 1 \in Int /\ i \in Int
      OBVIOUS
    <2>2. IsFiniteSet(1 .. i) /\ Cardinality(1 .. i) = IF 1 > i THEN 0 ELSE i - 1 + 1
      BY <2>1, FS_Interval, Zenon
    <2> QED BY <2>2
  <1>8. t \in Surjection(D, R)
    <2>. HIDE DEF R
    <2> QED BY <1>5, <1>6 DEF Surjection
  <1>. HIDE DEF D, R
  <1>9. IsFiniteSet(R) /\ Cardinality(R) <= Cardinality(D)
    BY <1>7, <1>8, FS_Surjection
  <1>10. Cardinality(R) \in Nat
    BY <1>9, FS_CardinalityType
  <1> QED BY <1>7, <1>9, <1>10 DEF R

-----------------------------------------------------------------------------
(* The two loops of the merge, as the functions that MergeRounds defines.      *)

FillStep(sh, flag, q, s) ==
    IF sh[s].scoreDocs = <<>> THEN q ELSE MergeQueue!Add(q, ShardRef(sh, flag, s, 1))
Fills(sh, flag, k, f) ==
    f = [s \in 0 .. k |-> IF s = 0 THEN MergeQueue!NewPriorityQueue(Len(sh), Sentinel)
                          ELSE FillStep(sh, flag, f[s - 1], s)]

(* The hit a reference stands for, with the shard index the merge gives it.    *)
Taken(sh, x) == [sh[x.shard].scoreDocs[x.hitIndex] EXCEPT !.shardIndex = x.shardIndex]

RoundStep(sh, flag, state) ==
    LET ref == MergeQueue!Top(state.queue)
    IN  [queue |-> IF ref.hitIndex < Len(sh[ref.shard].scoreDocs)
                   THEN MergeQueue!UpdateTop(state.queue, ShardRef(sh, flag, ref.shard, ref.hitIndex + 1))
                   ELSE MergeQueue!Popped(state.queue),
         hits |-> Append(state.hits, Taken(sh, ref))]
Rounds(sh, flag, first, k, g) ==
    g = [i \in 0 .. k |-> IF i = 0 THEN [queue |-> first, hits |-> <<>>]
                          ELSE RoundStep(sh, flag, g[i - 1])]

LEMMA FillsExist ==
    ASSUME NEW sh, NEW flag, NEW n \in Nat
    PROVE  \E f : Fills(sh, flag, n, f)
  <1>. DEFINE Bad == {k \in Nat : ~\E f : Fills(sh, flag, k, f)}
              start == MergeQueue!NewPriorityQueue(Len(sh), Sentinel)
              Step(q, s) == FillStep(sh, flag, q, s)
  <1>1. ASSUME NEW k \in Bad, \A j \in Bad : k <= j PROVE FALSE
    <2>1. CASE k = 0
      <3>. DEFINE f == [i \in 0 .. 0 |-> start]
      <3>1. Fills(sh, flag, 0, f)
        BY DEF Fills
      <3> QED BY <2>1, <3>1
    <2>2. CASE k # 0
      <3>1. k \in Nat /\ k - 1 \in Nat /\ ~(k <= k - 1)
        BY <2>2
      <3>2. PICK f : Fills(sh, flag, k - 1, f)
        BY <1>1, <3>1
      <3>. DEFINE g == [i \in 0 .. k |-> IF i = k THEN Step(f[k - 1], k) ELSE f[i]]
      <3>. HIDE DEF Step, start
      <3>3. ASSUME NEW i \in 0 .. k
            PROVE  g[i] = IF i = 0 THEN start ELSE Step(g[i - 1], i)
        <4>1. CASE i = k
          <5>1. g[i - 1] = f[k - 1] /\ g[i] = Step(f[k - 1], k) /\ i # 0
            BY <2>2, <3>1, <4>1
          <5> QED BY <4>1, <5>1
        <4>2. CASE i # k
          <5>1. i \in 0 .. (k - 1) /\ (i # 0 => i - 1 \in 0 .. k /\ i - 1 # k)
            BY <3>1, <4>2
          <5>2. g[i] = f[i] /\ (i # 0 => g[i - 1] = f[i - 1])
            BY <4>2, <5>1
          <5>3. f[i] = IF i = 0 THEN start ELSE Step(f[i - 1], i)
            BY <3>2, <5>1 DEF Fills, Step, start
          <5>4. CASE i = 0
            BY <5>2, <5>3, <5>4
          <5>5. CASE i # 0
            BY <5>2, <5>3, <5>5
          <5> QED BY <5>4, <5>5
        <4> QED BY <4>1, <4>2
      <3>4. g = [i \in 0 .. k |-> g[i]]
        OBVIOUS
      <3>. HIDE DEF g
      <3>5. Fills(sh, flag, k, g)
        BY <3>3, <3>4 DEF Fills, Step, start
      <3> QED BY <3>5
    <2> QED BY <2>1, <2>2
  <1>2. Bad = {}
    <2>1. Bad \subseteq Nat
      OBVIOUS
    <2>. HIDE DEF Bad
    <2> QED BY <1>1, <2>1, LeastNat
  <1> QED BY <1>2

LEMMA RoundsExist ==
    ASSUME NEW sh, NEW flag, NEW first, NEW n \in Nat
    PROVE  \E g : Rounds(sh, flag, first, n, g)
  <1>. DEFINE Bad == {k \in Nat : ~\E f : Rounds(sh, flag, first, k, f)}
              start == [queue |-> first, hits |-> <<>>]
              Step(state) == RoundStep(sh, flag, state)
  <1>1. ASSUME NEW k \in Bad, \A j \in Bad : k <= j PROVE FALSE
    <2>1. CASE k = 0
      <3>. DEFINE f == [i \in 0 .. 0 |-> start]
      <3>1. Rounds(sh, flag, first, 0, f)
        BY DEF Rounds
      <3> QED BY <2>1, <3>1
    <2>2. CASE k # 0
      <3>1. k \in Nat /\ k - 1 \in Nat /\ ~(k <= k - 1)
        BY <2>2
      <3>2. PICK f : Rounds(sh, flag, first, k - 1, f)
        BY <1>1, <3>1
      <3>. DEFINE g == [i \in 0 .. k |-> IF i = k THEN Step(f[k - 1]) ELSE f[i]]
      <3>. HIDE DEF Step, start
      <3>3. ASSUME NEW i \in 0 .. k
            PROVE  g[i] = IF i = 0 THEN start ELSE Step(g[i - 1])
        <4>1. CASE i = k
          <5>1. g[i - 1] = f[k - 1] /\ g[i] = Step(f[k - 1]) /\ i # 0
            BY <2>2, <3>1, <4>1
          <5> QED BY <4>1, <5>1
        <4>2. CASE i # k
          <5>1. i \in 0 .. (k - 1) /\ (i # 0 => i - 1 \in 0 .. k /\ i - 1 # k)
            BY <3>1, <4>2
          <5>2. g[i] = f[i] /\ (i # 0 => g[i - 1] = f[i - 1])
            BY <4>2, <5>1
          <5>3. f[i] = IF i = 0 THEN start ELSE Step(f[i - 1])
            BY <3>2, <5>1 DEF Rounds, Step, start
          <5>4. CASE i = 0
            BY <5>2, <5>3, <5>4
          <5>5. CASE i # 0
            BY <5>2, <5>3, <5>5
          <5> QED BY <5>4, <5>5
        <4> QED BY <4>1, <4>2
      <3>4. g = [i \in 0 .. k |-> g[i]]
        OBVIOUS
      <3>. HIDE DEF g
      <3>5. Rounds(sh, flag, first, k, g)
        BY <3>3, <3>4 DEF Rounds, Step, start
      <3> QED BY <3>5
    <2> QED BY <2>1, <2>2
  <1>2. Bad = {}
    <2>1. Bad \subseteq Nat
      OBVIOUS
    <2>. HIDE DEF Bad
    <2> QED BY <1>1, <2>1, LeastNat
  <1> QED BY <1>2

LEMMA MergeRoundsAre ==
    ASSUME NEW sh, Len(sh) \in Nat, NEW flag, NEW n \in Nat
    PROVE  \E f, g : /\ Fills(sh, flag, Len(sh), f) /\ Rounds(sh, flag, f[Len(sh)], n, g)
                     /\ MergeRounds(sh, flag, n) = g[n].hits
  <1>. DEFINE f == CHOOSE h : Fills(sh, flag, Len(sh), h)
              g == CHOOSE h : Rounds(sh, flag, f[Len(sh)], n, h)
  <1>1. MergeRounds(sh, flag, n) = g[n].hits
    BY DEF MergeRounds, Fills, Rounds, FillStep, RoundStep, Taken
  <1>2. Fills(sh, flag, Len(sh), f)
    <2>1. \E h : Fills(sh, flag, Len(sh), h)
      BY FillsExist
    <2> QED BY <2>1, Zenon
  <1>. HIDE DEF f
  <1>3. Rounds(sh, flag, f[Len(sh)], n, g)
    <2>1. \E h : Rounds(sh, flag, f[Len(sh)], n, h)
      BY RoundsExist
    <2> QED BY <2>1, Zenon
  <1> QED BY <1>1, <1>2, <1>3

LEMMA QueuedAdds ==
    ASSUME NEW sh, AreAnswers(sh), NEW flag \in BOOLEAN, NEW m \in 1 .. Len(sh), NEW next, next[m] = 1,
           NEW q, Queued(sh, flag, m - 1, next, q), q.size <= m - 1, Len(sh) <= q.maxSize,
           NEW p, p = FillStep(sh, flag, q, m)
    PROVE  Queued(sh, flag, m, next, p) /\ p.size <= m /\ p.maxSize = q.maxSize
  <1>. DEFINE n == q.size
              e == ShardRef(sh, flag, m, 1)
  <1>1. /\ Len(sh) \in Nat /\ m - 1 \in 0 .. Len(sh) /\ m \in Nat /\ Size(sh, m) \in Nat
        /\ sh[m].scoreDocs = <<>> <=> Size(sh, m) = 0
    BY AnswerParts
  <1>2. /\ n \in Nat /\ MQ!IsQueue(q) /\ MQ!HeapOrdered(q) /\ MQ!HoldsOnly(q, RefSet)
    BY <1>1, QueuedIs
  <1>3. /\ \A j \in 1 .. n : \E s \in 1 .. (m - 1) : /\ next[s] \in 1 .. Size(sh, s)
                                                     /\ q.heap[j] = ShardRef(sh, flag, s, next[s])
        /\ \A s \in 1 .. (m - 1) : next[s] \in 1 .. Size(sh, s) =>
                \E j \in 1 .. n : q.heap[j] = ShardRef(sh, flag, s, next[s])
        /\ \A j, k \in 1 .. n : q.heap[j] = q.heap[k] => j = k
    BY DEF Queued
  <1>4. /\ \A s \in 1 .. (m - 1) : s \in 1 .. m /\ s # m
        /\ \A s \in 1 .. m : s \in 1 .. (m - 1) \/ s = m
    BY <1>1
  <1>5. CASE Size(sh, m) = 0
    <2>1. p = q
      BY <1>1, <1>5 DEF FillStep
    <2>2. 1 \notin 1 .. Size(sh, m)
      BY <1>5
    <2>3. Queued(sh, flag, m, next, q)
      <3>1. \A j \in 1 .. q.size : \E s \in 1 .. m : /\ next[s] \in 1 .. Size(sh, s)
                                                     /\ q.heap[j] = ShardRef(sh, flag, s, next[s])
        BY <1>3, <1>4
      <3>2. \A s \in 1 .. m : next[s] \in 1 .. Size(sh, s) =>
                \E j \in 1 .. q.size : q.heap[j] = ShardRef(sh, flag, s, next[s])
        BY <1>3, <1>4, <2>2
      <3> QED BY <1>2, <1>3, <3>1, <3>2 DEF Queued
    <2> QED BY <1>1, <1>2, <2>1, <2>3
  <1>6. CASE Size(sh, m) # 0
    <2>1. 1 \in 1 .. Size(sh, m)
      BY <1>1, <1>6
    <2>2. e \in RefSet /\ e.shard = m
      BY <2>1, RefIs
    <2>3. p = MQ!Add(q, e)
      BY <1>1, <1>6, SameMerge DEF FillStep
    <2>4. next[m] \in 1 .. Size(sh, m) /\ e = ShardRef(sh, flag, m, next[m])
      BY <2>1
    <2>. HIDE DEF e
    <2>5. /\ MQ!IsQueue(p) /\ MQ!HeapOrdered(p) /\ p.size = n + 1 /\ p.maxSize = q.maxSize
          /\ \E perm : /\ MQ!Permutes(perm, n + 1)
                       /\ \A i \in 1 .. (n + 1) : p.heap[i] = IF perm[i] = n + 1 THEN e ELSE q.heap[perm[i]]
      <3>1. q.size < q.maxSize
        BY <1>1, <1>2 DEF MQ!IsQueue
      <3> QED BY <1>2, <2>2, <2>3, <3>1, RefsOrdered, MQ!AddRestores
    <2>6. PICK perm : /\ MQ!Permutes(perm, n + 1)
                      /\ \A i \in 1 .. (n + 1) : p.heap[i] = IF perm[i] = n + 1 THEN e ELSE q.heap[perm[i]]
      BY <2>5
    <2>. HIDE DEF n
    <2>7. /\ perm \in [1 .. (n + 1) -> 1 .. (n + 1)]
          /\ \A i, j \in 1 .. (n + 1) : perm[i] = perm[j] => i = j
          /\ \A k \in 1 .. (n + 1) : \E i \in 1 .. (n + 1) : perm[i] = k
      <3>1. MQ!Permutes(perm, n + 1)
        BY <2>6
      <3> QED BY <3>1, MergePermutesIs, Zenon
    <2>8. ASSUME NEW i \in 1 .. (n + 1)
          PROVE  \/ perm[i] = n + 1 /\ p.heap[i] = e
                 \/ perm[i] \in 1 .. n /\ p.heap[i] = q.heap[perm[i]]
      <3>1. perm[i] \in 1 .. (n + 1)
        BY <2>7
      <3>2. perm[i] # n + 1 => perm[i] \in 1 .. n
        BY <1>2, <3>1 DEF n
      <3> QED BY <2>6, <3>2
    <2>9. \A j \in 1 .. n : q.heap[j] # e
      <3>1. ASSUME NEW j \in 1 .. n, q.heap[j] = e PROVE FALSE
        <4>1. PICK s \in 1 .. (m - 1) : q.heap[j] = ShardRef(sh, flag, s, next[s])
          BY <1>3
        <4>2. ShardRef(sh, flag, s, next[s]).shard = s
          BY DEF ShardRef
        <4> QED BY <1>4, <2>2, <3>1, <4>1, <4>2
      <3> QED BY <3>1
    <2>10. ASSUME NEW j \in 1 .. (n + 1)
           PROVE  \E s \in 1 .. m : /\ next[s] \in 1 .. Size(sh, s)
                                    /\ p.heap[j] = ShardRef(sh, flag, s, next[s])
      <3>1. CASE p.heap[j] = e
        <4>1. m \in 1 .. m
          BY <1>1
        <4> QED BY <2>4, <3>1, <4>1
      <3>2. CASE perm[j] \in 1 .. n /\ p.heap[j] = q.heap[perm[j]]
        BY <1>3, <1>4, <3>2
      <3> QED BY <2>8, <3>1, <3>2
    <2>11. ASSUME NEW s \in 1 .. m, next[s] \in 1 .. Size(sh, s)
           PROVE  \E j \in 1 .. (n + 1) : p.heap[j] = ShardRef(sh, flag, s, next[s])
      <3>1. CASE s = m
        <4>1. n + 1 \in 1 .. (n + 1) /\ n + 1 \notin 1 .. n
          BY <1>2 DEF n
        <4>2. PICK j \in 1 .. (n + 1) : perm[j] = n + 1
          BY <2>7, <4>1
        <4>3. p.heap[j] = e
          BY <2>8, <4>1, <4>2
        <4> QED BY <2>4, <3>1, <4>3
      <3>2. CASE s \in 1 .. (m - 1)
        <4>1. PICK k \in 1 .. n : q.heap[k] = ShardRef(sh, flag, s, next[s])
          BY <1>3, <2>11, <3>2
        <4>2. k \in 1 .. (n + 1) /\ k # n + 1
          BY <1>2 DEF n
        <4>3. PICK j \in 1 .. (n + 1) : perm[j] = k
          BY <2>7, <4>2
        <4>4. p.heap[j] = q.heap[k]
          BY <2>8, <4>2, <4>3
        <4> QED BY <4>1, <4>4
      <3> QED BY <1>4, <3>1, <3>2
    <2>12. ASSUME NEW j \in 1 .. (n + 1), NEW k \in 1 .. (n + 1), p.heap[j] = p.heap[k] PROVE j = k
      <3>1. CASE perm[j] = n + 1 /\ perm[k] = n + 1
        BY <2>7, <3>1
      <3>2. CASE perm[j] \in 1 .. n /\ perm[k] \in 1 .. n /\ q.heap[perm[j]] = q.heap[perm[k]]
        <4>1. perm[j] = perm[k]
          BY <1>3, <3>2
        <4> QED BY <2>7, <4>1
      <3> QED BY <2>8, <2>9, <2>12, <3>1, <3>2
    <2>13. p.size = n + 1 /\ p.maxSize = q.maxSize /\ MQ!IsQueue(p) /\ MQ!HeapOrdered(p)
      BY <2>5
    <2>14. Queued(sh, flag, m, next, p)
      <3>1. /\ \A j \in 1 .. p.size : \E s \in 1 .. m : /\ next[s] \in 1 .. Size(sh, s)
                                                        /\ p.heap[j] = ShardRef(sh, flag, s, next[s])
            /\ \A s \in 1 .. m : next[s] \in 1 .. Size(sh, s) =>
                    \E j \in 1 .. p.size : p.heap[j] = ShardRef(sh, flag, s, next[s])
            /\ \A j, k \in 1 .. p.size : p.heap[j] = p.heap[k] => j = k
        BY <2>10, <2>11, <2>12, <2>13
      <3> QED BY <2>13, <3>1 DEF Queued
    <2> QED BY <1>1, <1>2, <2>13, <2>14 DEF n
  <1> QED BY <1>5, <1>6

LEMMA Filled ==
    ASSUME NEW sh, AreAnswers(sh), NEW flag \in BOOLEAN, NEW f, Fills(sh, flag, Len(sh), f),
           NEW ones, ones = [s \in 1 .. Len(sh) |-> 1]
    PROVE  Queued(sh, flag, Len(sh), ones, f[Len(sh)])
  <1>. DEFINE N == Len(sh)
              m == MergeQueue!Larger(2, N)
              Good(s) == Queued(sh, flag, s, ones, f[s]) /\ f[s].size <= s /\ f[s].maxSize = m
              Bad == {s \in 0 .. N : ~Good(s)}
  <1>1. N \in Nat
    BY AnswerParts
  <1>2. m \in Nat /\ m >= 1 /\ N <= m
    BY <1>1 DEF MergeQueue!Larger
  <1>3. /\ f[0] = MergeQueue!NewPriorityQueue(N, Sentinel)
        /\ \A s \in 1 .. N : f[s] = FillStep(sh, flag, f[s - 1], s)
    BY <1>1 DEF Fills
  <1>4. Good(0)
    <2>. DEFINE q == f[0]
    <2>1. q = [heap |-> [i \in 1 .. m |-> Sentinel], size |-> 0, maxSize |-> m]
      BY <1>3 DEF MergeQueue!NewPriorityQueue
    <2>. HIDE DEF q, m
    <2>2. q.size = 0 /\ q.maxSize = m /\ q.heap = [i \in 1 .. m |-> Sentinel]
          /\ q = [heap |-> q.heap, size |-> q.size, maxSize |-> q.maxSize]
      BY <2>1
    <2>3. q.heap = [i \in 1 .. q.maxSize |-> q.heap[i]]
      BY <2>2
    <2>4. MQ!IsQueue(q)
      BY <1>2, <2>2, <2>3 DEF MQ!IsQueue
    <2>5. MQ!HeapOrdered(q)
      BY <2>2 DEF MQ!HeapOrdered
    <2>6. Queued(sh, flag, 0, ones, q)
      BY <2>2, <2>4, <2>5 DEF Queued
    <2> QED BY <2>2, <2>6 DEF q
  <1>5. ASSUME NEW s \in 1 .. N, Good(s - 1) PROVE Good(s)
    <2>1. ones[s] = 1
      OBVIOUS
    <2>2. f[s] = FillStep(sh, flag, f[s - 1], s)
      BY <1>3
    <2>3. Len(sh) <= f[s - 1].maxSize
      BY <1>2, <1>5
    <2>. HIDE DEF m, N
    <2> QED BY <1>5, <2>1, <2>2, <2>3, QueuedAdds DEF N
  <1>. HIDE DEF Good, m
  <1>6. ASSUME NEW s \in Bad, \A j \in Bad : s <= j PROVE FALSE
    <2>1. s # 0
      BY <1>4, <1>6
    <2>2. s \in 1 .. N /\ s - 1 \in 0 .. N /\ ~(s <= s - 1)
      BY <1>1, <2>1
    <2>3. Good(s - 1)
      BY <1>6, <2>2
    <2> QED BY <1>5, <2>2, <2>3
  <1>7. Bad = {}
    <2>1. Bad \subseteq Nat
      BY <1>1
    <2>. HIDE DEF Bad
    <2> QED BY <1>6, <2>1, LeastNat
  <1>8. Good(N)
    <2>1. N \in 0 .. N
      BY <1>1
    <2> QED BY <1>7, <2>1
  <1> QED BY <1>8 DEF Good

(* The state of the loop after i rounds.                                       *)
AfterRounds(sh, flag, state, i) ==
    \E t : /\ \E next : Merged(sh, flag, next, state.queue, t, i)
           /\ state.hits = [j \in 1 .. i |-> Taken(sh, t[j])]

LEMMA RoundTaken ==
    ASSUME NEW sh, AreAnswers(sh), NEW flag \in BOOLEAN, NEW state, NEW i \in Nat,
           AfterRounds(sh, flag, state, i), i < Cardinality(Refs(sh, flag))
    PROVE  AfterRounds(sh, flag, RoundStep(sh, flag, state), i + 1)
  <1>1. PICK t : /\ \E next : Merged(sh, flag, next, state.queue, t, i)
                 /\ state.hits = [j \in 1 .. i |-> Taken(sh, t[j])]
    BY DEF AfterRounds
  <1>2. PICK next : Merged(sh, flag, next, state.queue, t, i)
    BY <1>1
  <1>. DEFINE q == state.queue
              ref == q.heap[1]
              p == QueueAfter(sh, flag, q, ref)
              u == Longer(t, i, ref)
  <1>3. RoundStep(sh, flag, state) = [queue |-> p, hits |-> Append(state.hits, Taken(sh, ref))]
    <2>1. MergeQueue!Top(q) = ref /\ MergeQueue!Popped(q) = MQ!Popped(q)
      BY SameMerge
    <2>2. \A e : MergeQueue!UpdateTop(q, e) = MQ!UpdateTop(q, e)
      BY SameMerge
    <2> QED BY <2>1, <2>2 DEF RoundStep, Size, QueueAfter
  <1>4. q.size >= 1
    BY <1>2, MergeGoesOn
  <1>5. u[i + 1] = ref /\ \A j \in 1 .. i : u[j] = t[j]
    BY DEF Longer
  <1>6. \E after : Merged(sh, flag, after, p, u, i + 1)
    BY <1>2, <1>4, MergedRound
  <1>. HIDE DEF p, u, ref
  <1>7. Append(state.hits, Taken(sh, ref)) = [j \in 1 .. (i + 1) |-> Taken(sh, u[j])]
    <2>. DEFINE s == state.hits
                e == Taken(sh, ref)
                w == [j \in 1 .. (i + 1) |-> Taken(sh, u[j])]
    <2>1. \A j \in 1 .. i : w[j] = s[j]
      BY <1>1, <1>5
    <2>2. w[i + 1] = e
      BY <1>5
    <2>3. s = [j \in 1 .. i |-> s[j]]
      BY <1>1
    <2>4. w = [j \in 1 .. (i + 1) |-> w[j]]
      OBVIOUS
    <2>. HIDE DEF s, e, w
    <2>5. Len(s) = i
      BY <2>3, LenIs
    <2>6. Append(s, e) = w
      <3>. DEFINE S == {s[j] : j \in 1 .. i} \cup {e}
                  a == Append(s, e)
      <3>1. s \in Seq(S) /\ e \in S
        BY <2>3
      <3>. HIDE DEF S
      <3>2. a \in Seq(S) /\ Len(a) = i + 1 /\ a[i + 1] = e /\ \A j \in 1 .. i : a[j] = s[j]
        BY <2>5, <3>1
      <3>. HIDE DEF a
      <3>3. a = [j \in 1 .. (i + 1) |-> a[j]]
        BY <3>2
      <3>4. \A j \in 1 .. (i + 1) : a[j] = w[j]
        <4>1. \A j \in 1 .. (i + 1) : j \in 1 .. i \/ j = i + 1
          OBVIOUS
        <4> QED BY <2>1, <2>2, <3>2, <4>1
      <3> QED BY <2>4, <3>3, <3>4 DEF a
    <2> QED BY <2>6 DEF s, e, w
  <1>8. RoundStep(sh, flag, state).queue = p /\ RoundStep(sh, flag, state).hits = [j \in 1 .. (i + 1) |-> Taken(sh, u[j])]
    BY <1>3, <1>7
  <1> QED BY <1>6, <1>8, Zenon DEF AfterRounds

(* The merge takes the first n references.                                     *)
LEMMA MergeTakes ==
    ASSUME NEW sh, AreAnswers(sh), NEW flag \in BOOLEAN, NEW n \in Nat,
           n <= Cardinality(Refs(sh, flag)), Cardinality(Refs(sh, flag)) \in Nat
    PROVE  \E t : /\ MQ!LeastFirst(t, n, Refs(sh, flag))
                  /\ MergeRounds(sh, flag, n) = [j \in 1 .. n |-> Taken(sh, t[j])]
  <1>. DEFINE N == Len(sh)
              ones == [s \in 1 .. N |-> 1]
              R == Refs(sh, flag)
  <1>1. N \in Nat /\ \A s \in 1 .. N : Size(sh, s) \in Nat
    BY AnswerParts
  <1>2. PICK f, g : /\ Fills(sh, flag, N, f) /\ Rounds(sh, flag, f[N], n, g)
                    /\ MergeRounds(sh, flag, n) = g[n].hits
    BY <1>1, MergeRoundsAre
  <1>3. /\ g[0] = [queue |-> f[N], hits |-> <<>>]
        /\ \A i \in 1 .. n : g[i] = RoundStep(sh, flag, g[i - 1])
    <2>1. \A i \in 0 .. n : g[i] = IF i = 0 THEN [queue |-> f[N], hits |-> <<>>]
                                   ELSE RoundStep(sh, flag, g[i - 1])
      BY <1>2 DEF Rounds
    <2>2. 0 \in 0 .. n /\ \A i \in 1 .. n : i \in 0 .. n /\ i # 0
      OBVIOUS
    <2> QED BY <2>1, <2>2
  <1>4. Queued(sh, flag, N, ones, f[N])
    BY <1>2, Filled
  <1>5. AfterRounds(sh, flag, g[0], 0)
    <2>. DEFINE t == [j \in 1 .. 0 |-> Sentinel]
    <2>1. \A s \in 1 .. N : ones[s] \in 1 .. Size(sh, s) + 1
      BY <1>1
    <2>2. MQ!LeastFirst(t, 0, R)
      BY DEF MQ!LeastFirst
    <2>3. ASSUME NEW x \in R PROVE ~(\E j \in 1 .. 0 : t[j] = x) /\ ~(x.hitIndex < ones[x.shard])
      <3>1. x.shard \in 1 .. N /\ x.hitIndex \in 1 .. Size(sh, x.shard)
        BY RefsAre
      <3>2. ones[x.shard] = 1
        BY <3>1
      <3> QED BY <1>1, <3>1, <3>2
    <2>. HIDE DEF t, ones, R
    <2>4. Merged(sh, flag, ones, f[N], t, 0)
      BY <1>4, <2>1, <2>2, <2>3 DEF Merged, R
    <2>5. g[0].queue = f[N] /\ g[0].hits = <<>>
      BY <1>3
    <2>6. <<>> = [j \in 1 .. 0 |-> Taken(sh, t[j])]
      OBVIOUS
    <2> QED BY <2>4, <2>5, <2>6 DEF AfterRounds
  <1>. DEFINE Bad == {i \in 0 .. n : ~AfterRounds(sh, flag, g[i], i)}
  <1>6. ASSUME NEW i \in Bad, \A j \in Bad : i <= j PROVE FALSE
    <2>1. i # 0
      BY <1>5, <1>6
    <2>2. i \in 1 .. n /\ i - 1 \in Nat /\ i - 1 \in 0 .. n /\ ~(i <= i - 1) /\ (i - 1) + 1 = i
          /\ i - 1 < Cardinality(R)
      BY <2>1
    <2>3. AfterRounds(sh, flag, g[i - 1], i - 1)
      BY <1>6, <2>2
    <2>4. AfterRounds(sh, flag, RoundStep(sh, flag, g[i - 1]), (i - 1) + 1)
      BY <2>2, <2>3, RoundTaken
    <2>5. AfterRounds(sh, flag, g[i], i)
      BY <1>3, <2>2, <2>4
    <2> QED BY <2>5
  <1>7. Bad = {}
    <2>1. Bad \subseteq Nat
      OBVIOUS
    <2>. HIDE DEF Bad
    <2> QED BY <1>6, <2>1, LeastNat
  <1>8. AfterRounds(sh, flag, g[n], n)
    BY <1>7
  <1>9. PICK t : /\ \E next : Merged(sh, flag, next, g[n].queue, t, n)
                 /\ g[n].hits = [j \in 1 .. n |-> Taken(sh, t[j])]
    BY <1>8 DEF AfterRounds
  <1>10. MQ!LeastFirst(t, n, R)
    BY <1>9 DEF Merged
  <1> QED BY <1>2, <1>9, <1>10

LEMMA TakenIs ==
    ASSUME NEW sh, AreAnswers(sh), NEW flag \in BOOLEAN, NEW x \in Refs(sh, flag)
    PROVE  /\ Taken(sh, x) = [doc |-> sh[x.shard].scoreDocs[x.hitIndex].doc, score |-> x.score,
                              shardIndex |-> x.shardIndex]
           /\ Taken(sh, x) \in Hits
  <1>. DEFINE h == sh[x.shard].scoreDocs[x.hitIndex]
  <1>1. /\ x.shard \in 1 .. Len(sh) /\ x.hitIndex \in 1 .. Size(sh, x.shard) /\ x \in RefSet
        /\ x = ShardRef(sh, flag, x.shard, x.hitIndex)
    BY RefsAre
  <1>2. h \in Hits
    BY <1>1, AnswerParts
  <1>3. x.score = h.score
    BY <1>1, RefIs
  <1>. HIDE DEF h
  <1>4. [h EXCEPT !.shardIndex = x.shardIndex] = [doc |-> h.doc, score |-> h.score, shardIndex |-> x.shardIndex]
    BY <1>2 DEF Hits
  <1>5. Taken(sh, x) = [doc |-> h.doc, score |-> x.score, shardIndex |-> x.shardIndex]
    BY <1>3, <1>4 DEF Taken, h
  <1>6. h.doc \in Int /\ x.score \in Int /\ x.shardIndex \in Int
    BY <1>1, <1>2 DEF Hits, RefSet
  <1> QED BY <1>5, <1>6 DEF Hits, h

RelationOf(sh) ==
    IF \E i \in DOMAIN sh : sh[i].relation = "GREATER_THAN_OR_EQUAL_TO"
    THEN "GREATER_THAN_OR_EQUAL_TO" ELSE "EQUAL_TO"

Reached(sh, flag, start, size, n) ==
    n = LET all == Cardinality(Refs(sh, flag))
        IN  IF all <= start THEN 0 ELSE IF all <= start + size THEN all ELSE start + size

(* The answer of a merge that took the n references t, if it is no error.      *)
MergeOf(sh, start, n, t) ==
    [totalHits |-> TotalHits(sh), relation |-> RelationOf(sh),
     scoreDocs |-> [i \in 1 .. (n - start) |-> Taken(sh, t[start + i])]]

MergeTook(sh, flag, start, size, n, t) ==
    /\ n \in Nat /\ Reached(sh, flag, start, size, n) /\ n <= Cardinality(Refs(sh, flag))
    /\ MQ!LeastFirst(t, n, Refs(sh, flag))
    /\ MergeTopDocs(start, size, sh, flag) =
           IF \E i \in 1 .. n : t[i].shardIndex = -1 THEN <<>> ELSE <<MergeOf(sh, start, n, t)>>

LEMMA MergeIs ==
    ASSUME NEW sh, AreAnswers(sh), NEW flag \in BOOLEAN, NEW start \in Nat, NEW size \in Nat
    PROVE  \E n, t : MergeTook(sh, flag, start, size, n, t)
  <1>. DEFINE all == Cardinality(Refs(sh, flag))
              n == IF all <= start THEN 0 ELSE Min({all, start + size})
              hits == MergeRounds(sh, flag, n)
  <1>1. all \in Nat /\ all = Sums(HitCounts(sh))[Len(sh)]
    BY RefsCounted
  <1>2. n = IF all <= start THEN 0 ELSE IF all <= start + size THEN all ELSE start + size
    <2>1. Min({all, start + size}) = IF all <= start + size THEN all ELSE start + size
      BY <1>1, TwoNumbers
    <2> QED BY <2>1
  <1>3. n \in Nat /\ n <= all
    BY <1>1, <1>2
  <1>4. Reached(sh, flag, start, size, n)
    BY <1>2 DEF Reached
  <1>5. MergeTopDocs(start, size, sh, flag) =
            IF \E i \in 1 .. n : hits[i].shardIndex = -1 THEN <<>>
            ELSE <<[totalHits |-> TotalHits(sh), relation |-> RelationOf(sh),
                    scoreDocs |-> SubSeq(hits, start + 1, n)]>>
    BY <1>1 DEF MergeTopDocs, RelationOf
  <1>. HIDE DEF n, all
  <1>6. PICK t : /\ MQ!LeastFirst(t, n, Refs(sh, flag))
                 /\ hits = [j \in 1 .. n |-> Taken(sh, t[j])]
    BY <1>1, <1>3, MergeTakes DEF all
  <1>. HIDE DEF hits
  <1>7. \A i \in 1 .. n : t[i] \in Refs(sh, flag) /\ hits[i] = Taken(sh, t[i])
    BY <1>6 DEF MQ!LeastFirst
  <1>8. \A i \in 1 .. n : hits[i].shardIndex = t[i].shardIndex
    <2>1. ASSUME NEW i \in 1 .. n PROVE hits[i].shardIndex = t[i].shardIndex
      <3>1. Taken(sh, t[i]).shardIndex = t[i].shardIndex
        BY <1>7, TakenIs
      <3> QED BY <1>7, <3>1
    <2> QED BY <2>1
  <1>9. SubSeq(hits, start + 1, n) = [i \in 1 .. (n - start) |-> Taken(sh, t[start + i])]
    <2>1. SubSeq(hits, start + 1, n) = [i \in 1 .. (1 + n - (start + 1)) |-> hits[i + (start + 1) - 1]]
      BY <1>3, SubSeqIs
    <2>2. 1 .. (1 + n - (start + 1)) = 1 .. (n - start)
      BY <1>3
    <2>3. ASSUME NEW i \in 1 .. (n - start) PROVE hits[i + (start + 1) - 1] = Taken(sh, t[start + i])
      <3>1. i + (start + 1) - 1 = start + i /\ start + i \in 1 .. n
        BY <1>3
      <3> QED BY <1>7, <3>1
    <2> QED BY <2>1, <2>2, <2>3
  <1>10. MergeTopDocs(start, size, sh, flag) =
            IF \E i \in 1 .. n : t[i].shardIndex = -1 THEN <<>> ELSE <<MergeOf(sh, start, n, t)>>
    <2>1. (\E i \in 1 .. n : hits[i].shardIndex = -1) <=> (\E i \in 1 .. n : t[i].shardIndex = -1)
      BY <1>8
    <2> QED BY <1>5, <1>9, <2>1 DEF MergeOf
  <1>11. MergeTook(sh, flag, start, size, n, t)
    BY <1>3, <1>4, <1>6, <1>10 DEF all, MergeTook
  <1> QED BY <1>11

(* The references of a single shard are taken in their order.                  *)
LEMMA OneShard ==
    ASSUME NEW sh, AreAnswers(sh), Len(sh) = 1, NEW flag \in BOOLEAN, NEW t,
           MQ!LeastFirst(t, Size(sh, 1), Refs(sh, flag))
    PROVE  \A i \in 1 .. Size(sh, 1) : t[i] = ShardRef(sh, flag, 1, i)
  <1>. DEFINE k == Size(sh, 1)
              R == Refs(sh, flag)
              ref(j) == ShardRef(sh, flag, 1, j)
  <1>3. k \in Nat /\ 1 \in 1 .. Len(sh)
    BY AnswerParts
  <1>7. ASSUME NEW j \in 1 .. k PROVE ref(j) \in R /\ ref(j).hitIndex = j
    <2>. DEFINE x == ref(j)
    <2>1. x = ShardRef(sh, flag, 1, j)
      OBVIOUS
    <2>. HIDE DEF x
    <2>2. x.hitIndex = j /\ x \in R
      BY <1>3, <2>1, RefIs
    <2> QED BY <2>2 DEF x
  <1>8. ASSUME NEW x \in R PROVE \E j \in 1 .. k : x = ref(j)
    <2>1. x.shard = 1 /\ x.hitIndex \in 1 .. k /\ x = ref(x.hitIndex)
      <3>1. /\ x.shard \in 1 .. Len(sh) /\ x.hitIndex \in 1 .. Size(sh, x.shard)
            /\ x = ShardRef(sh, flag, x.shard, x.hitIndex)
        BY RefsAre
      <3>2. x.shard = 1
        BY <3>1
      <3> QED BY <3>1, <3>2
    <2> QED BY <2>1
  <1>. DEFINE s == [j \in 1 .. k |-> ref(j)]
  <1>9. MQ!LeastFirst(s, k, R)
    <2>1. \A j \in 1 .. k : s[j] = ref(j)
      OBVIOUS
    <2>2. s \in [1 .. k -> R]
      BY <1>7
    <2>3. \A i, j \in 1 .. k : s[i] = s[j] => i = j
      BY <1>7
    <2>4. ASSUME NEW i \in 1 .. k, NEW x \in R, \A j \in 1 .. (i - 1) : s[j] # x
          PROVE  ~RefLess(x, s[i])
      <3>1. PICK j \in 1 .. k : x = ref(j)
        BY <1>8
      <3>2. i <= j
        <4>1. SUFFICES ASSUME j \in 1 .. (i - 1) PROVE FALSE
          BY <1>3
        <4> QED BY <2>1, <2>4, <3>1, <4>1
      <3>3. ~RefLess(ref(j), ref(i))
        BY <1>3, <3>2, LaterRefs
      <3>4. s[i] = ref(i)
        BY <2>1
      <3>. HIDE DEF s, ref
      <3> QED BY <3>1, <3>3, <3>4, Zenon
    <2>. HIDE DEF s, ref
    <2> QED BY <2>2, <2>3, <2>4, Zenon DEF MQ!LeastFirst
  <1>10. ASSUME NEW i \in 1 .. k PROVE t[i] = ref(i)
    <2>1. R \subseteq RefSet
      BY RefsAre
    <2>2. MQ!LeastFirst(t, k, R)
      OBVIOUS
    <2>. HIDE DEF k, R, s
    <2>3. ~RefLess(s[i], t[i]) /\ ~RefLess(t[i], s[i])
      <3>1. ~RefLess(s[i], t[i])
        BY <1>3, <1>9, <2>1, <2>2, RefsOrdered, MQ!RankingsAgree
      <3>2. ~RefLess(t[i], s[i])
        BY <1>3, <1>9, <2>1, <2>2, RefsOrdered, MQ!RankingsAgree
      <3> QED BY <3>1, <3>2
    <2>4. t[i] \in R
      BY <2>2 DEF MQ!LeastFirst
    <2>5. PICK j \in 1 .. k : t[i] = ref(j)
      BY <1>8, <2>4
    <2>6. s[i] = ref(i)
      BY DEF s
    <2>7. ~RefLess(ref(i), ref(j)) /\ ~RefLess(ref(j), ref(i))
      BY <2>3, <2>5, <2>6, Zenon
    <2>8. i < j => RefLess(ref(i), ref(j))
      BY <1>3, LaterRefs DEF k
    <2>9. j < i => RefLess(ref(j), ref(i))
      BY <1>3, LaterRefs DEF k
    <2>10. i = j
      <3>. HIDE DEF ref
      <3> QED BY <1>3, <2>7, <2>8, <2>9
    <2> QED BY <2>5, <2>10
  <1> QED BY <1>10

LEMMA OneShardCounts ==
    ASSUME NEW sh, AreAnswers(sh), Len(sh) = 1, NEW flag \in BOOLEAN
    PROVE  Cardinality(Refs(sh, flag)) = Size(sh, 1) /\ Size(sh, 1) \in Nat
  <1>. DEFINE k == Size(sh, 1)
              R == Refs(sh, flag)
              c == HitCounts(sh)
  <1>0. 1 \in 1 .. Len(sh) /\ k \in Nat
    <2>1. 1 \in 1 .. Len(sh)
      OBVIOUS
    <2> QED BY <2>1, AnswerParts, Zenon
  <1>1. c \in Seq(Nat) /\ Len(c) = 1 /\ c[1] = k
    BY <1>0, HitCountsAre
  <1>2. Cardinality(R) = Sums(c)[1]
    BY RefsCounted
  <1>. HIDE DEF c, k, R
  <1>3. Sums(c)[0] = 0 /\ \A i \in 1 .. Len(c) : Sums(c)[i] = Sums(c)[i - 1] + c[i]
    BY <1>1, SumsAdd, Zenon
  <1>4. Sums(c)[1] = Sums(c)[0] + c[1]
    BY <1>1, <1>3
  <1> QED BY <1>0, <1>1, <1>2, <1>3, <1>4 DEF k, R

(* The merge of one answer, as Reduce does it, gives the same answer with      *)
(* shard index 0.                                                              *)
LEMMA OneAnswer ==
    ASSUME NEW td \in Answers, Descending(td.scoreDocs),
           NEW size \in Nat, Len(td.scoreDocs) <= size
    PROVE  \E h \in Answers :
             /\ MergeTopDocs(0, size, <<td>>, TRUE) = <<h>>
             /\ h.totalHits = td.totalHits /\ h.relation = td.relation
             /\ h.scoreDocs = [i \in 1 .. Len(td.scoreDocs) |->
                                [doc |-> td.scoreDocs[i].doc, score |-> td.scoreDocs[i].score,
                                 shardIndex |-> 0]]
  <1>. DEFINE flag == TRUE
              sh == <<td>>
              k == Len(td.scoreDocs)
              R == Refs(sh, flag)
              ref(j) == ShardRef(sh, flag, 1, j)
  <1>1. Len(sh) = 1 /\ sh[1] = td /\ DOMAIN sh = {1} /\ sh \in Seq(Answers)
    OBVIOUS
  <1>2. AreAnswers(sh)
    BY <1>1 DEF AreAnswers
  <1>0. flag \in BOOLEAN
    OBVIOUS
  <1>. HIDE DEF sh, flag
  <1>3. Size(sh, 1) = k /\ k \in Nat /\ 1 \in 1 .. Len(sh)
    <2>1. Size(sh, 1) \in Nat /\ Size(sh, 1) = k
      BY <1>1, <1>2, AnswerParts DEF Size
    <2> QED BY <1>1, <2>1
  <1>4. Cardinality(R) = k
    BY <1>0, <1>1, <1>2, <1>3, OneShardCounts
  <1>5a. PICK n, t : MergeTook(sh, flag, 0, size, n, t)
    BY <1>0, <1>2, MergeIs
  <1>5. /\ n \in Nat /\ Reached(sh, flag, 0, size, n) /\ MQ!LeastFirst(t, n, R)
        /\ MergeTopDocs(0, size, sh, flag) =
               IF \E i \in 1 .. n : t[i].shardIndex = -1 THEN <<>> ELSE <<MergeOf(sh, 0, n, t)>>
    BY <1>5a DEF MergeTook
  <1>6. n = k
    <2>1. k <= size
      OBVIOUS
    <2>. HIDE DEF k
    <2> QED BY <1>3, <1>4, <1>5, <2>1 DEF Reached
  <1>7. ASSUME NEW j \in 1 .. k
        PROVE  /\ ref(j) \in R /\ ref(j).hitIndex = j /\ ref(j).shard = 1 /\ ref(j).shardIndex = 0
               /\ ref(j).score = td.scoreDocs[j].score
    <2>1. j \in 1 .. Size(sh, 1)
      BY <1>3
    <2>2. ref(j) \in R
      BY <1>3, <2>1 DEF Refs
    <2>3. ref(j) = [shard |-> 1, hitIndex |-> j, score |-> td.scoreDocs[j].score, shardIndex |-> 1 - 1]
      BY <1>1 DEF ShardRef, flag
    <2> QED BY <2>2, <2>3
  <1>10. ASSUME NEW i \in 1 .. k PROVE t[i] = ref(i)
    <2>1. MQ!LeastFirst(t, Size(sh, 1), R)
      BY <1>3, <1>5, <1>6
    <2> QED BY <1>0, <1>1, <1>2, <1>3, <2>1, OneShard
  <1>11. ~\E i \in 1 .. n : t[i].shardIndex = -1
    BY <1>6, <1>7, <1>10
  <1>. DEFINE h == MergeOf(sh, 0, n, t)
              docs == [i \in 1 .. k |-> [doc |-> td.scoreDocs[i].doc, score |-> td.scoreDocs[i].score,
                                         shardIndex |-> 0]]
  <1>12. h.scoreDocs = docs
    <2>1. h.scoreDocs = [i \in 1 .. (n - 0) |-> Taken(sh, t[0 + i])]
      BY DEF MergeOf
    <2>2. n - 0 = k
      BY <1>3, <1>6
    <2>3. ASSUME NEW i \in 1 .. k
          PROVE  Taken(sh, t[0 + i]) = [doc |-> td.scoreDocs[i].doc, score |-> td.scoreDocs[i].score,
                                        shardIndex |-> 0]
      <3>. DEFINE x == ref(i)
      <3>1. t[0 + i] = x /\ x \in R
        BY <1>3, <1>7, <1>10
      <3>2. x.hitIndex = i /\ x.shard = 1 /\ x.shardIndex = 0 /\ x.score = td.scoreDocs[i].score
        BY <1>7
      <3>. HIDE DEF x
      <3>3. Taken(sh, x) = [doc |-> sh[x.shard].scoreDocs[x.hitIndex].doc, score |-> x.score,
                            shardIndex |-> x.shardIndex]
        BY <1>0, <1>2, <3>1, TakenIs
      <3> QED BY <1>1, <3>1, <3>2, <3>3
    <2> QED BY <2>1, <2>2, <2>3
  <1>13. h.totalHits = td.totalHits
    <2>. DEFINE c == [s_1 \in DOMAIN sh |-> sh[s_1].totalHits]
    <2>1. td.totalHits \in Nat
      BY DEF Answers
    <2>2. c \in Seq(Nat) /\ Len(c) = 1 /\ c[1] = td.totalHits
      <3>1. DOMAIN sh = 1 .. 1
        BY <1>1
      <3>2. c = [i \in 1 .. 1 |-> td.totalHits]
        BY <1>1, <3>1
      <3>. HIDE DEF c
      <3> QED BY <2>1, <3>2
    <2>3. h.totalHits = Sums(c)[1]
      BY <1>1 DEF MergeOf, TotalHits
    <2>. HIDE DEF c
    <2>4. Sums(c)[0] = 0 /\ \A i \in 1 .. Len(c) : Sums(c)[i] = Sums(c)[i - 1] + c[i]
      BY <2>2, SumsAdd, Zenon
    <2>5. Sums(c)[1] = Sums(c)[0] + c[1]
      BY <2>2, <2>4
    <2> QED BY <2>1, <2>2, <2>3, <2>4, <2>5
  <1>14. h.relation = td.relation
    <2>1. td.relation \in Relations
      BY DEF Answers
    <2>2. h.relation = RelationOf(sh)
      BY DEF MergeOf
    <2> QED BY <1>1, <2>1, <2>2 DEF RelationOf, Relations
  <1>15. h \in Answers
    <2>1. h = [totalHits |-> h.totalHits, relation |-> h.relation, scoreDocs |-> h.scoreDocs]
      BY DEF MergeOf
    <2>2. docs \in Seq(Hits)
      <3>1. ASSUME NEW i \in 1 .. k
            PROVE  [doc |-> td.scoreDocs[i].doc, score |-> td.scoreDocs[i].score, shardIndex |-> 0] \in Hits
        <4>1. sh[1].scoreDocs[i].score \in Int /\ sh[1].scoreDocs[i].doc \in Int
          BY <1>2, <1>3, AnswerParts
        <4> QED BY <1>1, <4>1 DEF Hits
      <3>2. docs \in [1 .. k -> Hits]
        BY <3>1
      <3>. HIDE DEF docs, k
      <3> QED BY <1>3, <3>2
    <2>3. td.totalHits \in Nat /\ td.relation \in Relations
      BY DEF Answers
    <2>. HIDE DEF h, docs
    <2> QED BY <1>12, <1>13, <1>14, <2>1, <2>2, <2>3 DEF Answers
  <1>16. MergeTopDocs(0, size, <<td>>, TRUE) = <<h>>
    BY <1>5, <1>11 DEF sh, flag
  <1>. HIDE DEF h
  <1> QED BY <1>12, <1>13, <1>14, <1>15, <1>16

-----------------------------------------------------------------------------
(* What the merge takes against the ranking of all hits.                      *)

ScoreAbove(a, b) == a.score > b.score

MR == INSTANCE HeapProofs WITH LessThan <- MergesBefore, None <- Sentinel
SQ == INSTANCE HeapProofs WITH LessThan <- ScoreAbove, None <- Sentinel

HitAt(sh, s, i) == [shard |-> s, rank |-> i, score |-> sh[s].scoreDocs[i].score,
                    doc |-> sh[s].scoreDocs[i].doc]
HitsOfAll(sh) == UNION {{HitAt(sh, s, i) : i \in DOMAIN sh[s].scoreDocs} : s \in DOMAIN sh}
HitFor(sh, x) == HitAt(sh, x.shard, x.hitIndex)
AnyHits == [shard : Int, rank : Int, score : Int, doc : Int]

LEMMA HitsOfAllAre ==
    ASSUME NEW sh, AreAnswers(sh)
    PROVE  /\ \A h \in HitsOfAll(sh) :
                /\ h.shard \in 1 .. Len(sh) /\ h.rank \in 1 .. Size(sh, h.shard)
                /\ h = HitAt(sh, h.shard, h.rank) /\ h \in AnyHits
           /\ \A s \in 1 .. Len(sh) : \A i \in 1 .. Size(sh, s) :
                /\ HitAt(sh, s, i) \in HitsOfAll(sh)
                /\ HitAt(sh, s, i).shard = s /\ HitAt(sh, s, i).rank = i
  <1>1. /\ Len(sh) \in Nat /\ DOMAIN sh = 1 .. Len(sh)
        /\ \A s \in 1 .. Len(sh) : Size(sh, s) \in Nat /\ DOMAIN sh[s].scoreDocs = 1 .. Size(sh, s)
    BY AnswerParts
  <1>2. ASSUME NEW h \in HitsOfAll(sh)
        PROVE  /\ h.shard \in 1 .. Len(sh) /\ h.rank \in 1 .. Size(sh, h.shard)
               /\ h = HitAt(sh, h.shard, h.rank) /\ h \in AnyHits
    <2>1. PICK s \in 1 .. Len(sh) : \E i \in 1 .. Size(sh, s) : h = HitAt(sh, s, i)
      BY <1>1 DEF HitsOfAll
    <2>2. PICK i \in 1 .. Size(sh, s) : h = HitAt(sh, s, i)
      BY <2>1
    <2>3. h.shard = s /\ h.rank = i
      BY <2>2 DEF HitAt
    <2>4. sh[s].scoreDocs[i].score \in Int /\ sh[s].scoreDocs[i].doc \in Int /\ s \in Int /\ i \in Int
      BY <1>1, AnswerParts
    <2>5. h \in AnyHits
      BY <2>2, <2>4 DEF HitAt, AnyHits
    <2> QED BY <2>2, <2>3, <2>5
  <1>3. ASSUME NEW s \in 1 .. Len(sh), NEW i \in 1 .. Size(sh, s)
        PROVE  /\ HitAt(sh, s, i) \in HitsOfAll(sh)
               /\ HitAt(sh, s, i).shard = s /\ HitAt(sh, s, i).rank = i
    <2>1. HitAt(sh, s, i) \in HitsOfAll(sh)
      <3>1. s \in DOMAIN sh /\ i \in DOMAIN sh[s].scoreDocs
        BY <1>1
      <3>2. HitAt(sh, s, i) \in {HitAt(sh, s, j) : j \in DOMAIN sh[s].scoreDocs}
        BY <3>1
      <3> QED BY <3>1, <3>2, Zenon DEF HitsOfAll
    <2> QED BY <2>1 DEF HitAt
  <1> QED BY <1>2, <1>3

LEMMA HitsCounted ==
    ASSUME NEW sh, AreAnswers(sh)
    PROVE  /\ IsFiniteSet(HitsOfAll(sh))
           /\ Cardinality(HitsOfAll(sh)) = Sums(HitCounts(sh))[Len(sh)]
  <1>. DEFINE S == HitsOfAll(sh)
              row == [x \in S |-> x.shard]
              col == [x \in S |-> x.rank]
              c == HitCounts(sh)
  <1>1. c \in Seq(Nat) /\ Len(c) = Len(sh) /\ \A s \in 1 .. Len(sh) : c[s] = Size(sh, s)
    BY HitCountsAre
  <1>. HIDE DEF c
  <1>2. ASSUME NEW x \in S PROVE row[x] \in 1 .. Len(c) /\ col[x] \in 1 .. c[row[x]]
    <2>1. x.shard \in 1 .. Len(sh) /\ x.rank \in 1 .. Size(sh, x.shard)
      BY HitsOfAllAre
    <2> QED BY <1>1, <2>1
  <1>3. ASSUME NEW x \in S, NEW y \in S, row[x] = row[y], col[x] = col[y] PROVE x = y
    <2>1. x = HitAt(sh, x.shard, x.rank) /\ y = HitAt(sh, y.shard, y.rank)
      BY HitsOfAllAre
    <2>2. x.shard = y.shard /\ x.rank = y.rank
      BY <1>3
    <2> QED BY <2>1, <2>2
  <1>4. ASSUME NEW s \in 1 .. Len(c), NEW i \in 1 .. c[s] PROVE \E x \in S : row[x] = s /\ col[x] = i
    <2>. DEFINE x == HitAt(sh, s, i)
    <2>1. s \in 1 .. Len(sh) /\ i \in 1 .. Size(sh, s)
      BY <1>1
    <2>2. x \in S /\ x.shard = s /\ x.rank = i
      BY <2>1, HitsOfAllAre
    <2>. HIDE DEF x, S
    <2> QED BY <2>2
  <1>. HIDE DEF row, col, S
  <1>5. InRows(c, S, row, col)
    <2>1. \A x, y \in S : row[x] = row[y] /\ col[x] = col[y] => x = y
      BY <1>3
    <2>2. \A x \in S : row[x] \in 1 .. Len(c) /\ col[x] \in 1 .. c[row[x]]
      BY <1>2
    <2>3. \A s \in 1 .. Len(c) : \A i \in 1 .. c[s] : \E x \in S : row[x] = s /\ col[x] = i
      BY <1>4
    <2> QED BY <2>1, <2>2, <2>3 DEF InRows
  <1> QED BY <1>1, <1>5, CountedUp DEF S, c

(* MergesBefore ranks all hits.                                                *)
LEMMA AllRanked ==
    ASSUME NEW sh, AreAnswers(sh), NEW S, S = HitsOfAll(sh), NEW c, c = Cardinality(S)
    PROVE  /\ c \in Nat /\ MR!Orders(S) /\ SQ!Orders(S)
           /\ \A a, b \in S : ~MergesBefore(a, b) /\ ~MergesBefore(b, a) => a = b
           /\ MR!LeastFirst(RankedBy(S, MergesBefore), c, S)
           /\ SQ!LeastFirst(RankedBy(S, MergesBefore), c, S)
  <1>1. \A a \in S : a.score \in Int /\ a.shard \in Int /\ a.rank \in Int /\ a = HitAt(sh, a.shard, a.rank)
    <2>1. \A a \in S : a \in AnyHits /\ a = HitAt(sh, a.shard, a.rank)
      BY HitsOfAllAre
    <2> QED BY <2>1 DEF AnyHits
  <1>2. ASSUME NEW a \in S, NEW b \in S, NEW d \in S
        PROVE  /\ ~MergesBefore(a, a)
               /\ MergesBefore(a, b) /\ MergesBefore(b, d) => MergesBefore(a, d)
               /\ MergesBefore(a, d) => MergesBefore(a, b) \/ MergesBefore(b, d)
    <2>1. /\ a.score \in Int /\ b.score \in Int /\ d.score \in Int
          /\ a.shard \in Int /\ b.shard \in Int /\ d.shard \in Int
          /\ a.rank \in Int /\ b.rank \in Int /\ d.rank \in Int
      BY <1>1
    <2> QED BY <2>1 DEF MergesBefore
  <1>3. ASSUME NEW a \in S, NEW b \in S, NEW d \in S
        PROVE  /\ ~ScoreAbove(a, a)
               /\ ScoreAbove(a, b) /\ ScoreAbove(b, d) => ScoreAbove(a, d)
               /\ ScoreAbove(a, d) => ScoreAbove(a, b) \/ ScoreAbove(b, d)
    <2>1. /\ a.score \in Int /\ b.score \in Int /\ d.score \in Int
      BY <1>1
    <2> QED BY <2>1 DEF ScoreAbove
  <1>4. ASSUME NEW a \in S, NEW b \in S PROVE a = b \/ MergesBefore(a, b) \/ MergesBefore(b, a)
    <2>1. /\ a.score \in Int /\ b.score \in Int /\ a.shard \in Int /\ b.shard \in Int
          /\ a.rank \in Int /\ b.rank \in Int
      BY <1>1
    <2>2. a.shard = b.shard /\ a.rank = b.rank => a = b
      BY <1>1
    <2> QED BY <2>1, <2>2 DEF MergesBefore
  <1>5. MR!Orders(S)
    BY <1>2, Zenon DEF MR!Orders
  <1>6. SQ!Orders(S)
    BY <1>3, Zenon DEF SQ!Orders
  <1>7. MR!Separates(S)
    BY <1>4, Zenon DEF MR!Separates
  <1>8. \A T : MR!Cardinality(T) = Cardinality(T) /\ (MR!IsFiniteSet(T) <=> IsFiniteSet(T))
    BY Zenon DEF Cardinality, IsFiniteSet, MR!Cardinality, MR!IsFiniteSet
  <1>9. RankedBy(S, MergesBefore) = MR!Ranking(S)
    <2>1. \A x : MR!Before(S, x) = {y \in S : MergesBefore(y, x)}
      BY DEF MR!Before
    <2>2. \A x : MR!Cardinality(MR!Before(S, x)) = Cardinality({y \in S : MergesBefore(y, x)})
      BY <1>8, <2>1
    <2>3. MR!Cardinality(S) = Cardinality(S)
      BY <1>8
    <2> QED BY <2>2, <2>3 DEF RankedBy, MR!Ranking
  <1>10. c \in Nat /\ MR!LeastFirst(RankedBy(S, MergesBefore), c, S)
    <2>1. MR!IsFiniteSet(S) /\ MR!Cardinality(S) = c
      BY <1>8, HitsCounted
    <2>2. MR!Cardinality(S) \in Nat /\ MR!LeastFirst(MR!Ranking(S), MR!Cardinality(S), S)
      BY <1>5, <1>7, <2>1, MR!RankingIsLeastFirst
    <2> QED BY <1>9, <2>1, <2>2
  <1>11. SQ!LeastFirst(RankedBy(S, MergesBefore), c, S)
    <2>. DEFINE e == RankedBy(S, MergesBefore)
    <2>1. /\ e \in [1 .. c -> S]
          /\ \A i, j \in 1 .. c : e[i] = e[j] => i = j
          /\ \A i \in 1 .. c : \A x \in S : (\A j \in 1 .. (i - 1) : e[j] # x) => ~MergesBefore(x, e[i])
      BY <1>10, Zenon DEF MR!LeastFirst
    <2>. HIDE DEF e
    <2>2. \A a, b : ScoreAbove(a, b) => MergesBefore(a, b)
      BY DEF ScoreAbove, MergesBefore
    <2>3. \A i \in 1 .. c : \A x \in S : (\A j \in 1 .. (i - 1) : e[j] # x) => ~ScoreAbove(x, e[i])
      BY <2>1, <2>2, Zenon
    <2> QED BY <2>1, <2>3, Zenon DEF SQ!LeastFirst, e
  <1> QED BY <1>4, <1>5, <1>6, <1>10, <1>11

LEMMA HitForIs ==
    ASSUME NEW sh, AreAnswers(sh), NEW flag \in BOOLEAN
    PROVE  /\ \A x \in Refs(sh, flag) :
                /\ HitFor(sh, x) \in HitsOfAll(sh)
                /\ HitFor(sh, x).shard = x.shard /\ HitFor(sh, x).rank = x.hitIndex
                /\ HitFor(sh, x).score = x.score /\ HitFor(sh, x).doc = Taken(sh, x).doc
                /\ x.score = Taken(sh, x).score /\ x.shard \in Int /\ x.hitIndex \in Int /\ x.score \in Int
           /\ \A x, y \in Refs(sh, flag) : HitFor(sh, x) = HitFor(sh, y) => x = y
           /\ \A h \in HitsOfAll(sh) : \E x \in Refs(sh, flag) : HitFor(sh, x) = h
  <1>1. ASSUME NEW x \in Refs(sh, flag)
        PROVE  /\ HitFor(sh, x) \in HitsOfAll(sh)
               /\ HitFor(sh, x).shard = x.shard /\ HitFor(sh, x).rank = x.hitIndex
               /\ HitFor(sh, x).score = x.score /\ HitFor(sh, x).doc = Taken(sh, x).doc
               /\ x.score = Taken(sh, x).score
               /\ x.shard \in Int /\ x.hitIndex \in Int /\ x.score \in Int
    <2>1. /\ x.shard \in 1 .. Len(sh) /\ x.hitIndex \in 1 .. Size(sh, x.shard)
          /\ x = ShardRef(sh, flag, x.shard, x.hitIndex) /\ x \in RefSet
      BY RefsAre
    <2>2. x.score = sh[x.shard].scoreDocs[x.hitIndex].score
      BY <2>1, RefIs
    <2>3. HitFor(sh, x) \in HitsOfAll(sh)
      BY <2>1, HitsOfAllAre DEF HitFor
    <2>4. /\ Taken(sh, x).doc = sh[x.shard].scoreDocs[x.hitIndex].doc
          /\ Taken(sh, x).score = x.score
      <3>1. Taken(sh, x) = [doc |-> sh[x.shard].scoreDocs[x.hitIndex].doc, score |-> x.score,
                            shardIndex |-> x.shardIndex]
        BY TakenIs
      <3> QED BY <3>1
    <2>5. x.shard \in Int /\ x.hitIndex \in Int /\ x.score \in Int
      BY <2>1 DEF RefSet
    <2> QED BY <2>2, <2>3, <2>4, <2>5 DEF HitFor, HitAt
  <1>2. ASSUME NEW x \in Refs(sh, flag), NEW y \in Refs(sh, flag), HitFor(sh, x) = HitFor(sh, y)
        PROVE  x = y
    <2>1. x.shard = y.shard /\ x.hitIndex = y.hitIndex
      BY <1>1, <1>2
    <2>2. x = ShardRef(sh, flag, x.shard, x.hitIndex) /\ y = ShardRef(sh, flag, y.shard, y.hitIndex)
      BY RefsAre
    <2> QED BY <2>1, <2>2
  <1>3. ASSUME NEW h \in HitsOfAll(sh) PROVE \E x \in Refs(sh, flag) : HitFor(sh, x) = h
    <2>. DEFINE x == ShardRef(sh, flag, h.shard, h.rank)
    <2>1. /\ h.shard \in 1 .. Len(sh) /\ h.rank \in 1 .. Size(sh, h.shard)
          /\ h = HitAt(sh, h.shard, h.rank)
      BY HitsOfAllAre
    <2>2. x \in Refs(sh, flag) /\ x.shard = h.shard /\ x.hitIndex = h.rank
      BY <2>1, RefIs
    <2>. HIDE DEF x
    <2>3. HitFor(sh, x) = h
      BY <2>1, <2>2 DEF HitFor
    <2> QED BY <2>2, <2>3
  <1> QED BY <1>1, <1>2, <1>3

(* With the shard index set, a reference goes by its shard.                    *)
ByShard(sh, flag) == \A x \in Refs(sh, flag) : x.shardIndex = x.shard - 1

LEMMA TakenInOrder ==
    ASSUME NEW sh, AreAnswers(sh), NEW flag \in BOOLEAN, NEW n \in Nat, NEW t,
           MQ!LeastFirst(t, n, Refs(sh, flag)),
           NEW u, u = [i \in 1 .. n |-> HitFor(sh, t[i])]
    PROVE  /\ SQ!LeastFirst(u, n, HitsOfAll(sh))
           /\ ByShard(sh, flag) => MR!LeastFirst(u, n, HitsOfAll(sh))
  <1>. DEFINE R == Refs(sh, flag)
              S == HitsOfAll(sh)
  <1>1. /\ t \in [1 .. n -> R] /\ \A i, j \in 1 .. n : t[i] = t[j] => i = j
        /\ \A i \in 1 .. n : \A x \in R : (\A j \in 1 .. (i - 1) : t[j] # x) => ~RefLess(x, t[i])
    BY Zenon DEF MQ!LeastFirst
  <1>2. /\ \A x \in R : HitFor(sh, x) \in S
        /\ \A x, y \in R : HitFor(sh, x) = HitFor(sh, y) => x = y
        /\ \A h \in S : \E x \in R : HitFor(sh, x) = h
    BY HitForIs
  <1>3. ASSUME NEW x \in R, NEW y \in R
        PROVE  /\ ScoreAbove(HitFor(sh, x), HitFor(sh, y)) => RefLess(x, y)
               /\ ByShard(sh, flag) /\ MergesBefore(HitFor(sh, x), HitFor(sh, y)) => RefLess(x, y)
    <2>. DEFINE a == HitFor(sh, x)
                b == HitFor(sh, y)
    <2>1. /\ a.shard = x.shard /\ a.rank = x.hitIndex /\ a.score = x.score
          /\ b.shard = y.shard /\ b.rank = y.hitIndex /\ b.score = y.score
          /\ x.shard \in Int /\ x.hitIndex \in Int /\ x.score \in Int
          /\ y.shard \in Int /\ y.hitIndex \in Int /\ y.score \in Int
      BY HitForIs
    <2>2. ByShard(sh, flag) => x.shardIndex = x.shard - 1 /\ y.shardIndex = y.shard - 1
      BY DEF ByShard
    <2>. HIDE DEF a, b
    <2>3. ScoreAbove(a, b) => RefLess(x, y)
      BY <2>1 DEF ScoreAbove, RefLess
    <2>4. ByShard(sh, flag) /\ MergesBefore(a, b) => RefLess(x, y)
      BY <2>1, <2>2 DEF MergesBefore, RefLess
    <2> QED BY <2>3, <2>4 DEF a, b
  <1>. HIDE DEF R, S
  <1>4. \A i \in 1 .. n : t[i] \in R /\ u[i] = HitFor(sh, t[i])
    BY <1>1
  <1>5. u \in [1 .. n -> S] /\ \A i, j \in 1 .. n : u[i] = u[j] => i = j
    <2>1. u \in [1 .. n -> S]
      BY <1>2, <1>4
    <2>2. ASSUME NEW i \in 1 .. n, NEW j \in 1 .. n, u[i] = u[j] PROVE i = j
      <3>1. t[i] = t[j]
        BY <1>2, <1>4, <2>2
      <3> QED BY <1>1, <3>1
    <2> QED BY <2>1, <2>2
  <1>6. ASSUME NEW i \in 1 .. n, NEW h \in S, \A j \in 1 .. (i - 1) : u[j] # h
        PROVE  ~ScoreAbove(h, u[i]) /\ (ByShard(sh, flag) => ~MergesBefore(h, u[i]))
    <2>1. PICK x \in R : HitFor(sh, x) = h
      BY <1>2
    <2>2. ASSUME NEW j \in 1 .. (i - 1) PROVE t[j] # x
      <3>1. j \in 1 .. n
        OBVIOUS
      <3>2. u[j] # h
        BY <1>6
      <3> QED BY <1>4, <2>1, <3>1, <3>2
    <2>3. ~RefLess(x, t[i]) /\ t[i] \in R /\ u[i] = HitFor(sh, t[i])
      BY <1>1, <1>4, <2>2
    <2>4. /\ ~ScoreAbove(HitFor(sh, x), HitFor(sh, t[i]))
          /\ ByShard(sh, flag) => ~MergesBefore(HitFor(sh, x), HitFor(sh, t[i]))
      BY <1>3, <2>3, Zenon
    <2> QED BY <2>1, <2>3, <2>4, Zenon
  <1>7. SQ!LeastFirst(u, n, S)
    BY <1>5, <1>6, Zenon DEF SQ!LeastFirst
  <1>8. ByShard(sh, flag) => MR!LeastFirst(u, n, S)
    BY <1>5, <1>6, Zenon DEF MR!LeastFirst
  <1> QED BY <1>7, <1>8 DEF S

(* What the merge takes scores as the ranking of all hits does, and is that    *)
(* ranking if references go by their shard.                                    *)
LEMMA TakenIsRanking ==
    ASSUME NEW sh, AreAnswers(sh), NEW flag \in BOOLEAN, NEW n \in Nat, NEW t,
           MQ!LeastFirst(t, n, Refs(sh, flag)), n <= Cardinality(HitsOfAll(sh)),
           NEW e, e = RankedBy(HitsOfAll(sh), MergesBefore), NEW i \in 1 .. n
    PROVE  /\ t[i] \in Refs(sh, flag) /\ e[i].score = Taken(sh, t[i]).score
           /\ ByShard(sh, flag) => e[i].doc = Taken(sh, t[i]).doc
  <1>. DEFINE S == HitsOfAll(sh)
              c == Cardinality(S)
              u == [j \in 1 .. n |-> HitFor(sh, t[j])]
              w == [j \in 1 .. n |-> e[j]]
  <1>1. /\ SQ!LeastFirst(u, n, S)
        /\ ByShard(sh, flag) => MR!LeastFirst(u, n, S)
    BY TakenInOrder
  <1>2. /\ c \in Nat /\ MR!Orders(S) /\ SQ!Orders(S)
        /\ \A a, b \in S : ~MergesBefore(a, b) /\ ~MergesBefore(b, a) => a = b
        /\ MR!LeastFirst(e, c, S) /\ SQ!LeastFirst(e, c, S)
    BY AllRanked
  <1>3. n \in 0 .. c
    BY <1>2
  <1>. HIDE DEF S, c
  <1>4. MR!LeastFirst(w, n, S)
    BY <1>2, <1>3, MR!RankingsCut
  <1>5. SQ!LeastFirst(w, n, S)
    BY <1>2, <1>3, SQ!RankingsCut
  <1>6. w[i] = e[i] /\ u[i] = HitFor(sh, t[i])
    OBVIOUS
  <1>. HIDE DEF u, w
  <1>7. t[i] \in Refs(sh, flag) /\ w[i] \in S /\ u[i] \in S
    <2>1. t[i] \in Refs(sh, flag)
      BY DEF MQ!LeastFirst
    <2>2. w[i] \in S
      BY <1>4 DEF MR!LeastFirst
    <2>3. u[i] \in S
      BY <1>1 DEF SQ!LeastFirst
    <2> QED BY <2>1, <2>2, <2>3
  <1>8. u[i].score = Taken(sh, t[i]).score /\ u[i].doc = Taken(sh, t[i]).doc
    BY <1>6, <1>7, HitForIs
  <1>9. w[i].score = u[i].score
    <2>1. ~ScoreAbove(u[i], w[i])
      BY <1>1, <1>2, <1>5, SQ!RankingsAgree
    <2>2. ~ScoreAbove(w[i], u[i])
      BY <1>1, <1>2, <1>5, SQ!RankingsAgree
    <2>3. w[i].score \in Int /\ u[i].score \in Int
      <3>1. w[i] \in AnyHits /\ u[i] \in AnyHits
        BY <1>7, HitsOfAllAre DEF S
      <3> QED BY <3>1 DEF AnyHits
    <2> QED BY <2>1, <2>2, <2>3 DEF ScoreAbove
  <1>10. ASSUME ByShard(sh, flag) PROVE w[i] = u[i]
    <2>1. ~MergesBefore(u[i], w[i])
      BY <1>1, <1>2, <1>4, <1>10, MR!RankingsAgree
    <2>2. ~MergesBefore(w[i], u[i])
      BY <1>1, <1>2, <1>4, <1>10, MR!RankingsAgree
    <2> QED BY <1>2, <1>7, <2>1, <2>2, Zenon
  <1> QED BY <1>6, <1>7, <1>8, <1>9, <1>10

LEMMA SetShardIndex ==
    ASSUME NEW sh, NEW flag \in BOOLEAN, flag = TRUE
    PROVE  ByShard(sh, flag)
  <1>1. ASSUME NEW x \in Refs(sh, TRUE) PROVE x.shardIndex = x.shard - 1
    <2>1. PICK s \in 1 .. Len(sh) : \E i \in 1 .. Size(sh, s) : x = ShardRef(sh, TRUE, s, i)
      BY DEF Refs
    <2>2. PICK i \in 1 .. Size(sh, s) : x = ShardRef(sh, TRUE, s, i)
      BY <2>1
    <2> QED BY <2>2 DEF ShardRef
  <1>2. ByShard(sh, TRUE)
    BY <1>1, Zenon DEF ByShard
  <1> QED BY <1>2, Zenon

PageSet == [start : Nat, size : Nat, setShardIndex : BOOLEAN]

MergeRight(sh, td, p) ==
    LET expected == Window(RankedBy(HitsOfAll(sh), MergesBefore), p)
    IN  /\ [i \in DOMAIN td.scoreDocs |-> td.scoreDocs[i].score]
              = [i \in DOMAIN expected |-> expected[i].score]
        /\ p.setShardIndex => Plain(td.scoreDocs) = Plain(expected)
        /\ td.totalHits = TotalHits(sh)
        /\ td.relation = "EQUAL_TO" <=> \A i \in DOMAIN sh : sh[i].relation = "EQUAL_TO"

LEMMA MergeIsRight ==
    ASSUME NEW sh, AreAnswers(sh), NEW p \in PageSet, NEW merged,
           merged = MergeTopDocs(p.start, p.size, sh, p.setShardIndex), merged # <<>>
    PROVE  MergeRight(sh, merged[1], p)
  <1>. DEFINE flag == p.setShardIndex
              a == p.start
              z == p.size
              S == HitsOfAll(sh)
              c == Cardinality(S)
              e == RankedBy(S, MergesBefore)
              expected == Window(e, p)
              m == IF a + z <= c THEN a + z ELSE c
  <1>1. flag \in BOOLEAN /\ a \in Nat /\ z \in Nat
    BY DEF PageSet
  <1>2. (flag => ByShard(sh, flag)) /\ merged = MergeTopDocs(a, z, sh, flag)
    <2>1. flag => flag = TRUE
      BY <1>1, Zenon
    <2>2. flag = TRUE => ByShard(sh, flag)
      BY <1>1, SetShardIndex
    <2> QED BY <2>1, <2>2, Zenon
  <1>3. c = Cardinality(Refs(sh, flag)) /\ c \in Nat
    BY <1>1, HitsCounted, RefsCounted
  <1>. HIDE DEF flag, a, z, c, S
  <1>4. PICK n, t : MergeTook(sh, flag, a, z, n, t)
    BY <1>1, MergeIs
  <1>5. n \in Nat /\ n <= c /\ MQ!LeastFirst(t, n, Refs(sh, flag))
        /\ n = IF c <= a THEN 0 ELSE IF c <= a + z THEN c ELSE a + z
    BY <1>3, <1>4 DEF MergeTook, Reached
  <1>. DEFINE td == MergeOf(sh, a, n, t)
  <1>6. merged[1] = td
    <2>1. merged = IF \E i \in 1 .. n : t[i].shardIndex = -1 THEN <<>> ELSE <<td>>
      BY <1>2, <1>4, Zenon DEF MergeTook
    <2>. HIDE DEF td
    <2> QED BY <2>1
  <1>7. MR!LeastFirst(e, c, S)
    BY AllRanked DEF S, c
  <1>8. Len(e) = c
    <2>1. e \in [1 .. c -> S]
      BY <1>7 DEF MR!LeastFirst
    <2>2. e = [i \in 1 .. c |-> e[i]]
      BY <2>1
    <2>. HIDE DEF e
    <2> QED BY <1>3, <2>2, LenIs
  <1>. HIDE DEF e
  <1>9. expected = [i \in 1 .. (n - a) |-> e[a + i]]
    <2>1. Min({a + z, c}) = m
      BY <1>1, <1>3, TwoNumbers
    <2>2. expected = SubSeq(e, a + 1, m)
      BY <1>8, <2>1 DEF Window, a, z
    <2>3. m \in Int /\ a + 1 \in Int
      BY <1>1, <1>3
    <2>4. 1 .. (1 + m - (a + 1)) = 1 .. (n - a)
      BY <1>1, <1>3, <1>5
    <2>. HIDE DEF m, expected
    <2>5. expected = [i \in 1 .. (1 + m - (a + 1)) |-> e[i + (a + 1) - 1]]
      BY <2>2, <2>3, SubSeqIs
    <2>6. \A i \in 1 .. (n - a) : i + (a + 1) - 1 = a + i
      BY <1>1, <1>5
    <2> QED BY <2>4, <2>5, <2>6
  <1>10. td.scoreDocs = [i \in 1 .. (n - a) |-> Taken(sh, t[a + i])]
    BY DEF MergeOf
  <1>11. ASSUME NEW i \in 1 .. (n - a)
         PROVE  /\ e[a + i].score = Taken(sh, t[a + i]).score
                /\ flag => e[a + i].doc = Taken(sh, t[a + i]).doc
    <2>. DEFINE k == a + i
    <2>1. k \in 1 .. n
      <3>1. n \in Int /\ a \in Nat
        BY <1>1, <1>5
      <3> QED BY <3>1
    <2>. HIDE DEF k
    <2>2. /\ e[k].score = Taken(sh, t[k]).score
          /\ ByShard(sh, flag) => e[k].doc = Taken(sh, t[k]).doc
      BY <1>1, <1>5, <2>1, TakenIsRanking DEF e, S, c
    <2> QED BY <1>2, <2>2, Zenon DEF k
  <1>. DEFINE D == 1 .. (n - a)
              docs == td.scoreDocs
  <1>12. /\ DOMAIN docs = D /\ DOMAIN expected = D
         /\ \A i \in D : /\ expected[i].score = docs[i].score
                         /\ flag => expected[i].doc = docs[i].doc
    <2>1. DOMAIN docs = D /\ \A i \in D : docs[i] = Taken(sh, t[a + i])
      BY <1>10
    <2>2. DOMAIN expected = D /\ \A i \in D : expected[i] = e[a + i]
      <3>. HIDE DEF expected
      <3> QED BY <1>9
    <2>. HIDE DEF docs, expected, td
    <2>3. ASSUME NEW i \in D
          PROVE  expected[i].score = docs[i].score /\ (flag => expected[i].doc = docs[i].doc)
      <3>1. expected[i] = e[a + i] /\ docs[i] = Taken(sh, t[a + i])
        BY <2>1, <2>2
      <3> QED BY <1>11, <3>1, Zenon
    <2> QED BY <2>1, <2>2, <2>3
  <1>13. td.totalHits = TotalHits(sh) /\ td.relation = RelationOf(sh)
    BY DEF MergeOf
  <1>14. RelationOf(sh) = "EQUAL_TO" <=> \A i \in DOMAIN sh : sh[i].relation = "EQUAL_TO"
    <2>1. \A i \in DOMAIN sh : sh[i].relation \in Relations
      BY AnswerParts
    <2> QED BY <2>1 DEF RelationOf, Relations
  <1>. HIDE DEF td, expected, D
  <1>15. [i \in DOMAIN docs |-> docs[i].score] = [i \in DOMAIN expected |-> expected[i].score]
    BY <1>12
  <1>16. flag => Plain(docs) = Plain(expected)
    <2>1. ASSUME \A i \in D : expected[i].doc = docs[i].doc PROVE Plain(docs) = Plain(expected)
      <3>1. Plain(docs) = [i \in D |-> [doc |-> docs[i].doc, score |-> docs[i].score]]
        BY <1>12 DEF Plain
      <3>2. Plain(expected) = [i \in D |-> [doc |-> expected[i].doc, score |-> expected[i].score]]
        BY <1>12 DEF Plain
      <3>3. \A i \in D : [doc |-> docs[i].doc, score |-> docs[i].score]
                          = [doc |-> expected[i].doc, score |-> expected[i].score]
        BY <1>12, <2>1
      <3> QED BY <3>1, <3>2, <3>3
    <2> QED BY <1>12, <2>1, Zenon
  <1>17. expected = Window(RankedBy(HitsOfAll(sh), MergesBefore), p)
    BY DEF expected, e, S
  <1>18. MergeRight(sh, td, p)
    BY <1>13, <1>14, <1>15, <1>16, <1>17, Zenon DEF MergeRight, flag
  <1> QED BY <1>6, <1>18

-----------------------------------------------------------------------------
(* The inductive invariant.  Its parts take the state they are about as       *)
(* arguments: w is the number of hits wanted, r the reader that is searched.  *)

CapOf(w, r) == Min({w, Max({1, MaxDoc(r)})})
PastThreshold(w, hits) == hits > Max({TotalHitsThreshold, w})
BestOf(w, r) == SubSeq(Ranked(r), 1, Min({w, Len(Ranked(r))}))

CountRight(w, r, hits, relation) ==
    IF relation = "EQUAL_TO" THEN hits = Cardinality(Matches(r))
    ELSE hits <= Cardinality(Matches(r)) /\ PastThreshold(w, hits)

(* A finished search returned the best matches and an honest count.            *)
AnswerRight(w, r, td) ==
    /\ Plain(td.scoreDocs) = BestOf(w, r)
    /\ CountRight(w, r, td.totalHits, td.relation)

(* The collector holds the best of the matches with a number below b.          *)
CollectedBelow(w, r, b, q, hits, relation) ==
    /\ Keeps(q, Below(r, b)) /\ q.size = CapOf(w, r) /\ hits \in Nat
    /\ \/ relation = "EQUAL_TO" /\ hits = Cardinality(Below(r, b))
       \/ /\ relation = "GREATER_THAN_OR_EQUAL_TO"
          /\ PastThreshold(w, hits) /\ hits <= Cardinality(Below(r, b))

BetweenLeaves(w, r, l, q, hits, relation) ==
    /\ l \in 1 .. Len(r) + 1
    /\ CollectedBelow(w, r, DocBase(r, l), q, hits, relation)

InLeaf(w, r, l, d, q, hits, relation, min) ==
    /\ l \in DOMAIN r /\ d \in 0 .. Len(r[l])
    /\ CollectedBelow(w, r, DocBase(r, l) + d, q, hits, relation)
    /\ Told(q, relation, min)

SearchesRight(rd, w, sh) ==
    /\ Len(rd) \in Nat /\ \A i \in 1 .. Len(rd) : IsReader(rd[i])
    /\ w \in Nat /\ AreAnswers(sh) /\ Len(sh) <= Len(rd)
    /\ \A i \in 1 .. Len(sh) : AnswerRight(w, rd[i], sh[i])

SearchInv ==
    /\ SearchesRight(reader, wanted, shards)
    /\ pc \in {"leaf", "score", "done"} => Len(shards) < Len(reader)
    /\ pc = "leaf" => BetweenLeaves(wanted, Current, leaf, pq, totalHits, totalHitsRelation)
    /\ pc = "score" => InLeaf(wanted, Current, leaf, doc, pq, totalHits, totalHitsRelation, scorerMin)
    /\ pc = "done" => Plain(answer.scoreDocs) = Window(BestOf(wanted, Current), page)
    /\ pc = "merged" => MergeRight(shards, answer, page)

LEMMA WithWanted ==
    /\ \A r : CapFor(r) = CapOf(wanted, r) /\ Best(r) = BestOf(wanted, r)
    /\ \A hits : IsThresholdReached(hits) = PastThreshold(wanted, hits)
    /\ \A r, b, q, hits, relation :
            Collected(r, b, q, hits, relation) <=> CollectedBelow(wanted, r, b, q, hits, relation)
  <1>1. \A r : CapFor(r) = CapOf(wanted, r) /\ Best(r) = BestOf(wanted, r)
    BY Zenon DEF CapFor, CapOf, Best, BestOf
  <1>2. \A hits : IsThresholdReached(hits) = PastThreshold(wanted, hits)
    BY Zenon DEF IsThresholdReached, PastThreshold
  <1>3. \A r, b, q, hits, relation :
            Collected(r, b, q, hits, relation) <=> CollectedBelow(wanted, r, b, q, hits, relation)
    BY <1>1, <1>2 DEF Collected, CollectedBelow
  <1> QED BY <1>1, <1>2, <1>3

LEMMA SearchedReader ==
    ASSUME SearchInv, Len(shards) < Len(reader)
    PROVE  /\ IsReader(Current) /\ wanted \in Nat /\ AreAnswers(shards) /\ Len(shards) \in Nat
           /\ Len(Current) \in Nat /\ DOMAIN Current = 1 .. Len(Current)
  <1>1. SearchesRight(reader, wanted, shards)
    BY DEF SearchInv
  <1>2. wanted \in Nat /\ AreAnswers(shards)
    BY <1>1 DEF SearchesRight
  <1>3. Len(shards) \in Nat
    BY <1>2, AnswerParts
  <1>4. IsReader(Current)
    BY <1>1, <1>3 DEF SearchesRight, Current
  <1> QED BY <1>2, <1>3, <1>4, ReaderParts

LEMMA SearchStarts == SearchInit => SearchInv
  <1>. SUFFICES ASSUME SearchInit PROVE SearchInv
    OBVIOUS
  <1>. DEFINE N == Len(Readers)
  <1>1. /\ Readers \in Seq(SUBSET Seq(Seq(Docs))) /\ NumHits \subseteq Nat
    BY SearchAssumption
  <1>2. N \in Nat /\ DOMAIN Readers = 1 .. N /\ \A i \in 1 .. N : Readers[i] \subseteq Seq(Seq(Docs))
    <2>1. N \in Nat /\ DOMAIN Readers = 1 .. N
      BY <1>1
    <2>2. \A i \in 1 .. N : Readers[i] \in SUBSET Seq(Seq(Docs))
      BY <1>1
    <2> QED BY <2>1, <2>2
  <1>3. /\ reader = [i \in DOMAIN Readers |-> reader[i]]
        /\ \A i \in DOMAIN Readers : reader[i] \in Readers[i]
    BY DEF SearchInit
  <1>. HIDE DEF N
  <1>4. Len(reader) = N
    BY <1>2, <1>3, LenIs
  <1>5. \A i \in 1 .. N : IsReader(reader[i])
    BY <1>2, <1>3 DEF IsReader
  <1>6. wanted \in Nat /\ shards = <<>> /\ pc = "search"
    BY <1>1 DEF SearchInit
  <1>7. AreAnswers(shards) /\ Len(shards) = 0
    BY <1>6 DEF AreAnswers
  <1>8. SearchesRight(reader, wanted, shards)
    BY <1>2, <1>4, <1>5, <1>6, <1>7 DEF SearchesRight
  <1> QED BY <1>6, <1>8 DEF SearchInv

(* A collector of sentinels has been given nothing.                            *)
LEMMA CollectorStarts ==
    ASSUME NEW r, IsReader(r), wanted \in Nat, NEW k, k = CapFor(r), k # 0,
           NEW q, q = HitQueue!SetSize(HitQueue!NewPriorityQueue(k, Sentinel), k)
    PROVE  Collected(r, DocBase(r, 1), q, 0, "EQUAL_TO")
  <1>. DEFINE m == HitQueue!Larger(2, k)
  <1>1. k \in Nat
    BY CapIs
  <1>2. m \in Nat /\ m >= 1 /\ k <= m
    BY <1>1 DEF HitQueue!Larger
  <1>3. q = [heap |-> [i \in 1 .. m |-> Sentinel], size |-> k, maxSize |-> m]
    BY DEF HitQueue!SetSize, HitQueue!NewPriorityQueue
  <1>. HIDE DEF m
  <1>4. q.size = k /\ q.maxSize = m /\ q.heap = [i \in 1 .. m |-> Sentinel]
        /\ q = [heap |-> q.heap, size |-> q.size, maxSize |-> q.maxSize]
    BY <1>3
  <1>5. q.heap = [i \in 1 .. q.maxSize |-> q.heap[i]]
    BY <1>4
  <1>6. HQ!IsQueue(q)
    BY <1>1, <1>2, <1>4, <1>5 DEF HQ!IsQueue
  <1>7. \A i \in 1 .. k : q.heap[i] = Sentinel
    BY <1>1, <1>2, <1>4
  <1>8. HQ!HeapOrdered(q)
    <2>1. ~HitLess(Sentinel, Sentinel)
      BY SentinelIsHit, HitsOrdered, Zenon DEF HQ!Orders
    <2>2. ASSUME NEW j \in 2 .. q.size PROVE ~HitLess(q.heap[j], q.heap[j \div 2])
      <3>1. j \in 1 .. k /\ j \div 2 \in 1 .. k
        BY <1>1, <1>4
      <3>2. q.heap[j] = Sentinel /\ q.heap[j \div 2] = Sentinel
        BY <1>7, <3>1
      <3> QED BY <2>1, <3>2, Zenon
    <2> QED BY <2>2, Zenon DEF HQ!HeapOrdered
  <1>9. Keeps(q, {})
    <2>1. q.size >= 1
      BY <1>1, <1>4
    <2>2. \A i \in 1 .. q.size : q.heap[i] = Sentinel
      BY <1>4, <1>7
    <2> QED BY <1>6, <1>8, <2>1, <2>2, Zenon DEF Keeps
  <1>10. Below(r, DocBase(r, 1)) = {} /\ Cardinality({}) = 0
    BY AllBelow, FS_EmptySet
  <1> QED BY <1>4, <1>9, <1>10 DEF Collected

LEMMA SearchTopNStep ==
    ASSUME SearchInv, SearchTopN
    PROVE  SearchInv'
  <1>1. pc = "search" /\ Len(shards) < Len(reader) /\ reader' = reader /\ wanted' = wanted /\ shards' = shards
    BY DEF SearchTopN
  <1>2. IsReader(Current) /\ wanted \in Nat /\ Len(Current) \in Nat
    BY <1>1, SearchedReader
  <1>3. SearchesRight(reader', wanted', shards')
    BY <1>1 DEF SearchInv
  <1>4. CASE CappedNumHits = 0
    <2>1. pc' = "failed"
      BY <1>4 DEF SearchTopN
    <2> QED BY <1>3, <2>1 DEF SearchInv
  <1>5. CASE CappedNumHits # 0
    <2>. DEFINE k == CappedNumHits
                q == HitQueue!SetSize(HitQueue!NewPriorityQueue(k, Sentinel), k)
    <2>1. pc' = "leaf" /\ leaf' = 1 /\ pq' = q /\ totalHits' = 0 /\ totalHitsRelation' = "EQUAL_TO"
      BY <1>5 DEF SearchTopN
    <2>2. k = CapFor(Current)
      BY DEF CappedNumHits, CapFor
    <2>. HIDE DEF k
    <2>3. Collected(Current, DocBase(Current, 1), q, 0, "EQUAL_TO")
      BY <1>2, <1>5, <2>2, CollectorStarts DEF k
    <2>4. CollectedBelow(wanted, Current, DocBase(Current, 1), q, 0, "EQUAL_TO")
      BY <2>3, WithWanted
    <2>5. BetweenLeaves(wanted, Current, 1, q, 0, "EQUAL_TO")
      BY <1>2, <2>4 DEF BetweenLeaves
    <2>6. Current' = Current
      BY <1>1 DEF Current
    <2>7. BetweenLeaves(wanted', Current', leaf', pq', totalHits', totalHitsRelation')
      BY <1>1, <2>1, <2>5, <2>6
    <2>8. Len(shards') < Len(reader')
      BY <1>1
    <2> QED BY <1>3, <2>1, <2>7, <2>8 DEF SearchInv
  <1> QED BY <1>4, <1>5

(* The bound at the end of a leaf is that of the next one.                     *)
LEMMA LeafEnds ==
    ASSUME NEW r, IsReader(r), NEW l \in DOMAIN r
    PROVE  /\ DocBase(r, l) \in Nat /\ Len(r[l]) \in Nat
           /\ DocBase(r, l) + Len(r[l]) = DocBase(r, l + 1) /\ DocBase(r, l) + 0 = DocBase(r, l)
           /\ l \in 1 .. Len(r) + 1 /\ l + 1 \in 1 .. Len(r) + 1
  <1>1. Len(r) \in Nat /\ DOMAIN r = 1 .. Len(r) /\ Len(r[l]) \in Nat
    BY ReaderParts
  <1>2. l \in 1 .. Len(r) /\ l \in 1 .. Len(r) + 1 /\ l + 1 \in 1 .. Len(r) + 1
    BY <1>1
  <1>3. DocBase(r, l) \in Nat /\ DocBase(r, l + 1) = DocBase(r, l) + Len(r[l])
    BY <1>2, Bases
  <1> QED BY <1>1, <1>2, <1>3

LEMMA RelationWeakens ==
    ASSUME NEW r, IsReader(r), NEW b, NEW q, NEW hits, NEW relation, NEW rel,
           Collected(r, b, q, hits, relation),
           \/ rel = relation
           \/ rel = "GREATER_THAN_OR_EQUAL_TO" /\ IsThresholdReached(hits)
    PROVE  Collected(r, b, q, hits, rel)
  <1>1. Cardinality(Below(r, b)) \in Nat
    BY BelowIs
  <1> QED BY <1>1 DEF Collected

LEMMA GetLeafCollectorStep ==
    ASSUME SearchInv, GetLeafCollector
    PROVE  SearchInv'
  <1>. DEFINE r == Current
  <1>1. /\ pc = "leaf" /\ leaf <= Len(r) /\ reader' = reader /\ wanted' = wanted /\ shards' = shards
        /\ pq' = pq /\ totalHits' = totalHits
    BY DEF GetLeafCollector
  <1>2. /\ Len(shards) < Len(reader)
        /\ BetweenLeaves(wanted, r, leaf, pq, totalHits, totalHitsRelation)
    BY <1>1 DEF SearchInv
  <1>3. IsReader(r) /\ wanted \in Nat /\ Len(r) \in Nat /\ DOMAIN r = 1 .. Len(r)
    BY <1>2, SearchedReader
  <1>4. leaf \in DOMAIN r
    BY <1>1, <1>2, <1>3 DEF BetweenLeaves
  <1>5. SearchesRight(reader', wanted', shards') /\ Len(shards') < Len(reader') /\ Current' = r
    BY <1>1, <1>2 DEF SearchInv, Current
  <1>6. Collected(r, DocBase(r, leaf), pq, totalHits, totalHitsRelation)
    BY <1>2, WithWanted DEF BetweenLeaves
  <1>7. /\ DocBase(r, leaf) \in Nat /\ Len(r[leaf]) \in Nat
        /\ DocBase(r, leaf) + Len(r[leaf]) = DocBase(r, leaf + 1) /\ DocBase(r, leaf) + 0 = DocBase(r, leaf)
        /\ leaf + 1 \in 1 .. Len(r) + 1
    BY <1>3, <1>4, LeafEnds
  <1>8. Told(pq, totalHitsRelation, 0)
    BY DEF Told
  <1>. HIDE DEF r
  <1>9. CASE Matching(leaf) = {}
    <2>1. /\ leaf' = leaf + 1 /\ pc' = "leaf" /\ totalHitsRelation' = totalHitsRelation
      BY <1>1, <1>9 DEF GetLeafCollector
    <2>2. \A d \in 0 + 1 .. Len(r[leaf]) :
            d \in DOMAIN r[leaf] /\ r[leaf][d].live /\ r[leaf][d].score # NoMatch => r[leaf][d].score < 0
      BY <1>9 DEF Matching, r
    <2>3. Len(r[leaf]) \in 0 .. Len(r[leaf]) /\ 0 \in 0 .. Len(r[leaf])
      BY <1>7
    <2>4. Collected(r, DocBase(r, leaf) + 0, pq, totalHits, totalHitsRelation)
      BY <1>6, <1>7
    <2>5. Collected(r, DocBase(r, leaf) + Len(r[leaf]), pq, totalHits, totalHitsRelation)
      BY <1>3, <1>4, <1>8, <2>2, <2>3, <2>4, LeavingOut
    <2>6. BetweenLeaves(wanted, r, leaf + 1, pq, totalHits, totalHitsRelation)
      BY <1>7, <2>5, WithWanted DEF BetweenLeaves
    <2>7. BetweenLeaves(wanted', Current', leaf', pq', totalHits', totalHitsRelation')
      BY <1>1, <1>5, <2>1, <2>6
    <2> QED BY <1>5, <2>1, <2>7 DEF SearchInv
  <1>10. CASE Matching(leaf) # {}
    <2>1. /\ UpdateMinCompetitiveScore(pq, totalHits, 0, 0) /\ pc' = "score" /\ doc' = 0 /\ leaf' = leaf
      BY <1>10 DEF GetLeafCollector
    <2>. DEFINE P == Below(r, DocBase(r, leaf))
    <2>2. Numbered(P) /\ Keeps(pq, P) /\ totalHits \in Nat
      BY <1>3, <1>6, BelowIs DEF Collected
    <2>. HIDE DEF P
    <2>3. /\ Told(pq, totalHitsRelation', scorerMin')
          /\ \/ totalHitsRelation' = totalHitsRelation
             \/ totalHitsRelation' = "GREATER_THAN_OR_EQUAL_TO" /\ IsThresholdReached(totalHits)
      BY <1>3, <1>8, <2>1, <2>2, MinUpdated
    <2>4. Collected(r, DocBase(r, leaf), pq, totalHits, totalHitsRelation')
      BY <1>3, <1>6, <2>3, RelationWeakens
    <2>5. CollectedBelow(wanted, r, DocBase(r, leaf) + 0, pq, totalHits, totalHitsRelation')
      BY <1>7, <2>4, WithWanted
    <2>6. InLeaf(wanted, r, leaf, 0, pq, totalHits, totalHitsRelation', scorerMin')
      BY <1>4, <1>7, <2>3, <2>5 DEF InLeaf
    <2>7. InLeaf(wanted', Current', leaf', doc', pq', totalHits', totalHitsRelation', scorerMin')
      BY <1>1, <1>5, <2>1, <2>6
    <2> QED BY <1>5, <2>1, <2>7 DEF SearchInv
  <1> QED BY <1>9, <1>10

LEMMA ScoreDocStep ==
    ASSUME SearchInv, ScoreDoc
    PROVE  SearchInv'
  <1>. DEFINE r == Current
  <1>1. pc = "score" /\ reader' = reader /\ wanted' = wanted /\ shards' = shards /\ pc' = pc /\ leaf' = leaf
    BY DEF ScoreDoc
  <1>2. PICK d \in Matching(leaf) :
          /\ d > doc /\ MaySkip(doc, d) /\ doc' = d
          /\ IF Current[leaf][d].live THEN Collect(d) ELSE UNCHANGED <<collector, scorerMin>>
    BY DEF ScoreDoc
  <1>3. /\ Len(shards) < Len(reader)
        /\ InLeaf(wanted, r, leaf, doc, pq, totalHits, totalHitsRelation, scorerMin)
    BY <1>1 DEF SearchInv
  <1>4. IsReader(r) /\ wanted \in Nat
    BY <1>3, SearchedReader
  <1>5. /\ leaf \in DOMAIN r /\ doc \in 0 .. Len(r[leaf])
        /\ Collected(r, DocBase(r, leaf) + doc, pq, totalHits, totalHitsRelation)
        /\ Told(pq, totalHitsRelation, scorerMin)
    BY <1>3, WithWanted DEF InLeaf
  <1>6. /\ d \in DOMAIN r[leaf] /\ r[leaf][d].score # NoMatch
        /\ \A e \in DOMAIN r[leaf] : r[leaf][e].score # NoMatch /\ doc < e /\ e < d =>
                r[leaf][e].score < scorerMin
    BY <1>2 DEF Matching, MaySkip
  <1>7. Len(r[leaf]) \in Nat /\ DOMAIN r[leaf] = 1 .. Len(r[leaf])
    BY <1>4, <1>5, ReaderParts
  <1>8. SearchesRight(reader', wanted', shards') /\ Len(shards') < Len(reader') /\ Current' = r
    BY <1>1, <1>3 DEF SearchInv, Current
  <1>9. CASE r[leaf][d].live
    <2>1. Collect(d)
      BY <1>2, <1>9
    <2>. HIDE DEF r
    <2>. DEFINE b == d - 1
    <2>2. b \in 0 .. Len(r[leaf]) /\ doc \in 0 .. b
      BY <1>2, <1>5, <1>6, <1>7
    <2>3. \A e \in doc + 1 .. b :
            e \in DOMAIN r[leaf] /\ r[leaf][e].live /\ r[leaf][e].score # NoMatch => r[leaf][e].score < scorerMin
      <3>1. \A e \in doc + 1 .. b : doc < e /\ e < d
        BY <1>5, <1>6, <1>7
      <3> QED BY <1>6, <3>1
    <2>. HIDE DEF b
    <2>4. Collected(r, DocBase(r, leaf) + b, pq, totalHits, totalHitsRelation)
      BY <1>4, <1>5, <2>2, <2>3, LeavingOut
    <2>5. Collected(r, DocBase(r, leaf) + (d - 1), pq, totalHits, totalHitsRelation)
      BY <2>4 DEF b
    <2>6. /\ Collected(r, DocBase(r, leaf) + d, pq', totalHits', totalHitsRelation')
          /\ Told(pq', totalHitsRelation', scorerMin')
      BY <1>4, <1>5, <1>6, <1>9, <2>1, <2>5, Collects DEF r
    <2>7. CollectedBelow(wanted, r, DocBase(r, leaf) + d, pq', totalHits', totalHitsRelation')
      BY <2>6, WithWanted
    <2>8. InLeaf(wanted, r, leaf, d, pq', totalHits', totalHitsRelation', scorerMin')
      BY <1>5, <1>6, <1>7, <2>6, <2>7 DEF InLeaf
    <2>9. InLeaf(wanted', Current', leaf', doc', pq', totalHits', totalHitsRelation', scorerMin')
      BY <1>1, <1>2, <1>8, <2>8
    <2> QED BY <1>1, <1>8, <2>9 DEF SearchInv
  <1>10. CASE ~r[leaf][d].live
    <2>1. pq' = pq /\ totalHits' = totalHits /\ totalHitsRelation' = totalHitsRelation /\ scorerMin' = scorerMin
      BY <1>2, <1>10 DEF collector
    <2>. HIDE DEF r
    <2>2. d \in 0 .. Len(r[leaf]) /\ doc \in 0 .. d
      BY <1>2, <1>5, <1>6, <1>7
    <2>3. \A e \in doc + 1 .. d :
            e \in DOMAIN r[leaf] /\ r[leaf][e].live /\ r[leaf][e].score # NoMatch => r[leaf][e].score < scorerMin
      <3>1. \A e \in doc + 1 .. d : e = d \/ (doc < e /\ e < d)
        BY <1>5, <1>6, <1>7
      <3> QED BY <1>6, <1>10, <3>1
    <2>4. Collected(r, DocBase(r, leaf) + d, pq, totalHits, totalHitsRelation)
      BY <1>4, <1>5, <2>2, <2>3, LeavingOut
    <2>5. CollectedBelow(wanted, r, DocBase(r, leaf) + d, pq, totalHits, totalHitsRelation)
      BY <2>4, WithWanted
    <2>6. InLeaf(wanted, r, leaf, d, pq, totalHits, totalHitsRelation, scorerMin)
      BY <1>5, <2>2, <2>5 DEF InLeaf
    <2>7. InLeaf(wanted', Current', leaf', doc', pq', totalHits', totalHitsRelation', scorerMin')
      BY <1>1, <1>2, <1>8, <2>1, <2>6
    <2> QED BY <1>1, <1>8, <2>7 DEF SearchInv
  <1> QED BY <1>9, <1>10

LEMMA LeafDoneStep ==
    ASSUME SearchInv, LeafDone
    PROVE  SearchInv'
  <1>. DEFINE r == Current
              n == Len(r[leaf])
  <1>1. /\ pc = "score" /\ MaySkip(doc, n + 1) /\ pc' = "leaf" /\ leaf' = leaf + 1
        /\ reader' = reader /\ wanted' = wanted /\ shards' = shards
        /\ pq' = pq /\ totalHits' = totalHits /\ totalHitsRelation' = totalHitsRelation
    BY DEF LeafDone, collector
  <1>2. /\ Len(shards) < Len(reader)
        /\ InLeaf(wanted, r, leaf, doc, pq, totalHits, totalHitsRelation, scorerMin)
    BY <1>1 DEF SearchInv
  <1>3. IsReader(r) /\ wanted \in Nat
    BY <1>2, SearchedReader
  <1>4. /\ leaf \in DOMAIN r /\ doc \in 0 .. n
        /\ Collected(r, DocBase(r, leaf) + doc, pq, totalHits, totalHitsRelation)
        /\ Told(pq, totalHitsRelation, scorerMin)
    BY <1>2, WithWanted DEF InLeaf
  <1>5. /\ n \in Nat /\ DocBase(r, leaf) + n = DocBase(r, leaf + 1) /\ leaf + 1 \in 1 .. Len(r) + 1
        /\ DOMAIN r[leaf] = 1 .. n
    BY <1>3, <1>4, LeafEnds, ReaderParts
  <1>6. \A e \in DOMAIN r[leaf] : r[leaf][e].score # NoMatch /\ doc < e /\ e < n + 1 =>
                r[leaf][e].score < scorerMin
    BY <1>1 DEF Matching, MaySkip
  <1>7. SearchesRight(reader', wanted', shards') /\ Len(shards') < Len(reader') /\ Current' = r
    BY <1>1, <1>2 DEF SearchInv, Current
  <1>8. \A e \in doc + 1 .. n :
            e \in DOMAIN r[leaf] /\ r[leaf][e].live /\ r[leaf][e].score # NoMatch => r[leaf][e].score < scorerMin
    <2>. HIDE DEF n
    <2>1. \A e \in doc + 1 .. n : doc < e /\ e < n + 1
      BY <1>4, <1>5
    <2> QED BY <1>6, <2>1
  <1>9. n \in 0 .. Len(r[leaf])
    BY <1>5
  <1>. HIDE DEF r
  <1>10. Collected(r, DocBase(r, leaf) + n, pq, totalHits, totalHitsRelation)
    BY <1>3, <1>4, <1>8, <1>9, LeavingOut
  <1>11. BetweenLeaves(wanted, r, leaf + 1, pq, totalHits, totalHitsRelation)
    BY <1>5, <1>10, WithWanted DEF BetweenLeaves
  <1>12. BetweenLeaves(wanted', Current', leaf', pq', totalHits', totalHitsRelation')
    BY <1>1, <1>7, <1>11
  <1> QED BY <1>1, <1>7, <1>12 DEF SearchInv

LEMMA AtTheEnd ==
    ASSUME SearchInv, pc = "leaf", leaf > Len(Current)
    PROVE  Finished /\ IsReader(Current) /\ wanted \in Nat /\ Len(shards) < Len(reader)
  <1>1. /\ Len(shards) < Len(reader)
        /\ BetweenLeaves(wanted, Current, leaf, pq, totalHits, totalHitsRelation)
    BY DEF SearchInv
  <1>2. IsReader(Current) /\ wanted \in Nat /\ Len(Current) \in Nat
    BY <1>1, SearchedReader
  <1>3. leaf = Len(Current) + 1
    BY <1>1, <1>2 DEF BetweenLeaves
  <1>4. Collected(Current, DocBase(Current, leaf), pq, totalHits, totalHitsRelation)
    BY <1>1, WithWanted DEF BetweenLeaves
  <1> QED BY <1>1, <1>2, <1>3, <1>4 DEF Finished

(* The ranking goes down in score.                                             *)
LEMMA RankedFalls ==
    ASSUME NEW r, IsReader(r), NEW i \in 1 .. Cardinality(Matches(r)),
           NEW j \in 1 .. Cardinality(Matches(r)), i <= j
    PROVE  Ranked(r)[j].score <= Ranked(r)[i].score
  <1>. DEFINE s == Ranked(r)
              M == Matches(r)
              c == Cardinality(M)
  <1>1. /\ c \in Nat /\ \A k \in 1 .. c : s[k] \in M
        /\ \A a, b \in 1 .. c : s[a] = s[b] => a = b
        /\ \A a \in 1 .. c : \A x \in M : (\A b \in 1 .. (a - 1) : s[b] # x) => ~Better(x, s[a])
    BY RankedIs, Zenon DEF BR!LeastFirst
  <1>2. \A x \in M : x.score \in Nat
    BY MatchesAreNumbered
  <1>. HIDE DEF s, M, c
  <1>3. \A b \in 1 .. (i - 1) : s[b] # s[j]
    <2>1. \A b \in 1 .. (i - 1) : b \in 1 .. c /\ b # j
      BY <1>1 DEF c, M
    <2> QED BY <1>1, <2>1 DEF c, M
  <1>4. s[j] \in M /\ s[i] \in M /\ ~Better(s[j], s[i])
    <2>1. s[j] \in M /\ s[i] \in M
      BY <1>1 DEF c, M
    <2> QED BY <1>1, <1>3, <2>1 DEF c, M
  <1>5. s[j].score \in Int /\ s[i].score \in Int
    BY <1>2, <1>4
  <1> QED BY <1>4, <1>5 DEF Better, HitLess, s

LEMMA WholeAnswer ==
    ASSUME IsReader(Current), wanted \in Nat, Finished, NEW td, td = TopDocsRange(0, TopDocsSize)
    PROVE  /\ td \in Answers /\ Descending(td.scoreDocs) /\ AnswerRight(wanted, Current, td)
           /\ Len(td.scoreDocs) <= pq.size
  <1>. DEFINE T == TopDocsSize
              M == Matches(Current)
              c == Cardinality(M)
              s == Ranked(Current)
              docs == td.scoreDocs
  <1>1. /\ pq.size \in Nat /\ pq.size >= 1 /\ totalHits \in Nat /\ T \in Nat /\ T <= pq.size /\ T <= c
        /\ T = pq.size \/ T = c
        /\ T = Min({wanted, c})
        /\ \/ totalHitsRelation = "EQUAL_TO" /\ totalHits = c
           \/ /\ totalHitsRelation = "GREATER_THAN_OR_EQUAL_TO"
              /\ IsThresholdReached(totalHits) /\ totalHits <= c /\ T >= 1
    BY FinishedIs
  <1>2. /\ \E n \in Nat :
             /\ n = IF 0 >= T \/ T <= 0 THEN 0 ELSE Min({T - 0, T})
             /\ docs = [i \in 1 .. n |-> HitOf(s[0 + i])]
             /\ \A i \in 1 .. n : s[0 + i] \in M
             /\ Plain(docs) = [i \in 1 .. n |-> s[0 + i]]
        /\ \/ td.totalHits = totalHits /\ td.relation = totalHitsRelation
           \/ (0 >= T \/ T <= 0) /\ td.totalHits = 0 /\ td.relation = "EQUAL_TO"
    <2>1. IsRange(0, TopDocsSize, td)
      BY <1>1, RangeIs
    <2> QED BY <2>1, Zenon DEF IsRange
  <1>3. td = [totalHits |-> td.totalHits, relation |-> td.relation, scoreDocs |-> td.scoreDocs]
    <2>1. CASE 0 >= T \/ T <= 0
      BY <2>1 DEF TopDocsRange, EmptyTopDocs
    <2>2. CASE ~(0 >= T \/ T <= 0)
      BY <2>2 DEF TopDocsRange
    <2> QED BY <2>1, <2>2
  <1>4. c \in Nat
    BY RankedIs
  <1>. HIDE DEF T, c, s, M, docs
  <1>5. /\ docs = [i \in 1 .. T |-> HitOf(s[i])] /\ \A i \in 1 .. T : s[i] \in M
        /\ Plain(docs) = [i \in 1 .. T |-> s[i]]
    <2>1. PICK n \in Nat :
             /\ n = IF 0 >= T \/ T <= 0 THEN 0 ELSE Min({T - 0, T})
             /\ docs = [i \in 1 .. n |-> HitOf(s[0 + i])]
             /\ \A i \in 1 .. n : s[0 + i] \in M
             /\ Plain(docs) = [i \in 1 .. n |-> s[0 + i]]
      BY <1>2
    <2>2. Min({T - 0, T}) = IF T - 0 <= T THEN T - 0 ELSE T
      <3>1. T - 0 \in Int /\ T \in Int
        BY <1>1
      <3> QED BY <3>1, TwoNumbers, Zenon
    <2>3. n = T
      BY <1>1, <2>1, <2>2
    <2>4. \A i \in 1 .. T : 0 + i = i
      BY <1>1
    <2> QED BY <2>1, <2>3, <2>4
  <1>6. \A i \in 1 .. T : HitOf(s[i]) \in Hits /\ HitOf(s[i]).score = s[i].score /\ HitOf(s[i]).shardIndex = -1
    <2>1. Numbered(M)
      BY MatchesAreNumbered DEF Numbered, M
    <2> QED BY <1>5, <2>1, HitsOf
  <1>7. docs \in Seq(Hits) /\ Len(docs) = T /\ \A i \in 1 .. T : docs[i] = HitOf(s[i])
    <2>1. docs \in [1 .. T -> Hits] /\ \A i \in 1 .. T : docs[i] = HitOf(s[i])
      BY <1>5, <1>6
    <2>2. T \in Nat
      BY <1>1
    <2> QED BY <2>1, <2>2
  <1>8. Descending(docs)
    <2>1. ASSUME NEW i \in 1 .. T, NEW j \in 1 .. T, i <= j
          PROVE  docs[j].score <= docs[i].score /\ docs[j].shardIndex = docs[i].shardIndex
      <3>1. i \in 1 .. c /\ j \in 1 .. c
        BY <1>1, <1>4
      <3>2. s[j].score <= s[i].score
        BY <2>1, <3>1, RankedFalls DEF s, c, M
      <3> QED BY <1>6, <1>7, <3>2
    <2> QED BY <1>7, <2>1 DEF Descending
  <1>9. Plain(docs) = BestOf(wanted, Current)
    <2>1. PICK K \in Nat : K = Min({wanted, c}) /\ Best(Current) = [i \in 1 .. K |-> s[i]]
      BY BestIs DEF c, M, s
    <2>2. Best(Current) = Plain(docs)
      BY <1>1, <1>5, <2>1
    <2> QED BY <2>2, WithWanted
  <1>10. td.totalHits \in Nat /\ td.relation \in Relations /\ CountRight(wanted, Current, td.totalHits, td.relation)
    <2>1. CASE td.totalHits = totalHits /\ td.relation = totalHitsRelation
      <3>1. IsThresholdReached(totalHits) = PastThreshold(wanted, totalHits)
        BY WithWanted
      <3> QED BY <1>1, <2>1, <3>1 DEF CountRight, Relations, c, M
    <2>2. CASE (0 >= T \/ T <= 0) /\ td.totalHits = 0 /\ td.relation = "EQUAL_TO"
      <3>1. c = 0
        BY <1>1, <1>4, <2>2
      <3> QED BY <2>2, <3>1 DEF CountRight, Relations, c, M
    <2> QED BY <1>2, <2>1, <2>2
  <1>11. td \in Answers
    BY <1>3, <1>7, <1>10 DEF Answers, docs
  <1> QED BY <1>1, <1>7, <1>8, <1>9, <1>10, <1>11 DEF AnswerRight, docs

LEMMA AnswerAdded ==
    ASSUME SearchInv, Len(shards) < Len(reader), NEW td \in Answers, Descending(td.scoreDocs),
           AnswerRight(wanted, Current, td),
           reader' = reader, wanted' = wanted, shards' = Append(shards, td), pc' = "search"
    PROVE  SearchInv'
  <1>1. SearchesRight(reader, wanted, shards)
    BY DEF SearchInv
  <1>. DEFINE n == Len(shards)
              sh == Append(shards, td)
  <1>2. /\ Len(reader) \in Nat /\ \A i \in 1 .. Len(reader) : IsReader(reader[i])
        /\ wanted \in Nat /\ shards \in Seq(Answers) /\ \A i \in 1 .. n : Descending(shards[i].scoreDocs)
        /\ \A i \in 1 .. n : AnswerRight(wanted, reader[i], shards[i])
    BY <1>1 DEF SearchesRight, AreAnswers
  <1>3. /\ n \in Nat /\ sh \in Seq(Answers) /\ Len(sh) = n + 1 /\ sh[n + 1] = td
        /\ \A i \in 1 .. n : sh[i] = shards[i]
    BY <1>2
  <1>4. AnswerRight(wanted, reader[n + 1], td)
    BY DEF Current
  <1>. HIDE DEF n, sh
  <1>5. \A i \in 1 .. (n + 1) : i \in 1 .. n \/ i = n + 1
    BY <1>3
  <1>6. \A i \in 1 .. Len(sh) : Descending(sh[i].scoreDocs) /\ AnswerRight(wanted, reader[i], sh[i])
    BY <1>2, <1>3, <1>4, <1>5
  <1>7. Len(sh) <= Len(reader)
    BY <1>2, <1>3 DEF n
  <1>8. SearchesRight(reader, wanted, sh)
    BY <1>2, <1>3, <1>6, <1>7 DEF SearchesRight, AreAnswers
  <1>9. SearchesRight(reader', wanted', shards')
    BY <1>8 DEF sh
  <1> QED BY <1>9 DEF SearchInv

LEMMA TopDocsStep ==
    ASSUME SearchInv, TopDocs
    PROVE  SearchInv'
  <1>. DEFINE td == TopDocsRange(0, TopDocsSize)
  <1>1. /\ pc = "leaf" /\ leaf > Len(Current) /\ shards' = Append(shards, td) /\ pc' = "search"
        /\ reader' = reader /\ wanted' = wanted
    BY DEF TopDocs
  <1>2. Finished /\ IsReader(Current) /\ wanted \in Nat /\ Len(shards) < Len(reader)
    BY <1>1, AtTheEnd
  <1>3. td \in Answers /\ Descending(td.scoreDocs) /\ AnswerRight(wanted, Current, td)
    BY <1>2, WholeAnswer
  <1>. HIDE DEF td
  <1> QED BY <1>1, <1>2, <1>3, AnswerAdded

LEMMA ReduceStep ==
    ASSUME SearchInv, Reduce
    PROVE  SearchInv'
  <1>. DEFINE td == TopDocsRange(0, TopDocsSize)
              merged == MergeTopDocs(0, CappedNumHits, <<td>>, TRUE)
  <1>1. /\ pc = "leaf" /\ leaf > Len(Current) /\ shards' = shards \o merged /\ pc' = "search"
        /\ reader' = reader /\ wanted' = wanted
    BY DEF Reduce
  <1>2. Finished /\ IsReader(Current) /\ wanted \in Nat /\ Len(shards) < Len(reader)
    BY <1>1, AtTheEnd
  <1>3. /\ td \in Answers /\ Descending(td.scoreDocs) /\ AnswerRight(wanted, Current, td)
        /\ Len(td.scoreDocs) <= pq.size
    BY <1>2, WholeAnswer
  <1>4. CappedNumHits = pq.size /\ pq.size \in Nat
    <2>1. CappedNumHits = CapFor(Current)
      BY DEF CappedNumHits, CapFor
    <2>2. pq.size = CapFor(Current) /\ pq.size \in Nat
      BY <1>2, FinishedIs
    <2> QED BY <2>1, <2>2
  <1>. HIDE DEF td
  <1>5. PICK h \in Answers :
             /\ merged = <<h>>
             /\ h.totalHits = td.totalHits /\ h.relation = td.relation
             /\ h.scoreDocs = [i \in 1 .. Len(td.scoreDocs) |->
                                [doc |-> td.scoreDocs[i].doc, score |-> td.scoreDocs[i].score,
                                 shardIndex |-> 0]]
    BY <1>3, <1>4, OneAnswer
  <1>. HIDE DEF merged
  <1>. DEFINE docs == td.scoreDocs
              n == Len(docs)
              new == h.scoreDocs
  <1>6. docs \in Seq(Hits)
    BY <1>3 DEF Answers
  <1>7. n \in Nat /\ DOMAIN docs = 1 .. n
    <2>. HIDE DEF docs
    <2> QED BY <1>6
  <1>8. /\ new = [i \in 1 .. n |-> [doc |-> docs[i].doc, score |-> docs[i].score, shardIndex |-> 0]]
    BY <1>5
  <1>9. \A i, j \in 1 .. n : i <= j => docs[j].score <= docs[i].score
    BY <1>3 DEF Descending
  <1>. HIDE DEF docs, n, new
  <1>10. /\ Len(new) = n /\ DOMAIN new = 1 .. n
         /\ \A i \in 1 .. n : new[i] = [doc |-> docs[i].doc, score |-> docs[i].score, shardIndex |-> 0]
    <2>1. \A i \in 1 .. n : new[i] = [doc |-> docs[i].doc, score |-> docs[i].score, shardIndex |-> 0]
      BY <1>8
    <2>2. new = [i \in 1 .. n |-> new[i]]
      BY <1>8
    <2> QED BY <1>7, <2>1, <2>2, LenIs
  <1>11. \A i \in 1 .. n : /\ new[i].doc = docs[i].doc /\ new[i].score = docs[i].score
                           /\ new[i].shardIndex = 0
    BY <1>10
  <1>12. Descending(new)
    BY <1>9, <1>10, <1>11 DEF Descending
  <1>13. Plain(new) = Plain(docs)
    BY <1>7, <1>10, <1>11 DEF Plain
  <1>14. AnswerRight(wanted, Current, h)
    BY <1>3, <1>5, <1>13, Zenon DEF AnswerRight, new, docs
  <1>15. shards' = Append(shards, h)
    <2>1. AreAnswers(shards)
      BY <1>2, SearchedReader
    <2>2. shards \in Seq(Answers)
      BY <2>1 DEF AreAnswers
    <2> QED BY <1>1, <1>5, <2>2
  <1>16. Descending(h.scoreDocs)
    BY <1>12 DEF new
  <1> QED BY <1>1, <1>2, <1>14, <1>15, <1>16, AnswerAdded

LEMMA AskForPageStep ==
    ASSUME SearchInv, AskForPage
    PROVE  SearchInv'
  <1>1. /\ pc = "leaf" /\ leaf > Len(Current) /\ pc' = "done"
        /\ reader' = reader /\ wanted' = wanted /\ shards' = shards
    BY DEF AskForPage
  <1>2. PICK p \in Pages : page' = p /\ answer' = TopDocsRange(p.start, p.size)
    BY DEF AskForPage
  <1>3. p \in [start : Nat, size : Nat, setShardIndex : BOOLEAN] /\ p.start \in Nat /\ p.size \in Nat
    BY SearchAssumption
  <1>4. Finished /\ IsReader(Current) /\ wanted \in Nat /\ Len(shards) < Len(reader)
    BY <1>1, AtTheEnd
  <1>5. IsRange(p.start, p.size, answer')
    BY <1>2, <1>3, <1>4, RangeIs
  <1>. DEFINE s == Ranked(Current)
              c == Cardinality(Matches(Current))
              a == p.start
              z == p.size
  <1>6. PICK n \in Nat : /\ n = IF a >= TopDocsSize \/ z <= 0 THEN 0 ELSE Min({TopDocsSize - a, z})
                         /\ Plain(answer'.scoreDocs) = [i \in 1 .. n |-> s[a + i]]
    BY <1>5 DEF IsRange
  <1>7. PICK T \in Nat : T = Min({wanted, c}) /\ WindowsAre(Current, T)
    BY <1>4, BestIs
  <1>8. TopDocsSize = T
    BY <1>4, <1>7, FinishedIs
  <1>9. Window(Best(Current), p) = [i \in 1 .. n |-> s[a + i]]
    BY <1>3, <1>6, <1>7, <1>8, Zenon DEF WindowsAre
  <1>10. Plain(answer'.scoreDocs) = Window(BestOf(wanted, Current), p)
    BY <1>6, <1>9, WithWanted
  <1>11. SearchesRight(reader', wanted', shards') /\ Len(shards') < Len(reader') /\ Current' = Current
    BY <1>1, <1>4 DEF SearchInv, Current
  <1>12. Plain(answer'.scoreDocs) = Window(BestOf(wanted', Current'), page')
    BY <1>1, <1>2, <1>10, <1>11
  <1> QED BY <1>1, <1>11, <1>12 DEF SearchInv

LEMMA MergeStep ==
    ASSUME SearchInv, Merge
    PROVE  SearchInv'
  <1>1. reader' = reader /\ wanted' = wanted /\ shards' = shards
    BY DEF Merge
  <1>2. PICK p \in Pages :
          /\ page' = p
          /\ IF MergeTopDocs(p.start, p.size, shards, p.setShardIndex) = <<>>
             THEN pc' = "failed"
             ELSE /\ pc' = "merged"
                  /\ answer' = MergeTopDocs(p.start, p.size, shards, p.setShardIndex)[1]
    BY DEF Merge
  <1>3. SearchesRight(reader', wanted', shards') /\ AreAnswers(shards)
    BY <1>1 DEF SearchInv, SearchesRight
  <1>4. p \in PageSet
    BY SearchAssumption DEF PageSet
  <1>. DEFINE merged == MergeTopDocs(p.start, p.size, shards, p.setShardIndex)
  <1>5. CASE merged = <<>>
    <2>1. pc' = "failed"
      BY <1>2, <1>5
    <2> QED BY <1>3, <2>1 DEF SearchInv
  <1>6. CASE merged # <<>>
    <2>1. pc' = "merged" /\ answer' = merged[1]
      BY <1>2, <1>6
    <2>2. MergeRight(shards, merged[1], p)
      BY <1>3, <1>4, <1>6, MergeIsRight
    <2>. HIDE DEF merged
    <2>3. MergeRight(shards', answer', page')
      BY <1>1, <1>2, <2>1, <2>2
    <2> QED BY <1>3, <2>1, <2>3 DEF SearchInv
  <1> QED BY <1>5, <1>6

LEMMA SearchSteps == SearchInv /\ [SearchNext]_searchVars => SearchInv'
  <1>. SUFFICES ASSUME SearchInv, [SearchNext]_searchVars PROVE SearchInv'
    OBVIOUS
  <1>1. CASE SearchNext
    BY <1>1, SearchTopNStep, GetLeafCollectorStep, ScoreDocStep, LeafDoneStep, ReduceStep,
       TopDocsStep, AskForPageStep, MergeStep DEF SearchNext
  <1>2. CASE UNCHANGED searchVars
    <2>1. /\ reader' = reader /\ wanted' = wanted /\ shards' = shards /\ pc' = pc /\ leaf' = leaf
          /\ doc' = doc /\ pq' = pq /\ totalHits' = totalHits /\ totalHitsRelation' = totalHitsRelation
          /\ scorerMin' = scorerMin /\ page' = page /\ answer' = answer
      BY <1>2 DEF searchVars, collector
    <2>2. Current' = Current
      BY <2>1 DEF Current
    <2> QED BY <2>1, <2>2 DEF SearchInv
  <1> QED BY <1>1, <1>2

(* What the invariant says of the four parts of AnswersAccurate.               *)
LEMMA InvIsAccurate == SearchInv => AnswersAccurate
  <1>. SUFFICES ASSUME SearchInv PROVE AnswersAccurate
    OBVIOUS
  <1>1. SearchesRight(reader, wanted, shards)
    BY DEF SearchInv
  <1>2. DOMAIN shards = 1 .. Len(shards) /\ \A i \in 1 .. Len(shards) : AnswerRight(wanted, reader[i], shards[i])
    BY <1>1, AnswerParts DEF SearchesRight
  <1>3. ScoreDocsAccurate
    BY <1>2, WithWanted DEF ScoreDocsAccurate, AnswerRight
  <1>4. PageAccurate
    BY WithWanted DEF SearchInv, PageAccurate
  <1>5. MergeAccurate
    <2>1. AllHits = HitsOfAll(shards)
      BY DEF AllHits, HitsOfAll, HitAt
    <2> QED BY <2>1, Zenon DEF SearchInv, MergeAccurate, MergeRight
  <1>6. MinScoreSafe
    <2>1. ASSUME pc = "score", NEW i \in DOMAIN Best(Current) PROVE Best(Current)[i].score >= scorerMin
      <3>1. /\ Len(shards) < Len(reader)
            /\ InLeaf(wanted, Current, leaf, doc, pq, totalHits, totalHitsRelation, scorerMin)
        BY <2>1 DEF SearchInv
      <3>2. IsReader(Current) /\ wanted \in Nat
        BY <3>1, SearchedReader
      <3>3. /\ Collected(Current, DocBase(Current, leaf) + doc, pq, totalHits, totalHitsRelation)
            /\ Told(pq, totalHitsRelation, scorerMin)
        BY <3>1, WithWanted DEF InLeaf
      <3> QED BY <3>2, <3>3, ToldIsSafe
    <2> QED BY <2>1 DEF MinScoreSafe
  <1> QED BY <1>3, <1>4, <1>5, <1>6 DEF AnswersAccurate

LEMMA InvIsHonest == SearchInv => CountHonest
  <1>. SUFFICES ASSUME SearchInv PROVE CountHonest
    OBVIOUS
  <1>1. SearchesRight(reader, wanted, shards)
    BY DEF SearchInv
  <1>2. DOMAIN shards = 1 .. Len(shards) /\ \A i \in 1 .. Len(shards) : AnswerRight(wanted, reader[i], shards[i])
    BY <1>1, AnswerParts DEF SearchesRight
  <1> QED BY <1>2, WithWanted DEF CountHonest, AnswerRight, CountRight

(* SearchTopN with TopScoreDocCollector and MergeTopDocs, for every reader,    *)
(* number of hits, page and threshold: a search returns exactly the best live  *)
(* matches in order, a page of one and a merge of several are windows of the   *)
(* right ranking, and no scorer is told to leave out a hit of the answer.      *)
THEOREM SearchIsAccurate == SearchSpec => []AnswersAccurate
  <1>1. SearchInit => SearchInv
    BY SearchStarts
  <1>2. SearchInv /\ [SearchNext]_searchVars => SearchInv'
    BY SearchSteps
  <1>3. SearchInv => AnswersAccurate
    BY InvIsAccurate
  <1> QED BY <1>1, <1>2, <1>3, PTL DEF SearchSpec

(* TotalHits.Relation of TopScoreDocCollector is honest for every threshold:   *)
(* an EQUAL_TO count is the number of live matches, and a lower bound is given *)
(* only past the threshold and is one.                                         *)
THEOREM SearchCountsHonestly == SearchSpec => []CountHonest
  <1>1. SearchInit => SearchInv
    BY SearchStarts
  <1>2. SearchInv /\ [SearchNext]_searchVars => SearchInv'
    BY SearchSteps
  <1>3. SearchInv => CountHonest
    BY InvIsHonest
  <1> QED BY <1>1, <1>2, <1>3, PTL DEF SearchSpec

-----------------------------------------------------------------------------
(* The binary search of a composite reader.                                   *)

AreStarts(starts) ==
    /\ starts \in Seq(Nat)
    /\ \A i, j \in 1 .. Len(starts) : i <= j => starts[i] <= starts[j]

(* The last of the sub readers that start at n or before it. *)
IsLastStart(starts, n, i) ==
    i \in 1 .. Len(starts) - 1 /\ i + 1 \in 1 .. Len(starts) /\ starts[i] <= n /\ n < starts[i + 1]

Ranges(starts) == (1 .. Len(starts) + 1) \X (0 .. Len(starts))
Mid(range) == (range[1] + range[2]) \div 2
Width(range) == range[2] - range[1] + 1
SearchStep(n, starts, f, range) ==
    IF range[2] < range[1] THEN range[2]
    ELSE IF n < starts[Mid(range)] THEN f[<<range[1], Mid(range) - 1>>]
    ELSE IF n > starts[Mid(range)] THEN f[<<Mid(range) + 1, range[2]>>]
    ELSE LastMatch(starts, Mid(range))

LEMMA MidIsBetween ==
    ASSUME NEW lo \in Nat, NEW hi \in Nat, 1 <= lo, lo <= hi
    PROVE  (lo + hi) \div 2 \in Nat /\ lo <= (lo + hi) \div 2 /\ (lo + hi) \div 2 <= hi
  <1>1. lo + hi \in Nat /\ lo + hi >= 2
    OBVIOUS
  <1>. DEFINE s == lo + hi
  <1>2. /\ s \div 2 \in Nat
        /\ s = 2 * (s \div 2) \/ s = 2 * (s \div 2) + 1
    BY <1>1, HalfFacts
  <1>. DEFINE m == s \div 2
  <1>3. m \in Nat /\ (lo + hi = 2 * m \/ lo + hi = 2 * m + 1)
    BY <1>2
  <1>. HIDE DEF m
  <1>4. lo <= m /\ m <= hi
    BY <1>3
  <1> QED BY <1>3, <1>4 DEF m

LEMMA Halves ==
    ASSUME NEW starts, Len(starts) \in Nat, NEW range \in Ranges(starts), range[1] <= range[2]
    PROVE  /\ Mid(range) \in 1 .. Len(starts) /\ range[1] <= Mid(range) /\ Mid(range) <= range[2]
           /\ <<range[1], Mid(range) - 1>> \in Ranges(starts)
           /\ <<Mid(range) + 1, range[2]>> \in Ranges(starts)
           /\ Width(<<range[1], Mid(range) - 1>>) < Width(range)
           /\ Width(<<Mid(range) + 1, range[2]>>) < Width(range)
           /\ Width(range) \in Nat
  <1>1. range[1] \in 1 .. Len(starts) + 1 /\ range[2] \in 0 .. Len(starts)
    BY DEF Ranges
  <1>. DEFINE lo == range[1]
              hi == range[2]
              m == Mid(range)
  <1>2. lo \in Nat /\ hi \in Nat /\ 1 <= lo /\ hi <= Len(starts) /\ lo <= hi
    BY <1>1
  <1>3. m \in Nat /\ lo <= m /\ m <= hi
    <2>1. (lo + hi) \div 2 \in Nat /\ lo <= (lo + hi) \div 2 /\ (lo + hi) \div 2 <= hi
      BY <1>2, MidIsBetween
    <2> QED BY <2>1 DEF Mid
  <1>. HIDE DEF m
  <1>4. /\ m \in 1 .. Len(starts) /\ m - 1 \in 0 .. Len(starts) /\ m + 1 \in 1 .. Len(starts) + 1
        /\ m - 1 - lo + 1 < hi - lo + 1 /\ hi - (m + 1) + 1 < hi - lo + 1 /\ hi - lo + 1 \in Nat
    BY <1>2, <1>3
  <1>5. <<lo, m - 1>> \in Ranges(starts) /\ <<m + 1, hi>> \in Ranges(starts)
    BY <1>1, <1>4 DEF Ranges
  <1>6. /\ Width(range) = hi - lo + 1
        /\ Width(<<lo, m - 1>>) = m - 1 - lo + 1
        /\ Width(<<m + 1, hi>>) = hi - (m + 1) + 1
    BY DEF Width
  <1> QED BY <1>3, <1>4, <1>5, <1>6 DEF m

LEMMA SearchFunction ==
    ASSUME NEW n, NEW starts, Len(starts) \in Nat
    PROVE  \E f : /\ \A range \in Ranges(starts) : f[range] = SearchStep(n, starts, f, range)
                  /\ SubIndex(n, starts) = f[<<1, Len(starts)>>]
  <1>. DEFINE R == Ranges(starts)
              Good(f, k) == \A range \in R : Width(range) < k => f[range] = SearchStep(n, starts, f, range)
              Bad == {k \in Nat : ~\E f : Good(f, k)}
  <1>0. \A range \in R : /\ range[1] \in Nat /\ range[2] \in Nat /\ range[1] <= Len(starts) + 1
                         /\ range[2] <= Len(starts) /\ 1 <= range[1]
                         /\ Width(range) \in Int /\ Width(range) <= Len(starts)
                         /\ (Width(range) < 1 => range[2] < range[1])
    BY DEF Ranges, Width
  <1>1. 0 \notin Bad
    <2>. DEFINE e == [range \in R |-> range[2]]
    <2>1. \A range \in R : Width(range) < 0 => e[range] = SearchStep(n, starts, e, range)
      <3>1. ASSUME NEW range \in R, Width(range) < 0 PROVE e[range] = SearchStep(n, starts, e, range)
        <4>1. range[2] < range[1] /\ e[range] = range[2]
          BY <1>0, <3>1
        <4>. HIDE DEF e
        <4> QED BY <4>1 DEF SearchStep
      <3> QED BY <3>1
    <2>2. Good(e, 0)
      BY <2>1
    <2> QED BY <2>2
  <1>2. ASSUME NEW k \in Bad, \A j \in Bad : k <= j PROVE FALSE
    <2>1. k \in Nat /\ k # 0 /\ k - 1 \in Nat /\ ~(k <= k - 1)
      BY <1>1
    <2>2. PICK f : Good(f, k - 1)
      BY <1>2, <2>1
    <2>. DEFINE g == [range \in R |-> SearchStep(n, starts, f, range)]
    <2>3. ASSUME NEW range \in R, Width(range) < k PROVE g[range] = SearchStep(n, starts, g, range)
      <3>1. g[range] = SearchStep(n, starts, f, range)
        OBVIOUS
      <3>2. CASE range[2] < range[1]
        <4>. HIDE DEF g
        <4> QED BY <3>1, <3>2 DEF SearchStep
      <3>3. CASE range[1] <= range[2]
        <4>. DEFINE a == <<range[1], Mid(range) - 1>>
                    b == <<Mid(range) + 1, range[2]>>
        <4>1. a \in R /\ b \in R /\ Width(a) < Width(range) /\ Width(b) < Width(range)
          BY <3>3, Halves
        <4>2. Width(a) < k - 1 /\ Width(b) < k - 1
          <5>1. Width(a) \in Int /\ Width(b) \in Int /\ Width(range) \in Int
            BY <1>0, <4>1
          <5>. HIDE DEF a, b
          <5> QED BY <2>1, <2>3, <4>1, <5>1
        <4>3. g[a] = SearchStep(n, starts, f, a) /\ g[b] = SearchStep(n, starts, f, b)
          BY <4>1
        <4>4. f[a] = SearchStep(n, starts, f, a) /\ f[b] = SearchStep(n, starts, f, b)
          <5>. HIDE DEF a, b, g
          <5> QED BY <2>2, <4>1, <4>2
        <4>5. g[a] = f[a] /\ g[b] = f[b]
          BY <4>3, <4>4, Zenon
        <4>. HIDE DEF g
        <4>6. SearchStep(n, starts, f, range) = SearchStep(n, starts, g, range)
          BY <4>5, Zenon DEF SearchStep
        <4> QED BY <3>1, <4>6, Zenon
      <3>4. range[2] < range[1] \/ range[1] <= range[2]
        BY <1>0
      <3> QED BY <3>2, <3>3, <3>4
    <2>. HIDE DEF g
    <2>4. Good(g, k)
      BY <2>3
    <2> QED BY <2>4
  <1>3. Bad = {}
    <2>1. Bad \subseteq Nat
      OBVIOUS
    <2>. HIDE DEF Bad
    <2> QED BY <1>2, <2>1, LeastNat
  <1>4. PICK f : Good(f, Len(starts) + 1)
    <2>1. Len(starts) + 1 \in Nat
      OBVIOUS
    <2> QED BY <1>3, <2>1
  <1>. DEFINE Is(h) == h = [range \in R |-> SearchStep(n, starts, h, range)]
              g == [range \in R |-> f[range]]
  <1>5. Is(g)
    <2>1. ASSUME NEW range \in R PROVE g[range] = SearchStep(n, starts, g, range)
      <3>1. g[range] = f[range]
        OBVIOUS
      <3>2. f[range] = SearchStep(n, starts, f, range)
        <4>1. Width(range) < Len(starts) + 1
          BY <1>0
        <4> QED BY <1>4, <4>1
      <3>3. SearchStep(n, starts, f, range) = SearchStep(n, starts, g, range)
        <4>1. CASE range[2] < range[1]
          <5>. HIDE DEF g
          <5> QED BY <4>1 DEF SearchStep
        <4>2. CASE range[1] <= range[2]
          <5>. DEFINE a == <<range[1], Mid(range) - 1>>
                      b == <<Mid(range) + 1, range[2]>>
          <5>1. a \in R /\ b \in R
            BY <4>2, Halves
          <5>2. g[a] = f[a] /\ g[b] = f[b]
            BY <5>1
          <5>. HIDE DEF g
          <5> QED BY <5>2, Zenon DEF SearchStep
        <4> QED BY <1>0, <4>1, <4>2
      <3>. HIDE DEF g
      <3> QED BY <3>1, <3>2, <3>3, Zenon
    <2>2. g = [range \in R |-> g[range]]
      OBVIOUS
    <2>. HIDE DEF g
    <2>3. [range \in R |-> g[range]] = [range \in R |-> SearchStep(n, starts, g, range)]
      BY <2>1, Zenon
    <2> QED BY <2>2, <2>3, Zenon
  <1>6. \E h : Is(h) /\ SubIndex(n, starts) = h[<<1, Len(starts)>>]
    <2>1. SubIndex(n, starts) = (CHOOSE h : Is(h))[<<1, Len(starts)>>]
      BY Zenon DEF SubIndex, SearchStep, Ranges, Mid
    <2>. HIDE DEF Is
    <2>2. Is(CHOOSE h : Is(h))
      BY <1>5, Zenon
    <2> QED BY <2>1, <2>2, Zenon
  <1> QED
    <2>1. PICK h : Is(h) /\ SubIndex(n, starts) = h[<<1, Len(starts)>>]
      BY <1>6
    <2>2. \A range \in R : h[range] = SearchStep(n, starts, h, range)
      BY <2>1, Zenon
    <2> QED BY <2>1, <2>2, Zenon

LEMMA LastMatchIs ==
    ASSUME NEW starts, AreStarts(starts), NEW n \in Nat, NEW mid \in 1 .. Len(starts), starts[mid] = n,
           n < starts[Len(starts)]
    PROVE  IsLastStart(starts, n, LastMatch(starts, mid))
  <1>. DEFINE N == Len(starts)
              same == {i \in mid .. N : \A k \in mid .. i : starts[k] = n}
              Above(i) == N - i
              T == {N - i : i \in same}
  <1>1. N \in Nat /\ mid \in 1 .. N /\ \A i \in 1 .. N : starts[i] \in Nat
    BY DEF AreStarts
  <1>2. LastMatch(starts, mid) = CHOOSE x \in same : \A y \in same : x >= y
    BY DEF LastMatch, Max
  <1>3. mid \in same /\ \A i \in same : i \in mid .. N /\ i \in 1 .. N /\ starts[i] = n
    <2>1. mid \in mid .. N /\ \A k \in mid .. mid : k = mid
      BY <1>1
    <2>2. \A i \in mid .. N : i \in mid .. i /\ i \in 1 .. N
      BY <1>1
    <2> QED BY <2>1, <2>2
  <1>4. \A i \in same : i + 1 \in mid .. N /\ starts[i + 1] = n => i + 1 \in same
    <2>1. ASSUME NEW i \in same, i + 1 \in mid .. N, starts[i + 1] = n, NEW k \in mid .. (i + 1)
          PROVE  starts[k] = n
      <3>1. i \in Nat /\ (k = i + 1 \/ k \in mid .. i)
        BY <1>1, <1>3, <2>1
      <3> QED BY <2>1, <3>1
    <2> QED BY <2>1
  <1>. HIDE DEF N, same
  <1>5. \E x \in same : \A y \in same : x >= y
    <2>1. T \subseteq Nat /\ T # {}
      <3>1. \A i \in same : N - i \in Nat
        BY <1>1, <1>3
      <3> QED BY <1>3, <3>1
    <2>2. PICK t \in T : \A u \in T : t <= u
      <3>. HIDE DEF T
      <3> QED BY <2>1, LeastNat
    <2>3. PICK x \in same : t = N - x
      OBVIOUS
    <2>4. ASSUME NEW y \in same PROVE x >= y
      <3>1. N - x <= N - y
        BY <2>2, <2>3
      <3> QED BY <1>1, <1>3, <3>1
    <2> QED BY <2>4
  <1>. DEFINE x == LastMatch(starts, mid)
  <1>6. x \in same /\ \A y \in same : x >= y
    BY <1>2, <1>5, Zenon
  <1>. HIDE DEF x
  <1>7. x \in 1 .. N /\ x \in mid .. N /\ starts[x] = n /\ x # N
    <2>1. starts[N] # n
      <3>1. N \in 1 .. N /\ n < starts[N]
        BY <1>1 DEF N
      <3> QED BY <1>1, <3>1
    <2> QED BY <1>3, <1>6, <2>1
  <1>8. x \in 1 .. N - 1 /\ x + 1 \in 1 .. N /\ x + 1 \in mid .. N /\ ~(x >= x + 1) /\ x <= x + 1
    BY <1>1, <1>7
  <1>9. starts[x + 1] # n
    BY <1>4, <1>6, <1>8
  <1>10. starts[x] <= starts[x + 1]
    BY <1>7, <1>8 DEF AreStarts, N
  <1>11. starts[x] <= n /\ n < starts[x + 1]
    BY <1>1, <1>7, <1>8, <1>9, <1>10
  <1> QED BY <1>8, <1>11 DEF IsLastStart, x, N

LEMMA SubIndexIs ==
    ASSUME NEW starts, AreStarts(starts), NEW n \in Nat, Len(starts) >= 1,
           starts[1] <= n, n < starts[Len(starts)]
    PROVE  IsLastStart(starts, n, SubIndex(n, starts))
  <1>. DEFINE N == Len(starts)
              R == Ranges(starts)
              Around(q) == /\ q[1] <= q[2] + 1
                           /\ q[1] - 1 \in 1 .. N => starts[q[1] - 1] < n
                           /\ q[2] + 1 \in 1 .. N => n < starts[q[2] + 1]
  <1>1. N \in Nat /\ N >= 1 /\ (\A i \in 1 .. N : starts[i] \in Nat) /\ starts[1] <= n /\ n < starts[N]
    BY DEF AreStarts
  <1>2. PICK f : /\ \A q \in R : f[q] = SearchStep(n, starts, f, q)
                 /\ SubIndex(n, starts) = f[<<1, N>>]
    BY <1>1, SearchFunction
  <1>. DEFINE Good(k) == \A q \in R : Width(q) = k /\ Around(q) => IsLastStart(starts, n, f[q])
              Bad == {k \in Nat : ~Good(k)}
  <1>3. \A q \in R : /\ q[1] \in 1 .. N + 1 /\ q[2] \in 0 .. N /\ Width(q) \in Int
                     /\ (q[1] <= q[2] + 1 => Width(q) \in Nat)
    BY <1>1 DEF Ranges, Width
  <1>4. ASSUME NEW k \in Bad, \A j \in Bad : k <= j PROVE FALSE
    <2>1. ASSUME NEW q \in R, Width(q) = k, Around(q) PROVE IsLastStart(starts, n, f[q])
      <3>0. f[q] = SearchStep(n, starts, f, q) /\ q[1] \in 1 .. N + 1 /\ q[2] \in 0 .. N /\ k \in Nat
        BY <1>2, <1>3
      <3>1. CASE q[2] < q[1]
        <4>. DEFINE h == q[2]
        <4>1. f[q] = h
          BY <3>0, <3>1 DEF SearchStep
        <4>2. h \in 0 .. N /\ q[1] = h + 1
          BY <1>1, <2>1, <3>0, <3>1
        <4>3. h # 0
          <5>1. CASE h = 0
            <6>1. h + 1 \in 1 .. N /\ h + 1 = 1
              BY <1>1, <5>1
            <6>2. n < starts[h + 1]
              BY <2>1, <6>1
            <6> QED BY <1>1, <6>1, <6>2
          <5> QED BY <5>1
        <4>4. h \in 1 .. N /\ q[1] - 1 = h
          BY <1>1, <4>2, <4>3
        <4>5. starts[h] < n
          BY <2>1, <4>4
        <4>6. h # N
          BY <1>1, <4>4, <4>5
        <4>7. h + 1 \in 1 .. N /\ h \in 1 .. N - 1
          BY <1>1, <4>4, <4>6
        <4>8. n < starts[h + 1]
          BY <2>1, <4>7
        <4>9. starts[h] <= n
          BY <1>1, <4>4, <4>5
        <4>. HIDE DEF h
        <4> QED BY <4>1, <4>7, <4>8, <4>9 DEF IsLastStart
      <3>2. CASE q[1] <= q[2]
        <4>. DEFINE m == Mid(q)
                    a == <<q[1], m - 1>>
                    b == <<m + 1, q[2]>>
        <4>1. /\ m \in 1 .. N /\ q[1] <= m /\ m <= q[2] /\ a \in R /\ b \in R
              /\ Width(a) < Width(q) /\ Width(b) < Width(q)
          BY <1>1, <3>2, Halves
        <4>2. f[q] = IF n < starts[m] THEN f[a] ELSE IF n > starts[m] THEN f[b] ELSE LastMatch(starts, m)
          <5>1. ~(q[2] < q[1])
            BY <1>1, <3>0, <3>2
          <5>2. SearchStep(n, starts, f, q)
                  = IF n < starts[m] THEN f[a] ELSE IF n > starts[m] THEN f[b] ELSE LastMatch(starts, m)
            BY <5>1, Zenon DEF SearchStep
          <5> QED BY <3>0, <5>2, Zenon
        <4>3. a[1] = q[1] /\ a[2] = m - 1 /\ b[1] = m + 1 /\ b[2] = q[2]
          OBVIOUS
        <4>. HIDE DEF m, a, b
        <4>4. starts[m] \in Nat /\ m - 1 + 1 = m /\ m + 1 - 1 = m
          BY <1>1, <4>1
        <4>5. CASE n < starts[m]
          <5>1. Around(a)
            <6>1. a[1] <= a[2] + 1 /\ a[2] + 1 = m
              BY <1>1, <3>0, <4>1, <4>3, <4>4
            <6>2. a[1] - 1 \in 1 .. N => starts[a[1] - 1] < n
              BY <2>1, <4>3
            <6>3. n < starts[a[2] + 1]
              BY <4>5, <6>1
            <6> QED BY <6>1, <6>2, <6>3
          <5>2. Width(a) \in Nat /\ ~(k <= Width(a))
            BY <1>3, <2>1, <3>0, <4>1, <5>1
          <5>3. Good(Width(a))
            BY <1>4, <5>2
          <5>4. IsLastStart(starts, n, f[a])
            BY <4>1, <5>1, <5>3
          <5>5. f[q] = f[a]
            BY <4>2, <4>5
          <5> QED BY <5>4, <5>5
        <4>6. CASE n > starts[m]
          <5>1. Around(b)
            <6>1. b[1] <= b[2] + 1 /\ b[1] - 1 = m
              BY <1>1, <3>0, <4>1, <4>3, <4>4
            <6>2. starts[b[1] - 1] < n
              BY <4>4, <4>6, <6>1
            <6>3. b[2] + 1 \in 1 .. N => n < starts[b[2] + 1]
              BY <2>1, <4>3
            <6> QED BY <6>1, <6>2, <6>3
          <5>2. Width(b) \in Nat /\ ~(k <= Width(b))
            BY <1>3, <2>1, <3>0, <4>1, <5>1
          <5>3. Good(Width(b))
            BY <1>4, <5>2
          <5>4. IsLastStart(starts, n, f[b])
            BY <4>1, <5>1, <5>3
          <5>5. f[q] = f[b]
            BY <4>2, <4>4, <4>6
          <5> QED BY <5>4, <5>5
        <4>7. CASE starts[m] = n
          <5>1. IsLastStart(starts, n, LastMatch(starts, m))
            BY <1>1, <4>1, <4>7, LastMatchIs
          <5>2. f[q] = LastMatch(starts, m)
            BY <4>2, <4>4, <4>7
          <5> QED BY <5>1, <5>2
        <4> QED BY <4>4, <4>5, <4>6, <4>7
      <3> QED BY <1>1, <3>0, <3>1, <3>2
    <2> QED BY <2>1
  <1>5. Bad = {}
    <2>1. Bad \subseteq Nat
      OBVIOUS
    <2>. HIDE DEF Bad
    <2> QED BY <1>4, <2>1, LeastNat
  <1>. DEFINE all == <<1, N>>
  <1>6. all \in R /\ Width(all) \in Nat /\ Around(all)
    <2>1. all[1] = 1 /\ all[2] = N /\ Width(all) = N - 1 + 1
      BY DEF Width
    <2>2. all \in R
      BY <1>1 DEF Ranges
    <2>3. all[1] <= all[2] + 1 /\ ~(all[1] - 1 \in 1 .. N) /\ ~(all[2] + 1 \in 1 .. N) /\ Width(all) \in Nat
      BY <1>1, <2>1
    <2>. HIDE DEF all
    <2> QED BY <2>2, <2>3
  <1>. HIDE DEF all, Around
  <1>7. IsLastStart(starts, n, f[all])
    BY <1>5, <1>6
  <1> QED BY <1>2, <1>7 DEF all

-----------------------------------------------------------------------------
(* The documents of the sub readers, by number and by place.                  *)

AreSubs(s) == s \in Seq(Seq(SubDocs))

SubOf(s, n) == SubIndex(n, Starts(s))
PlaceOf(s, n) == n - DocBase(s, SubOf(s, n)) + 1
Numbers(s) == 0 .. MaxDoc(s) - 1

LEMMA SubsAre ==
    ASSUME NEW s, AreSubs(s)
    PROVE  /\ Len(s) \in Nat /\ DOMAIN s = 1 .. Len(s)
           /\ \A i \in DOMAIN s : /\ Len(s[i]) \in Nat /\ DOMAIN s[i] = 1 .. Len(s[i])
                                  /\ \A d \in DOMAIN s[i] : s[i][d].live \in BOOLEAN /\ s[i][d].freq \in Nat
           /\ MaxDoc(s) \in Nat /\ MaxDoc(s) = DocBase(s, Len(s) + 1) /\ DocBase(s, 1) = 0
           /\ \A i \in 1 .. Len(s) + 1 : DocBase(s, i) \in Nat
           /\ \A i \in 1 .. Len(s) : DocBase(s, i + 1) = DocBase(s, i) + Len(s[i])
           /\ \A i, k \in 1 .. Len(s) + 1 : i <= k => DocBase(s, i) <= DocBase(s, k)
  <1>1. s \in Seq(Seq(SubDocs))
    BY DEF AreSubs
  <1>2. ASSUME NEW i \in DOMAIN s, NEW d \in DOMAIN s[i] PROVE s[i][d] \in SubDocs
    BY <1>1
  <1>3. /\ Len(s) \in Nat /\ DOMAIN s = 1 .. Len(s)
        /\ \A i \in DOMAIN s : Len(s[i]) \in Nat /\ DOMAIN s[i] = 1 .. Len(s[i])
    BY <1>1
  <1>4. \A i \in DOMAIN s : \A d \in DOMAIN s[i] : s[i][d].live \in BOOLEAN /\ s[i][d].freq \in Nat
    BY <1>2 DEF SubDocs
  <1>5. /\ MaxDoc(s) \in Nat /\ MaxDoc(s) = DocBase(s, Len(s) + 1) /\ DocBase(s, 1) = 0
        /\ \A i \in 1 .. Len(s) + 1 : DocBase(s, i) \in Nat
        /\ \A i \in 1 .. Len(s) : DocBase(s, i + 1) = DocBase(s, i) + Len(s[i])
        /\ \A i, k \in 1 .. Len(s) + 1 : i <= k => DocBase(s, i) <= DocBase(s, k)
    BY <1>1, LeafBases
  <1> QED BY <1>3, <1>4, <1>5

LEMMA SameTotals == \A c : RunningTotals(c) = Sums(c)
  BY DEF RunningTotals, Sums

LEMMA TotalIs == \A c : Total(c) = Sums(c)[Len(c)]
  BY SameTotals DEF Total

LEMMA MaxDocsTotal ==
    ASSUME NEW s, AreSubs(s)
    PROVE  /\ Total(MaxDocs(s)) = MaxDoc(s)
           /\ \A i : RunningTotals(MaxDocs(s))[i - 1] = DocBase(s, i)
  <1>1. MaxDocs(s) = DocCounts(s)
    BY DEF MaxDocs, DocCounts
  <1>2. Len(DocCounts(s)) = Len(s)
    <2>1. Len(s) \in Nat /\ DOMAIN s = 1 .. Len(s)
      BY SubsAre
    <2>2. DOMAIN DocCounts(s) = 1 .. Len(s)
      BY <2>1 DEF DocCounts
    <2>3. DocCounts(s) \in Seq({Len(s[i]) : i \in DOMAIN s})
      <3>1. DocCounts(s) \in [1 .. Len(s) -> {Len(s[i]) : i \in DOMAIN s}]
        BY <2>1 DEF DocCounts
      <3> QED BY <2>1, <3>1
    <2> QED BY <2>1, <2>2, <2>3
  <1>3. Total(MaxDocs(s)) = Sums(DocCounts(s))[Len(s)]
    BY <1>1, <1>2, TotalIs, Zenon
  <1>4. \A i : RunningTotals(MaxDocs(s))[i - 1] = Sums(DocCounts(s))[i - 1]
    BY <1>1, SameTotals, Zenon
  <1> QED BY <1>3, <1>4, Zenon DEF MaxDoc, DocBase

LEMMA StartsAre ==
    ASSUME NEW s, AreSubs(s)
    PROVE  /\ AreStarts(Starts(s)) /\ Len(Starts(s)) = Len(s) + 1
           /\ \A i \in 1 .. Len(s) + 1 : Starts(s)[i] = DocBase(s, i)
  <1>. DEFINE n == Len(s)
              st == Starts(s)
  <1>1. n \in Nat /\ \A i \in 1 .. n + 1 : DocBase(s, i) \in Nat
    BY SubsAre
  <1>2. st = [i \in 1 .. n + 1 |-> DocBase(s, i)]
    <2>1. st = [i \in 1 .. n + 1 |-> RunningTotals(MaxDocs(s))[i - 1]]
      BY DEF Starts
    <2>2. [i \in 1 .. n + 1 |-> RunningTotals(MaxDocs(s))[i - 1]] = [i \in 1 .. n + 1 |-> DocBase(s, i)]
      BY MaxDocsTotal, Zenon
    <2> QED BY <2>1, <2>2, Zenon
  <1>. HIDE DEF st
  <1>3. st \in [1 .. n + 1 -> Nat]
    BY <1>1, <1>2
  <1>4. st \in Seq(Nat) /\ Len(st) = n + 1
    BY <1>1, <1>3
  <1>5. \A i \in 1 .. n + 1 : st[i] = DocBase(s, i)
    BY <1>2
  <1>6. \A i, k \in 1 .. n + 1 : i <= k => st[i] <= st[k]
    BY <1>5, SubsAre
  <1> QED BY <1>4, <1>5, <1>6 DEF AreStarts, st

LEMMA NumberLeads ==
    ASSUME NEW s, AreSubs(s), NEW n \in Numbers(s)
    PROVE  /\ n \in Nat /\ SubOf(s, n) \in DOMAIN s /\ SubOf(s, n) \in Nat /\ SubOf(s, n) # 0
           /\ PlaceOf(s, n) \in DOMAIN s[SubOf(s, n)] /\ PlaceOf(s, n) \in Nat
           /\ Starts(s)[SubOf(s, n)] = DocBase(s, SubOf(s, n))
           /\ DocBase(s, SubOf(s, n)) \in Nat /\ n = DocBase(s, SubOf(s, n)) + PlaceOf(s, n) - 1
  <1>. DEFINE st == Starts(s)
              i == SubOf(s, n)
  <1>1. /\ Len(s) \in Nat /\ DOMAIN s = 1 .. Len(s) /\ MaxDoc(s) \in Nat /\ MaxDoc(s) = DocBase(s, Len(s) + 1)
        /\ DocBase(s, 1) = 0
        /\ \A k \in 1 .. Len(s) + 1 : DocBase(s, k) \in Nat
        /\ \A k \in 1 .. Len(s) : DocBase(s, k + 1) = DocBase(s, k) + Len(s[k]) /\ Len(s[k]) \in Nat
                                  /\ DOMAIN s[k] = 1 .. Len(s[k])
    BY SubsAre
  <1>2. AreStarts(st) /\ Len(st) = Len(s) + 1 /\ \A k \in 1 .. Len(s) + 1 : st[k] = DocBase(s, k)
    BY StartsAre
  <1>3. n \in Nat /\ n < MaxDoc(s)
    BY <1>1 DEF Numbers
  <1>. HIDE DEF st
  <1>4. Len(st) >= 1 /\ st[1] <= n /\ n < st[Len(st)]
    <2>1. 1 \in 1 .. Len(s) + 1 /\ Len(s) + 1 \in 1 .. Len(s) + 1
      BY <1>1
    <2> QED BY <1>1, <1>2, <1>3, <2>1
  <1>5. IsLastStart(st, n, i)
    BY <1>2, <1>3, <1>4, SubIndexIs DEF SubOf, st
  <1>. HIDE DEF i
  <1>6. i \in 1 .. Len(s) /\ i \in 1 .. Len(s) + 1 /\ i + 1 \in 1 .. Len(s) + 1 /\ st[i] <= n /\ n < st[i + 1]
    BY <1>1, <1>2, <1>5 DEF IsLastStart
  <1>. DEFINE a == DocBase(s, i)
  <1>7. /\ a \in Nat /\ a <= n /\ n < a + Len(s[i]) /\ Len(s[i]) \in Nat /\ DOMAIN s[i] = 1 .. Len(s[i])
        /\ st[i] = a
    BY <1>1, <1>2, <1>6
  <1>8. PlaceOf(s, n) = n - a + 1
    BY DEF PlaceOf, i
  <1>. HIDE DEF a
  <1>9. PlaceOf(s, n) \in 1 .. Len(s[i]) /\ PlaceOf(s, n) \in Nat /\ n = a + PlaceOf(s, n) - 1
    BY <1>3, <1>7, <1>8
  <1>10. i \in DOMAIN s /\ i \in Nat /\ i # 0
    BY <1>1, <1>6
  <1> QED BY <1>3, <1>7, <1>9, <1>10 DEF a, i, st

LEMMA PlaceIsNumbered ==
    ASSUME NEW s, AreSubs(s), NEW i \in DOMAIN s, NEW d \in DOMAIN s[i]
    PROVE  /\ DocBase(s, i) + d - 1 \in Numbers(s)
           /\ SubOf(s, DocBase(s, i) + d - 1) = i
           /\ PlaceOf(s, DocBase(s, i) + d - 1) = d
           /\ DocBase(s, i) \in Nat /\ d \in Nat /\ d >= 1
  <1>. DEFINE n == DocBase(s, i) + d - 1
              k == SubOf(s, n)
              e == PlaceOf(s, n)
              B(h) == DocBase(s, h)
  <1>1. /\ Len(s) \in Nat /\ DOMAIN s = 1 .. Len(s) /\ MaxDoc(s) \in Nat /\ MaxDoc(s) = B(Len(s) + 1)
        /\ \A h \in 1 .. Len(s) + 1 : B(h) \in Nat
        /\ \A h \in 1 .. Len(s) : B(h + 1) = B(h) + Len(s[h]) /\ Len(s[h]) \in Nat
                                  /\ DOMAIN s[h] = 1 .. Len(s[h])
        /\ \A g, h \in 1 .. Len(s) + 1 : g <= h => B(g) <= B(h)
    BY SubsAre
  <1>. HIDE DEF B
  <1>2. /\ i \in 1 .. Len(s) /\ i \in 1 .. Len(s) + 1 /\ i + 1 \in 1 .. Len(s) + 1
        /\ Len(s) + 1 \in 1 .. Len(s) + 1 /\ i + 1 <= Len(s) + 1 /\ i \in Nat
    BY <1>1
  <1>3. /\ d \in Nat /\ d >= 1 /\ d <= Len(s[i]) /\ B(i) \in Nat /\ B(i + 1) = B(i) + Len(s[i])
        /\ B(i + 1) <= MaxDoc(s) /\ Len(s[i]) \in Nat
    BY <1>1, <1>2
  <1>4. n = B(i) + d - 1
    BY DEF B
  <1>. HIDE DEF n
  <1>5. n \in Nat /\ n \in Numbers(s) /\ B(i) <= n /\ n < B(i + 1)
    BY <1>1, <1>3, <1>4 DEF Numbers
  <1>6. /\ k \in DOMAIN s /\ e \in DOMAIN s[k] /\ n = B(k) + e - 1
    BY <1>5, NumberLeads DEF B
  <1>. HIDE DEF k, e
  <1>7. /\ k \in 1 .. Len(s) /\ k \in 1 .. Len(s) + 1 /\ k + 1 \in 1 .. Len(s) + 1 /\ k \in Nat
    BY <1>1, <1>6
  <1>8. /\ e \in Nat /\ e >= 1 /\ e <= Len(s[k]) /\ B(k) \in Nat /\ B(k + 1) = B(k) + Len(s[k])
        /\ Len(s[k]) \in Nat
    <2>1. /\ Len(s[k]) \in Nat /\ DOMAIN s[k] = 1 .. Len(s[k])
          /\ B(k) \in Nat /\ B(k + 1) = B(k) + Len(s[k])
      BY <1>1, <1>7, Zenon
    <2> QED BY <1>6, <2>1
  <1>9. B(k) <= n /\ n < B(k + 1)
    BY <1>5, <1>6, <1>8
  <1>10. k = i
    <2>1. CASE k < i
      <3>1. k + 1 <= i
        BY <1>2, <1>7, <2>1
      <3>2. B(k + 1) <= B(i)
        BY <1>1, <1>2, <1>7, <3>1
      <3> QED BY <1>3, <1>5, <1>8, <1>9, <3>2
    <2>2. CASE i < k
      <3>1. i + 1 <= k
        BY <1>2, <1>7, <2>2
      <3>2. B(i + 1) <= B(k)
        BY <1>1, <1>2, <1>7, <3>1
      <3> QED BY <1>3, <1>5, <1>8, <1>9, <3>2
    <2> QED BY <1>2, <1>7, <2>1, <2>2
  <1>11. e = d
    <2>1. n = B(i) + e - 1
      BY <1>6, <1>10
    <2> QED BY <1>3, <1>4, <1>8, <2>1
  <1> QED BY <1>3, <1>5, <1>10, <1>11 DEF n, k, e, B

-----------------------------------------------------------------------------
(* What is counted sub reader by sub reader and what is counted by number.    *)

(* part[i] are the things that counts[i] counts. *)
AreParts(counts, part) ==
    /\ counts \in Seq(Nat)
    /\ \A i \in 1 .. Len(counts) : IsFiniteSet(part[i]) /\ Cardinality(part[i]) = counts[i]
    /\ \A i, j \in 1 .. Len(counts) : i # j => part[i] \cap part[j] = {}

LEMMA PartsCounted ==
    ASSUME NEW counts, NEW part, AreParts(counts, part)
    PROVE  /\ IsFiniteSet(UNION {part[i] : i \in 1 .. Len(counts)})
           /\ Cardinality(UNION {part[i] : i \in 1 .. Len(counts)}) = Total(counts)
  <1>. DEFINE N == Len(counts)
              U(k) == UNION {part[i] : i \in 1 .. k}
              Good(k) == IsFiniteSet(U(k)) /\ Cardinality(U(k)) = Sums(counts)[k]
              Bad == {k \in 0 .. N : ~Good(k)}
  <1>1. /\ N \in Nat /\ Sums(counts)[0] = 0 /\ \A i \in 0 .. N : Sums(counts)[i] \in Nat
        /\ \A i \in 1 .. N : Sums(counts)[i] = Sums(counts)[i - 1] + counts[i] /\ counts[i] \in Nat
    <2>1. counts \in Seq(Nat)
      BY DEF AreParts
    <2> QED BY <2>1, SumsAdd
  <1>2. Good(0)
    <2>1. U(0) = {}
      OBVIOUS
    <2>. HIDE DEF U
    <2> QED BY <1>1, <2>1, FS_EmptySet
  <1>3. ASSUME NEW k \in Bad, \A j \in Bad : k <= j PROVE FALSE
    <2>0. k \in 0 .. N /\ k # 0
      <3>1. k \in 0 .. N /\ ~Good(k)
        OBVIOUS
      <3>. HIDE DEF Good
      <3> QED BY <1>2, <3>1, Zenon
    <2>1. k \in 1 .. N /\ k - 1 \in 0 .. N /\ ~(k <= k - 1) /\ k # 0
      BY <1>1, <2>0
    <2>2. Good(k - 1)
      BY <1>3, <2>1
    <2>3. U(k) = U(k - 1) \cup part[k]
      <3>1. \A i : i \in 1 .. k <=> i \in 1 .. (k - 1) \/ i = k
        BY <2>1
      <3> QED BY <3>1
    <2>4. U(k - 1) \cap part[k] = {}
      <3>1. \A i \in 1 .. (k - 1) : i \in 1 .. N /\ i # k
        BY <1>1, <2>1
      <3>2. \A i \in 1 .. (k - 1) : part[i] \cap part[k] = {}
        BY <2>1, <3>1 DEF AreParts
      <3> QED BY <3>2
    <2>5. IsFiniteSet(part[k]) /\ Cardinality(part[k]) = counts[k]
      BY <2>1 DEF AreParts
    <2>. HIDE DEF U
    <2>6. /\ IsFiniteSet(U(k - 1) \cup part[k])
          /\ Cardinality(U(k - 1) \cup part[k])
               = Cardinality(U(k - 1)) + Cardinality(part[k]) - Cardinality(U(k - 1) \cap part[k])
      BY <2>2, <2>5, FS_Union
    <2>7. Cardinality(U(k - 1) \cap part[k]) = 0
      BY <2>4, FS_EmptySet
    <2>8. Sums(counts)[k - 1] \in Nat /\ counts[k] \in Nat /\ Sums(counts)[k] = Sums(counts)[k - 1] + counts[k]
      BY <1>1, <2>1
    <2>9. Good(k)
      BY <2>2, <2>3, <2>5, <2>6, <2>7, <2>8
    <2> QED BY <2>9
  <1>4. Bad = {}
    <2>1. Bad \subseteq Nat
      <3>. HIDE DEF Good
      <3> QED BY <1>1
    <2>. HIDE DEF Bad
    <2> QED BY <1>3, <2>1, LeastNat
  <1>5. Good(N)
    <2>1. N \in 0 .. N
      BY <1>1
    <2>. HIDE DEF Good
    <2> QED BY <1>4, <2>1
  <1> QED BY <1>5, TotalIs

(* The documents that K picks of each sub reader. *)
Picked(s, K) == {n \in Numbers(s) : PlaceOf(s, n) \in K[SubOf(s, n)]}
PickedOf(s, K, i) == {DocBase(s, i) + d - 1 : d \in K[i]}

LEMMA PickedCounted ==
    ASSUME NEW s, AreSubs(s), NEW K, \A i \in DOMAIN s : K[i] \subseteq DOMAIN s[i]
    PROVE  Total([i \in DOMAIN s |-> Cardinality(K[i])]) = Cardinality(Picked(s, K))
  <1>. DEFINE counts == [i \in DOMAIN s |-> Cardinality(K[i])]
              part == [i \in DOMAIN s |-> PickedOf(s, K, i)]
  <1>1. Len(s) \in Nat /\ DOMAIN s = 1 .. Len(s) /\ \A i \in DOMAIN s : Len(s[i]) \in Nat /\ DOMAIN s[i] = 1 .. Len(s[i])
    BY SubsAre
  <1>2. ASSUME NEW i \in DOMAIN s
        PROVE  /\ IsFiniteSet(K[i]) /\ Cardinality(K[i]) \in Nat
               /\ IsFiniteSet(PickedOf(s, K, i)) /\ Cardinality(PickedOf(s, K, i)) = Cardinality(K[i])
    <2>1. IsFiniteSet(DOMAIN s[i])
      <3>1. IsFiniteSet(1 .. Len(s[i]))
        BY <1>1, FS_Interval
      <3> QED BY <1>1, <3>1
    <2>2. IsFiniteSet(K[i])
      BY <2>1, FS_Subset
    <2>3. Cardinality(K[i]) \in Nat
      BY <2>2, FS_CardinalityType
    <2>. DEFINE f == [d \in K[i] |-> DocBase(s, i) + d - 1]
    <2>4. f \in Bijection(K[i], PickedOf(s, K, i))
      <3>1. f \in [K[i] -> PickedOf(s, K, i)]
        BY DEF PickedOf
      <3>2. \A d, e \in K[i] : f[d] = f[e] => d = e
        <4>1. DocBase(s, i) \in Nat
          BY <1>1, SubsAre
        <4>2. \A d \in K[i] : d \in Nat
          BY <1>1
        <4> QED BY <4>1, <4>2
      <3>3. \A x \in PickedOf(s, K, i) : \E d \in K[i] : f[d] = x
        BY DEF PickedOf
      <3> QED BY <3>1, <3>2, <3>3 DEF Bijection, Injection, Surjection, IsInjective
    <2>5. ExistsBijection(K[i], PickedOf(s, K, i))
      BY <2>4 DEF ExistsBijection
    <2> QED BY <2>2, <2>3, <2>5, FS_Bijection
  <1>3. ASSUME NEW i \in DOMAIN s, NEW x \in PickedOf(s, K, i)
        PROVE  x \in Numbers(s) /\ SubOf(s, x) = i /\ PlaceOf(s, x) \in K[i]
    <2>1. PICK d \in K[i] : x = DocBase(s, i) + d - 1
      BY DEF PickedOf
    <2>2. d \in DOMAIN s[i]
      OBVIOUS
    <2> QED BY <2>1, <2>2, PlaceIsNumbered
  <1>4. \A i, j \in DOMAIN s : i # j => PickedOf(s, K, i) \cap PickedOf(s, K, j) = {}
    BY <1>3
  <1>5. counts \in Seq(Nat) /\ Len(counts) = Len(s) /\ \A i \in DOMAIN s : counts[i] = Cardinality(K[i])
    <2>1. counts \in [1 .. Len(s) -> Nat]
      BY <1>1, <1>2
    <2>2. \A i \in DOMAIN s : counts[i] = Cardinality(K[i])
      OBVIOUS
    <2>. HIDE DEF counts
    <2> QED BY <1>1, <2>1, <2>2
  <1>6. \A i \in DOMAIN s : part[i] = PickedOf(s, K, i)
    OBVIOUS
  <1>. HIDE DEF counts, part
  <1>7. AreParts(counts, part)
    BY <1>1, <1>2, <1>4, <1>5, <1>6 DEF AreParts
  <1>8. Cardinality(UNION {part[i] : i \in 1 .. Len(counts)}) = Total(counts)
    BY <1>7, PartsCounted
  <1>9. UNION {part[i] : i \in 1 .. Len(counts)} = Picked(s, K)
    <2>1. ASSUME NEW i \in DOMAIN s, NEW x \in PickedOf(s, K, i) PROVE x \in Picked(s, K)
      BY <1>3 DEF Picked
    <2>2. ASSUME NEW x \in Picked(s, K) PROVE \E i \in DOMAIN s : x \in PickedOf(s, K, i)
      <3>1. /\ x \in Numbers(s) /\ PlaceOf(s, x) \in K[SubOf(s, x)]
        BY DEF Picked
      <3>2. SubOf(s, x) \in DOMAIN s /\ x = DocBase(s, SubOf(s, x)) + PlaceOf(s, x) - 1
        BY <3>1, NumberLeads
      <3>3. x \in PickedOf(s, K, SubOf(s, x))
        BY <3>1, <3>2 DEF PickedOf
      <3> QED BY <3>2, <3>3
    <2> QED BY <1>1, <1>5, <1>6, <2>1, <2>2
  <1> QED BY <1>8, <1>9 DEF counts

(* The occurrences of the term, in a sub reader and in all of them. *)
FreqAt(s, n) == s[SubOf(s, n)][PlaceOf(s, n)].freq
OccurrencesAt(n, freq) == {<<n, k>> : k \in 1 .. freq}
OccurrencesIn(s, i) == UNION {OccurrencesAt(DocBase(s, i) + d - 1, s[i][d].freq) : d \in DOMAIN s[i]}

LEMMA OccurrencesAtCounted ==
    ASSUME NEW n, NEW freq \in Nat
    PROVE  IsFiniteSet(OccurrencesAt(n, freq)) /\ Cardinality(OccurrencesAt(n, freq)) = freq
  <1>. DEFINE f == [k \in 1 .. freq |-> <<n, k>>]
              O == OccurrencesAt(n, freq)
  <1>1. f \in Bijection(1 .. freq, O)
    <2>1. f \in [1 .. freq -> O]
      BY DEF OccurrencesAt
    <2>2. \A k, j \in 1 .. freq : f[k] = f[j] => k = j
      OBVIOUS
    <2>3. \A x \in O : \E k \in 1 .. freq : f[k] = x
      BY DEF OccurrencesAt
    <2> QED BY <2>1, <2>2, <2>3 DEF Bijection, Injection, Surjection, IsInjective
  <1>2. ExistsBijection(1 .. freq, O)
    BY <1>1 DEF ExistsBijection
  <1>3. IsFiniteSet(1 .. freq) /\ Cardinality(1 .. freq) = freq
    BY FS_Interval
  <1> QED BY <1>2, <1>3, FS_Bijection

LEMMA SubOccurrencesCounted ==
    ASSUME NEW s, AreSubs(s), NEW i \in DOMAIN s
    PROVE  /\ IsFiniteSet(OccurrencesIn(s, i))
           /\ Cardinality(OccurrencesIn(s, i)) = LeafTotalTermFreq(s[i])
           /\ LeafTotalTermFreq(s[i]) \in Nat
  <1>. DEFINE counts == [d \in DOMAIN s[i] |-> s[i][d].freq]
              part == [d \in DOMAIN s[i] |-> OccurrencesAt(DocBase(s, i) + d - 1, s[i][d].freq)]
  <1>1. /\ Len(s[i]) \in Nat /\ DOMAIN s[i] = 1 .. Len(s[i]) /\ DocBase(s, i) \in Nat
        /\ \A d \in DOMAIN s[i] : s[i][d].freq \in Nat
    BY SubsAre
  <1>2. counts \in Seq(Nat) /\ Len(counts) = Len(s[i]) /\ \A d \in DOMAIN s[i] : counts[d] = s[i][d].freq
    <2>1. counts = [d \in 1 .. Len(s[i]) |-> s[i][d].freq]
      BY <1>1, Zenon
    <2>2. counts \in [1 .. Len(s[i]) -> Nat] /\ \A d \in DOMAIN s[i] : counts[d] = s[i][d].freq
      BY <1>1, <2>1
    <2>. HIDE DEF counts
    <2> QED BY <1>1, <2>2
  <1>3. \A d \in DOMAIN s[i] : part[d] = OccurrencesAt(DocBase(s, i) + d - 1, s[i][d].freq)
    OBVIOUS
  <1>. HIDE DEF counts, part
  <1>4. \A d, e \in DOMAIN s[i] : d # e => part[d] \cap part[e] = {}
    <2>1. ASSUME NEW d \in DOMAIN s[i], NEW e \in DOMAIN s[i], d # e PROVE part[d] \cap part[e] = {}
      <3>1. d \in Nat /\ e \in Nat
        BY <1>1
      <3>2. DocBase(s, i) + d - 1 # DocBase(s, i) + e - 1
        BY <1>1, <2>1, <3>1
      <3>3. \A a, b, f, g : a # b => OccurrencesAt(a, f) \cap OccurrencesAt(b, g) = {}
        BY DEF OccurrencesAt
      <3>4. OccurrencesAt(DocBase(s, i) + d - 1, s[i][d].freq)
              \cap OccurrencesAt(DocBase(s, i) + e - 1, s[i][e].freq) = {}
        BY <3>2, <3>3, Zenon
      <3> QED BY <1>3, <3>4, Zenon
    <2> QED BY <2>1
  <1>5. \A d \in DOMAIN s[i] : IsFiniteSet(part[d]) /\ Cardinality(part[d]) = counts[d]
    BY <1>1, <1>2, <1>3, OccurrencesAtCounted
  <1>6. AreParts(counts, part)
    BY <1>1, <1>2, <1>4, <1>5 DEF AreParts
  <1>7. /\ IsFiniteSet(UNION {part[d] : d \in 1 .. Len(counts)})
        /\ Cardinality(UNION {part[d] : d \in 1 .. Len(counts)}) = Total(counts)
    BY <1>6, PartsCounted
  <1>8. OccurrencesIn(s, i) = UNION {part[d] : d \in 1 .. Len(counts)}
    <2>1. 1 .. Len(counts) = DOMAIN s[i]
      BY <1>1, <1>2
    <2>2. {OccurrencesAt(DocBase(s, i) + d - 1, s[i][d].freq) : d \in DOMAIN s[i]} = {part[d] : d \in DOMAIN s[i]}
      BY <1>3
    <2> QED BY <2>1, <2>2, Zenon DEF OccurrencesIn
  <1>9. LeafTotalTermFreq(s[i]) = Total(counts)
    BY DEF LeafTotalTermFreq, counts
  <1>10. Total(counts) \in Nat
    BY <1>7, FS_CardinalityType
  <1> QED BY <1>7, <1>8, <1>9, <1>10

LEMMA OccurrencesCounted ==
    ASSUME NEW s, AreSubs(s)
    PROVE  TotalTermFreq(s) = Cardinality(UNION {OccurrencesAt(n, FreqAt(s, n)) : n \in Numbers(s)})
  <1>. DEFINE counts == [i \in DOMAIN s |-> LeafTotalTermFreq(s[i])]
              part == [i \in DOMAIN s |-> OccurrencesIn(s, i)]
              all == UNION {OccurrencesAt(n, FreqAt(s, n)) : n \in Numbers(s)}
  <1>1. Len(s) \in Nat /\ DOMAIN s = 1 .. Len(s)
    BY SubsAre
  <1>2. counts \in Seq(Nat) /\ Len(counts) = Len(s) /\ \A i \in DOMAIN s : counts[i] = LeafTotalTermFreq(s[i])
    <2>1. counts \in [1 .. Len(s) -> Nat] /\ \A i \in DOMAIN s : counts[i] = LeafTotalTermFreq(s[i])
      BY <1>1, SubOccurrencesCounted
    <2>. HIDE DEF counts
    <2> QED BY <1>1, <2>1
  <1>3. \A i \in DOMAIN s : part[i] = OccurrencesIn(s, i)
    OBVIOUS
  <1>. HIDE DEF counts, part
  <1>4. ASSUME NEW i \in DOMAIN s, NEW x \in OccurrencesIn(s, i)
        PROVE  /\ x[1] \in Numbers(s) /\ SubOf(s, x[1]) = i
               /\ x \in OccurrencesAt(x[1], FreqAt(s, x[1]))
    <2>1. PICK d \in DOMAIN s[i] : x \in OccurrencesAt(DocBase(s, i) + d - 1, s[i][d].freq)
      BY DEF OccurrencesIn
    <2>2. x[1] = DocBase(s, i) + d - 1
      BY <2>1 DEF OccurrencesAt
    <2>3. x[1] \in Numbers(s) /\ SubOf(s, x[1]) = i /\ PlaceOf(s, x[1]) = d
      BY <2>2, PlaceIsNumbered
    <2>4. FreqAt(s, x[1]) = s[i][d].freq
      BY <2>3, Zenon DEF FreqAt
    <2> QED BY <2>1, <2>2, <2>3, <2>4, Zenon
  <1>5. \A i, j \in DOMAIN s : i # j => part[i] \cap part[j] = {}
    BY <1>3, <1>4
  <1>6. AreParts(counts, part)
    <2>1. \A i \in DOMAIN s : IsFiniteSet(part[i]) /\ Cardinality(part[i]) = counts[i]
      BY <1>2, <1>3, SubOccurrencesCounted
    <2> QED BY <1>1, <1>2, <1>5, <2>1 DEF AreParts
  <1>7. Cardinality(UNION {part[i] : i \in 1 .. Len(counts)}) = Total(counts)
    BY <1>6, PartsCounted
  <1>8. all = UNION {part[i] : i \in 1 .. Len(counts)}
    <2>1. ASSUME NEW i \in DOMAIN s, NEW x \in part[i] PROVE x \in all
      <3>1. x \in OccurrencesIn(s, i)
        BY <1>3
      <3>2. x[1] \in Numbers(s) /\ x \in OccurrencesAt(x[1], FreqAt(s, x[1]))
        BY <1>4, <3>1
      <3> QED BY <3>2
    <2>2. ASSUME NEW x \in all PROVE \E i \in DOMAIN s : x \in part[i]
      <3>1. PICK n \in Numbers(s) : x \in OccurrencesAt(n, FreqAt(s, n))
        OBVIOUS
      <3>2. /\ SubOf(s, n) \in DOMAIN s /\ PlaceOf(s, n) \in DOMAIN s[SubOf(s, n)]
            /\ n = DocBase(s, SubOf(s, n)) + PlaceOf(s, n) - 1
        BY NumberLeads
      <3>3. x \in OccurrencesAt(DocBase(s, SubOf(s, n)) + PlaceOf(s, n) - 1, s[SubOf(s, n)][PlaceOf(s, n)].freq)
        BY <3>1, <3>2, Zenon DEF FreqAt
      <3>4. x \in OccurrencesIn(s, SubOf(s, n))
        BY <3>2, <3>3, Zenon DEF OccurrencesIn
      <3> QED BY <1>3, <3>2, <3>4
    <2>3. 1 .. Len(counts) = DOMAIN s
      BY <1>1, <1>2
    <2>. HIDE DEF all
    <2> QED BY <2>1, <2>2, <2>3
  <1>9. TotalTermFreq(s) = Total(counts)
    BY DEF TotalTermFreq, counts
  <1> QED BY <1>7, <1>8, <1>9

-----------------------------------------------------------------------------
(* The leaves of the context.                                                 *)

LeafFor(s, i) == [ord |-> i, docBase |-> DocBase(s, i), reader |-> s[i]]
LeafSet(s, k) == {LeafFor(s, i) : i \in 1 .. k}
LeavesFor(s, k) == [i \in 1 .. k |-> LeafFor(s, i)]
BuiltFor(s, k) == [leaves |-> LeavesFor(s, k), docBase |-> DocBase(s, k + 1)]

LEMMA LeavesAre ==
    ASSUME NEW s, NEW k \in Nat
    PROVE  /\ LeavesFor(s, k) \in Seq(LeafSet(s, k))
           /\ Len(LeavesFor(s, k)) = k /\ DOMAIN LeavesFor(s, k) = 1 .. k
           /\ \A i \in 1 .. k : LeavesFor(s, k)[i] = LeafFor(s, i)
  <1>. DEFINE L == LeavesFor(s, k)
              T == LeafSet(s, k)
  <1>1. L \in [1 .. k -> T] /\ DOMAIN L = 1 .. k /\ \A i \in 1 .. k : L[i] = LeafFor(s, i)
    BY DEF LeavesFor, LeafSet
  <1>. HIDE DEF L, T
  <1>2. L \in Seq(T) /\ Len(L) = k
    BY <1>1
  <1> QED BY <1>1, <1>2 DEF L, T

LEMMA OneLeafMore ==
    ASSUME NEW s, AreSubs(s), NEW k \in 1 .. Len(s)
    PROVE  BuildLeaf(BuiltFor(s, k - 1), s[k]) = BuiltFor(s, k)
  <1>1. Len(s) \in Nat /\ k \in Nat /\ k - 1 \in Nat /\ k - 1 + 1 = k /\ DocBase(s, k + 1) = DocBase(s, k) + Len(s[k])
    BY SubsAre
  <1>. DEFINE L == LeavesFor(s, k - 1)
              M == LeavesFor(s, k)
              T == LeafSet(s, k)
              x == LeafFor(s, k)
  <1>2. /\ Len(L) = k - 1 /\ \A i \in 1 .. (k - 1) : L[i] = LeafFor(s, i)
        /\ L \in Seq(LeafSet(s, k - 1))
    <2>1. Len(L) = k - 1
      BY <1>1, LeavesAre, Zenon
    <2>2. \A i \in 1 .. (k - 1) : L[i] = LeafFor(s, i)
      BY <1>1, LeavesAre, Zenon
    <2>3. L \in Seq(LeafSet(s, k - 1))
      BY <1>1, LeavesAre, Zenon
    <2> QED BY <2>1, <2>2, <2>3
  <1>3. M \in Seq(T) /\ Len(M) = k /\ DOMAIN M = 1 .. k /\ \A i \in 1 .. k : M[i] = LeafFor(s, i)
    <2>1. k \in Nat
      BY <1>1
    <2> QED BY <2>1, LeavesAre, Zenon
  <1>4. x \in T /\ L \in Seq(T)
    <2>1. k \in 1 .. k /\ \A i \in 1 .. (k - 1) : i \in 1 .. k
      BY <1>1
    <2>2. LeafSet(s, k - 1) \subseteq T /\ x \in T
      BY <2>1 DEF LeafSet
    <2>. HIDE DEF L
    <2> QED BY <1>2, <2>1, <2>2
  <1>. HIDE DEF L, M, T
  <1>5. Append(L, x) = M
    <2>1. /\ Append(L, x) \in Seq(T) /\ Len(Append(L, x)) = Len(L) + 1
          /\ \A i \in 1 .. Len(L) : Append(L, x)[i] = L[i]
          /\ Append(L, x)[Len(L) + 1] = x
      <3>. HIDE DEF x
      <3> QED BY <1>4, AppendProperties
    <2>. HIDE DEF x
    <2>2. Len(Append(L, x)) = k /\ Append(L, x)[k] = x
      BY <1>1, <1>2, <2>1
    <2>3. \A i \in 1 .. k : Append(L, x)[i] = M[i]
      <3>1. ASSUME NEW i \in 1 .. k PROVE Append(L, x)[i] = M[i]
        <4>1. i = k \/ i \in 1 .. (k - 1)
          BY <1>1
        <4>2. M[i] = LeafFor(s, i)
          BY <1>3
        <4>3. CASE i = k
          BY <2>2, <4>2, <4>3 DEF x
        <4>4. CASE i \in 1 .. (k - 1)
          BY <1>2, <2>1, <4>2, <4>4
        <4> QED BY <4>1, <4>3, <4>4
      <3> QED BY <3>1
    <2>4. \A a, b \in Seq(T) : Len(a) = Len(b) /\ (\A i \in 1 .. Len(a) : a[i] = b[i]) => a = b
      BY SeqEqual, Zenon
    <2> QED BY <1>3, <2>1, <2>2, <2>3, <2>4
  <1>6. x = [ord |-> Len(L) + 1, docBase |-> DocBase(s, k), reader |-> s[k]]
    BY <1>1, <1>2 DEF LeafFor
  <1>7. BuiltFor(s, k - 1).leaves = L /\ BuiltFor(s, k - 1).docBase = DocBase(s, k)
    BY <1>1 DEF BuiltFor, L
  <1>8. BuildLeaf(BuiltFor(s, k - 1), s[k]) = [leaves |-> Append(L, x), docBase |-> DocBase(s, k) + Len(s[k])]
    BY <1>6, <1>7, Zenon DEF BuildLeaf
  <1> QED BY <1>1, <1>5, <1>8, Zenon DEF BuiltFor, M

LEMMA ContextIs ==
    ASSUME NEW s, AreSubs(s)
    PROVE  BuildContext(s) = LeavesFor(s, Len(s))
  <1>. DEFINE n == Len(s)
              Step(f, i) == IF i = 0 THEN [leaves |-> <<>>, docBase |-> 0] ELSE BuildLeaf(f[i - 1], s[i])
              Is(f) == f = [i \in 0 .. n |-> Step(f, i)]
              g == [i \in 0 .. n |-> BuiltFor(s, i)]
  <1>1. n \in Nat
    BY SubsAre
  <1>2. BuiltFor(s, 0) = [leaves |-> <<>>, docBase |-> 0]
    <2>1. LeavesFor(s, 0) = <<>>
      BY LeavesAre, EmptySeq
    <2>2. DocBase(s, 0 + 1) = 0
      BY SubsAre
    <2> QED BY <2>1, <2>2 DEF BuiltFor
  <1>3. ASSUME NEW i \in 0 .. n PROVE BuiltFor(s, i) = Step(g, i)
    <2>1. CASE i = 0
      BY <1>2, <2>1
    <2>2. CASE i # 0
      <3>1. i \in 1 .. n /\ i - 1 \in 0 .. n
        BY <1>1, <2>2
      <3>2. g[i - 1] = BuiltFor(s, i - 1)
        BY <3>1
      <3>. HIDE DEF g
      <3>3. BuildLeaf(g[i - 1], s[i]) = BuiltFor(s, i)
        BY <3>1, <3>2, OneLeafMore
      <3> QED BY <2>2, <3>3
    <2> QED BY <2>1, <2>2
  <1>4. Is(g)
    <2>1. [i \in 0 .. n |-> BuiltFor(s, i)] = [i \in 0 .. n |-> Step(g, i)]
      <3>. HIDE DEF g, Step
      <3> QED BY <1>3, Zenon
    <2> QED BY <2>1
  <1>5. ASSUME NEW f, Is(f) PROVE f[n] = BuiltFor(s, n)
    <2>1. \A i \in 0 .. n : f[i] = Step(f, i)
      <3>. HIDE DEF Step
      <3> QED BY <1>5, Zenon
    <2>. DEFINE Bad == {k \in 0 .. n : f[k] # BuiltFor(s, k)}
    <2>2. ASSUME NEW k \in Bad, \A j \in Bad : k <= j PROVE FALSE
      <3>1. k \in 0 .. n /\ f[k] # BuiltFor(s, k) /\ f[k] = Step(f, k)
        BY <2>1
      <3>2. k # 0
        BY <1>2, <3>1
      <3>3. k \in 1 .. n /\ k - 1 \in 0 .. n /\ ~(k <= k - 1)
        BY <1>1, <3>1, <3>2
      <3>4. f[k - 1] = BuiltFor(s, k - 1)
        BY <2>2, <3>3
      <3>5. BuildLeaf(f[k - 1], s[k]) = BuiltFor(s, k)
        BY <3>3, <3>4, OneLeafMore
      <3> QED BY <3>1, <3>2, <3>5
    <2>3. Bad = {}
      <3>1. Bad \subseteq Nat
        BY <1>1
      <3>. HIDE DEF Bad
      <3> QED BY <2>2, <3>1, LeastNat
    <2>4. n \in 0 .. n
      BY <1>1
    <2> QED BY <2>3, <2>4
  <1>6. BuildContext(s) = (CHOOSE f : Is(f))[n].leaves
    BY Zenon DEF BuildContext
  <1>. HIDE DEF Is
  <1>7. Is(CHOOSE f : Is(f))
    BY <1>4, Zenon
  <1>8. (CHOOSE f : Is(f))[n] = BuiltFor(s, n)
    BY <1>5, <1>7, Zenon
  <1>9. BuiltFor(s, n).leaves = LeavesFor(s, n)
    BY DEF BuiltFor
  <1> QED BY <1>6, <1>8, <1>9, Zenon

-----------------------------------------------------------------------------
(* The composite reader. Once it is open its sub readers stay, and what it    *)
(* computes later, once, is what they determine.                              *)

OpenRight(s, starts, maxDoc, numDocs, leaves, found) ==
    /\ AreSubs(s) /\ starts = Starts(s) /\ maxDoc = MaxDoc(s)
    /\ numDocs = -1 \/ numDocs = Total(LiveCounts(s))
    /\ leaves = <<>> \/ leaves = LeavesFor(s, Len(s))
    /\ found = <<>> \/ found[2] + 1 \in DOMAIN s[found[1]]

CompositeInv ==
    /\ cr = [pc |-> cr.pc, subs |-> cr.subs, starts |-> cr.starts, maxDoc |-> cr.maxDoc, numDocs |-> cr.numDocs,
             leaves |-> cr.leaves, found |-> cr.found]
    /\ AreSubs(cr.subs)
    /\ cr.pc = "segments" => cr.numDocs = -1 /\ cr.leaves = <<>> /\ cr.found = <<>>
    /\ cr.pc = "open" => OpenRight(cr.subs, cr.starts, cr.maxDoc, cr.numDocs, cr.leaves, cr.found)

LEMMA RouteIs ==
    ASSUME CompositeInv, cr.pc = "open", NEW n \in AllDocs
    PROVE  /\ n \in Numbers(cr.subs)
           /\ ReaderIndex(n) = SubOf(cr.subs, n)
           /\ Route(n) = <<SubOf(cr.subs, n), PlaceOf(cr.subs, n) - 1>>
           /\ Route(n)[1] = SubOf(cr.subs, n) /\ Route(n)[2] = PlaceOf(cr.subs, n) - 1
           /\ At(n) = cr.subs[SubOf(cr.subs, n)][PlaceOf(cr.subs, n)]
  <1>. DEFINE s == cr.subs
  <1>1. AreSubs(s) /\ cr.starts = Starts(s) /\ cr.maxDoc = MaxDoc(s) /\ MaxDoc(s) \in Nat
    BY SubsAre DEF CompositeInv, OpenRight
  <1>2. n \in Numbers(s) /\ ~(n < 0 \/ n >= cr.maxDoc)
    <2>1. n \in 0 .. MaxDoc(s) - 1
      BY <1>1 DEF AllDocs
    <2> QED BY <1>1, <2>1 DEF Numbers
  <1>3. ReaderIndex(n) = SubOf(s, n)
    BY <1>1, <1>2, Zenon DEF ReaderIndex, SubOf
  <1>. DEFINE i == SubOf(s, n)
              d == PlaceOf(s, n)
  <1>4. d \in Nat /\ DocBase(s, i) \in Nat /\ n = DocBase(s, i) + d - 1 /\ Starts(s)[i] = DocBase(s, i) /\ n \in Nat
    BY <1>1, <1>2, NumberLeads
  <1>5. Route(n) = <<i, n - Starts(s)[i]>>
    BY <1>1, <1>3, Zenon DEF Route
  <1>. HIDE DEF i, d, s
  <1>6. n - Starts(s)[i] = d - 1 /\ d - 1 + 1 = d
    BY <1>4
  <1>7. Route(n) = <<i, d - 1>> /\ Route(n)[1] = i /\ Route(n)[2] = d - 1
    BY <1>5, <1>6
  <1>8. At(n) = s[i][d]
    BY <1>6, <1>7 DEF At, s
  <1> QED BY <1>2, <1>3, <1>7, <1>8 DEF i, d, s

LEMMA InvRoutes == CompositeInv => RoutesAgree
  <1>. SUFFICES ASSUME CompositeInv, cr.pc = "open" PROVE RoutesAgree
    BY DEF RoutesAgree
  <1>. DEFINE s == cr.subs
              places == UNION {{<<i, d>> : d \in 0 .. Len(cr.subs[i]) - 1} : i \in DOMAIN cr.subs}
  <1>1. /\ AreSubs(s) /\ cr.starts = Starts(s) /\ cr.maxDoc = MaxDoc(s) /\ MaxDoc(s) \in Nat
        /\ cr.leaves = <<>> \/ cr.leaves = LeavesFor(s, Len(s))
        /\ cr.found = <<>> \/ cr.found[2] + 1 \in DOMAIN s[cr.found[1]]
    BY SubsAre DEF CompositeInv, OpenRight
  <1>2. AllDocs = Numbers(s)
    BY <1>1, Zenon DEF AllDocs, Numbers
  <1>3. /\ Len(s) \in Nat /\ DOMAIN s = 1 .. Len(s)
        /\ \A i \in DOMAIN s : Len(s[i]) \in Nat /\ DOMAIN s[i] = 1 .. Len(s[i])
    BY <1>1, SubsAre
  <1>4. {Route(n) : n \in AllDocs} = places
    <2>1. ASSUME NEW n \in AllDocs PROVE Route(n) \in places
      <3>1. Route(n) = <<SubOf(s, n), PlaceOf(s, n) - 1>>
        BY <2>1, RouteIs
      <3>2. SubOf(s, n) \in DOMAIN s /\ PlaceOf(s, n) \in DOMAIN s[SubOf(s, n)]
        BY <1>1, <1>2, NumberLeads
      <3>3. PlaceOf(s, n) - 1 \in 0 .. Len(s[SubOf(s, n)]) - 1
        BY <1>3, <3>2
      <3> QED BY <3>1, <3>2, <3>3
    <2>2. ASSUME NEW x \in places PROVE \E n \in AllDocs : x = Route(n)
      <3>1. PICK i \in DOMAIN s : x \in {<<i, d>> : d \in 0 .. Len(s[i]) - 1}
        OBVIOUS
      <3>2. PICK d \in 0 .. Len(s[i]) - 1 : x = <<i, d>>
        BY <3>1
      <3>3. d + 1 \in DOMAIN s[i] /\ d + 1 - 1 = d
        BY <1>3, <3>2
      <3>. DEFINE n == DocBase(s, i) + (d + 1) - 1
      <3>4. n \in Numbers(s) /\ SubOf(s, n) = i /\ PlaceOf(s, n) = d + 1
        BY <1>1, <3>3, PlaceIsNumbered
      <3>. HIDE DEF n
      <3>5. n \in AllDocs
        BY <1>2, <3>4, Zenon
      <3>6. Route(n) = <<SubOf(s, n), PlaceOf(s, n) - 1>>
        BY <3>5, RouteIs
      <3> QED BY <3>2, <3>3, <3>4, <3>5, <3>6
    <2>. HIDE DEF places
    <2> QED BY <2>1, <2>2
  <1>5. ASSUME cr.leaves # <<>>, NEW n \in AllDocs
        PROVE  /\ cr.leaves[Route(n)[1]].docBase + Route(n)[2] = n
               /\ cr.leaves[Route(n)[1]].reader = cr.subs[Route(n)[1]]
    <2>. DEFINE i == SubOf(s, n)
                d == PlaceOf(s, n)
    <2>1. Route(n)[1] = i /\ Route(n)[2] = d - 1
      BY RouteIs
    <2>2. i \in DOMAIN s /\ d \in Nat /\ DocBase(s, i) \in Nat /\ n = DocBase(s, i) + d - 1
      BY <1>1, <1>2, NumberLeads
    <2>3. cr.leaves = LeavesFor(s, Len(s))
      BY <1>1, <1>5
    <2>. HIDE DEF i, d
    <2>4. cr.leaves[i] = LeafFor(s, i)
      <3>1. Len(s) \in Nat /\ i \in 1 .. Len(s)
        BY <1>3, <2>2
      <3>2. LeavesFor(s, Len(s))[i] = LeafFor(s, i)
        BY <3>1, LeavesAre, Zenon
      <3> QED BY <2>3, <3>2, Zenon
    <2>5. cr.leaves[i].docBase = DocBase(s, i) /\ cr.leaves[i].reader = s[i]
      BY <2>4 DEF LeafFor
    <2>6. DocBase(s, i) + (d - 1) = n
      BY <2>2
    <2> QED BY <2>1, <2>5, <2>6
  <1>6. ReaderIndex(-1) = 0
    BY DEF ReaderIndex
  <1>7. ReaderIndex(cr.maxDoc) = 0
    <2>1. cr.maxDoc >= cr.maxDoc
      BY <1>1
    <2> QED BY <2>1 DEF ReaderIndex
  <1> QED BY <1>1, <1>4, <1>5, <1>6, <1>7 DEF RoutesAgree

LEMMA InvStatistics == CompositeInv => StatisticsAddUp
  <1>. SUFFICES ASSUME CompositeInv, cr.pc = "open" PROVE StatisticsAddUp
    BY DEF StatisticsAddUp
  <1>. DEFINE s == cr.subs
  <1>1. /\ AreSubs(s) /\ cr.maxDoc = MaxDoc(s)
        /\ cr.numDocs = -1 \/ cr.numDocs = Total(LiveCounts(s))
    BY DEF CompositeInv, OpenRight
  <1>2. AllDocs = Numbers(s)
    BY <1>1, Zenon DEF AllDocs, Numbers
  <1>3. \A n \in AllDocs : /\ At(n) = s[SubOf(s, n)][PlaceOf(s, n)]
                           /\ SubOf(s, n) \in DOMAIN s /\ PlaceOf(s, n) \in DOMAIN s[SubOf(s, n)]
    BY <1>1, <1>2, RouteIs, NumberLeads
  <1>. HIDE DEF s
  <1>4. Total(LiveCounts(s)) = Cardinality({n \in AllDocs : At(n).live})
    <2>. DEFINE K == [i \in DOMAIN s |-> {d \in DOMAIN s[i] : s[i][d].live}]
    <2>1. \A i \in DOMAIN s : K[i] = {d \in DOMAIN s[i] : s[i][d].live} /\ K[i] \subseteq DOMAIN s[i]
      OBVIOUS
    <2>. HIDE DEF K
    <2>2. Total([i \in DOMAIN s |-> Cardinality(K[i])]) = Cardinality(Picked(s, K))
      BY <1>1, <2>1, PickedCounted
    <2>3. LiveCounts(s) = [i \in DOMAIN s |-> Cardinality(K[i])]
      BY <2>1, Zenon DEF LiveCounts, LiveDocs
    <2>4. Picked(s, K) = {n \in AllDocs : At(n).live}
      BY <1>2, <1>3, <2>1 DEF Picked
    <2> QED BY <2>2, <2>3, <2>4
  <1>5. DocFreq(s) = Cardinality({n \in AllDocs : At(n).freq > 0})
    <2>. DEFINE K == [i \in DOMAIN s |-> {d \in DOMAIN s[i] : s[i][d].freq > 0}]
    <2>1. \A i \in DOMAIN s : K[i] = {d \in DOMAIN s[i] : s[i][d].freq > 0} /\ K[i] \subseteq DOMAIN s[i]
      OBVIOUS
    <2>. HIDE DEF K
    <2>2. Total([i \in DOMAIN s |-> Cardinality(K[i])]) = Cardinality(Picked(s, K))
      BY <1>1, <2>1, PickedCounted
    <2>3. DocFreq(s) = Total([i \in DOMAIN s |-> Cardinality(K[i])])
      BY <2>1, Zenon DEF DocFreq, LeafDocFreq
    <2>4. Picked(s, K) = {n \in AllDocs : At(n).freq > 0}
      BY <1>2, <1>3, <2>1 DEF Picked
    <2> QED BY <2>2, <2>3, <2>4
  <1>6. TotalTermFreq(s) = Cardinality(Occurrences)
    <2>1. \A n \in AllDocs : OccurrencesAt(n, FreqAt(s, n)) = {<<n, k>> : k \in 1 .. At(n).freq}
      <3>1. \A n \in AllDocs : FreqAt(s, n) = At(n).freq
        BY <1>3, Zenon DEF FreqAt
      <3> QED BY <3>1, Zenon DEF OccurrencesAt
    <2>2. Occurrences = UNION {OccurrencesAt(n, FreqAt(s, n)) : n \in Numbers(s)}
      <3>. DEFINE at(n) == {<<n, k>> : k \in 1 .. At(n).freq}
                  same(n) == OccurrencesAt(n, FreqAt(s, n))
      <3>1. \A n \in AllDocs : same(n) = at(n)
        BY <2>1
      <3>2. Occurrences = UNION {at(n) : n \in AllDocs}
        BY DEF Occurrences
      <3>. HIDE DEF at, same
      <3>3. {at(n) : n \in AllDocs} = {same(n) : n \in AllDocs}
        BY <3>1
      <3>4. Occurrences = UNION {same(n) : n \in Numbers(s)}
        BY <1>2, <3>2, <3>3, Zenon
      <3> QED BY <3>4 DEF same
    <2> QED BY <1>1, <2>2, OccurrencesCounted
  <1> QED BY <1>1, <1>4, <1>5, <1>6 DEF StatisticsAddUp, s

LEMMA CompositeStarts == CompositeInit => CompositeInv
  <1>1. AreSubs(<<>>)
    BY DEF AreSubs
  <1> QED BY <1>1 DEF CompositeInit, CompositeInv

LEMMA AddSegmentStep == CompositeInv /\ AddSegment => CompositeInv'
  <1>. SUFFICES ASSUME CompositeInv, AddSegment PROVE CompositeInv'
    OBVIOUS
  <1>1. PICK sub \in SubReaders : cr' = [cr EXCEPT !.subs = Append(@, sub)]
    BY DEF AddSegment
  <1>2. AreSubs(Append(cr.subs, sub))
    <2>1. sub \in Seq(SubDocs) /\ cr.subs \in Seq(Seq(SubDocs))
      BY CompositeAssumption DEF CompositeInv, AreSubs
    <2> QED BY <2>1 DEF AreSubs
  <1>3. cr.pc = "segments"
    BY DEF AddSegment
  <1>. DEFINE t == Append(cr.subs, sub)
  <1>4. cr' = [pc |-> cr.pc, subs |-> t, starts |-> cr.starts, maxDoc |-> cr.maxDoc,
               numDocs |-> cr.numDocs, leaves |-> cr.leaves, found |-> cr.found]
    BY <1>1 DEF CompositeInv
  <1>. HIDE DEF t
  <1>5. /\ cr'.pc = "segments" /\ cr'.subs = t /\ cr'.numDocs = cr.numDocs /\ cr'.leaves = cr.leaves
        /\ cr'.found = cr.found
    BY <1>3, <1>4
  <1>6. cr' = [pc |-> cr'.pc, subs |-> cr'.subs, starts |-> cr'.starts, maxDoc |-> cr'.maxDoc,
               numDocs |-> cr'.numDocs, leaves |-> cr'.leaves, found |-> cr'.found]
    BY <1>4
  <1>7. AreSubs(cr'.subs)
    BY <1>2, <1>5 DEF t
  <1>8. cr'.numDocs = -1 /\ cr'.leaves = <<>> /\ cr'.found = <<>> /\ cr'.pc # "open"
    BY <1>3, <1>5 DEF CompositeInv
  <1> QED BY <1>6, <1>7, <1>8 DEF CompositeInv

LEMMA OpenCompositeStep == CompositeInv /\ OpenComposite => CompositeInv'
  <1>. SUFFICES ASSUME CompositeInv, OpenComposite PROVE CompositeInv'
    OBVIOUS
  <1>1. PICK sorter \in BOOLEAN : \E subs \in Sorts(cr.subs) :
               cr' = IF ~sorter /\ Len(subs) > 1 THEN [cr EXCEPT !.pc = "panic"]
                     ELSE IF Total(MaxDocs(subs)) > ActualMaxDocs THEN [cr EXCEPT !.pc = "too many"]
                     ELSE [cr EXCEPT !.pc = "open", !.subs = subs, !.starts = Starts(subs),
                                     !.maxDoc = Total(MaxDocs(subs))]
    BY DEF OpenComposite
  <1>2. PICK t \in Sorts(cr.subs) :
               cr' = IF ~sorter /\ Len(t) > 1 THEN [cr EXCEPT !.pc = "panic"]
                     ELSE IF Total(MaxDocs(t)) > ActualMaxDocs THEN [cr EXCEPT !.pc = "too many"]
                     ELSE [cr EXCEPT !.pc = "open", !.subs = t, !.starts = Starts(t),
                                     !.maxDoc = Total(MaxDocs(t))]
    BY <1>1
  <1>3. AreSubs(t)
    <2>1. PICK p \in Bijection(DOMAIN cr.subs, DOMAIN cr.subs) : t = [i \in DOMAIN cr.subs |-> cr.subs[p[i]]]
      BY DEF Sorts
    <2>2. p \in [DOMAIN cr.subs -> DOMAIN cr.subs]
      BY DEF Bijection, Injection
    <2>3. /\ Len(cr.subs) \in Nat /\ DOMAIN cr.subs = 1 .. Len(cr.subs)
          /\ \A i \in DOMAIN cr.subs : cr.subs[i] \in Seq(SubDocs)
      BY DEF CompositeInv, AreSubs
    <2>4. t \in [1 .. Len(cr.subs) -> Seq(SubDocs)]
      BY <2>1, <2>2, <2>3
    <2> QED BY <2>3, <2>4 DEF AreSubs
  <1>4. /\ cr = [pc |-> cr.pc, subs |-> cr.subs, starts |-> cr.starts, maxDoc |-> cr.maxDoc,
                 numDocs |-> cr.numDocs, leaves |-> cr.leaves, found |-> cr.found]
        /\ cr.numDocs = -1 /\ cr.leaves = <<>> /\ cr.found = <<>> /\ AreSubs(cr.subs)
    BY DEF CompositeInv, OpenComposite
  <1>5. ASSUME NEW pc1 \in {"panic", "too many"}, cr' = [cr EXCEPT !.pc = pc1] PROVE CompositeInv'
    <2>1. cr' = [pc |-> pc1, subs |-> cr.subs, starts |-> cr.starts, maxDoc |-> cr.maxDoc,
                 numDocs |-> cr.numDocs, leaves |-> cr.leaves, found |-> cr.found]
      BY <1>4, <1>5
    <2>2. cr'.pc # "open" /\ cr'.pc # "segments" /\ cr'.subs = cr.subs
      BY <2>1
    <2>3. cr' = [pc |-> cr'.pc, subs |-> cr'.subs, starts |-> cr'.starts, maxDoc |-> cr'.maxDoc,
                 numDocs |-> cr'.numDocs, leaves |-> cr'.leaves, found |-> cr'.found]
      BY <2>1
    <2> QED BY <1>4, <2>2, <2>3 DEF CompositeInv
  <1>6. ASSUME cr' = [cr EXCEPT !.pc = "open", !.subs = t, !.starts = Starts(t), !.maxDoc = Total(MaxDocs(t))]
        PROVE  CompositeInv'
    <2>. DEFINE st == Starts(t)
                md == Total(MaxDocs(t))
    <2>1. cr' = [pc |-> "open", subs |-> t, starts |-> st, maxDoc |-> md,
                 numDocs |-> cr.numDocs, leaves |-> cr.leaves, found |-> cr.found]
      BY <1>4, <1>6
    <2>. HIDE DEF st, md
    <2>2. /\ cr'.pc = "open" /\ cr'.subs = t /\ cr'.starts = st /\ cr'.maxDoc = md /\ cr'.numDocs = cr.numDocs
          /\ cr'.leaves = cr.leaves /\ cr'.found = cr.found
      BY <2>1
    <2>3. cr' = [pc |-> cr'.pc, subs |-> cr'.subs, starts |-> cr'.starts, maxDoc |-> cr'.maxDoc,
                 numDocs |-> cr'.numDocs, leaves |-> cr'.leaves, found |-> cr'.found]
      BY <2>1
    <2>4. st = Starts(t) /\ md = MaxDoc(t)
      BY <1>3, MaxDocsTotal DEF st, md
    <2>5. OpenRight(t, st, md, cr.numDocs, cr.leaves, cr.found)
      BY <1>3, <1>4, <2>4 DEF OpenRight
    <2>6. OpenRight(cr'.subs, cr'.starts, cr'.maxDoc, cr'.numDocs, cr'.leaves, cr'.found)
      BY <2>2, <2>5
    <2>7. AreSubs(cr'.subs) /\ cr'.pc # "segments"
      BY <1>3, <2>2
    <2> QED BY <2>3, <2>6, <2>7 DEF CompositeInv
  <1> QED BY <1>2, <1>5, <1>6

(* The calls of an open reader change what was computed and what was found. *)
LEMMA OpenStep ==
    ASSUME CompositeInv, cr.pc = "open", NEW num, NEW leaves1, NEW found1,
           cr' = [pc |-> cr.pc, subs |-> cr.subs, starts |-> cr.starts, maxDoc |-> cr.maxDoc,
                  numDocs |-> num, leaves |-> leaves1, found |-> found1],
           num = -1 \/ num = Total(LiveCounts(cr.subs)),
           leaves1 = <<>> \/ leaves1 = LeavesFor(cr.subs, Len(cr.subs)),
           found1 = <<>> \/ found1[2] + 1 \in DOMAIN cr.subs[found1[1]]
    PROVE  CompositeInv'
  <1>1. /\ cr'.pc = "open" /\ cr'.subs = cr.subs /\ cr'.starts = cr.starts /\ cr'.maxDoc = cr.maxDoc
        /\ cr'.numDocs = num /\ cr'.leaves = leaves1 /\ cr'.found = found1
    OBVIOUS
  <1>2. cr' = [pc |-> cr'.pc, subs |-> cr'.subs, starts |-> cr'.starts, maxDoc |-> cr'.maxDoc,
               numDocs |-> cr'.numDocs, leaves |-> cr'.leaves, found |-> cr'.found]
    OBVIOUS
  <1>3. OpenRight(cr.subs, cr.starts, cr.maxDoc, num, leaves1, found1)
    BY DEF CompositeInv, OpenRight
  <1>4. AreSubs(cr.subs)
    BY DEF CompositeInv
  <1>5. OpenRight(cr'.subs, cr'.starts, cr'.maxDoc, cr'.numDocs, cr'.leaves, cr'.found) /\ AreSubs(cr'.subs)
        /\ cr'.pc # "segments"
    BY <1>1, <1>3, <1>4
  <1> QED BY <1>2, <1>5 DEF CompositeInv

LEMMA OpenParts ==
    ASSUME CompositeInv, cr.pc = "open"
    PROVE  /\ cr = [pc |-> cr.pc, subs |-> cr.subs, starts |-> cr.starts, maxDoc |-> cr.maxDoc,
                    numDocs |-> cr.numDocs, leaves |-> cr.leaves, found |-> cr.found]
           /\ AreSubs(cr.subs) /\ cr.starts = Starts(cr.subs) /\ cr.maxDoc = MaxDoc(cr.subs)
           /\ cr.numDocs = -1 \/ cr.numDocs = Total(LiveCounts(cr.subs))
           /\ cr.leaves = <<>> \/ cr.leaves = LeavesFor(cr.subs, Len(cr.subs))
           /\ cr.found = <<>> \/ cr.found[2] + 1 \in DOMAIN cr.subs[cr.found[1]]
  BY DEF CompositeInv, OpenRight

LEMMA NumDocsStep == CompositeInv /\ NumDocs => CompositeInv'
  <1>. SUFFICES ASSUME CompositeInv, NumDocs PROVE CompositeInv'
    OBVIOUS
  <1>. DEFINE num == IF cr.numDocs = -1 THEN Total(LiveCounts(cr.subs)) ELSE cr.numDocs
  <1>1. cr.pc = "open" /\ cr' = [cr EXCEPT !.numDocs = num]
    BY DEF NumDocs
  <1>2. num = -1 \/ num = Total(LiveCounts(cr.subs))
    BY <1>1, OpenParts
  <1>. HIDE DEF num
  <1>3. cr' = [pc |-> cr.pc, subs |-> cr.subs, starts |-> cr.starts, maxDoc |-> cr.maxDoc,
               numDocs |-> num, leaves |-> cr.leaves, found |-> cr.found]
    BY <1>1, OpenParts
  <1> QED BY <1>1, <1>2, <1>3, OpenStep, OpenParts

LEMMA GetContextStep == CompositeInv /\ GetContext => CompositeInv'
  <1>. SUFFICES ASSUME CompositeInv, GetContext PROVE CompositeInv'
    OBVIOUS
  <1>. DEFINE built == BuildContext(cr.subs)
  <1>1. cr.pc = "open" /\ cr' = [cr EXCEPT !.leaves = built]
    BY DEF GetContext
  <1>2. built = LeavesFor(cr.subs, Len(cr.subs))
    BY <1>1, OpenParts, ContextIs
  <1>. HIDE DEF built
  <1>3. cr' = [pc |-> cr.pc, subs |-> cr.subs, starts |-> cr.starts, maxDoc |-> cr.maxDoc,
               numDocs |-> cr.numDocs, leaves |-> built, found |-> cr.found]
    BY <1>1, OpenParts
  <1> QED BY <1>1, <1>2, <1>3, OpenStep, OpenParts

LEMMA DocumentStep == CompositeInv /\ Document => CompositeInv'
  <1>. SUFFICES ASSUME CompositeInv, Document PROVE CompositeInv'
    OBVIOUS
  <1>1. PICK n \in -1 .. cr.maxDoc :
               cr' = [cr EXCEPT !.found = IF ReaderIndex(n) = 0 THEN <<>>
                                          ELSE <<ReaderIndex(n), n - cr.starts[ReaderIndex(n)]>>]
    BY DEF Document
  <1>. DEFINE hit == IF ReaderIndex(n) = 0 THEN <<>> ELSE <<ReaderIndex(n), n - cr.starts[ReaderIndex(n)]>>
  <1>2. cr.pc = "open" /\ cr' = [cr EXCEPT !.found = hit]
    BY <1>1 DEF Document
  <1>3. hit = <<>> \/ hit[2] + 1 \in DOMAIN cr.subs[hit[1]]
    <2>1. CASE ReaderIndex(n) = 0
      BY <2>1
    <2>2. CASE ReaderIndex(n) # 0
      <3>1. cr.maxDoc \in Nat /\ AreSubs(cr.subs)
        BY <1>2, OpenParts, SubsAre
      <3>2. ~(n < 0 \/ n >= cr.maxDoc)
        BY <2>2 DEF ReaderIndex
      <3>3. n \in AllDocs
        BY <3>1, <3>2 DEF AllDocs
      <3>. DEFINE i == SubOf(cr.subs, n)
                  d == PlaceOf(cr.subs, n)
      <3>4. n \in Numbers(cr.subs) /\ ReaderIndex(n) = i /\ Route(n) = <<i, d - 1>>
        BY <1>2, <3>3, RouteIs
      <3>5. d \in DOMAIN cr.subs[i] /\ d \in Nat
        BY <3>1, <3>4, NumberLeads
      <3>6. hit = Route(n)
        BY <2>2, Zenon DEF Route
      <3>. HIDE DEF hit, i, d
      <3>7. hit[1] = i /\ hit[2] = d - 1
        BY <3>4, <3>6
      <3>8. hit[2] + 1 = d
        BY <3>5, <3>7
      <3> QED BY <3>5, <3>7, <3>8
    <2> QED BY <2>1, <2>2
  <1>. HIDE DEF hit
  <1>4. cr' = [pc |-> cr.pc, subs |-> cr.subs, starts |-> cr.starts, maxDoc |-> cr.maxDoc,
               numDocs |-> cr.numDocs, leaves |-> cr.leaves, found |-> hit]
    BY <1>2, OpenParts
  <1> QED BY <1>2, <1>3, <1>4, OpenStep, OpenParts

LEMMA CompositeSteps == CompositeInv /\ [CompositeNext]_cr => CompositeInv'
  <1>. SUFFICES ASSUME CompositeInv, [CompositeNext]_cr PROVE CompositeInv'
    OBVIOUS
  <1>1. CASE AddSegment
    BY <1>1, AddSegmentStep
  <1>2. CASE OpenComposite
    BY <1>2, OpenCompositeStep
  <1>3. CASE NumDocs
    BY <1>3, NumDocsStep
  <1>4. CASE GetContext
    BY <1>4, GetContextStep
  <1>5. CASE Document
    BY <1>5, DocumentStep
  <1>6. CASE UNCHANGED cr
    BY <1>6 DEF CompositeInv
  <1> QED BY <1>1, <1>2, <1>3, <1>4, <1>5, <1>6 DEF CompositeNext

(* baseCompositeReader, for any sub readers in the order a sort left them: its *)
(* numbers and the documents of its sub readers correspond one to one, through *)
(* the binary search of readerIndex and through the leaves of the context, and *)
(* its statistics are those of the documents its numbers lead to.              *)
THEOREM CompositeAgrees == CompositeSpec => []CompositeIsItsSubs
  <1>1. CompositeInit => CompositeInv
    BY CompositeStarts
  <1>2. CompositeInv /\ [CompositeNext]_cr => CompositeInv'
    BY CompositeSteps
  <1>3. CompositeInv => CompositeIsItsSubs
    BY InvRoutes, InvStatistics DEF CompositeIsItsSubs
  <1> QED BY <1>1, <1>2, <1>3, PTL DEF CompositeSpec
===============================================================================
