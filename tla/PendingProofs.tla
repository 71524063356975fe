---------------------------- MODULE PendingProofs ----------------------------
(* The deletes of a segment of any size, over failed writes, commits and      *)
(* restarts: first what a reader makes of a .liv file, token by token, then   *)
(* the inductive invariant of PendingDeletes.                                 *)
EXTENDS PendingDeletes, FiniteSetTheorems, SequenceTheorems, Recursion, TLAPS

-----------------------------------------------------------------------------
(* FlattenSeq puts lines behind each other.                                   *)

(* Two parts.                                                                 *)
LEMMA FlattenTwo ==
    ASSUME NEW s, NEW t, NEW u, u = <<s, t>>
    PROVE FlattenSeq(u) = s \o t
  <1>. DEFINE Rule(f) == f = [i \in 1..Len(u) |-> IF i = 1 THEN u[i] ELSE f[i-1] \o u[i]]
  <1>1. Len(u) = 2 /\ u[1] = s /\ u[2] = t
    OBVIOUS
  <1>2. \E f : Rule(f)
    <2>. DEFINE g == [i \in 1..2 |-> IF i = 1 THEN s ELSE s \o t]
    <2>1. Rule(g)
      BY <1>1
    <2> QED BY <2>1
  <1>3. \E f : Rule(f) /\ FlattenSeq(u) = f[Len(u)]
    <2>1. Len(u) # 0
      BY <1>1
    <2> QED BY <1>2, <2>1, Zenon DEF FlattenSeq
  <1>4. PICK f : Rule(f) /\ FlattenSeq(u) = f[Len(u)]
    BY <1>3
  <1>5. f[1] = s /\ f[2] = f[1] \o t
    BY <1>1, <1>4
  <1> QED BY <1>1, <1>4, <1>5

(* n lines that are all the same. *)
Copies(L, n) == [j \in 1..(3 * n) |-> L[((j - 1) % 3) + 1]]

(* A line behind n copies of it makes n + 1.                                  *)
LEMMA AnotherCopy ==
    ASSUME NEW a, NEW b, NEW c, NEW n \in Nat
    PROVE  /\ Copies(<<a, b, c>>, 1) = <<a, b, c>>
           /\ Copies(<<a, b, c>>, n) \o <<a, b, c>> = Copies(<<a, b, c>>, n + 1)
  <1>. DEFINE S == {a, b, c}
              L == <<a, b, c>>
  <1>1. \A m \in Nat : Copies(L, m) \in Seq(S) /\ Len(Copies(L, m)) = 3 * m
    <2>. SUFFICES ASSUME NEW m \in Nat PROVE Copies(L, m) \in Seq(S) /\ Len(Copies(L, m)) = 3 * m
      OBVIOUS
    <2>1. \A j \in 1..(3 * m) : ((j - 1) % 3) + 1 \in {1, 2, 3}
      OBVIOUS
    <2>2. \A d \in {1, 2, 3} : L[d] \in S
      OBVIOUS
    <2> QED BY <2>1, <2>2 DEF Copies
  <1>2. Copies(L, 1) = L
    <2>1. ASSUME NEW j \in 1..3 PROVE ((j - 1) % 3) + 1 = j
      OBVIOUS
    <2> QED BY <2>1 DEF Copies
  <1>3. Copies(L, n) \o L = Copies(L, n + 1)
    <2>. DEFINE C == Copies(L, n)
                E == Copies(L, n + 1)
    <2>1. C \in Seq(S) /\ Len(C) = 3 * n /\ L \in Seq(S) /\ Len(L) = 3
      <3>1. L \in Seq(S) /\ Len(L) = 3
        OBVIOUS
      <3>. HIDE DEF L, S
      <3> QED BY <1>1, <3>1
    <2>2. E \in Seq(S) /\ Len(E) = 3 * n + 3
      <3>1. n + 1 \in Nat /\ 3 * (n + 1) = 3 * n + 3
        OBVIOUS
      <3>. HIDE DEF L, S
      <3> QED BY <1>1, <3>1
    <2>3. ASSUME NEW j \in 1..(3 * n + 3) PROVE E[j] = IF j <= 3 * n THEN C[j] ELSE L[j - 3 * n]
      <3>1. E[j] = L[((j - 1) % 3) + 1]
        BY DEF Copies
      <3>2. CASE j <= 3 * n
        BY <3>1, <3>2 DEF Copies
      <3>3. CASE j > 3 * n
        <4>1. ((j - 1) % 3) + 1 = j - 3 * n
          BY <3>3
        <4> QED BY <3>1, <3>3, <4>1
      <3> QED BY <3>2, <3>3
    <2>. HIDE DEF C, E, L, S
    <2>4. /\ C \o L \in Seq(S) /\ Len(C \o L) = Len(C) + Len(L)
          /\ \A j \in 1..(Len(C) + Len(L)) : (C \o L)[j] = IF j <= Len(C) THEN C[j] ELSE L[j - Len(C)]
      BY <2>1, ConcatProperties, Zenon
    <2>5. Len(C \o L) = Len(E) /\ \A j \in 1..Len(C \o L) : (C \o L)[j] = E[j]
      BY <2>1, <2>2, <2>3, <2>4
    <2>6. C \o L = E
      BY <2>2, <2>4, <2>5, SeqEqual, Zenon
    <2> QED BY <2>6 DEF C, E
  <1> QED BY <1>2, <1>3

(* The lines of n live documents, which are all the same.                     *)
LEMMA FlattenCopies ==
    ASSUME NEW a, NEW b, NEW c, NEW n \in Nat
    PROVE  FlattenSeq([i \in 1..n |-> <<a, b, c>>]) = Copies(<<a, b, c>>, n)
  <1>. DEFINE L == <<a, b, c>>
              u == [i \in 1..n |-> L]
              Rule(f) == f = [i \in 1..Len(u) |-> IF i = 1 THEN u[i] ELSE f[i-1] \o u[i]]
  <1>1. Len(u) = n /\ \A i \in 1..n : u[i] = L
    OBVIOUS
  <1>2. CASE n = 0
    <2>1. FlattenSeq(u) = u
      BY <1>1, <1>2, Zenon DEF FlattenSeq
    <2>2. u = Copies(L, n)
      BY <1>2 DEF Copies
    <2> QED BY <2>1, <2>2
  <1>3. CASE n # 0
    <2>. HIDE DEF u, L
    <2>1. \E f : Rule(f)
      <3>. DEFINE g == [i \in 1..n |-> Copies(L, i)]
      <3>1. ASSUME NEW i \in 1..n PROVE g[i] = IF i = 1 THEN u[i] ELSE g[i-1] \o u[i]
        <4>1. CASE i = 1
          BY <1>1, <4>1, AnotherCopy DEF L
        <4>2. CASE i # 1
          <5>1. i - 1 \in 1..n /\ i - 1 \in Nat /\ (i - 1) + 1 = i
            BY <4>2
          <5>2. Copies(L, i - 1) \o L = Copies(L, (i - 1) + 1)
            BY <5>1, AnotherCopy DEF L
          <5> QED BY <1>1, <4>2, <5>1, <5>2
        <4> QED BY <4>1, <4>2
      <3>2. Rule(g)
        BY <1>1, <3>1
      <3> QED BY <3>2
    <2>2. \E f : Rule(f) /\ FlattenSeq(u) = f[Len(u)]
      BY <1>1, <1>3, <2>1, Zenon DEF FlattenSeq
    <2>3. PICK f : Rule(f) /\ FlattenSeq(u) = f[Len(u)]
      BY <2>2
    <2>. DEFINE Bad == {i \in 1..n : f[i] # Copies(L, i)}
    <2>4. ASSUME NEW i \in Bad, \A k \in Bad : i <= k PROVE FALSE
      <3>1. i \in 1..n /\ f[i] # Copies(L, i)
        OBVIOUS
      <3>2. f[i] = IF i = 1 THEN u[i] ELSE f[i-1] \o u[i]
        BY <1>1, <2>3, <3>1
      <3>3. i # 1
        <4>1. Copies(L, 1) = L
          BY AnotherCopy DEF L
        <4> QED BY <1>1, <3>1, <3>2, <4>1
      <3>4. i - 1 \in 1..n /\ i - 1 \in Nat /\ (i - 1) + 1 = i /\ i - 1 < i
        BY <3>1, <3>3
      <3>5. f[i - 1] = Copies(L, i - 1)
        BY <2>4, <3>4
      <3>6. Copies(L, i - 1) \o L = Copies(L, (i - 1) + 1)
        BY <3>4, AnotherCopy DEF L
      <3> QED BY <1>1, <3>1, <3>2, <3>3, <3>4, <3>5, <3>6
    <2>5. Bad = {}
      <3>1. Bad \subseteq Nat
        OBVIOUS
      <3>. HIDE DEF Bad
      <3> QED BY <2>4, <3>1, LeastNat
    <2>6. n \in 1..n
      BY <1>3
    <2> QED BY <1>1, <2>3, <2>5, <2>6 DEF u, L
  <1> QED BY <1>2, <1>3

-----------------------------------------------------------------------------
(* Lines.                                                                      *)

LEMMA Joined ==
    ASSUME NEW a, NEW b
    PROVE  <<a>> \o <<b>> = <<a, b>>
  <1>. DEFINE S == {a, b}
              s == <<a>>
              t == <<b>>
              u == <<a, b>>
  <1>1. /\ s \in Seq(S) /\ Len(s) = 1 /\ s[1] = a
        /\ t \in Seq(S) /\ Len(t) = 1 /\ t[1] = b
        /\ u \in Seq(S) /\ Len(u) = 2 /\ u[1] = a /\ u[2] = b
    OBVIOUS
  <1>. HIDE DEF S, s, t, u
  <1>2. /\ s \o t \in Seq(S) /\ Len(s \o t) = Len(s) + Len(t)
        /\ \A i \in 1..(Len(s) + Len(t)) : (s \o t)[i] = IF i <= Len(s) THEN s[i] ELSE t[i - Len(s)]
    BY <1>1, ConcatProperties, Zenon
  <1>3. Len(s \o t) = Len(u) /\ \A i \in 1..Len(s \o t) : (s \o t)[i] = u[i]
    BY <1>1, <1>2
  <1>4. s \o t = u
    BY <1>1, <1>2, <1>3, SeqEqual, Zenon
  <1> QED BY <1>4 DEF s, t, u

(* writeValue: a label and a value that needs no escape.                      *)
LEMMA LabelledLine ==
    ASSUME NEW l, NEW x, x # NEWLINE, x # ESCAPE
    PROVE  WriteLabel(l, <<x>>) = <<Label(l), x, NEWLINE>>
  <1>. DEFINE bs == <<Label(l)>> \o <<x>>
              u == [i \in DOMAIN bs |-> IF bs[i] \in {NEWLINE, ESCAPE} THEN <<ESCAPE, bs[i]>> ELSE <<bs[i]>>]
  <1>1. bs = <<Label(l), x>>
    BY Joined, Zenon
  <1>2. Label(l) # NEWLINE /\ Label(l) # ESCAPE
    BY DEF Label, NEWLINE, ESCAPE
  <1>3. u = << <<Label(l)>>, <<x>> >>
    <2>. HIDE DEF bs
    <2>1. DOMAIN bs = {1, 2} /\ bs[1] = Label(l) /\ bs[2] = x
      BY <1>1
    <2>2. u[1] = <<Label(l)>> /\ u[2] = <<x>> /\ DOMAIN u = 1..2
      BY <1>2, <2>1
    <2>. HIDE DEF u
    <2>3. u = [i \in 1..2 |-> u[i]]
      BY <1>1, <2>1 DEF u
    <2> QED BY <2>2, <2>3
  <1>4. FlattenSeq(u) = <<Label(l)>> \o <<x>>
    <2>. HIDE DEF u
    <2> QED BY <1>3, FlattenTwo
  <1>5. WriteBytes(bs) = FlattenSeq(u)
    BY Zenon DEF WriteBytes
  <1>6. WriteLabel(l, <<x>>) = WriteBytes(bs) \o <<NEWLINE>>
    BY Zenon DEF WriteLabel
  <1>7. WriteLabel(l, <<x>>) = (<<Label(l)>> \o <<x>>) \o <<NEWLINE>>
    <2>. HIDE DEF bs, u
    <2> QED BY <1>4, <1>5, <1>6
  <1> QED BY <1>7

(* One step of the loop of ReadLine.                                           *)
LineStep(in, f, p) ==
    IF p > Len(in) \/ Unescaped(in, p) > Len(in) THEN Failed
    ELSE IF in[p] = NEWLINE THEN [ok |-> TRUE, line |-> <<>>, next |-> p + 1]
    ELSE WithFirst(in[Unescaped(in, p)], f[Unescaped(in, p) + 1])

(* A step looks only at later places, ...                                     *)
LEMMA LineLooksAhead ==
    ASSUME NEW in, Len(in) \in Nat, NEW f, NEW g, NEW p \in Nat,
           p <= Len(in) => g[p + 1] = f[p + 1] /\ g[(p + 1) + 1] = f[(p + 1) + 1]
    PROVE  LineStep(in, g, p) = LineStep(in, f, p)
  <1>. DEFINE q == Unescaped(in, p)
  <1>1. q = p \/ q = p + 1
    BY DEF Unescaped
  <1>. HIDE DEF q
  <1>2. p <= Len(in) => g[q + 1] = f[q + 1]
    BY <1>1
  <1> QED BY <1>2 DEF LineStep, q

(* ... so the recursive function of ReadLine exists.                          *)
LEMMA LineFunction ==
    ASSUME NEW in, Len(in) \in Nat
    PROVE  \E f : /\ \A p \in 1..(Len(in) + 2) : f[p] = LineStep(in, f, p)
                  /\ \A p : ReadLine(in, p) = f[p]
  <1>. DEFINE N == Len(in) + 2
              Good(f, k) == \A p \in 1..N : p > k => f[p] = LineStep(in, f, p)
              Bad == {d \in 0..N : ~\E f : Good(f, N - d)}
  <1>1. ASSUME NEW d \in Bad, \A k \in Bad : d <= k PROVE FALSE
    <2>1. d \in 0..N /\ N \in Nat /\ d \in Nat /\ ~\E f : Good(f, N - d)
      OBVIOUS
    <2>2. d # 0
      <3>1. \A p \in 1..N : ~(p > N - 0)
        BY <2>1
      <3>2. Good({}, N - 0)
        BY <3>1
      <3> QED BY <2>1, <3>2
    <2>3. d - 1 \in 0..N /\ d - 1 < d
      BY <2>1, <2>2
    <2>4. d - 1 \notin Bad
      <3>. HIDE DEF Bad
      <3> QED BY <1>1, <2>1, <2>3
    <2>5. PICK f : Good(f, N - (d - 1))
      BY <2>3, <2>4
    <2>. DEFINE c == N - (d - 1)
                h == [p \in 1..(N + 2) |-> IF p = c THEN LineStep(in, f, p) ELSE f[p]]
    <2>6. c \in 1..N /\ c - 1 = N - d
      BY <2>1, <2>3
    <2>7. ASSUME NEW p \in 1..N, p > N - d PROVE h[p] = LineStep(in, h, p)
      <3>1. p \in Nat /\ p >= c /\ p + 1 \in 1..(N + 2) /\ p + 2 \in 1..(N + 2) /\ p \in 1..(N + 2)
        BY <2>1, <2>6, <2>7
      <3>2. h[p] = LineStep(in, f, p)
        <4>1. CASE p = c
          BY <3>1, <4>1
        <4>2. CASE p # c
          <5>1. p > N - (d - 1)
            BY <2>1, <3>1, <4>2
          <5>2. f[p] = LineStep(in, f, p)
            BY <2>5, <5>1
          <5> QED BY <3>1, <4>2, <5>2
        <4> QED BY <4>1, <4>2
      <3>3. h[p + 1] = f[p + 1] /\ h[(p + 1) + 1] = f[(p + 1) + 1]
        BY <2>6, <3>1
      <3>. HIDE DEF h
      <3>4. LineStep(in, h, p) = LineStep(in, f, p)
        BY <3>1, <3>3, LineLooksAhead
      <3> QED BY <3>2, <3>4
    <2>8. Good(h, N - d)
      <3>. HIDE DEF h
      <3> QED BY <2>7
    <2> QED BY <2>1, <2>8
  <1>2. Bad = {}
    <2>1. Bad \subseteq Nat
      OBVIOUS
    <2>. HIDE DEF Bad
    <2> QED BY <1>1, <2>1, LeastNat
  <1>3. PICK f0 : Good(f0, N - N)
    BY <1>2
  <1>. DEFINE f == [p \in 1..N |-> f0[p]]
              Rule(g) == g = [p \in 1..N |-> LineStep(in, g, p)]
  <1>4. ASSUME NEW p \in 1..N PROVE f[p] = LineStep(in, f, p)
    <2>1. p \in Nat /\ p > N - N /\ N \in Nat
      OBVIOUS
    <2>2. f[p] = LineStep(in, f0, p)
      BY <1>3, <2>1
    <2>3. LineStep(in, f, p) = LineStep(in, f0, p)
      <3>1. p <= Len(in) => f[p + 1] = f0[p + 1] /\ f[(p + 1) + 1] = f0[(p + 1) + 1]
        BY <2>1
      <3>. HIDE DEF f
      <3> QED BY <2>1, <3>1, LineLooksAhead
    <2> QED BY <2>2, <2>3
  <1>5. Rule(f)
    <2>1. f = [p \in 1..N |-> f[p]]
      OBVIOUS
    <2>. HIDE DEF f
    <2> QED BY <1>4, <2>1
  <1>. HIDE DEF f
  <1>. DEFINE g == CHOOSE h : Rule(h)
  <1>6. Rule(g)
    BY <1>5, Zenon
  <1>7. \A p : ReadLine(in, p) = g[p]
    BY Zenon DEF ReadLine, LineStep
  <1>. HIDE DEF g
  <1>8. \A p \in 1..N : g[p] = LineStep(in, g, p)
    BY <1>6
  <1> QED BY <1>7, <1>8

(* One more character in front of a line that was read.                       *)
LEMMA LongerLine ==
    ASSUME NEW c, NEW l, NEW n
    PROVE  WithFirst(c, [ok |-> TRUE, line |-> l, next |-> n]) = [ok |-> TRUE, line |-> <<c>> \o l, next |-> n]
  <1>. DEFINE m == <<c>> \o l
  <1>1. WithFirst(c, [ok |-> TRUE, line |-> l, next |-> n]) = [[ok |-> TRUE, line |-> l, next |-> n] EXCEPT !.line = m]
    BY DEF WithFirst
  <1>. HIDE DEF m
  <1>2. [[ok |-> TRUE, line |-> l, next |-> n] EXCEPT !.line = m] = [ok |-> TRUE, line |-> m, next |-> n]
    <2>. DEFINE r == [ok |-> TRUE, line |-> l, next |-> n]
                s == [r EXCEPT !.line = m]
    <2>1. DOMAIN r = {"ok", "line", "next"} /\ r.ok = TRUE /\ r.line = l /\ r.next = n
      OBVIOUS
    <2>. HIDE DEF r
    <2>2. DOMAIN s = DOMAIN r /\ s.ok = TRUE /\ s.line = m /\ s.next = n
      BY <2>1
    <2>3. s = [x \in DOMAIN s |-> s[x]]
      OBVIOUS
    <2>. HIDE DEF s
    <2>4. s = [ok |-> TRUE, line |-> m, next |-> n]
      BY <2>1, <2>2, <2>3
    <2> QED BY <2>4 DEF r, s
  <1> QED BY <1>1, <1>2 DEF m

(* A line that is read ends before the end of the file, behind its start.      *)
LineIs(r, in, p) == \E l : \E n \in (p + 1)..(Len(in) + 1) : r = [ok |-> TRUE, line |-> l, next |-> n]

LEMMA LineAdvances ==
    ASSUME NEW in, Len(in) \in Nat, NEW p \in 1..(Len(in) + 2)
    PROVE  ReadLine(in, p) = Failed \/ LineIs(ReadLine(in, p), in, p)
  <1>1. PICK f : /\ \A i \in 1..(Len(in) + 2) : f[i] = LineStep(in, f, i)
                 /\ \A i : ReadLine(in, i) = f[i]
    BY LineFunction
  <1>. DEFINE N == Len(in) + 2
              Fine(i) == f[i] = Failed \/ LineIs(f[i], in, i)
              Bad == {d \in 0..N : ~(N - d \in 1..N => Fine(N - d))}
  <1>2. ASSUME NEW d \in Bad, \A k \in Bad : d <= k PROVE FALSE
    <2>. DEFINE i == N - d
                q == Unescaped(in, i)
    <2>1. d \in Nat /\ N \in Nat /\ i \in 1..N /\ ~Fine(i) /\ Len(in) = N - 2
      OBVIOUS
    <2>2. f[i] = LineStep(in, f, i)
      BY <1>1, <2>1
    <2>3. i <= Len(in) /\ q <= Len(in) /\ in[i] # NEWLINE
      <3>1. ASSUME i > Len(in) \/ q > Len(in) PROVE FALSE
        BY <2>1, <2>2, <3>1 DEF LineStep
      <3>2. (q = i \/ q = i + 1) /\ i \in Int
        BY <2>1 DEF Unescaped
      <3>3. i <= Len(in) /\ q <= Len(in)
        <4>. HIDE DEF q, i
        <4> QED BY <2>1, <3>1, <3>2
      <3>4. ASSUME in[i] = NEWLINE PROVE FALSE
        <4>1. f[i] = [ok |-> TRUE, line |-> <<>>, next |-> i + 1]
          <5>. HIDE DEF i
          <5> QED BY <2>2, <3>1, <3>4 DEF LineStep, i
        <4>2. i + 1 \in (i + 1)..(Len(in) + 1)
          <5>. HIDE DEF i, q
          <5> QED BY <2>1, <3>3
        <4>3. LineIs(f[i], in, i)
          BY <4>1, <4>2, Zenon DEF LineIs
        <4> QED BY <2>1, <4>3
      <3> QED BY <3>3, <3>4
    <2>4. f[i] = WithFirst(in[q], f[q + 1])
      <3>. HIDE DEF i
      <3> QED BY <2>2, <2>3 DEF LineStep, i
    <2>5. q = i \/ q = i + 1
      BY DEF Unescaped
    <2>. DEFINE k == q + 1
    <2>6. k \in 1..N /\ N - k \in 0..N /\ N - k < d /\ k > i /\ N - (N - k) = k
      <3>. HIDE DEF q
      <3> QED BY <2>1, <2>3, <2>5
    <2>7. Fine(k)
      <3>1. N - k \notin Bad
        <4>. HIDE DEF Bad, k, N
        <4> QED BY <1>2, <2>1, <2>6
      <3>2. N - k \in 0..N /\ N - (N - k) = k /\ k \in 1..N
        BY <2>6
      <3>. HIDE DEF Fine, k, N
      <3> QED BY <3>1, <3>2
    <2>8. CASE f[k] = Failed
      <3>1. f[i] = Failed
        <4>. HIDE DEF i, q
        <4> QED BY <2>4, <2>8 DEF WithFirst, Failed
      <3> QED BY <2>1, <3>1
    <2>9. CASE LineIs(f[k], in, k)
      <3>1. PICK l : \E n \in (k + 1)..(Len(in) + 1) : f[k] = [ok |-> TRUE, line |-> l, next |-> n]
        BY <2>9, Zenon DEF LineIs
      <3>2. PICK n \in (k + 1)..(Len(in) + 1) : f[k] = [ok |-> TRUE, line |-> l, next |-> n]
        BY <3>1, Zenon
      <3>3. f[i] = [ok |-> TRUE, line |-> <<in[q]>> \o l, next |-> n]
        <4>1. WithFirst(in[q], [ok |-> TRUE, line |-> l, next |-> n])
                = [ok |-> TRUE, line |-> <<in[q]>> \o l, next |-> n]
          BY LongerLine
        <4>. HIDE DEF i, q
        <4> QED BY <2>4, <3>2, <4>1, Zenon DEF k
      <3>4. n \in (i + 1)..(Len(in) + 1)
        <4>. HIDE DEF i, q, k
        <4> QED BY <2>1, <2>6, <3>2
      <3>5. LineIs(f[i], in, i)
        BY <3>3, <3>4, Zenon DEF LineIs
      <3> QED BY <2>1, <3>5
    <2> QED BY <2>7, <2>8, <2>9
  <1>3. Bad = {}
    <2>1. Bad \subseteq Nat
      OBVIOUS
    <2>. HIDE DEF Bad
    <2> QED BY <1>2, <2>1, LeastNat
  <1>4. N - p \in 0..N /\ N - (N - p) = p
    OBVIOUS
  <1>5. Fine(p)
    <2>1. N - p \notin Bad
      BY <1>3
    <2>. HIDE DEF Fine, N
    <2> QED BY <1>4, <2>1 DEF N
  <1> QED BY <1>1, <1>5

(* The line at p is the tokens a and b.                                        *)
LineAt(in, p, a, b) ==
    /\ Len(in) \in Nat /\ p \in Nat /\ p >= 1 /\ p + 2 <= Len(in)
    /\ in[p] = a /\ in[p + 1] = b /\ in[p + 2] = NEWLINE
    /\ a # NEWLINE /\ a # ESCAPE /\ b # NEWLINE /\ b # ESCAPE

(* TextReader.ReadLine on a label and a value ...                             *)
LEMMA LabelledLineRead ==
    ASSUME NEW in, NEW p, NEW a, NEW b, LineAt(in, p, a, b)
    PROVE  ReadLine(in, p) = [ok |-> TRUE, line |-> <<a, b>>, next |-> p + 3]
  <1>. USE DEF LineAt
  <1>1. PICK f : /\ \A i \in 1..(Len(in) + 2) : f[i] = LineStep(in, f, i)
                 /\ \A i : ReadLine(in, i) = f[i]
    BY LineFunction
  <1>2. NEWLINE # ESCAPE
    BY DEF NEWLINE, ESCAPE
  <1>3. f[p + 2] = [ok |-> TRUE, line |-> <<>>, next |-> p + 3]
    <2>1. f[p + 2] = LineStep(in, f, p + 2) /\ (p + 2) + 1 = p + 3
      BY <1>1
    <2>2. Unescaped(in, p + 2) = p + 2
      BY <1>2 DEF Unescaped
    <2> QED BY <2>1, <2>2 DEF LineStep
  <1>4. f[p + 1] = WithFirst(b, f[p + 2])
    <2>1. f[p + 1] = LineStep(in, f, p + 1) /\ (p + 1) + 1 = p + 2 /\ p + 1 <= Len(in)
      BY <1>1
    <2>2. Unescaped(in, p + 1) = p + 1
      BY DEF Unescaped
    <2> QED BY <2>1, <2>2 DEF LineStep
  <1>5. f[p] = WithFirst(a, f[p + 1])
    <2>1. f[p] = LineStep(in, f, p) /\ p <= Len(in)
      BY <1>1
    <2>2. Unescaped(in, p) = p
      BY DEF Unescaped
    <2> QED BY <2>1, <2>2 DEF LineStep
  <1>6. f[p + 1] = [ok |-> TRUE, line |-> <<b>> \o <<>>, next |-> p + 3]
    <2>1. WithFirst(b, [ok |-> TRUE, line |-> <<>>, next |-> p + 3])
            = [ok |-> TRUE, line |-> <<b>> \o <<>>, next |-> p + 3]
      BY LongerLine
    <2> QED BY <1>3, <1>4, <2>1, Zenon
  <1>7. <<b>> \o <<>> = <<b>>
    BY ConcatEmptySeq
  <1>8. f[p] = [ok |-> TRUE, line |-> <<a>> \o <<b>>, next |-> p + 3]
    <2>1. WithFirst(a, [ok |-> TRUE, line |-> <<b>>, next |-> p + 3])
            = [ok |-> TRUE, line |-> <<a>> \o <<b>>, next |-> p + 3]
      BY LongerLine
    <2> QED BY <1>5, <1>6, <1>7, <2>1, Zenon
  <1>9. <<a>> \o <<b>> = <<a, b>>
    BY Joined, Zenon
  <1> QED BY <1>1, <1>8, <1>9

(* ... and on the END line.                                                   *)
LEMMA EndLineRead ==
    ASSUME NEW in, Len(in) \in Nat, NEW p \in Nat, p >= 1, p + 1 <= Len(in),
           NEW a, in[p] = a, in[p + 1] = NEWLINE, a # NEWLINE, a # ESCAPE
    PROVE  ReadLine(in, p) = [ok |-> TRUE, line |-> <<a>>, next |-> p + 2]
  <1>1. PICK f : /\ \A i \in 1..(Len(in) + 2) : f[i] = LineStep(in, f, i)
                 /\ \A i : ReadLine(in, i) = f[i]
    BY LineFunction
  <1>2. NEWLINE # ESCAPE
    BY DEF NEWLINE, ESCAPE
  <1>3. f[p + 1] = [ok |-> TRUE, line |-> <<>>, next |-> p + 2]
    <2>1. f[p + 1] = LineStep(in, f, p + 1) /\ (p + 1) + 1 = p + 2 /\ ~(p + 1 > Len(in))
      BY <1>1
    <2>2. Unescaped(in, p + 1) = p + 1
      BY <1>2 DEF Unescaped
    <2> QED BY <2>1, <2>2 DEF LineStep
  <1>4. f[p] = WithFirst(a, f[p + 1])
    <2>1. f[p] = LineStep(in, f, p) /\ p <= Len(in)
      BY <1>1
    <2>2. Unescaped(in, p) = p
      BY DEF Unescaped
    <2> QED BY <2>1, <2>2 DEF LineStep
  <1>5. f[p] = [ok |-> TRUE, line |-> <<a>> \o <<>>, next |-> p + 2]
    <2>1. WithFirst(a, [ok |-> TRUE, line |-> <<>>, next |-> p + 2])
            = [ok |-> TRUE, line |-> <<a>> \o <<>>, next |-> p + 2]
      BY LongerLine
    <2> QED BY <1>3, <1>4, <2>1, Zenon
  <1>6. <<a>> \o <<>> = <<a>>
    BY ConcatEmptySeq
  <1> QED BY <1>1, <1>5, <1>6


(* Reading one label is one step of the fold of ReadLabels.                   *)
LEMMA FoldOne ==
    ASSUME NEW in, NEW pos, NEW label
    PROVE  ReadLabels(in, pos, <<label>>) = ReadLabel(in, [ok |-> TRUE, values |-> <<>>, next |-> pos], label)
  <1>. DEFINE u == <<label>>
              base == [ok |-> TRUE, values |-> <<>>, next |-> pos]
              one == ReadLabel(in, base, label)
              Rule(f) == f = [s \in SUBSET (DOMAIN u) |->
                                 IF s = {} THEN base ELSE ReadLabel(in, f[s \ {Max(s)}], u[Max(s)])]
  <1>1. DOMAIN u = {1} /\ u[1] = label
    OBVIOUS
  <1>2. Max({1}) = 1
    <2>1. \E x \in {1} : \A y \in {1} : x >= y
      OBVIOUS
    <2>2. (CHOOSE x \in {1} : \A y \in {1} : x >= y) \in {1}
      BY <2>1, Zenon
    <2> QED BY <2>2 DEF Max
  <1>3. \E f : Rule(f)
    <2>. DEFINE g == [s \in SUBSET {1} |-> IF s = {} THEN base ELSE one]
    <2>1. g[{}] = base /\ SUBSET {1} = {{}, {1}}
      <3>. HIDE DEF base, one
      <3> QED OBVIOUS
    <2>2. ASSUME NEW s \in SUBSET {1}
          PROVE  g[s] = IF s = {} THEN base ELSE ReadLabel(in, g[s \ {Max(s)}], u[Max(s)])
      <3>1. CASE s = {}
        <4>. HIDE DEF base, one
        <4> QED BY <3>1
      <3>2. CASE s = {1}
        <4>1. s \ {Max(s)} = {} /\ u[Max(s)] = label
          BY <1>1, <1>2, <3>2
        <4>2. g[s] = one
          <5>. HIDE DEF base, one
          <5> QED BY <3>2
        <4>. HIDE DEF base, g, u
        <4> QED BY <2>1, <3>2, <4>1, <4>2
      <3> QED BY <2>1, <3>1, <3>2
    <2>3. g = [s \in SUBSET {1} |-> g[s]]
      <3>. HIDE DEF base, one
      <3> QED OBVIOUS
    <2>4. Rule(g)
      <3>. HIDE DEF g, base, u
      <3> QED BY <1>1, <2>2, <2>3
    <2> QED BY <2>4
  <1>4. \E f : Rule(f) /\ ReadLabels(in, pos, u) = f[DOMAIN u]
    BY <1>3, Zenon DEF ReadLabels, FoldLeft, MapThenFoldSet
  <1>5. PICK f : Rule(f) /\ ReadLabels(in, pos, u) = f[DOMAIN u]
    BY <1>4
  <1>. HIDE DEF base
  <1>6. f[{}] = base
    BY <1>1, <1>5
  <1>7. f[{1}] = ReadLabel(in, f[{1} \ {Max({1})}], u[Max({1})])
    BY <1>1, <1>5
  <1>8. {1} \ {Max({1})} = {} /\ u[Max({1})] = label
    BY <1>1, <1>2
  <1> QED BY <1>1, <1>5, <1>6, <1>7, <1>8 DEF base

(* The value of a labelled line.                                              *)
LEMMA LabelRead ==
    ASSUME NEW in, NEW pos, NEW label, NEW x, NEW n,
           ReadLine(in, pos) = [ok |-> TRUE, line |-> <<Label(label), x>>, next |-> n]
    PROVE  ReadLabels(in, pos, <<label>>) = [ok |-> TRUE, values |-> << <<x>> >>, next |-> n]
  <1>. DEFINE a == [ok |-> TRUE, values |-> <<>>, next |-> pos]
              l == <<Label(label), x>>
              r == [ok |-> TRUE, line |-> l, next |-> n]
  <1>1. a.ok /\ a.values = <<>> /\ a.next = pos /\ r.ok /\ r.line = l /\ r.next = n
    OBVIOUS
  <1>2. HasPrefix(l, label) /\ Tail(l) = <<x>>
    <2>1. l # <<>> /\ l[1] = Label(label) /\ Tail(l) = <<x>>
      OBVIOUS
    <2> QED BY <2>1, Zenon DEF HasPrefix
  <1>3. Append(<<>>, <<x>>) = << <<x>> >>
    OBVIOUS
  <1>. HIDE DEF a, l, r
  <1>4. ReadLine(in, pos) = r
    BY DEF r, l
  <1>5. ReadLabel(in, a, label) = [ok |-> TRUE, values |-> << <<x>> >>, next |-> n]
    BY <1>1, <1>2, <1>3, <1>4, Zenon DEF ReadLabel
  <1>6. ReadLabels(in, pos, <<label>>) = ReadLabel(in, a, label)
    BY FoldOne, Zenon DEF a
  <1> QED BY <1>5, <1>6

-----------------------------------------------------------------------------
(* The .liv file.                                                              *)

SizeToken == <<"num", MaxDoc>>

(* The file of n live documents, token by token.                              *)
IsLiveDocsFile(file, n) ==
    /\ Len(file) = 3 * n + 8
    /\ file[1] = Label("size ") /\ file[2] = SizeToken /\ file[3] = NEWLINE
    /\ \A k \in 0..(n - 1) : /\ file[3 * k + 4] = Label("  doc ")
                            /\ file[3 * k + 5] = SizeToken
                            /\ file[3 * k + 6] = NEWLINE
    /\ file[3 * n + 4] = Label("END") /\ file[3 * n + 5] = NEWLINE
    /\ file[3 * n + 6] = Label(CHECKSUM) /\ file[3 * n + 7] = <<"sum", SubSeq(file, 1, 3 * n + 5)>>
    /\ file[3 * n + 8] = NEWLINE

(* Labels, sizes and checksums are neither newlines nor escapes.              *)
LEMMA ValuesAreNoBreaks ==
    /\ SizeToken # NEWLINE /\ SizeToken # ESCAPE
    /\ \A l : Label(l) # NEWLINE /\ Label(l) # ESCAPE
    /\ \A s : <<"sum", s>> # NEWLINE /\ <<"sum", s>> # ESCAPE
  <1>1. \A k, v : k # "chr" => <<k, v>> # NEWLINE /\ <<k, v>> # ESCAPE
    BY DEF NEWLINE, ESCAPE
  <1>2. "num" # "chr" /\ "lab" # "chr" /\ "sum" # "chr"
    OBVIOUS
  <1> QED BY <1>1, <1>2 DEF SizeToken, Label

AreCopies(B, n, a, b, c) ==
    /\ B \in Seq({a, b, c}) /\ Len(B) = 3 * n
    /\ \A k \in 0..(n - 1) : B[3 * k + 1] = a /\ B[3 * k + 2] = b /\ B[3 * k + 3] = c

(* What stands where in n copies of a line.                                   *)
LEMMA CopiedTokens ==
    ASSUME NEW a, NEW b, NEW c, NEW n \in Nat
    PROVE  AreCopies(Copies(<<a, b, c>>, n), n, a, b, c)
  <1>. DEFINE L == <<a, b, c>>
              S == {a, b, c}
  <1>1. L[1] = a /\ L[2] = b /\ L[3] = c /\ \A d \in {1, 2, 3} : L[d] \in S
    OBVIOUS
  <1>2. \A j \in 1..(3 * n) : ((j - 1) % 3) + 1 \in {1, 2, 3}
    OBVIOUS
  <1>. HIDE DEF L, S
  <1>3. Copies(L, n) \in Seq(S) /\ Len(Copies(L, n)) = 3 * n
    BY <1>1, <1>2 DEF Copies
  <1>4. ASSUME NEW k \in 0..(n - 1), NEW d \in {1, 2, 3} PROVE Copies(L, n)[3 * k + d] = L[d]
    <2>1. 3 * k + d \in 1..(3 * n) /\ (((3 * k + d) - 1) % 3) + 1 = d
      OBVIOUS
    <2>. DEFINE j == 3 * k + d
    <2>. HIDE DEF j
    <2>2. Copies(L, n)[j] = L[d]
      BY <2>1 DEF Copies, j
    <2> QED BY <2>2 DEF j
  <1>5. \A k \in 0..(n - 1) : /\ Copies(L, n)[3 * k + 1] = a
                            /\ Copies(L, n)[3 * k + 2] = b
                            /\ Copies(L, n)[3 * k + 3] = c
    BY <1>1, <1>4
  <1> QED BY <1>3, <1>5 DEF L, S, AreCopies

(* u is s, of length m, with t, of length k, behind it.                        *)
Joins(u, s, t, m, k) ==
    /\ Len(u) = m + k
    /\ \A j \in 1..m : u[j] = s[j]
    /\ \A j \in 1..k : u[m + j] = t[j]

(* What stands where in a concatenation.                                      *)
LEMMA Concatenated ==
    ASSUME NEW S, NEW s \in Seq(S), NEW t \in Seq(S), NEW u, u = s \o t,
           NEW m \in Nat, Len(s) = m, NEW k \in Nat, Len(t) = k
    PROVE  u \in Seq(S) /\ Joins(u, s, t, m, k)
  <1>. DEFINE v == s \o t
  <1>1. /\ v \in Seq(S) /\ Len(v) = Len(s) + Len(t)
        /\ \A j \in 1..(Len(s) + Len(t)) : v[j] = IF j <= Len(s) THEN s[j] ELSE t[j - Len(s)]
    BY ConcatProperties, Zenon
  <1>. HIDE DEF v
  <1>2. \A j \in 1..(m + k) : v[j] = IF j <= m THEN s[j] ELSE t[j - m]
    BY <1>1
  <1>3. ASSUME NEW j \in 1..k PROVE v[m + j] = t[j]
    <2>. DEFINE i == m + j
    <2>1. i \in 1..(m + k) /\ ~(i <= m) /\ i - m = j
      OBVIOUS
    <2>. HIDE DEF i
    <2>2. v[i] = t[i - m]
      BY <1>2, <2>1
    <2> QED BY <2>1, <2>2 DEF i
  <1>4. ASSUME NEW j \in 1..m PROVE v[j] = s[j]
    <2>1. j \in 1..(m + k) /\ j <= m
      OBVIOUS
    <2> QED BY <1>2, <2>1
  <1>5. u = v
    BY DEF v
  <1> QED BY <1>1, <1>3, <1>4, <1>5 DEF Joins

(* The part of a file that its checksum covers.                               *)
LEMMA FirstPart ==
    ASSUME NEW S, NEW s \in Seq(S), NEW u \in Seq(S), NEW m \in Nat, Len(s) = m, Len(u) >= m,
           \A j \in 1..m : u[j] = s[j]
    PROVE  SubSeq(u, 1, m) = s
  <1>. DEFINE P == SubSeq(u, 1, m)
  <1>1. \A i \in 1..m : u[i] \in S
    OBVIOUS
  <1>2. 1 \in Int /\ m \in Int
    OBVIOUS
  <1>3. /\ P \in Seq(S) /\ Len(P) = (IF 1 <= m THEN m - 1 + 1 ELSE 0)
        /\ \A i \in 1..(m - 1 + 1) : P[i] = u[1 + i - 1]
    BY <1>1, <1>2, SubSeqProperties
  <1>. HIDE DEF P
  <1>4. Len(P) = Len(s) /\ \A i \in 1..Len(P) : P[i] = s[i]
    <2>1. Len(P) = m /\ m - 1 + 1 = m
      BY <1>3
    <2>2. ASSUME NEW i \in 1..m PROVE P[i] = s[i]
      <3>1. 1 + i - 1 = i
        OBVIOUS
      <3>2. P[i] = u[1 + i - 1]
        BY <1>3, <2>1
      <3> QED BY <3>1, <3>2
    <2> QED BY <2>1, <2>2
  <1>5. P = s
    BY <1>3, <1>4, SeqEqual, Zenon
  <1> QED BY <1>5 DEF P

HasParts(F, n, A, B, C, D, out) ==
    /\ Len(F) = 3 * n + 8
    /\ \A j \in 1..3 : F[j] = A[j]
    /\ \A j \in 1..(3 * n) : F[3 + j] = B[j]
    /\ \A j \in 1..2 : F[3 * n + 3 + j] = C[j]
    /\ \A j \in 1..3 : F[3 * n + 5 + j] = D[j]
    /\ SubSeq(F, 1, 3 * n + 5) = out

(* The four parts of a .liv file.                                             *)
LEMMA FileParts ==
    ASSUME NEW S, NEW n \in Nat, NEW A \in Seq(S), NEW B \in Seq(S), NEW C \in Seq(S), NEW D \in Seq(S),
           Len(A) = 3, Len(B) = 3 * n, Len(C) = 2, Len(D) = 3,
           NEW out, out = (A \o B) \o C, NEW F, F = out \o D
    PROVE  HasParts(F, n, A, B, C, D, out)
  <1>. DEFINE b == 3 * n
              e == 3 * n + 3
              o == 3 * n + 5
              E == A \o B
  <1>1. b \in Nat /\ e \in Nat /\ o \in Nat /\ 3 + b = e /\ e + 2 = o /\ o + 3 = 3 * n + 8 /\ 3 \in Nat /\ 2 \in Nat
        /\ e <= o
    OBVIOUS
  <1>2. Len(B) = b
    OBVIOUS
  <1>. HIDE DEF b, e, o
  <1>3. E \in Seq(S) /\ Joins(E, A, B, 3, b)
    <2>1. E = A \o B
      OBVIOUS
    <2>. HIDE DEF E
    <2> QED BY <1>1, <1>2, <2>1, Concatenated
  <1>4. out = E \o C
    OBVIOUS
  <1>. HIDE DEF E
  <1>5. Len(E) = e
    BY <1>1, <1>3 DEF Joins
  <1>6. out \in Seq(S) /\ Joins(out, E, C, e, 2)
    BY <1>1, <1>3, <1>4, <1>5, Concatenated
  <1>7. Len(out) = o
    BY <1>1, <1>6 DEF Joins
  <1>8. F \in Seq(S) /\ Joins(F, out, D, o, 3)
    BY <1>1, <1>6, <1>7, Concatenated
  <1>9. \A j \in 1..e : F[j] = E[j]
    <2>1. ASSUME NEW j \in 1..e PROVE j \in 1..o
      BY <1>1
    <2> QED BY <1>6, <1>8, <2>1 DEF Joins
  <1>10. \A j \in 1..3 : F[j] = A[j]
    <2>1. ASSUME NEW j \in 1..3 PROVE j \in 1..e
      BY <1>1
    <2> QED BY <1>3, <1>9, <2>1 DEF Joins
  <1>11. \A j \in 1..b : F[3 + j] = B[j]
    <2>1. ASSUME NEW j \in 1..b PROVE 3 + j \in 1..e
      BY <1>1
    <2> QED BY <1>3, <1>9, <2>1 DEF Joins
  <1>12. \A j \in 1..2 : F[e + j] = C[j]
    <2>1. ASSUME NEW j \in 1..2 PROVE e + j \in 1..o
      BY <1>1
    <2> QED BY <1>6, <1>8, <2>1 DEF Joins
  <1>13. SubSeq(F, 1, o) = out
    <2>1. Len(F) >= o
      BY <1>1, <1>8 DEF Joins
    <2> QED BY <1>1, <1>6, <1>7, <1>8, <2>1, FirstPart DEF Joins
  <1> QED BY <1>1, <1>8, <1>10, <1>11, <1>12, <1>13 DEF b, e, o, Joins, HasParts

(* LiveDocsFormat.WriteLiveDocs, for any number of live documents.            *)
LEMMA LiveDocsFileWritten ==
    ASSUME NEW live, NEW n \in Nat, Cardinality(live) = n
    PROVE  IsLiveDocsFile(WriteLiveDocsFile(live), n)
  <1>. DEFINE doc == Label("  doc ")
              X == <<doc, SizeToken, NEWLINE>>
              T == {Label("  doc "), SizeToken, NEWLINE}
              A == <<Label("size "), SizeToken, NEWLINE>>
              B == Copies(X, n)
              C == <<Label("END"), NEWLINE>>
              out == (A \o B) \o C
              sum == <<"sum", out>>
              D == <<Label(CHECKSUM), sum, NEWLINE>>
              F == out \o D
              S == {Label("size "), SizeToken, NEWLINE, Label("  doc "), Label("END"), Label(CHECKSUM), sum}
  <1>1. WriteLabel("size ", Num(MaxDoc)) = A
    BY LabelledLine, ValuesAreNoBreaks DEF Num, SizeToken
  <1>2. LiveLines(live) = B
    <2>1. WriteLabel("  doc ", Num(MaxDoc)) = X
      BY LabelledLine, ValuesAreNoBreaks DEF Num, SizeToken
    <2>2. LiveLines(live) = FlattenSeq([i \in 1..Cardinality(live) |-> X])
      <3>. HIDE DEF X
      <3> QED BY <2>1, Zenon DEF LiveLines
    <2>3. FlattenSeq([i \in 1..n |-> X]) = B
      <3>. HIDE DEF doc
      <3> QED BY FlattenCopies
    <2>. HIDE DEF X
    <2> QED BY <2>2, <2>3
  <1>3. WriteLabel(CHECKSUM, << <<"sum", out>> >>) = D
    <2>. HIDE DEF out
    <2> QED BY LabelledLine, ValuesAreNoBreaks
  <1>4. WriteLiveDocsFile(live) = F
    <2>. HIDE DEF A, B, D
    <2> QED BY <1>1, <1>2, <1>3, Zenon DEF WriteLiveDocsFile, WriteChecksum
  <1>5. /\ A \in Seq(S) /\ Len(A) = 3 /\ A[1] = Label("size ") /\ A[2] = SizeToken /\ A[3] = NEWLINE
        /\ C \in Seq(S) /\ Len(C) = 2 /\ C[1] = Label("END") /\ C[2] = NEWLINE
        /\ D \in Seq(S) /\ Len(D) = 3 /\ D[1] = Label(CHECKSUM) /\ D[2] = sum /\ D[3] = NEWLINE
    <2>. HIDE DEF sum
    <2> QED OBVIOUS
  <1>6. /\ B \in Seq(T) /\ Len(B) = 3 * n
        /\ \A k \in 0..(n - 1) : /\ B[3 * k + 1] = Label("  doc ")
                                /\ B[3 * k + 2] = SizeToken
                                /\ B[3 * k + 3] = NEWLINE
    <2>. HIDE DEF doc
    <2>1. AreCopies(B, n, doc, SizeToken, NEWLINE)
      BY CopiedTokens
    <2>. HIDE DEF B
    <2> QED BY <2>1 DEF AreCopies, doc
  <1>7. T \subseteq S
    <2>. HIDE DEF sum
    <2> QED OBVIOUS
  <1>. HIDE DEF A, B, C, S, T
  <1>8. B \in Seq(S)
    <2>. DEFINE BB == B
    <2>1. BB \in Seq(T)
      BY <1>6
    <2>. HIDE DEF BB
    <2>2. BB \in Seq(S)
      BY <1>7, <2>1
    <2> QED BY <2>2 DEF BB
  <1>. DEFINE O == out
  <1>9. O = (A \o B) \o C /\ F = O \o D /\ sum = <<"sum", O>>
    OBVIOUS
  <1>. HIDE DEF out, O, sum, D, F
  <1>10. HasParts(F, n, A, B, C, D, O)
    BY <1>5, <1>6, <1>8, <1>9, FileParts
  <1>11. F[1] = Label("size ") /\ F[2] = SizeToken /\ F[3] = NEWLINE
    <2>1. F[1] = A[1] /\ F[2] = A[2] /\ F[3] = A[3]
      BY <1>10 DEF HasParts
    <2> QED BY <1>5, <2>1, Zenon
  <1>12. ASSUME NEW k \in 0..(n - 1)
         PROVE  /\ F[3 * k + 4] = Label("  doc ")
                /\ F[3 * k + 5] = SizeToken
                /\ F[3 * k + 6] = NEWLINE
    <2>1. ASSUME NEW d \in {1, 2, 3}, NEW e, e = 3 * k + d + 3 PROVE F[e] = B[3 * k + d]
      <3>. DEFINE j == 3 * k + d
      <3>1. j \in 1..(3 * n) /\ 3 + j = e
        BY <2>1
      <3>. HIDE DEF j
      <3>2. F[3 + j] = B[j]
        BY <1>10, <3>1 DEF HasParts
      <3> QED BY <3>1, <3>2 DEF j
    <2>2. 3 * k + 4 = 3 * k + 1 + 3 /\ 3 * k + 5 = 3 * k + 2 + 3 /\ 3 * k + 6 = 3 * k + 3 + 3
      OBVIOUS
    <2>3. F[3 * k + 4] = B[3 * k + 1] /\ F[3 * k + 5] = B[3 * k + 2] /\ F[3 * k + 6] = B[3 * k + 3]
      BY <2>1, <2>2
    <2> QED BY <1>6, <2>3
  <1>13. F[3 * n + 4] = Label("END") /\ F[3 * n + 5] = NEWLINE
    <2>1. 3 * n + 3 + 1 = 3 * n + 4 /\ 3 * n + 3 + 2 = 3 * n + 5
      OBVIOUS
    <2>2. F[3 * n + 4] = C[1] /\ F[3 * n + 5] = C[2]
      BY <1>10, <2>1 DEF HasParts
    <2> QED BY <1>5, <2>2, Zenon
  <1>14. F[3 * n + 6] = Label(CHECKSUM) /\ F[3 * n + 7] = sum /\ F[3 * n + 8] = NEWLINE
    <2>1. 3 * n + 5 + 1 = 3 * n + 6 /\ 3 * n + 5 + 2 = 3 * n + 7 /\ 3 * n + 5 + 3 = 3 * n + 8
      OBVIOUS
    <2>2. F[3 * n + 6] = D[1] /\ F[3 * n + 7] = D[2] /\ F[3 * n + 8] = D[3]
      BY <1>10, <2>1 DEF HasParts
    <2> QED BY <1>5, <2>2, Zenon
  <1>15. IsLiveDocsFile(F, n)
    BY <1>9, <1>10, <1>11, <1>12, <1>13, <1>14 DEF IsLiveDocsFile, HasParts
  <1> QED BY <1>4, <1>15

(* One step of the loop of ReadLiveDocs.                                       *)
DocsStep(in, f, p) ==
    IF ~ReadLine(in, p).ok THEN Failed
    ELSE IF HasPrefix(ReadLine(in, p).line, "END") THEN EndOfDocs(in, ReadLine(in, p).next)
    ELSE WithDoc(Tail(ReadLine(in, p).line), f[ReadLine(in, p).next])

(* Every line that is read ends further on, so the loop looks ahead only, ... *)
LEMMA DocsLookAhead ==
    ASSUME NEW in, Len(in) \in Nat, NEW p \in 1..(Len(in) + 1), NEW f, NEW g,
           \A q \in (p + 1)..(Len(in) + 1) : g[q] = f[q]
    PROVE  DocsStep(in, g, p) = DocsStep(in, f, p)
  <1>. DEFINE r == ReadLine(in, p)
  <1>1. r = Failed \/ LineIs(r, in, p)
    <2>1. p \in 1..(Len(in) + 2)
      OBVIOUS
    <2> QED BY <2>1, LineAdvances
  <1>. HIDE DEF r
  <1>2. r.ok => r.next \in (p + 1)..(Len(in) + 1)
    <2>1. CASE r = Failed
      BY <2>1 DEF Failed
    <2>2. CASE LineIs(r, in, p)
      <3>1. PICK l : \E n \in (p + 1)..(Len(in) + 1) : r = [ok |-> TRUE, line |-> l, next |-> n]
        BY <2>2, Zenon DEF LineIs
      <3>2. PICK n \in (p + 1)..(Len(in) + 1) : r = [ok |-> TRUE, line |-> l, next |-> n]
        BY <3>1, Zenon
      <3> QED BY <3>2
    <2> QED BY <1>1, <2>1, <2>2
  <1>3. r.ok => g[r.next] = f[r.next]
    BY <1>2
  <1> QED BY <1>3 DEF DocsStep, r

SizeLine(in) == ReadLabels(in, 1, <<"size ">>)

(* ... and the recursive function of ReadLiveDocs exists.                     *)
LEMMA DocsFunction ==
    ASSUME NEW in, Len(in) \in Nat
    PROVE  \E f : /\ \A p \in 1..(Len(in) + 1) : f[p] = DocsStep(in, f, p)
                  /\ ReadLiveDocs(in) = IF SizeLine(in).ok /\ Parses("num", SizeLine(in).values[1])
                                        THEN f[SizeLine(in).next] ELSE Failed
  <1>. DEFINE N == Len(in) + 1
              Good(f, k) == \A p \in 1..N : p > k => f[p] = DocsStep(in, f, p)
              Bad == {d \in 0..N : ~\E f : Good(f, N - d)}
  <1>1. ASSUME NEW d \in Bad, \A k \in Bad : d <= k PROVE FALSE
    <2>1. d \in 0..N /\ N \in Nat /\ d \in Nat /\ ~\E f : Good(f, N - d)
      OBVIOUS
    <2>2. d # 0
      <3>1. \A p \in 1..N : ~(p > N - 0)
        BY <2>1
      <3>2. Good({}, N - 0)
        BY <3>1
      <3> QED BY <2>1, <3>2
    <2>3. d - 1 \in 0..N /\ d - 1 < d
      BY <2>1, <2>2
    <2>4. d - 1 \notin Bad
      <3>. HIDE DEF Bad
      <3> QED BY <1>1, <2>1, <2>3
    <2>5. PICK f : Good(f, N - (d - 1))
      BY <2>3, <2>4
    <2>. DEFINE c == N - (d - 1)
                h == [p \in 1..N |-> IF p = c THEN DocsStep(in, f, p) ELSE f[p]]
    <2>6. c \in 1..N /\ c - 1 = N - d
      BY <2>1, <2>3
    <2>7. ASSUME NEW p \in 1..N, p > N - d PROVE h[p] = DocsStep(in, h, p)
      <3>1. p \in Nat /\ p >= c
        BY <2>1, <2>6, <2>7
      <3>2. h[p] = DocsStep(in, f, p)
        <4>1. CASE p = c
          BY <3>1, <4>1
        <4>2. CASE p # c
          <5>1. p > N - (d - 1)
            BY <2>1, <3>1, <4>2
          <5>2. f[p] = DocsStep(in, f, p)
            BY <2>5, <5>1
          <5> QED BY <3>1, <4>2, <5>2
        <4> QED BY <4>1, <4>2
      <3>3. \A q \in (p + 1)..N : h[q] = f[q]
        <4>1. ASSUME NEW q \in (p + 1)..N PROVE q \in 1..N /\ q # c
          BY <2>6, <3>1
        <4> QED BY <4>1
      <3>. HIDE DEF h
      <3>4. DocsStep(in, h, p) = DocsStep(in, f, p)
        BY <3>3, DocsLookAhead
      <3> QED BY <3>2, <3>4
    <2>8. Good(h, N - d)
      <3>. HIDE DEF h
      <3> QED BY <2>7
    <2> QED BY <2>1, <2>8
  <1>2. Bad = {}
    <2>1. Bad \subseteq Nat
      OBVIOUS
    <2>. HIDE DEF Bad
    <2> QED BY <1>1, <2>1, LeastNat
  <1>3. PICK f0 : Good(f0, N - N)
    <2>1. N \in 0..N /\ N \notin Bad
      BY <1>2
    <2> QED BY <2>1
  <1>. DEFINE f == [p \in 1..N |-> f0[p]]
              Rule(g) == g = [p \in 1..N |-> DocsStep(in, g, p)]
  <1>4. ASSUME NEW p \in 1..N PROVE f[p] = DocsStep(in, f, p)
    <2>1. p \in Nat /\ p > N - N /\ N \in Nat
      OBVIOUS
    <2>2. f[p] = DocsStep(in, f0, p)
      BY <1>3, <2>1
    <2>3. DocsStep(in, f, p) = DocsStep(in, f0, p)
      <3>1. \A q \in (p + 1)..N : f[q] = f0[q]
        BY <2>1
      <3>. HIDE DEF f
      <3> QED BY <3>1, DocsLookAhead
    <2> QED BY <2>2, <2>3
  <1>5. Rule(f)
    <2>1. f = [p \in 1..N |-> f[p]]
      OBVIOUS
    <2>. HIDE DEF f
    <2> QED BY <1>4, <2>1
  <1>. HIDE DEF f
  <1>. DEFINE g == CHOOSE h : Rule(h)
  <1>6. Rule(g)
    BY <1>5, Zenon
  <1>7. ReadLiveDocs(in) = IF SizeLine(in).ok /\ Parses("num", SizeLine(in).values[1])
                           THEN g[SizeLine(in).next] ELSE Failed
    BY Zenon DEF ReadLiveDocs, DocsStep, SizeLine
  <1>. HIDE DEF g
  <1>8. \A p \in 1..N : g[p] = DocsStep(in, g, p)
    BY <1>6
  <1> QED BY <1>7, <1>8


(* A value of one token parses as its kind.                                   *)
LEMMA OneValue ==
    ASSUME NEW kind, NEW v
    PROVE  Parses(kind, << <<kind, v>> >>) /\ Parsed(<< <<kind, v>> >>) = v
  BY DEF Parses, Parsed

(* What a reader makes of a .liv file: all lines say the size, so at most the  *)
(* document that does not exist is live.                                       *)
ReadAsLive(r) == \E live \in SUBSET {MaxDoc} : r = [ok |-> TRUE, live |-> live]

(* CheckFooter accepts the checksum line that was written.                    *)
LEMMA FooterChecked ==
    ASSUME NEW file, NEW n \in Nat, IsLiveDocsFile(file, n)
    PROVE  CheckFooter(file, 3 * n + 6)
  <1>. DEFINE p == 3 * n + 6
              out == SubSeq(file, 1, 3 * n + 5)
              sum == <<"sum", out>>
  <1>1. Len(file) = 3 * n + 8 /\ file[p] = Label(CHECKSUM) /\ file[p + 1] = sum /\ file[p + 2] = NEWLINE
    <2>1. p + 1 = 3 * n + 7 /\ p + 2 = 3 * n + 8
      OBVIOUS
    <2>. HIDE DEF sum
    <2> QED BY <2>1 DEF IsLiveDocsFile, sum
  <1>2. p \in Nat /\ p >= 1 /\ p + 2 <= 3 * n + 8 /\ p + 3 = (3 * n + 8) + 1 /\ 3 * n + 5 = p - 1
    OBVIOUS
  <1>3. sum # NEWLINE /\ sum # ESCAPE /\ Label(CHECKSUM) # NEWLINE /\ Label(CHECKSUM) # ESCAPE
    BY ValuesAreNoBreaks
  <1>4. Len(file) \in Nat
    BY <1>1
  <1>. DEFINE chk == Label(CHECKSUM)
  <1>. HIDE DEF p, sum, chk
  <1>5. ReadLine(file, p) = [ok |-> TRUE, line |-> <<chk, sum>>, next |-> p + 3]
    BY <1>1, <1>2, <1>3, <1>4, LabelledLineRead DEF chk, LineAt
  <1>6. ReadLabels(file, p, <<CHECKSUM>>) = [ok |-> TRUE, values |-> << <<sum>> >>, next |-> p + 3]
    BY <1>5, LabelRead DEF chk
  <1>. DEFINE r == ReadLabels(file, p, <<CHECKSUM>>)
  <1>7. r.ok /\ r.values[1] = <<sum>> /\ r.next = p + 3
    BY <1>6
  <1>8. sum = <<"sum", SubSeq(file, 1, p - 1)>>
    BY <1>2 DEF sum
  <1>9. p + 3 = Len(file) + 1
    BY <1>1, <1>2
  <1>. HIDE DEF r
  <1>10. /\ r.ok /\ r.values[1] = << <<"sum", SubSeq(file, 1, p - 1)>> >> /\ r.next = Len(file) + 1
    BY <1>7, <1>8, <1>9
  <1>11. CheckFooter(file, p)
    BY <1>10, Zenon DEF CheckFooter, r
  <1> QED BY <1>11 DEF p

(* LiveDocsFormat.ReadLiveDocs, by descending over the lines of the documents. *)
LEMMA LiveDocsFileRead ==
    ASSUME NEW file, NEW n \in Nat, IsLiveDocsFile(file, n)
    PROVE  ReadAsLive(ReadLiveDocs(file))
  <1>. DEFINE size == Label("size ")
              doc == Label("  doc ")
              end == Label("END")
  <1>1. Len(file) = 3 * n + 8 /\ Len(file) \in Nat
    <2>1. Len(file) = 3 * n + 8
      BY DEF IsLiveDocsFile
    <2> QED BY <2>1
  <1>2. /\ SizeToken # NEWLINE /\ SizeToken # ESCAPE
        /\ size # NEWLINE /\ size # ESCAPE
        /\ doc # NEWLINE /\ doc # ESCAPE
        /\ end # NEWLINE /\ end # ESCAPE
    BY ValuesAreNoBreaks
  <1>3. /\ file[1] = size /\ file[1 + 1] = SizeToken /\ file[1 + 2] = NEWLINE
        /\ \A k \in 0..(n - 1) : /\ file[3 * k + 4] = doc
                                /\ file[(3 * k + 4) + 1] = SizeToken
                                /\ file[(3 * k + 4) + 2] = NEWLINE
        /\ file[3 * n + 4] = end /\ file[(3 * n + 4) + 1] = NEWLINE
    <2>1. 1 + 1 = 2 /\ 1 + 2 = 3 /\ (3 * n + 4) + 1 = 3 * n + 5
      OBVIOUS
    <2>2. \A k \in 0..(n - 1) : (3 * k + 4) + 1 = 3 * k + 5 /\ (3 * k + 4) + 2 = 3 * k + 6
      OBVIOUS
    <2>. HIDE DEF size, doc, end
    <2> QED BY <2>1, <2>2 DEF IsLiveDocsFile, size, doc, end
  <1>4. PICK f : /\ \A p \in 1..(Len(file) + 1) : f[p] = DocsStep(file, f, p)
                 /\ ReadLiveDocs(file) = IF SizeLine(file).ok /\ Parses("num", SizeLine(file).values[1])
                                         THEN f[SizeLine(file).next] ELSE Failed
    BY <1>1, DocsFunction
  <1>5. doc # end
    <2>1. "  doc " # "END"
      OBVIOUS
    <2> QED BY <2>1 DEF Label
  <1>6. ReadLiveDocs(file) = f[4]
    <2>1. ReadLine(file, 1) = [ok |-> TRUE, line |-> <<size, SizeToken>>, next |-> 1 + 3]
      <3>1. 1 \in Nat /\ 1 >= 1 /\ 1 + 2 <= Len(file)
        BY <1>1
      <3>. HIDE DEF size
      <3>2. file[1] = size /\ file[1 + 1] = SizeToken /\ file[1 + 2] = NEWLINE
        BY <1>3
      <3>3. LineAt(file, 1, size, SizeToken)
        BY <1>1, <1>2, <3>1, <3>2 DEF LineAt
      <3> QED BY <3>3, LabelledLineRead
    <2>2. SizeLine(file) = [ok |-> TRUE, values |-> << <<SizeToken>> >>, next |-> 1 + 3]
      <3>. HIDE DEF size
      <3>. DEFINE label == "size "
      <3>1. SizeLine(file) = ReadLabels(file, 1, <<label>>) /\ size = Label(label)
        BY Zenon DEF SizeLine, size
      <3>. HIDE DEF label
      <3> QED BY <2>1, <3>1, LabelRead
    <2>3. SizeLine(file).ok /\ SizeLine(file).values[1] = <<SizeToken>> /\ SizeLine(file).next = 4
      BY <2>2
    <2>4. Parses("num", <<SizeToken>>)
      BY OneValue DEF SizeToken
    <2> QED BY <1>4, <2>3, <2>4
  <1>7. ReadAsLive(f[3 * n + 4])
    <2>. DEFINE p == 3 * n + 4
    <2>1. p \in Nat /\ p >= 1 /\ p + 1 <= Len(file) /\ p \in 1..(Len(file) + 1) /\ p + 2 = 3 * n + 6
      BY <1>1
    <2>2. CheckFooter(file, p + 2)
      BY <2>1, FooterChecked
    <2>. HIDE DEF p, end
    <2>3. ReadLine(file, p) = [ok |-> TRUE, line |-> <<end>>, next |-> p + 2]
      BY <1>1, <1>2, <1>3, <2>1, EndLineRead DEF p
    <2>4. ReadLine(file, p).ok /\ ReadLine(file, p).next = p + 2 /\ HasPrefix(ReadLine(file, p).line, "END")
      <3>1. <<end>> # <<>> /\ <<end>>[1] = end
        OBVIOUS
      <3>2. ReadLine(file, p).ok /\ ReadLine(file, p).next = p + 2 /\ ReadLine(file, p).line = <<end>>
        BY <2>3
      <3> QED BY <3>1, <3>2, Zenon DEF HasPrefix, end
    <2>5. f[p] = EndOfDocs(file, p + 2)
      BY <1>4, <2>1, <2>4 DEF DocsStep
    <2>6. f[p] = [ok |-> TRUE, live |-> {}]
      BY <2>2, <2>5 DEF EndOfDocs
    <2> QED BY <2>6 DEF ReadAsLive, p
  <1>8. ASSUME NEW k \in 0..(n - 1), ReadAsLive(f[3 * (k + 1) + 4])
        PROVE  ReadAsLive(f[3 * k + 4])
    <2>. DEFINE p == 3 * k + 4
                q == 3 * (k + 1) + 4
    <2>1. p \in Nat /\ p >= 1 /\ p + 2 <= Len(file) /\ p \in 1..(Len(file) + 1) /\ p + 3 = q
      BY <1>1
    <2>2. file[p] = doc /\ file[p + 1] = SizeToken /\ file[p + 2] = NEWLINE
      BY <1>3
    <2>3. ReadAsLive(f[q])
      BY <1>8
    <2>. HIDE DEF p, q, doc, end
    <2>4. ReadLine(file, p) = [ok |-> TRUE, line |-> <<doc, SizeToken>>, next |-> p + 3]
      <3>1. LineAt(file, p, doc, SizeToken)
        BY <1>1, <1>2, <2>1, <2>2 DEF LineAt
      <3> QED BY <3>1, LabelledLineRead
    <2>. DEFINE r == ReadLine(file, p)
    <2>5. r.ok /\ r.next = q /\ r.line = <<doc, SizeToken>>
      BY <2>1, <2>4
    <2>6. ~HasPrefix(r.line, "END") /\ Tail(r.line) = <<SizeToken>>
      <3>1. <<doc, SizeToken>>[1] = doc /\ Tail(<<doc, SizeToken>>) = <<SizeToken>>
        OBVIOUS
      <3> QED BY <1>5, <2>5, <3>1, Zenon DEF HasPrefix, end
    <2>. HIDE DEF r
    <2>7. f[p] = WithDoc(<<SizeToken>>, f[q])
      <3>1. f[p] = DocsStep(file, f, p)
        BY <1>4, <2>1
      <3> QED BY <2>5, <2>6, <3>1, Zenon DEF DocsStep, r
    <2>8. Parses("num", <<SizeToken>>) /\ Parsed(<<SizeToken>>) = MaxDoc
      BY OneValue DEF SizeToken
    <2>9. PICK live \in SUBSET {MaxDoc} : f[q] = [ok |-> TRUE, live |-> live]
      BY <2>3 DEF ReadAsLive
    <2>10. f[p] = [ok |-> TRUE, live |-> live \cup {MaxDoc}]
      <3>1. f[q].ok /\ f[q].live = live
        BY <2>9
      <3> QED BY <2>7, <2>8, <3>1, Zenon DEF WithDoc
    <2>11. live \cup {MaxDoc} \in SUBSET {MaxDoc}
      OBVIOUS
    <2> QED BY <2>10, <2>11 DEF ReadAsLive, p
  <1>. DEFINE Bad == {d \in 0..n : ~ReadAsLive(f[3 * (n - d) + 4])}
  <1>9. ASSUME NEW d \in Bad, \A e \in Bad : d <= e PROVE FALSE
    <2>1. d \in Nat /\ d <= n /\ ~ReadAsLive(f[3 * (n - d) + 4])
      OBVIOUS
    <2>2. d # 0
      <3>1. 3 * (n - 0) + 4 = 3 * n + 4
        OBVIOUS
      <3> QED BY <1>7, <2>1, <3>1
    <2>. DEFINE k == n - d
    <2>3. k \in 0..(n - 1) /\ n - (d - 1) = k + 1 /\ d - 1 \in 0..n /\ d - 1 < d
      BY <2>1, <2>2
    <2>4. d - 1 \notin Bad
      <3>. HIDE DEF Bad
      <3> QED BY <1>9, <2>1, <2>3
    <2>5. ReadAsLive(f[3 * (k + 1) + 4])
      <3>1. ReadAsLive(f[3 * (n - (d - 1)) + 4])
        BY <2>3, <2>4
      <3> QED BY <2>3, <3>1
    <2>. HIDE DEF k
    <2>6. ReadAsLive(f[3 * k + 4])
      BY <1>8, <2>3, <2>5
    <2> QED BY <2>1, <2>6 DEF k
  <1>10. Bad = {}
    <2>1. Bad \subseteq Nat
      OBVIOUS
    <2>. HIDE DEF Bad
    <2> QED BY <1>9, <2>1, LeastNat
  <1>11. ReadAsLive(f[4])
    <2>1. n \in 0..n /\ 3 * (n - n) + 4 = 4
      OBVIOUS
    <2>2. ReadAsLive(f[3 * (n - n) + 4])
      BY <1>10, <2>1
    <2> QED BY <2>1, <2>2
  <1> QED BY <1>6, <1>11

-----------------------------------------------------------------------------
(* The deletes of the segment.                                                 *)

Infos == [delCount : Nat, delGen : Nat \cup {NoGen}, nextWriteDelGen : Nat \ {0}]
BitSets == [live : SUBSET (0..MaxDoc), fromFile : BOOLEAN]
Pendings == [bits : Seq(BitSets), liveDocs : Nat, writeableLiveDocs : Nat, pendingDeleteCount : Nat,
             liveDocsInitialized : BOOLEAN]

(* What the segment info of the writer, or of the commit, points to is there.  *)
InfoHolds(info, files) ==
    /\ info \in Infos
    /\ HasDeletions(info) => /\ info.delGen \in DOMAIN files
                             /\ \E live \in SUBSET Docs : files[info.delGen] = WriteLiveDocsFile(live)
    /\ ~HasDeletions(info) => info.delCount = 0

(* The bits in use are the documents that are not deleted; those read from a   *)
(* file are never written to.                                                  *)
BitsHold(p, deleted) ==
    /\ p \in Pendings
    /\ p.liveDocs # Nil => p.liveDocs \in DOMAIN p.bits
    /\ p.writeableLiveDocs # Nil => /\ p.writeableLiveDocs = p.liveDocs
                                    /\ p.bits[p.liveDocs].live = Docs \ deleted
    /\ p.writeableLiveDocs = Nil => /\ p.pendingDeleteCount = 0
                                    /\ p.liveDocs # Nil => p.bits[p.liveDocs].fromFile
    /\ p.liveDocsInitialized /\ p.liveDocs = Nil => deleted = {}
    /\ ~p.liveDocsInitialized => p.liveDocs = Nil /\ p.writeableLiveDocs = Nil

PendingFields ==
    {"pc", "info", "p", "commit", "files", "deleted", "committed", "snapshots", "restarts", "failed"}

PendingInv ==
    /\ DOMAIN pd = PendingFields
    /\ InfoHolds(pd.info, pd.files) /\ InfoHolds(pd.commit, pd.files)
    /\ pd.deleted \subseteq Docs /\ pd.committed \subseteq Docs
    /\ pd.info.delCount + pd.p.pendingDeleteCount = Cardinality(pd.deleted)
    /\ pd.commit.delCount = Cardinality(pd.committed)
    /\ BitsHold(pd.p, pd.deleted)
    /\ ~pd.p.liveDocsInitialized => HasDeletions(pd.info)

LEMMA DocsFinite == IsFiniteSet(Docs) /\ Cardinality(Docs) = MaxDoc
  <1>1. 0 \in Int /\ MaxDoc - 1 \in Int /\ MaxDoc \in Nat
    BY PendingAssumption
  <1> QED BY <1>1, FS_Interval DEF Docs

LEMMA SomeDocs ==
    ASSUME NEW s \in SUBSET Docs
    PROVE  IsFiniteSet(s) /\ Cardinality(s) \in Nat /\ Cardinality(s) <= MaxDoc /\ (Cardinality(s) = MaxDoc <=> s = Docs)
  <1>1. IsFiniteSet(s) /\ Cardinality(s) <= Cardinality(Docs) /\ (Cardinality(s) = Cardinality(Docs) => s = Docs)
    BY DocsFinite, FS_Subset
  <1>2. Cardinality(s) \in Nat
    BY <1>1, FS_CardinalityType
  <1> QED BY <1>1, <1>2, DocsFinite

(* The .liv file of any set of documents can be read.                          *)
LEMMA LiveDocsReadBack ==
    ASSUME NEW live \in SUBSET Docs
    PROVE  ReadAsLive(ReadLiveDocs(WriteLiveDocsFile(live)))
  <1>. DEFINE n == Cardinality(live)
              file == WriteLiveDocsFile(live)
  <1>1. n \in Nat
    BY SomeDocs
  <1>. HIDE DEF n, file
  <1>2. IsLiveDocsFile(file, n)
    BY <1>1, LiveDocsFileWritten DEF n, file
  <1>3. ReadAsLive(ReadLiveDocs(file))
    BY <1>1, <1>2, LiveDocsFileRead
  <1> QED BY <1>3 DEF file

(* newSegmentCommitInfo carries count and generation over a restart.          *)
LEMMA NewInfoHolds ==
    ASSUME NEW files, NEW info, InfoHolds(info, files)
    PROVE  /\ NewSegmentCommitInfo(info.delCount, info.delGen) \in Infos
           /\ NewSegmentCommitInfo(info.delCount, info.delGen).delCount = info.delCount
           /\ NewSegmentCommitInfo(info.delCount, info.delGen).delGen = info.delGen
  <1>. DEFINE c == info.delCount
              g == info.delGen
              next == IF g = NoGen THEN 1 ELSE g + 1
  <1>1. c \in Nat /\ g \in Nat \cup {NoGen}
    BY DEF InfoHolds, Infos
  <1>2. next \in Nat \ {0}
    BY <1>1 DEF NoGen
  <1>3. NewSegmentCommitInfo(c, g) = [delCount |-> c, delGen |-> g, nextWriteDelGen |-> next]
    BY DEF NewSegmentCommitInfo
  <1>. HIDE DEF c, g, next
  <1>4. /\ NewSegmentCommitInfo(c, g) \in Infos
        /\ NewSegmentCommitInfo(c, g).delCount = c /\ NewSegmentCommitInfo(c, g).delGen = g
    BY <1>1, <1>2, <1>3 DEF Infos
  <1> QED BY <1>4 DEF c, g

(* A file of its own for the new generation leaves the older ones alone.      *)
LEMMA PutKeeps ==
    ASSUME NEW info, InfoHolds(info, pd.files), NEW gen, gen \notin DOMAIN pd.files, NEW file
    PROVE  InfoHolds(info, PutFile(gen, file))
  BY DEF InfoHolds, PutFile

(* GetMutableBits: a copy of the live documents, if it is needed.             *)
LEMMA MutableBits ==
    ASSUME NEW p, NEW deleted, BitsHold(p, deleted), p.liveDocsInitialized, ~ClonePanics(p),
           NEW q, q = GetMutableBits(p)
    PROVE  /\ BitsHold(q, deleted) /\ q.writeableLiveDocs # Nil
           /\ q.pendingDeleteCount = p.pendingDeleteCount /\ q.liveDocsInitialized
  <1>1. CASE p.writeableLiveDocs # Nil
    BY <1>1 DEF GetMutableBits
  <1>2. CASE p.writeableLiveDocs = Nil
    <2>. DEFINE b == [live |-> Docs, fromFile |-> FALSE]
                copy == Len(p.bits) + 1
    <2>1. p.liveDocs = Nil /\ deleted = {} /\ p \in Pendings
      BY <1>2 DEF BitsHold, ClonePanics
    <2>2. q = [p EXCEPT !.bits = Append(p.bits, b), !.writeableLiveDocs = copy, !.liveDocs = copy]
      BY <1>2, <2>1 DEF GetMutableBits
    <2>3. b \in BitSets /\ b.live = Docs /\ b.fromFile = FALSE
      <3>1. Docs \subseteq 0..MaxDoc
        BY PendingAssumption DEF Docs
      <3> QED BY <3>1 DEF BitSets
    <2>. HIDE DEF b
    <2>4. p.bits \in Seq(BitSets) /\ copy \in Nat \ {0}
      BY <2>1 DEF Pendings
    <2>5. /\ Append(p.bits, b) \in Seq(BitSets) /\ copy \in DOMAIN Append(p.bits, b)
          /\ Append(p.bits, b)[copy] = b
      BY <2>3, <2>4
    <2>. HIDE DEF copy
    <2>6. /\ q \in Pendings /\ q.bits = Append(p.bits, b) /\ q.writeableLiveDocs = copy /\ q.liveDocs = copy
          /\ q.pendingDeleteCount = p.pendingDeleteCount /\ q.liveDocsInitialized = p.liveDocsInitialized
      <3>. DEFINE a == Append(p.bits, b)
      <3>. HIDE DEF a
      <3>1. a \in Seq(BitSets)
        BY <2>5 DEF a
      <3>2. q = [p EXCEPT !.bits = a, !.writeableLiveDocs = copy, !.liveDocs = copy]
        BY <2>2 DEF a
      <3>3. /\ q \in Pendings /\ q.bits = a /\ q.writeableLiveDocs = copy /\ q.liveDocs = copy
            /\ q.pendingDeleteCount = p.pendingDeleteCount /\ q.liveDocsInitialized = p.liveDocsInitialized
        BY <2>1, <2>4, <3>1, <3>2 DEF Pendings
      <3> QED BY <3>3 DEF a
    <2>7. copy # Nil /\ Docs = Docs \ {}
      BY <2>4 DEF Nil
    <2> QED BY <2>1, <2>3, <2>5, <2>6, <2>7 DEF BitsHold
  <1> QED BY <1>1, <1>2

Cleared(q, b, doc) == [q EXCEPT !.bits[b].live = @ \ {doc}, !.pendingDeleteCount = @ + 1]

(* Delete, past its test: one bit cleared, one delete more.                   *)
LEMMA BitCleared ==
    ASSUME NEW q, NEW deleted, BitsHold(q, deleted), q.writeableLiveDocs # Nil,
           NEW b, b = q.writeableLiveDocs, NEW doc,
           NEW r, r = Cleared(q, b, doc)
    PROVE  /\ BitsHold(r, deleted \cup {doc}) /\ r.pendingDeleteCount = q.pendingDeleteCount + 1
           /\ r.liveDocsInitialized
  <1>. DEFINE set == [q.bits[b] EXCEPT !.live = q.bits[b].live \ {doc}]
              bits == [q.bits EXCEPT ![b] = set]
  <1>1. q \in Pendings /\ q.bits \in Seq(BitSets) /\ b \in DOMAIN q.bits /\ b = q.liveDocs /\ b # Nil
        /\ q.bits[b].live = Docs \ deleted /\ q.liveDocsInitialized
    BY DEF BitsHold, Pendings
  <1>2. r = [q EXCEPT !.bits = bits, !.pendingDeleteCount = q.pendingDeleteCount + 1]
    BY DEF Cleared
  <1>3. q.bits[b] \in BitSets
    BY <1>1
  <1>4. set \in BitSets /\ set.live = q.bits[b].live \ {doc}
    BY <1>3 DEF BitSets
  <1>. HIDE DEF set
  <1>5. bits \in Seq(BitSets) /\ b \in DOMAIN bits /\ bits[b] = set
    BY <1>1, <1>4
  <1>. HIDE DEF bits
  <1>6. /\ r \in Pendings /\ r.bits = bits /\ r.writeableLiveDocs = b /\ r.liveDocs = b
        /\ r.pendingDeleteCount = q.pendingDeleteCount + 1 /\ r.liveDocsInitialized
    <2>. DEFINE k == q.pendingDeleteCount + 1
    <2>1. k \in Nat
      BY <1>1 DEF Pendings
    <2>2. r = [q EXCEPT !.bits = bits, !.pendingDeleteCount = k] /\ q.writeableLiveDocs = b /\ q.liveDocs = b
      BY <1>1, <1>2
    <2>. HIDE DEF k
    <2>3. /\ r \in Pendings /\ r.bits = bits /\ r.writeableLiveDocs = q.writeableLiveDocs
          /\ r.liveDocs = q.liveDocs /\ r.pendingDeleteCount = k /\ r.liveDocsInitialized = q.liveDocsInitialized
      BY <1>1, <1>5, <2>1, <2>2 DEF Pendings
    <2> QED BY <1>1, <2>2, <2>3 DEF k
  <1>7. (Docs \ deleted) \ {doc} = Docs \ (deleted \cup {doc})
    OBVIOUS
  <1> QED BY <1>1, <1>4, <1>5, <1>6, <1>7 DEF BitsHold

LEMMA PendingStarts == PendingInit => PendingInv
  <1>. SUFFICES ASSUME PendingInit PROVE PendingInv
    OBVIOUS
  <1>. DEFINE info == NewSegmentCommitInfo(0, NoGen)
              p == NewPendingDeletes(info)
  <1>1. info \in Infos /\ ~HasDeletions(info) /\ info.delCount = 0
    BY DEF NewSegmentCommitInfo, Infos, HasDeletions, NoGen
  <1>2. /\ p \in Pendings /\ p.liveDocs = Nil /\ p.writeableLiveDocs = Nil /\ p.pendingDeleteCount = 0
        /\ p.liveDocsInitialized
    <2>. HIDE DEF info
    <2>1. p = [bits |-> <<>>, liveDocs |-> 0, writeableLiveDocs |-> 0, pendingDeleteCount |-> 0,
               liveDocsInitialized |-> TRUE]
      BY <1>1 DEF NewPendingDeletes, Nil
    <2>2. <<>> \in Seq(BitSets)
      OBVIOUS
    <2>. HIDE DEF p
    <2> QED BY <2>1, <2>2 DEF Pendings, Nil
  <1>. HIDE DEF p, info
  <1>3. /\ DOMAIN pd = PendingFields /\ pd.info = info /\ pd.p = p /\ pd.commit = info
        /\ pd.deleted = {} /\ pd.committed = {}
    BY DEF PendingInit, p, info, PendingFields
  <1>4. Cardinality({}) = 0
    BY FS_EmptySet
  <1>5. InfoHolds(info, pd.files)
    BY <1>1 DEF InfoHolds
  <1>6. BitsHold(p, {})
    BY <1>2 DEF BitsHold
  <1> QED BY <1>1, <1>2, <1>3, <1>4, <1>5, <1>6 DEF PendingInv

LEMMA DeleteHolds ==
    ASSUME PendingInv, NEW doc \in Docs, Delete(doc)
    PROVE  PendingInv' /\ pd'.files = pd.files
  <1>. DEFINE q == GetMutableBits(pd.p)
              b == q.writeableLiveDocs
              r == Cleared(q, b, doc)
              d == pd.deleted \cup {doc}
  <1>1. DOMAIN pd = PendingFields /\ pd.p.liveDocsInitialized
    BY DEF PendingInv, Delete
  <1>2. CASE ClonePanics(pd.p)
    <2>1. pd' = [pd EXCEPT !.pc = "panicked"]
      BY <1>2 DEF Delete
    <2>2. /\ DOMAIN pd' = PendingFields /\ pd'.info = pd.info /\ pd'.p = pd.p /\ pd'.commit = pd.commit
          /\ pd'.files = pd.files /\ pd'.deleted = pd.deleted /\ pd'.committed = pd.committed
      BY <1>1, <2>1 DEF PendingFields
    <2> QED BY <2>2 DEF PendingInv
  <1>3. CASE ~ClonePanics(pd.p)
    <2>1. /\ BitsHold(q, pd.deleted) /\ q.writeableLiveDocs # Nil
          /\ q.pendingDeleteCount = pd.p.pendingDeleteCount /\ q.liveDocsInitialized
      <3>1. BitsHold(pd.p, pd.deleted)
        BY DEF PendingInv
      <3>. HIDE DEF q
      <3> QED BY <1>1, <1>3, <3>1, MutableBits DEF q
    <2>2. pd' = IF doc \notin q.bits[b].live THEN [pd EXCEPT !.p = q] ELSE [pd EXCEPT !.p = r, !.deleted = d]
      BY <1>3, Zenon DEF Delete, Cleared
    <2>3. CASE doc \notin q.bits[b].live
      <3>. HIDE DEF q
      <3>1. pd' = [pd EXCEPT !.p = q]
        BY <2>2, <2>3
      <3>2. /\ DOMAIN pd' = PendingFields /\ pd'.info = pd.info /\ pd'.p = q /\ pd'.commit = pd.commit
            /\ pd'.files = pd.files /\ pd'.deleted = pd.deleted /\ pd'.committed = pd.committed
        BY <1>1, <3>1 DEF PendingFields
      <3> QED BY <2>1, <3>2 DEF PendingInv
    <2>4. CASE doc \in q.bits[b].live
      <3>. HIDE DEF q
      <3>1. BitsHold(r, d) /\ r.pendingDeleteCount = q.pendingDeleteCount + 1 /\ r.liveDocsInitialized
        <4>. HIDE DEF r, b
        <4> QED BY <2>1, BitCleared DEF r, b
      <3>2. doc \notin pd.deleted
        BY <2>1, <2>4 DEF BitsHold
      <3>3. d \subseteq Docs /\ Cardinality(d) = Cardinality(pd.deleted) + 1
        <4>1. pd.deleted \subseteq Docs
          BY DEF PendingInv
        <4>2. IsFiniteSet(pd.deleted)
          BY <4>1, SomeDocs
        <4>3. Cardinality(pd.deleted \cup {doc}) = Cardinality(pd.deleted) + 1
          BY <3>2, <4>2, FS_AddElement
        <4> QED BY <4>1, <4>3
      <3>. HIDE DEF r, d
      <3>4. pd' = [pd EXCEPT !.p = r, !.deleted = d]
        BY <2>2, <2>4
      <3>5. /\ DOMAIN pd' = PendingFields /\ pd'.info = pd.info /\ pd'.p = r /\ pd'.commit = pd.commit
            /\ pd'.files = pd.files /\ pd'.deleted = d /\ pd'.committed = pd.committed
        BY <1>1, <3>4 DEF PendingFields
      <3>6. pd.info.delCount + pd.p.pendingDeleteCount = Cardinality(pd.deleted)
        BY DEF PendingInv
      <3>7. pd.info.delCount \in Nat /\ q.pendingDeleteCount \in Nat
        BY <2>1 DEF PendingInv, InfoHolds, Infos, BitsHold, Pendings
      <3>8. pd.info.delCount + r.pendingDeleteCount = Cardinality(d)
        BY <2>1, <3>1, <3>3, <3>6, <3>7
      <3> QED BY <3>1, <3>3, <3>5, <3>8 DEF PendingInv
    <2> QED BY <2>3, <2>4
  <1> QED BY <1>2, <1>3

LEMMA GetLiveDocsHolds ==
    ASSUME PendingInv, GetLiveDocs
    PROVE  PendingInv' /\ pd'.files = pd.files
  <1>. DEFINE x == pd.snapshots \cup {[obj |-> pd.p.liveDocs, live |-> pd.p.bits[pd.p.liveDocs].live]}
  <1>1. DOMAIN pd = PendingFields
    BY DEF PendingInv
  <1>2. pd' = [pd EXCEPT !.snapshots = x]
    BY DEF GetLiveDocs
  <1>. HIDE DEF x
  <1>3. /\ DOMAIN pd' = PendingFields /\ pd'.info = pd.info /\ pd'.p = pd.p /\ pd'.commit = pd.commit
        /\ pd'.files = pd.files /\ pd'.deleted = pd.deleted /\ pd'.committed = pd.committed
    BY <1>1, <1>2 DEF PendingFields
  <1> QED BY <1>3 DEF PendingInv

LEMMA OnNewReaderHolds ==
    ASSUME PendingInv, OnNewReader
    PROVE  PendingInv' /\ pd'.files = pd.files
  <1>. DEFINE r == ReadLiveDocs(pd.files[pd.info.delGen])
              q == pd.p
              b == [live |-> r.live, fromFile |-> TRUE]
              bits == Append(q.bits, b)
              n == Len(q.bits) + 1
              p == [q EXCEPT !.bits = bits, !.liveDocs = n, !.liveDocsInitialized = TRUE]
  <1>1. /\ DOMAIN pd = PendingFields /\ BitsHold(q, pd.deleted) /\ ~q.liveDocsInitialized
        /\ q \in Pendings /\ q.bits \in Seq(BitSets)
    BY DEF PendingInv, OnNewReader, BitsHold, Pendings
  <1>2. CASE ~r.ok
    <2>1. pd' = [pd EXCEPT !.pc = "refused"]
      BY <1>2 DEF OnNewReader
    <2>2. /\ DOMAIN pd' = PendingFields /\ pd'.info = pd.info /\ pd'.p = pd.p /\ pd'.commit = pd.commit
          /\ pd'.files = pd.files /\ pd'.deleted = pd.deleted /\ pd'.committed = pd.committed
      BY <1>1, <2>1 DEF PendingFields
    <2> QED BY <2>2 DEF PendingInv
  <1>3. CASE r.ok
    <2>1. r.live \subseteq 0..MaxDoc
      <3>1. HasDeletions(pd.info)
        BY <1>1 DEF PendingInv
      <3>2. PICK live \in SUBSET Docs : pd.files[pd.info.delGen] = WriteLiveDocsFile(live)
        BY <3>1 DEF PendingInv, InfoHolds
      <3>3. ReadAsLive(r)
        BY <3>2, LiveDocsReadBack
      <3>. HIDE DEF r
      <3>4. r.live \subseteq {MaxDoc}
        BY <3>3 DEF ReadAsLive
      <3> QED BY <3>4, PendingAssumption
    <2>2. pd' = [pd EXCEPT !.p = p]
      <3>1. pd' = [pd EXCEPT !.p.bits = Append(@, b), !.p.liveDocs = n, !.p.liveDocsInitialized = TRUE]
        BY <1>3, Zenon DEF OnNewReader
      <3>. HIDE DEF b, n
      <3>2. "p" \in DOMAIN pd
        BY <1>1 DEF PendingFields
      <3> QED BY <3>1, <3>2
    <2>3. b \in BitSets /\ b.fromFile
      <3>. HIDE DEF r
      <3> QED BY <2>1 DEF BitSets
    <2>. HIDE DEF b
    <2>4. bits \in Seq(BitSets) /\ n \in DOMAIN bits /\ bits[n] = b /\ n \in Nat /\ n # Nil
      BY <1>1, <2>3 DEF Nil
    <2>. HIDE DEF bits, n
    <2>5. /\ p \in Pendings /\ p.bits = bits /\ p.liveDocs = n /\ p.liveDocsInitialized
          /\ p.writeableLiveDocs = q.writeableLiveDocs /\ p.pendingDeleteCount = q.pendingDeleteCount
      BY <1>1, <2>4 DEF Pendings
    <2>6. q.writeableLiveDocs = Nil /\ q.pendingDeleteCount = 0
      BY <1>1 DEF BitsHold
    <2>. HIDE DEF p
    <2>7. BitsHold(p, pd.deleted)
      BY <2>3, <2>4, <2>5, <2>6 DEF BitsHold
    <2>8. /\ DOMAIN pd' = PendingFields /\ pd'.info = pd.info /\ pd'.p = p /\ pd'.commit = pd.commit
          /\ pd'.files = pd.files /\ pd'.deleted = pd.deleted /\ pd'.committed = pd.committed
      BY <1>1, <2>2 DEF PendingFields
    <2> QED BY <2>5, <2>7, <2>8 DEF PendingInv
  <1> QED BY <1>2, <1>3

LEMMA WriteLiveDocsHolds ==
    ASSUME PendingInv, WriteLiveDocs
    PROVE  PendingInv' /\ pd'.commit = pd.commit
           /\ \E file : pd'.files = PutFile(pd.info.nextWriteDelGen, file)
  <1>. DEFINE gen == pd.info.nextWriteDelGen
              c == pd.info.delCount + pd.p.pendingDeleteCount
              info == [AdvanceDelGen(pd.info) EXCEPT !.delCount = @ + pd.p.pendingDeleteCount]
              p == [pd.p EXCEPT !.pendingDeleteCount = 0]
              file == LiveDocsFile
              files == PutFile(gen, file)
  <1>1. /\ DOMAIN pd = PendingFields /\ BitsHold(pd.p, pd.deleted) /\ pd.p \in Pendings /\ pd.info \in Infos
        /\ InfoHolds(pd.commit, pd.files) /\ pd.p.pendingDeleteCount > 0 /\ gen \notin DOMAIN pd.files
        /\ c = Cardinality(pd.deleted) /\ pd.deleted \subseteq Docs
    BY DEF PendingInv, WriteLiveDocs, BitsHold, InfoHolds, Exists
  <1>2. c \in Nat
    BY <1>1 DEF Pendings, Infos
  <1>3. info \in Infos /\ info.delGen = gen /\ info.delCount = c /\ HasDeletions(info)
    <2>1. gen \in Nat \ {0} /\ gen + 1 \in Nat \ {0}
      BY <1>1 DEF Infos
    <2>2. /\ AdvanceDelGen(pd.info) \in Infos /\ AdvanceDelGen(pd.info).delGen = gen
          /\ AdvanceDelGen(pd.info).delCount = pd.info.delCount
      BY <1>1, <2>1 DEF AdvanceDelGen, Infos
    <2>. DEFINE a == AdvanceDelGen(pd.info)
    <2>3. info = [a EXCEPT !.delCount = c]
      BY <2>2
    <2>. HIDE DEF a, c
    <2>4. info \in Infos /\ info.delGen = a.delGen /\ info.delCount = c
      BY <1>2, <2>2, <2>3 DEF Infos, a
    <2>5. gen # NoGen
      BY <2>1 DEF NoGen
    <2> QED BY <2>2, <2>4, <2>5 DEF a, HasDeletions
  <1>4. file = WriteLiveDocsFile(Docs \ pd.deleted)
    <2>1. pd.p.writeableLiveDocs # Nil
      BY <1>1 DEF BitsHold
    <2> QED BY <1>1, <2>1 DEF BitsHold, LiveDocsFile
  <1>5. BitsHold(p, pd.deleted) /\ p.pendingDeleteCount = 0
    <2>1. /\ p \in Pendings /\ p.bits = pd.p.bits /\ p.liveDocs = pd.p.liveDocs
          /\ p.writeableLiveDocs = pd.p.writeableLiveDocs /\ p.pendingDeleteCount = 0
          /\ p.liveDocsInitialized = pd.p.liveDocsInitialized
      BY <1>1 DEF Pendings
    <2>. HIDE DEF p
    <2> QED BY <1>1, <2>1 DEF BitsHold
  <1>6. gen \in DOMAIN files /\ files[gen] = file
    <2>. HIDE DEF file, gen
    <2> QED BY DEF PutFile
  <1>7. InfoHolds(pd.commit, files)
    <2>. HIDE DEF file, gen
    <2> QED BY <1>1, PutKeeps
  <1>8. pd' = [pd EXCEPT !.files = files, !.info = info, !.p = p]
    <2>1. pd' = [pd EXCEPT !.files = files,
                           !.info = info, !.p.pendingDeleteCount = 0]
      BY Zenon DEF WriteLiveDocs
    <2>2. "p" \in DOMAIN pd /\ "info" \in DOMAIN pd /\ "files" \in DOMAIN pd
      BY <1>1 DEF PendingFields
    <2>. HIDE DEF files, info
    <2> QED BY <2>1, <2>2
  <1>. HIDE DEF files, info, p, file, c, gen
  <1>9. InfoHolds(info, files)
    <2>1. Docs \ pd.deleted \in SUBSET Docs
      OBVIOUS
    <2> QED BY <1>3, <1>4, <1>6, <2>1 DEF InfoHolds
  <1>10. /\ DOMAIN pd' = PendingFields /\ pd'.info = info /\ pd'.p = p /\ pd'.commit = pd.commit
         /\ pd'.files = files /\ pd'.deleted = pd.deleted /\ pd'.committed = pd.committed
    BY <1>1, <1>8 DEF PendingFields
  <1>11. info.delCount + p.pendingDeleteCount = Cardinality(pd.deleted)
    BY <1>1, <1>2, <1>3, <1>5
  <1>12. PendingInv'
    <2>1. pd.committed \subseteq Docs /\ pd.commit.delCount = Cardinality(pd.committed)
      BY DEF PendingInv
    <2> QED BY <1>1, <1>3, <1>5, <1>7, <1>9, <1>10, <1>11, <2>1 DEF PendingInv
  <1>13. pd'.files = PutFile(pd.info.nextWriteDelGen, file)
    BY <1>10 DEF files, gen
  <1> QED BY <1>10, <1>12, <1>13

LEMMA WriteFailsHolds ==
    ASSUME PendingInv, WriteLiveDocsFails
    PROVE  /\ PendingInv' /\ pd'.commit = pd.commit
           /\ \/ pd'.files = pd.files
              \/ /\ pd.info.nextWriteDelGen \notin DOMAIN pd.files
                 /\ \E file : pd'.files = PutFile(pd.info.nextWriteDelGen, file)
  <1>. DEFINE gen == pd.info.nextWriteDelGen
  <1>1. DOMAIN pd = PendingFields /\ InfoHolds(pd.info, pd.files) /\ InfoHolds(pd.commit, pd.files)
    BY DEF PendingInv
  <1>2. CASE Exists(gen)
    <2>1. pd' = [pd EXCEPT !.failed = TRUE]
      BY <1>2 DEF WriteLiveDocsFails
    <2>2. /\ DOMAIN pd' = PendingFields /\ pd'.info = pd.info /\ pd'.p = pd.p /\ pd'.commit = pd.commit
          /\ pd'.files = pd.files /\ pd'.deleted = pd.deleted /\ pd'.committed = pd.committed
      BY <1>1, <2>1 DEF PendingFields
    <2> QED BY <2>2 DEF PendingInv
  <1>3. CASE ~Exists(gen)
    <2>1. \E n \in 0..(Len(LiveDocsFile) - 1) :
             pd' = [pd EXCEPT !.files = PutFile(gen, SubSeq(LiveDocsFile, 1, n)), !.failed = TRUE]
      BY <1>3, Zenon DEF WriteLiveDocsFails
    <2>2. PICK n \in 0..(Len(LiveDocsFile) - 1) :
             pd' = [pd EXCEPT !.files = PutFile(gen, SubSeq(LiveDocsFile, 1, n)), !.failed = TRUE]
      BY <2>1, Zenon
    <2>. DEFINE file == SubSeq(LiveDocsFile, 1, n)
                files == PutFile(gen, file)
    <2>3. gen \notin DOMAIN pd.files
      BY <1>3 DEF Exists
    <2>. HIDE DEF file
    <2>4. InfoHolds(pd.info, files) /\ InfoHolds(pd.commit, files)
      BY <1>1, <2>3, PutKeeps
    <2>5. pd' = [pd EXCEPT !.files = files, !.failed = TRUE]
      BY <2>2, Zenon DEF file
    <2>. HIDE DEF files
    <2>6. /\ DOMAIN pd' = PendingFields /\ pd'.info = pd.info /\ pd'.p = pd.p /\ pd'.commit = pd.commit
          /\ pd'.files = files /\ pd'.deleted = pd.deleted /\ pd'.committed = pd.committed
      BY <1>1, <2>5 DEF PendingFields
    <2>7. PendingInv'
      BY <2>4, <2>6 DEF PendingInv
    <2>8. pd'.files = PutFile(gen, file)
      BY <2>6 DEF files
    <2> QED BY <2>3, <2>6, <2>7, <2>8
  <1> QED BY <1>2, <1>3

LEMMA CommitDeletesHolds ==
    ASSUME PendingInv, CommitDeletes
    PROVE  PendingInv' /\ pd'.files = pd.files
  <1>1. DOMAIN pd = PendingFields
    BY DEF PendingInv
  <1>2. pd' = [pd EXCEPT !.commit = pd.info, !.committed = pd.deleted] /\ pd.p.pendingDeleteCount = 0
    BY DEF CommitDeletes
  <1>3. /\ DOMAIN pd' = PendingFields /\ pd'.info = pd.info /\ pd'.p = pd.p /\ pd'.commit = pd.info
        /\ pd'.files = pd.files /\ pd'.deleted = pd.deleted /\ pd'.committed = pd.deleted
    BY <1>1, <1>2 DEF PendingFields
  <1>4. pd.info.delCount = Cardinality(pd.deleted)
    <2>1. pd.info.delCount + 0 = Cardinality(pd.deleted) /\ pd.info.delCount \in Nat
      BY <1>2 DEF PendingInv, InfoHolds, Infos
    <2> QED BY <2>1
  <1> QED BY <1>3, <1>4 DEF PendingInv

LEMMA RestartHolds ==
    ASSUME PendingInv, Restart
    PROVE  /\ PendingInv'
           /\ HasDeletions(pd.commit) => pd'.files[pd.commit.delGen] = pd.files[pd.commit.delGen]
  <1>. DEFINE info == NewSegmentCommitInfo(pd.commit.delCount, pd.commit.delGen)
              p == NewPendingDeletes(info)
              D == DOMAIN pd.files \cap {info.delGen}
              files == Restrict(pd.files, D)
  <1>1. /\ DOMAIN pd = PendingFields /\ InfoHolds(pd.commit, pd.files)
        /\ pd.committed \subseteq Docs /\ pd.commit.delCount = Cardinality(pd.committed)
    BY DEF PendingInv
  <1>2. info \in Infos /\ info.delCount = pd.commit.delCount /\ info.delGen = pd.commit.delGen
    BY <1>1, NewInfoHolds
  <1>3. pd' = [pd EXCEPT !.pc = "open", !.info = info, !.p = p, !.files = files,
                         !.deleted = pd.committed, !.snapshots = {}, !.failed = FALSE,
                         !.restarts = @ + 1]
    BY Zenon DEF Restart
  <1>. HIDE DEF info
  <1>4. files = [g \in D |-> pd.files[g]]
    BY DEF Restrict
  <1>5. /\ p \in Pendings /\ p.liveDocs = Nil /\ p.writeableLiveDocs = Nil /\ p.pendingDeleteCount = 0
        /\ p.liveDocsInitialized = ~HasDeletions(info)
    <2>. DEFINE h == ~HasDeletions(info)
    <2>1. h \in BOOLEAN
      OBVIOUS
    <2>2. p = [bits |-> <<>>, liveDocs |-> 0, writeableLiveDocs |-> 0, pendingDeleteCount |-> 0,
               liveDocsInitialized |-> h]
      BY Zenon DEF NewPendingDeletes, Nil
    <2>3. <<>> \in Seq(BitSets)
      OBVIOUS
    <2>. HIDE DEF p, h
    <2>4. /\ p \in Pendings /\ p.liveDocs = 0 /\ p.writeableLiveDocs = 0 /\ p.pendingDeleteCount = 0
          /\ p.liveDocsInitialized = h
      BY <2>1, <2>2, <2>3 DEF Pendings
    <2> QED BY <2>4 DEF Nil, h
  <1>. HIDE DEF p, files
  <1>6. /\ DOMAIN pd' = PendingFields /\ pd'.info = info /\ pd'.p = p /\ pd'.commit = pd.commit
        /\ pd'.files = files /\ pd'.deleted = pd.committed /\ pd'.committed = pd.committed
    BY <1>1, <1>3 DEF PendingFields
  <1>7. HasDeletions(info) <=> HasDeletions(pd.commit)
    BY <1>2 DEF HasDeletions
  <1>8. HasDeletions(pd.commit) => /\ pd.commit.delGen \in DOMAIN files
                                  /\ files[pd.commit.delGen] = pd.files[pd.commit.delGen]
    BY <1>1, <1>2, <1>4 DEF InfoHolds
  <1>9. InfoHolds(pd.commit, files) /\ InfoHolds(info, files)
    BY <1>1, <1>2, <1>7, <1>8 DEF InfoHolds
  <1>10. BitsHold(p, pd.committed)
    <2>1. ~HasDeletions(info) => pd.committed = {}
      <3>1. IsFiniteSet(pd.committed)
        BY <1>1, SomeDocs
      <3>2. ~HasDeletions(info) => Cardinality(pd.committed) = 0
        BY <1>1, <1>7 DEF InfoHolds
      <3> QED BY <3>1, <3>2, FS_EmptySet
    <2> QED BY <1>5, <2>1 DEF BitsHold
  <1>11. info.delCount + p.pendingDeleteCount = Cardinality(pd.committed)
    <2>1. info.delCount \in Nat
      BY <1>2 DEF Infos
    <2> QED BY <1>1, <1>2, <1>5, <2>1
  <1> QED BY <1>1, <1>5, <1>6, <1>8, <1>9, <1>10, <1>11 DEF PendingInv

LEMMA PendingStep ==
    ASSUME PendingInv, [PendingNext]_pd
    PROVE  /\ PendingInv'
           /\ HasDeletions(pd.commit) => pd'.files[pd.commit.delGen] = pd.files[pd.commit.delGen]
  <1>1. ASSUME NEW gen, gen \notin DOMAIN pd.files, NEW file, pd'.files = PutFile(gen, file), HasDeletions(pd.commit)
        PROVE  pd'.files[pd.commit.delGen] = pd.files[pd.commit.delGen]
    <2>1. pd.commit.delGen \in DOMAIN pd.files
      BY <1>1 DEF PendingInv, InfoHolds
    <2> QED BY <1>1, <2>1 DEF PutFile
  <1>2. ASSUME NEW doc \in Docs, Delete(doc) PROVE PendingInv' /\ pd'.files = pd.files
    BY <1>2, DeleteHolds
  <1>3. CASE GetLiveDocs
    BY <1>3, GetLiveDocsHolds
  <1>4. CASE OnNewReader
    BY <1>4, OnNewReaderHolds
  <1>5. CASE WriteLiveDocs
    <2>1. PICK file : pd'.files = PutFile(pd.info.nextWriteDelGen, file)
      BY <1>5, WriteLiveDocsHolds
    <2>2. pd.info.nextWriteDelGen \notin DOMAIN pd.files
      BY <1>5 DEF WriteLiveDocs, Exists
    <2> QED BY <1>1, <1>5, <2>1, <2>2, WriteLiveDocsHolds
  <1>6. CASE WriteLiveDocsFails
    BY <1>1, <1>6, WriteFailsHolds
  <1>7. CASE CommitDeletes
    BY <1>7, CommitDeletesHolds
  <1>8. CASE Restart
    BY <1>8, RestartHolds
  <1>9. CASE UNCHANGED pd
    BY <1>9 DEF PendingInv
  <1> QED BY <1>2, <1>3, <1>4, <1>5, <1>6, <1>7, <1>8, <1>9 DEF PendingNext

LEMMA CountsFollow == PendingInv => DelCountExact
  <1>. SUFFICES ASSUME PendingInv PROVE DelCountExact
    OBVIOUS
  <1>1. pd.deleted \in SUBSET Docs /\ GetDelCount = Cardinality(pd.deleted)
    BY DEF PendingInv, GetDelCount
  <1>2. /\ Cardinality(pd.deleted) \in Nat /\ Cardinality(pd.deleted) <= MaxDoc
        /\ (Cardinality(pd.deleted) = MaxDoc <=> pd.deleted = Docs)
    BY <1>1, SomeDocs
  <1>3. NumDocs >= 0
    BY <1>1, <1>2, PendingAssumption DEF NumDocs
  <1>4. IsFullyDeleted <=> pd.deleted = Docs
    BY <1>1, <1>2 DEF IsFullyDeleted
  <1> QED BY <1>1, <1>3, <1>4 DEF DelCountExact

LEMMA DeletedFollow == PendingInv => DeletedStayDeleted
  <1>. SUFFICES ASSUME PendingInv, HasDeletions(pd.commit)
                PROVE  LET r == ReadLiveDocs(pd.files[pd.commit.delGen]) IN r.ok /\ r.live \cap pd.committed = {}
    BY DEF DeletedStayDeleted
  <1>. DEFINE r == ReadLiveDocs(pd.files[pd.commit.delGen])
  <1>1. PICK live \in SUBSET Docs : pd.files[pd.commit.delGen] = WriteLiveDocsFile(live)
    BY DEF PendingInv, InfoHolds
  <1>2. ReadAsLive(r)
    BY <1>1, LiveDocsReadBack
  <1>. HIDE DEF r
  <1>3. r.ok /\ r.live \subseteq {MaxDoc}
    BY <1>2 DEF ReadAsLive
  <1>4. MaxDoc \notin Docs /\ pd.committed \subseteq Docs
    BY PendingAssumption DEF PendingInv, Docs
  <1>5. r.ok /\ r.live \cap pd.committed = {}
    BY <1>3, <1>4
  <1> QED BY <1>5 DEF r

(* pendingdeletes.go and livedocsformat.go: for a segment of any size and      *)
(* whatever writes fail and whenever the process restarts, every deleted       *)
(* document is counted once, a document deleted before a commit is never live  *)
(* for a reader of that commit, whose .liv file can be read and is not written *)
(* again.                                                                      *)
THEOREM DeletesKept == PendingSpec => DeletesAreKept
  <1>1. PendingInit => PendingInv
    BY PendingStarts
  <1>2. PendingInv /\ [PendingNext]_pd => PendingInv'
    BY PendingStep
  <1>3. PendingInv => DelCountExact /\ DeletedStayDeleted
    BY CountsFollow, DeletedFollow
  <1>4. PendingInv /\ [PendingNext]_pd =>
          [pd.pc # "off" /\ HasDeletions(pd.commit) =>
             pd'.files[pd.commit.delGen] = pd.files[pd.commit.delGen]]_pd
    BY PendingStep
  <1> QED BY <1>1, <1>2, <1>3, <1>4, PTL DEF PendingSpec, DeletesAreKept, CommittedFileUntouched

==============================================================================
