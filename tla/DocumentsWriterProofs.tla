------------------------ MODULE DocumentsWriterProofs ------------------------
(* Proofs about DocumentsWriter, for any number of goroutines, terms and calls. *)
EXTENDS DocumentsWriter, FiniteSetTheorems, Recursion, TLAPS

-----------------------------------------------------------------------------
(* The limit on buffered documents.                                           *)

Label == {"idle", "reserve", "putback", "process", "increment", "link", "tail", "addSeqNo",
          "applyGlobal", "updateSlice", "apply", "reset", "panic"}

(* The goroutines at one of the labels. *)
In(p, labels) == {g \in Goroutines : p[g] \in labels}

(* Those that hold a reservation they may turn into a document, and those     *)
(* that are about to give theirs back.                                        *)
Processing == In(pc, {"process", "increment"})
PuttingBack == In(pc, {"putback"})

(* Every buffered document, and every goroutine with a reservation, is in     *)
(* pendingNumDocs; those that may still become documents fit the limit.       *)
LimitInv ==
    /\ pc \in [Goroutines -> Label]
    /\ numDocsInRAM \in Nat /\ pendingNumDocs \in Int
    /\ IsFiniteSet(Processing) /\ IsFiniteSet(PuttingBack)
    /\ numDocsInRAM + Cardinality(Processing) + Cardinality(PuttingBack) <= pendingNumDocs
    /\ numDocsInRAM + Cardinality(Processing) <= ActualMaxDocs

(* A goroutine that moves enters a set of labels, leaves it or does neither. *)
LEMMA GotoCounts ==
    ASSUME pc \in [Goroutines -> Label], NEW g \in Goroutines, NEW label \in Label, NEW labels,
           pc' = [pc EXCEPT ![g] = label], IsFiniteSet(In(pc, labels))
    PROVE  /\ IsFiniteSet(In(pc', labels))
           /\ pc[g] \notin labels /\ label \in labels =>
                 Cardinality(In(pc', labels)) = Cardinality(In(pc, labels)) + 1
           /\ pc[g] \in labels /\ label \notin labels =>
                 Cardinality(In(pc', labels)) = Cardinality(In(pc, labels)) - 1
           /\ (pc[g] \in labels <=> label \in labels) => In(pc', labels) = In(pc, labels)
  <1>1. CASE pc[g] \notin labels /\ label \in labels
    <2>1. In(pc', labels) = In(pc, labels) \cup {g} /\ g \notin In(pc, labels)
      BY <1>1 DEF In
    <2>2. IsFiniteSet(In(pc', labels)) /\ Cardinality(In(pc', labels)) = Cardinality(In(pc, labels)) + 1
      <3>1. IsFiniteSet(In(pc, labels) \cup {g})
            /\ Cardinality(In(pc, labels) \cup {g}) = Cardinality(In(pc, labels)) + 1
        BY <2>1, FS_AddElement, Zenon
      <3> QED BY <2>1, <3>1
    <2> QED BY <1>1, <2>2
  <1>2. CASE pc[g] \in labels /\ label \notin labels
    <2>1. In(pc', labels) = In(pc, labels) \ {g} /\ g \in In(pc, labels)
      BY <1>2 DEF In
    <2> QED BY <1>2, <2>1, FS_RemoveElement
  <1>3. CASE pc[g] \in labels <=> label \in labels
    <2>1. In(pc', labels) = In(pc, labels)
      BY <1>3 DEF In
    <2> QED BY <1>3, <2>1
  <1> QED BY <1>1, <1>2, <1>3

LEMMA GotoProcessing ==
    ASSUME LimitInv, NEW g \in Goroutines, NEW label \in Label, pc' = [pc EXCEPT ![g] = label]
    PROVE  /\ IsFiniteSet(Processing')
           /\ pc[g] \notin {"process", "increment"} /\ label \in {"process", "increment"} =>
                 Cardinality(Processing') = Cardinality(Processing) + 1
           /\ pc[g] \in {"process", "increment"} /\ label \notin {"process", "increment"} =>
                 Cardinality(Processing') = Cardinality(Processing) - 1
           /\ (pc[g] \in {"process", "increment"} <=> label \in {"process", "increment"}) =>
                 Processing' = Processing
  <1>. DEFINE labels == {"process", "increment"}
  <1>1. Processing = In(pc, labels) /\ Processing' = In(pc', labels)
    BY DEF Processing
  <1>2. pc \in [Goroutines -> Label] /\ IsFiniteSet(Processing)
    BY DEF LimitInv
  <1>. HIDE DEF labels
  <1>3. /\ IsFiniteSet(Processing')
        /\ pc[g] \notin labels /\ label \in labels => Cardinality(Processing') = Cardinality(Processing) + 1
        /\ pc[g] \in labels /\ label \notin labels => Cardinality(Processing') = Cardinality(Processing) - 1
        /\ (pc[g] \in labels <=> label \in labels) => Processing' = Processing
    BY <1>1, <1>2, GotoCounts
  <1> QED BY <1>3 DEF labels

LEMMA GotoPuttingBack ==
    ASSUME LimitInv, NEW g \in Goroutines, NEW label \in Label, pc' = [pc EXCEPT ![g] = label]
    PROVE  /\ IsFiniteSet(PuttingBack')
           /\ pc[g] # "putback" /\ label = "putback" =>
                 Cardinality(PuttingBack') = Cardinality(PuttingBack) + 1
           /\ pc[g] = "putback" /\ label # "putback" =>
                 Cardinality(PuttingBack') = Cardinality(PuttingBack) - 1
           /\ (pc[g] = "putback" <=> label = "putback") => PuttingBack' = PuttingBack
  <1>. DEFINE labels == {"putback"}
  <1>1. PuttingBack = In(pc, labels) /\ PuttingBack' = In(pc', labels)
    BY DEF PuttingBack
  <1>2. pc \in [Goroutines -> Label] /\ IsFiniteSet(PuttingBack)
    BY DEF LimitInv
  <1>. HIDE DEF labels
  <1>3. /\ IsFiniteSet(PuttingBack')
        /\ pc[g] \notin labels /\ label \in labels => Cardinality(PuttingBack') = Cardinality(PuttingBack) + 1
        /\ pc[g] \in labels /\ label \notin labels => Cardinality(PuttingBack') = Cardinality(PuttingBack) - 1
        /\ (pc[g] \in labels <=> label \in labels) => PuttingBack' = PuttingBack
    BY <1>1, <1>2, GotoCounts
  <1> QED BY <1>3 DEF labels

(* A step of a call that is neither before its reservation nor processing     *)
(* leaves the counters alone.                                                 *)
LEMMA GotoOutside ==
    ASSUME LimitInv, NEW g \in Goroutines, NEW label \in Label, Goto(g, label),
           {pc[g], label} \cap {"process", "increment", "putback"} = {},
           UNCHANGED <<numDocsInRAM, pendingNumDocs>>
    PROVE  LimitInv'
  <1>1. Processing' = Processing /\ PuttingBack' = PuttingBack
    BY GotoProcessing, GotoPuttingBack DEF Goto, Label
  <1>2. pc' \in [Goroutines -> Label]
    BY DEF LimitInv, Goto
  <1> QED BY <1>1, <1>2 DEF LimitInv

LEMMA ReserveKeepsLimit ==
    ASSUME LimitInv, NEW g \in Goroutines, Reserve(g)
    PROVE  LimitInv'
  <1>1. pc[g] = "reserve" /\ pendingNumDocs' = pendingNumDocs + 1 /\ numDocsInRAM' = numDocsInRAM
    BY DEF Reserve, docVars
  <1>2. Cardinality(Processing) \in Nat /\ Cardinality(PuttingBack) \in Nat
    BY FS_CardinalityType DEF LimitInv
  <1>3. ActualMaxDocs \in Nat
    BY CallsAssumption
  <1>4. CASE WithinLimit(pendingNumDocs + 1)
    <2>1. pc' = [pc EXCEPT ![g] = "process"]
      BY <1>4 DEF Reserve, Goto
    <2>2. IsFiniteSet(Processing') /\ Cardinality(Processing') = Cardinality(Processing) + 1
      BY <1>1, <2>1, GotoProcessing DEF Label
    <2>3. PuttingBack' = PuttingBack
      BY <1>1, <2>1, GotoPuttingBack DEF Label
    <2>4. pc' \in [Goroutines -> Label]
      BY <2>1 DEF LimitInv, Label
    <2> QED BY <1>1, <1>2, <1>3, <1>4, <2>2, <2>3, <2>4 DEF LimitInv, WithinLimit
  <1>5. CASE ~WithinLimit(pendingNumDocs + 1)
    <2>1. pc' = [pc EXCEPT ![g] = "putback"]
      BY <1>5 DEF Reserve, Goto
    <2>2. IsFiniteSet(PuttingBack') /\ Cardinality(PuttingBack') = Cardinality(PuttingBack) + 1
      BY <1>1, <2>1, GotoPuttingBack DEF Label
    <2>3. Processing' = Processing
      BY <1>1, <2>1, GotoProcessing DEF Label
    <2>4. pc' \in [Goroutines -> Label]
      BY <2>1 DEF LimitInv, Label
    <2> QED BY <1>1, <1>2, <1>3, <2>2, <2>3, <2>4 DEF LimitInv
  <1> QED BY <1>4, <1>5

LEMMA PutBackKeepsLimit ==
    ASSUME LimitInv, NEW g \in Goroutines, PutBack(g)
    PROVE  LimitInv'
  <1>1. pc[g] = "putback" /\ pendingNumDocs' = pendingNumDocs - 1 /\ numDocsInRAM' = numDocsInRAM
        /\ pc' = [pc EXCEPT ![g] = "idle"]
    BY DEF PutBack, docVars, Goto
  <1>2. Cardinality(Processing) \in Nat /\ Cardinality(PuttingBack) \in Nat
    BY FS_CardinalityType DEF LimitInv
  <1>3. IsFiniteSet(PuttingBack') /\ Cardinality(PuttingBack') = Cardinality(PuttingBack) - 1
    BY <1>1, GotoPuttingBack DEF Label
  <1>4. Processing' = Processing
    BY <1>1, GotoProcessing DEF Label
  <1>5. pc' \in [Goroutines -> Label]
    BY <1>1 DEF LimitInv, Label
  <1> QED BY <1>1, <1>2, <1>3, <1>4, <1>5, CallsAssumption DEF LimitInv

LEMMA ProcessKeepsLimit ==
    ASSUME LimitInv, NEW g \in Goroutines, ProcessDocument(g)
    PROVE  LimitInv'
  <1>1. pc[g] = "process" /\ UNCHANGED <<numDocsInRAM, pendingNumDocs>>
    BY DEF ProcessDocument
  <1>2. Cardinality(Processing) \in Nat /\ Cardinality(PuttingBack) \in Nat
    BY FS_CardinalityType DEF LimitInv
  <1>3. PICK label \in {"idle", "increment"} : pc' = [pc EXCEPT ![g] = label]
    BY DEF ProcessDocument, Goto
  <1>4. pc' \in [Goroutines -> Label]
    BY <1>3 DEF LimitInv, Label
  <1>5. PuttingBack' = PuttingBack
    BY <1>1, <1>3, GotoPuttingBack DEF Label
  <1>6. CASE label = "idle"
    <2>1. IsFiniteSet(Processing') /\ Cardinality(Processing') = Cardinality(Processing) - 1
      BY <1>1, <1>3, <1>6, GotoProcessing DEF Label
    <2> QED BY <1>1, <1>2, <1>4, <1>5, <2>1, CallsAssumption DEF LimitInv
  <1>7. CASE label = "increment"
    <2>1. Processing' = Processing
      BY <1>1, <1>3, <1>7, GotoProcessing DEF Label
    <2> QED BY <1>1, <1>4, <1>5, <2>1 DEF LimitInv
  <1> QED BY <1>3, <1>6, <1>7

LEMMA IncrementKeepsLimit ==
    ASSUME LimitInv, NEW g \in Goroutines, Increment(g)
    PROVE  LimitInv'
  <1>1. pc[g] = "increment" /\ numDocsInRAM' = numDocsInRAM + 1 /\ pendingNumDocs' = pendingNumDocs
    BY DEF Increment
  <1>2. Cardinality(Processing) \in Nat /\ Cardinality(PuttingBack) \in Nat
    BY FS_CardinalityType DEF LimitInv
  <1>3. PICK label \in {"updateSlice", "link"} : pc' = [pc EXCEPT ![g] = label]
    BY DEF Increment, Goto
  <1>4. IsFiniteSet(Processing') /\ Cardinality(Processing') = Cardinality(Processing) - 1
    BY <1>1, <1>3, GotoProcessing DEF Label
  <1>5. PuttingBack' = PuttingBack
    BY <1>1, <1>3, GotoPuttingBack DEF Label
  <1>6. pc' \in [Goroutines -> Label]
    BY <1>3 DEF LimitInv, Label
  <1> QED BY <1>1, <1>2, <1>4, <1>5, <1>6, CallsAssumption DEF LimitInv

LEMMA LimitInductive == LimitInv /\ [Next]_vars => LimitInv'
  <1>. SUFFICES ASSUME LimitInv, [Next]_vars PROVE LimitInv'
    OBVIOUS
  <1>1. ASSUME NEW g \in Goroutines, NEW t \in Terms \cup {NoTerm}, NEW fails \in Failing,
               UpdateDocument(g, t, fails)
        PROVE  LimitInv'
    <2>1. pc[g] = "idle" /\ Goto(g, "reserve") /\ UNCHANGED <<numDocsInRAM, pendingNumDocs>>
      BY <1>1 DEF UpdateDocument, docVars
    <2> QED BY <2>1, GotoOutside DEF Label
  <1>2. ASSUME NEW g \in Goroutines, Step(g)
        PROVE  LimitInv'
    <2>1. CASE Link(g) \/ SetTail(g) \/ AddSeqNo(g) \/ TryApplyGlobalSlice(g) \/ UpdateSlice(g)
               \/ ApplySlice(g) \/ ResetSlice(g)
      <3>1. /\ UNCHANGED <<numDocsInRAM, pendingNumDocs>>
            /\ pc[g] \in {"link", "tail", "addSeqNo", "applyGlobal", "updateSlice", "apply", "reset"}
            /\ \E label \in {"tail", "addSeqNo", "applyGlobal", "apply", "panic", "reset", "idle"} :
                  Goto(g, label)
        BY <2>1 DEF Link, SetTail, AddSeqNo, TryApplyGlobalSlice, UpdateSlice, ApplySlice, ResetSlice, docVars
      <3>2. PICK label \in {"tail", "addSeqNo", "applyGlobal", "apply", "panic", "reset", "idle"} :
                Goto(g, label)
        BY <3>1
      <3> QED BY <3>1, <3>2, GotoOutside DEF Label
    <2> QED
      BY <1>2, <2>1, ReserveKeepsLimit, PutBackKeepsLimit, ProcessKeepsLimit, IncrementKeepsLimit DEF Step
  <1>3. CASE Flush \/ UNCHANGED vars
    <2>1. UNCHANGED <<pc, numDocsInRAM, pendingNumDocs>>
      BY <1>3 DEF Flush, vars, docVars
    <2> QED BY <2>1 DEF LimitInv, Processing, PuttingBack
  <1> QED BY <1>1, <1>2, <1>3 DEF Next

(* DocLimitKept: however many goroutines interleave the two additions of      *)
(* reserveOneDoc, the segment never buffers more documents than               *)
(* GetActualMaxDocs.                                                          *)
THEOREM LimitHolds == Spec => []DocLimitKept
  <1>1. Init => LimitInv
    <2>. SUFFICES ASSUME Init PROVE LimitInv
      OBVIOUS
    <2>1. Processing = {} /\ PuttingBack = {}
      BY DEF Init, Processing, PuttingBack, In
    <2> QED BY <2>1, FS_EmptySet, CallsAssumption DEF Init, LimitInv, Label
  <1>2. LimitInv => DocLimitKept
    <2>. SUFFICES ASSUME LimitInv PROVE DocLimitKept
      OBVIOUS
    <2>1. Cardinality(Processing) \in Nat
      BY FS_CardinalityType DEF LimitInv
    <2> QED BY <2>1, CallsAssumption DEF LimitInv, DocLimitKept
  <1> QED BY <1>1, <1>2, LimitInductive, PTL DEF Spec

-----------------------------------------------------------------------------
(* The buffers of deletes, for callers that take turns.                       *)

Records == [doc : Nat, fails : BOOLEAN, docIdUpTo : Nat, seqNo : Int]
At(n) == [head |-> n, tail |-> n]

BufferTypes ==
    /\ pc \in [Goroutines -> Label]
    /\ call \in [Goroutines -> Records]
    /\ calls \in 0..MaxCalls /\ term \in [Doc -> Terms \cup {NoTerm}]
    /\ numDocsInRAM \in Nat /\ nextSeqNo \in Int
    /\ tail \in Node /\ next \in [Node -> Nat]
    /\ slice \in [head : Node, tail : Node] /\ globalSlice \in [head : Node, tail : Node]
    /\ pendingUpdates \in [Terms -> Int]
    /\ accepted \subseteq 1..calls

(* One call at a time. *)
Alone == \A g, h \in Goroutines : pc[g] # "idle" /\ pc[h] # "idle" => g = h

(* Both properties, at every step of a call. *)
LimitRight(t) ==
    IF UpdatedBy(t) = {} THEN pendingUpdates[t] = NoDocId
    ELSE \E d \in UpdatedBy(t) : /\ \A e \in UpdatedBy(t) : e <= d
                                 /\ <<pendingUpdates[t], d>> \in points
BuffersRight ==
    \A t \in Terms : /\ LimitRight(t)
                     /\ UpdatedBy(t) # {} => t \in globalUpdates

(* No buffered limit is beyond the documents. *)
LimitsBelow == \A t \in Terms : pendingUpdates[t] <= numDocsInRAM

(* Both slices have been applied up to the tail. *)
Settled == slice = At(tail) /\ globalSlice = At(tail) /\ tail <= NodeOf(calls)

(* The document of the call that is under way is the newest one; docIdUpTo is *)
(* its doc id, and no limit buffered before is beyond it.                     *)
CallsDocument(g) ==
    /\ calls >= 1 /\ call[g].doc = calls /\ calls \notin accepted
    /\ call[g].docIdUpTo <= numDocsInRAM
    /\ \A t \in Terms : pendingUpdates[t] <= call[g].docIdUpTo
    /\ pc[g] \in {"reserve", "putback", "process", "increment"} => numDocsInRAM = call[g].docIdUpTo
    /\ pc[g] \notin {"reserve", "putback", "process"} => <<call[g].docIdUpTo, calls>> \in points

(* Where the delete node of the call and the two slices are. *)
CallsSlices(g) ==
    /\ pc[g] # "panic"
    /\ pc[g] \in {"link", "tail", "addSeqNo", "applyGlobal", "apply"} => term[calls] \in Terms
    /\ pc[g] \in {"updateSlice", "reset"} => term[calls] = NoTerm
    /\ pc[g] \notin {"addSeqNo", "applyGlobal", "apply"} =>
          slice = At(tail) /\ globalSlice = At(tail) /\ tail <= calls
    /\ pc[g] = "tail" => next[tail] = NodeOf(calls)
    /\ pc[g] \in {"addSeqNo", "applyGlobal", "apply"} =>
          tail = NodeOf(calls) /\ slice.head <= calls /\ next[slice.head] = tail
    /\ pc[g] = "addSeqNo" => slice = At(slice.head) /\ globalSlice = slice
    /\ pc[g] = "applyGlobal" => slice.tail = tail /\ globalSlice = At(slice.head)
    /\ pc[g] = "apply" => slice.tail = tail /\ globalSlice = At(tail) /\ term[calls] \in globalUpdates

TurnInv ==
    /\ BufferTypes /\ Alone /\ BuffersRight /\ LimitsBelow
    /\ (\A g \in Goroutines : pc[g] = "idle") => Settled
    /\ \A g \in Goroutines : pc[g] # "idle" => CallsDocument(g) /\ CallsSlices(g)

BufferInv == serial /\ segment = NotFlushed => TurnInv

-----------------------------------------------------------------------------
(* DeleteSlice.Apply.                                                         *)

(* The walk along next exists for every length: the shortest length without   *)
(* one would be one more than a length with one.                              *)
LEMMA FollowFirst ==
    ASSUME NEW head
    PROVE  Follow(head)[1] = next[head]
  <1>. DEFINE Walk(f, n) ==
                  f = [k \in 1..n |-> IF k = 1 THEN next[head]
                                      ELSE IF f[k - 1] = Nil THEN Nil ELSE next[f[k - 1]]]
              None == {n \in Nat : n >= 1 /\ ~\E f : Walk(f, n)}
  <1>1. ASSUME NEW m \in None, \A n \in None : m <= n PROVE FALSE
    <2>1. m \in Nat /\ m >= 1 /\ ~\E f : Walk(f, m)
      OBVIOUS
    <2>2. m # 1
      <3>1. Walk([k \in 1..1 |-> next[head]], 1)
        OBVIOUS
      <3> QED BY <2>1, <3>1
    <2>3. m - 1 \in Nat /\ m - 1 >= 1 /\ m - 1 < m
      BY <2>1, <2>2
    <2>4. m - 1 \notin None
      <3>. HIDE DEF None
      <3> QED BY <1>1, <2>1, <2>3
    <2>5. PICK f : Walk(f, m - 1)
      BY <2>3, <2>4
    <2>. DEFINE h == [k \in 1..m |-> IF k < m THEN f[k]
                                     ELSE IF f[m - 1] = Nil THEN Nil ELSE next[f[m - 1]]]
    <2>6. \A k \in 1..m : h[k] = IF k = 1 THEN next[head]
                                 ELSE IF h[k - 1] = Nil THEN Nil ELSE next[h[k - 1]]
      <3>. SUFFICES ASSUME NEW k \in 1..m
                    PROVE  h[k] = IF k = 1 THEN next[head]
                                  ELSE IF h[k - 1] = Nil THEN Nil ELSE next[h[k - 1]]
        OBVIOUS
      <3>1. k \in Nat /\ k >= 1 /\ k <= m
        BY <2>1
      <3>2. k # 1 => k - 1 \in 1..m /\ k - 1 < m
        BY <2>1, <3>1
      <3>3. k # 1 => h[k - 1] = f[k - 1]
        BY <3>2
      <3>4. CASE k = m
        <4>1. h[k] = IF f[m - 1] = Nil THEN Nil ELSE next[f[m - 1]]
          BY <2>1, <3>4
        <4>. HIDE DEF h
        <4> QED BY <2>2, <3>3, <3>4, <4>1
      <3>5. CASE k # m
        <4>1. k \in 1..(m - 1) /\ k < m
          BY <2>1, <3>1, <3>5
        <4>2. h[k] = f[k]
          BY <4>1
        <4>3. f[k] = IF k = 1 THEN next[head]
                     ELSE IF f[k - 1] = Nil THEN Nil ELSE next[f[k - 1]]
          BY <2>5, <4>1
        <4>. HIDE DEF h
        <4> QED BY <3>3, <4>2, <4>3
      <3> QED BY <3>4, <3>5
    <2>7. h = [k \in 1..m |-> h[k]]
      OBVIOUS
    <2>8. Walk(h, m)
      <3>. HIDE DEF h
      <3> QED BY <2>6, <2>7
    <2> QED BY <2>1, <2>8
  <1>2. None = {}
    <2>1. None \subseteq Nat
      OBVIOUS
    <2>. HIDE DEF None
    <2> QED BY <1>1, <2>1, LeastNat
  <1>3. MaxCalls + 1 \in Nat /\ MaxCalls + 1 >= 1
    BY CallsAssumption
  <1>4. \E f : Walk(f, MaxCalls + 1)
    <2>1. MaxCalls + 1 \notin None
      BY <1>2
    <2> QED BY <1>3, <2>1
  <1>5. Walk(Follow(head), MaxCalls + 1)
    BY <1>4, Zenon DEF Follow, Node
  <1>. DEFINE w == Follow(head)
  <1>. HIDE DEF w
  <1>6. w[1] = next[head]
    <2>1. Walk(w, MaxCalls + 1)
      BY <1>5 DEF w
    <2>2. 1 \in 1..(MaxCalls + 1)
      BY <1>3
    <2> QED BY <2>1, <2>2
  <1> QED BY <1>6 DEF w

(* A slice whose head links to its tail holds the tail's term alone. *)
LEMMA OneNodeSlice ==
    ASSUME NEW s, s.tail \in Node, s.head # s.tail, next[s.head] = s.tail
    PROVE  Reaches(s) /\ TermsOf(s) = {term[s.tail - 1]}
  <1>. DEFINE w == Follow(s.head)
  <1>1. w[1] = s.tail
    BY FollowFirst
  <1>2. 1 \in Node
    BY CallsAssumption DEF Node
  <1>3. Reaches(s)
    BY <1>1, <1>2 DEF Reaches
  <1>. HIDE DEF w
  <1>4. \A i \in Node : (\A j \in 1..(i - 1) : w[j] # s.tail) <=> i = 1
    <2>. SUFFICES ASSUME NEW i \in Node
                  PROVE  (\A j \in 1..(i - 1) : w[j] # s.tail) <=> i = 1
      OBVIOUS
    <2>1. i \in Nat /\ i >= 1
      BY DEF Node
    <2>2. CASE i = 1
      <3>1. 1..(i - 1) = {}
        BY <2>2
      <3> QED BY <2>2, <3>1
    <2>3. CASE i # 1
      <3>1. 1 \in 1..(i - 1)
        BY <2>1, <2>3
      <3> QED BY <1>1, <2>3, <3>1
    <2> QED BY <2>2, <2>3
  <1>5. {i \in Node : \A j \in 1..(i - 1) : w[j] # s.tail} = {1}
    BY <1>2, <1>4
  <1>6. NodesOf(s) = {w[k] : k \in {i \in Node : \A j \in 1..(i - 1) : w[j] # s.tail}}
    BY DEF NodesOf, w
  <1>7. NodesOf(s) = {s.tail}
    BY <1>1, <1>5, <1>6
  <1>8. s.tail # Nil
    BY DEF Node, Nil
  <1>9. TermsOf(s) = {term[n - 1] : n \in {s.tail}}
    <2>1. NodesOf(s) \ {Nil} = {s.tail}
      BY <1>7, <1>8
    <2> QED BY <2>1 DEF TermsOf
  <1> QED BY <1>3, <1>9

-----------------------------------------------------------------------------
(* What a step of the only call under way has to establish. *)
LEMMA TurnKept ==
    ASSUME TurnInv, NEW g \in Goroutines, NEW label \in Label, Goto(g, label),
           pc[g] # "idle" \/ \A h \in Goroutines : pc[h] = "idle",
           BufferTypes', BuffersRight', LimitsBelow',
           label = "idle" => Settled',
           label # "idle" => CallsDocument(g)' /\ CallsSlices(g)'
    PROVE  TurnInv'
  <1>1. pc' = [pc EXCEPT ![g] = label] /\ pc \in [Goroutines -> Label] /\ Alone
    BY DEF TurnInv, BufferTypes, Goto
  <1>2. pc'[g] = label /\ \A h \in Goroutines : h # g => pc'[h] = "idle"
    BY <1>1 DEF Alone
  <1>3. Alone'
    BY <1>2 DEF Alone
  <1>4. (\A h \in Goroutines : pc'[h] = "idle") => Settled'
    BY <1>2
  <1>5. \A h \in Goroutines : pc'[h] # "idle" => CallsDocument(h)' /\ CallsSlices(h)'
    BY <1>2
  <1> QED BY <1>3, <1>4, <1>5 DEF TurnInv

(* Documents, points and terms that are added disturb no buffer. *)
LEMMA BuffersKept ==
    ASSUME BuffersRight, UNCHANGED <<accepted, pendingUpdates>>,
           \A d \in accepted : term'[d] = term[d],
           points \subseteq points', globalUpdates \subseteq globalUpdates'
    PROVE  BuffersRight'
  <1>. SUFFICES ASSUME NEW t \in Terms
                PROVE  LimitRight(t)' /\ (UpdatedBy(t)' # {} => t \in globalUpdates')
    BY DEF BuffersRight
  <1>1. UpdatedBy(t)' = UpdatedBy(t)
    BY DEF UpdatedBy
  <1>2. LimitRight(t) /\ (UpdatedBy(t) # {} => t \in globalUpdates)
    BY DEF BuffersRight
  <1>3. LimitRight(t)'
    BY <1>1, <1>2 DEF LimitRight
  <1> QED BY <1>1, <1>2, <1>3

(* A step that changes only where its call is. *)
LEMMA OnlyGoto ==
    ASSUME TurnInv, NEW g \in Goroutines, NEW label \in Label, Goto(g, label),
           UNCHANGED <<call, calls, term, numDocsInRAM, nextSeqNo, tail, next, slice, globalSlice,
                       pendingUpdates, accepted>>
    PROVE  BufferTypes' /\ LimitsBelow' /\ pc'[g] = label /\ (Settled => Settled')
  <1>1. BufferTypes /\ LimitsBelow
    BY DEF TurnInv
  <1>2. pc' \in [Goroutines -> Label] /\ pc'[g] = label
    BY <1>1 DEF Goto, BufferTypes
  <1>3. BufferTypes'
    BY <1>1, <1>2 DEF BufferTypes
  <1>4. LimitsBelow' /\ (Settled => Settled')
    BY <1>1 DEF LimitsBelow, Settled, At, NodeOf
  <1> QED BY <1>2, <1>3, <1>4

LEMMA NewRecord ==
    ASSUME NEW r \in Records, NEW doc \in Nat, NEW fails \in BOOLEAN, NEW docIdUpTo \in Nat
    PROVE  [r EXCEPT !.doc = doc, !.fails = fails, !.docIdUpTo = docIdUpTo] \in Records
  BY DEF Records

LEMMA UpdateDocumentTurn ==
    ASSUME TurnInv, serial, NEW g \in Goroutines, NEW t \in Terms \cup {NoTerm}, NEW fails \in Failing,
           UpdateDocument(g, t, fails)
    PROVE  TurnInv'
  <1>. DEFINE c == [NoCall EXCEPT !.doc = calls + 1, !.fails = fails, !.docIdUpTo = numDocsInRAM]
  <1>1. /\ BufferTypes /\ LimitsBelow /\ BuffersRight
        /\ \A h \in Goroutines : pc[h] = "idle"
        /\ calls < MaxCalls /\ calls' = calls + 1
        /\ term' = [term EXCEPT ![calls + 1] = t]
        /\ call' = [call EXCEPT ![g] = c]
        /\ Goto(g, "reserve")
        /\ UNCHANGED <<numDocsInRAM, points, tail, next, nextSeqNo, slice, pendingUpdates,
                       globalSlice, globalUpdates, accepted>>
    BY DEF TurnInv, UpdateDocument, docVars, queueVars, applyVars, globalVars
  <1>2. Settled
    BY <1>1 DEF TurnInv
  <1>3. calls \in Nat /\ MaxCalls \in Nat /\ calls + 1 \in Doc /\ numDocsInRAM \in Nat
    BY <1>1, CallsAssumption DEF BufferTypes, Doc
  <1>4. c \in Records /\ c.doc = calls + 1 /\ c.docIdUpTo = numDocsInRAM
    <2>1. NoCall \in Records /\ fails \in BOOLEAN
      BY TermsAssumption DEF NoCall, Records
    <2>2. calls + 1 \in Nat
      BY <1>3
    <2>3. c \in Records
      BY <1>3, <2>1, <2>2, NewRecord, Zenon
    <2>4. c.doc = calls + 1 /\ c.docIdUpTo = numDocsInRAM
      BY DEF NoCall
    <2> QED BY <2>3, <2>4
  <1>5. pc' = [pc EXCEPT ![g] = "reserve"] /\ pc' \in [Goroutines -> Label] /\ pc'[g] = "reserve"
    BY <1>1 DEF Goto, BufferTypes, Label
  <1>6. call' \in [Goroutines -> Records] /\ call'[g].doc = calls + 1
        /\ call'[g].docIdUpTo = numDocsInRAM
    <2>1. call \in [Goroutines -> Records]
      BY <1>1 DEF BufferTypes
    <2>2. call' \in [Goroutines -> Records] /\ call'[g] = c
      <3>. HIDE DEF c
      <3> QED BY <1>1, <1>4, <2>1
    <2> QED BY <1>4, <2>2
  <1>7. accepted \subseteq 1..calls
    BY <1>1 DEF BufferTypes
  <1>8. BufferTypes'
    BY <1>1, <1>3, <1>5, <1>6, <1>7 DEF BufferTypes
  <1>9. BuffersRight'
    <2>1. \A d \in accepted : term'[d] = term[d]
      BY <1>1, <1>3, <1>7 DEF BufferTypes, Doc
    <2> QED BY <1>1, <2>1, BuffersKept
  <1>10. LimitsBelow'
    BY <1>1 DEF LimitsBelow
  <1>11. CallsDocument(g)'
    BY <1>1, <1>3, <1>5, <1>6, <1>7 DEF CallsDocument, LimitsBelow
  <1>12. CallsSlices(g)'
    BY <1>1, <1>2, <1>5 DEF CallsSlices, Settled, At, NodeOf
  <1> QED BY <1>1, <1>8, <1>9, <1>10, <1>11, <1>12, TurnKept DEF Label

(* What a call under way finds. *)
LEMMA CallUnderWay ==
    ASSUME TurnInv, NEW g \in Goroutines, pc[g] # "idle"
    PROVE  /\ BufferTypes /\ BuffersRight /\ LimitsBelow /\ CallsDocument(g) /\ CallsSlices(g)
           /\ call[g] \in Records /\ calls \in Doc /\ calls \in Nat /\ tail \in Nat
           /\ call[g].docIdUpTo \in Nat /\ numDocsInRAM \in Nat
  <1>1. BufferTypes /\ BuffersRight /\ LimitsBelow /\ CallsDocument(g) /\ CallsSlices(g)
    BY DEF TurnInv
  <1>2. call[g] \in Records
    BY <1>1 DEF BufferTypes
  <1>3. call[g].docIdUpTo \in Nat
    BY <1>2 DEF Records
  <1>4. calls \in Doc /\ calls \in Nat /\ tail \in Nat /\ numDocsInRAM \in Nat
    BY <1>1, CallsAssumption DEF BufferTypes, CallsDocument, Doc, Node
  <1> QED BY <1>1, <1>2, <1>3, <1>4

LEMMA ReserveTurn ==
    ASSUME TurnInv, NEW g \in Goroutines, Reserve(g)
    PROVE  TurnInv'
  <1>1. PICK label \in {"process", "putback"} : Goto(g, label)
    BY DEF Reserve
  <1>2. pc[g] = "reserve" /\ UNCHANGED <<call, callVars, docVars, queueVars, nextSeqNo, applyVars,
                                         globalVars, accepted>>
    BY DEF Reserve
  <1>3. /\ BufferTypes' /\ LimitsBelow' /\ pc'[g] = label
    BY <1>1, <1>2, OnlyGoto DEF Label, callVars, docVars, queueVars, applyVars, globalVars
  <1>4. BuffersRight /\ CallsDocument(g) /\ CallsSlices(g)
    BY <1>2, CallUnderWay
  <1>5. BuffersRight'
    BY <1>2, <1>4, BuffersKept DEF callVars, docVars, applyVars, globalVars
  <1>6. CallsDocument(g)'
    BY <1>2, <1>3, <1>4 DEF CallsDocument, callVars, docVars, applyVars
  <1>7. CallsSlices(g)'
    BY <1>2, <1>3, <1>4 DEF CallsSlices, callVars, queueVars, applyVars, globalVars, At, NodeOf
  <1> QED BY <1>1, <1>2, <1>3, <1>5, <1>6, <1>7, TurnKept DEF Label

LEMMA PutBackTurn ==
    ASSUME TurnInv, NEW g \in Goroutines, PutBack(g)
    PROVE  TurnInv'
  <1>1. pc[g] = "putback" /\ Goto(g, "idle")
        /\ UNCHANGED <<call, callVars, docVars, queueVars, nextSeqNo, applyVars, globalVars, accepted>>
    BY DEF PutBack
  <1>2. /\ BufferTypes /\ BuffersRight /\ CallsSlices(g) /\ calls \in Nat /\ tail \in Nat
    BY <1>1, CallUnderWay
  <1>3. Settled
    BY <1>1, <1>2 DEF CallsSlices, Settled, NodeOf
  <1>4. /\ BufferTypes' /\ LimitsBelow' /\ Settled'
    BY <1>1, <1>3, OnlyGoto DEF Label, callVars, docVars, queueVars, applyVars, globalVars
  <1>5. BuffersRight'
    BY <1>1, <1>2, BuffersKept DEF callVars, docVars, applyVars, globalVars
  <1> QED BY <1>1, <1>4, <1>5, TurnKept DEF Label

LEMMA ProcessTurn ==
    ASSUME TurnInv, NEW g \in Goroutines, ProcessDocument(g)
    PROVE  TurnInv'
  <1>1. pc[g] = "process"
        /\ UNCHANGED <<call, callVars, numDocsInRAM, queueVars, nextSeqNo, applyVars, globalVars, accepted>>
    BY DEF ProcessDocument
  <1>2. /\ BufferTypes /\ BuffersRight /\ CallsDocument(g) /\ CallsSlices(g)
        /\ calls \in Nat /\ tail \in Nat
    BY <1>1, CallUnderWay
  <1>3. points \subseteq points'
    BY DEF ProcessDocument, WithPoint
  <1>4. BuffersRight'
    BY <1>1, <1>2, <1>3, BuffersKept DEF callVars, applyVars, globalVars
  <1>5. CASE call[g].fails
    <2>1. Goto(g, "idle")
      BY <1>5 DEF ProcessDocument
    <2>2. Settled
      BY <1>1, <1>2 DEF CallsSlices, Settled, NodeOf
    <2>3. BufferTypes' /\ LimitsBelow' /\ Settled'
      BY <1>1, <2>1, <2>2, OnlyGoto DEF Label, callVars, queueVars, applyVars, globalVars
    <2> QED BY <1>1, <1>4, <2>1, <2>3, TurnKept DEF Label
  <1>6. CASE ~call[g].fails
    <2>1. Goto(g, "increment") /\ points' = WithPoint(g)
      BY <1>6 DEF ProcessDocument
    <2>2. BufferTypes' /\ LimitsBelow' /\ pc'[g] = "increment"
      BY <1>1, <2>1, OnlyGoto DEF Label, callVars, queueVars, applyVars, globalVars
    <2>3. <<call[g].docIdUpTo, calls>> \in points'
      BY <1>1, <1>2, <2>1 DEF WithPoint, CallsDocument
    <2>4. CallsDocument(g)'
      BY <1>1, <1>2, <2>2, <2>3 DEF CallsDocument, callVars, applyVars
    <2>5. CallsSlices(g)'
      BY <1>1, <1>2, <2>2 DEF CallsSlices, callVars, queueVars, applyVars, globalVars, At, NodeOf
    <2> QED BY <1>1, <1>4, <2>1, <2>2, <2>4, <2>5, TurnKept DEF Label
  <1> QED BY <1>5, <1>6

LEMMA IncrementTurn ==
    ASSUME TurnInv, NEW g \in Goroutines, Increment(g)
    PROVE  TurnInv'
  <1>1. pc[g] = "increment" /\ numDocsInRAM' = numDocsInRAM + 1 /\ points' = points
        /\ UNCHANGED <<call, callVars, queueVars, nextSeqNo, applyVars, globalVars, accepted>>
    BY DEF Increment
  <1>2. /\ BufferTypes /\ BuffersRight /\ LimitsBelow /\ CallsDocument(g) /\ CallsSlices(g)
        /\ calls \in Nat /\ tail \in Nat /\ calls \in Doc
        /\ call[g].docIdUpTo \in Nat /\ numDocsInRAM \in Nat
    BY <1>1, CallUnderWay
  <1>3. PICK label \in {"updateSlice", "link"} :
            Goto(g, label) /\ (label = "updateSlice" <=> term[calls] = NoTerm)
    BY <1>2 DEF Increment, CallsDocument
  <1>4. term[calls] \in Terms \cup {NoTerm}
    BY <1>2 DEF BufferTypes
  <1>5. pc' = [pc EXCEPT ![g] = label] /\ pc' \in [Goroutines -> Label] /\ pc'[g] = label
    BY <1>2, <1>3 DEF Goto, BufferTypes, Label
  <1>6. BufferTypes'
    BY <1>1, <1>2, <1>5 DEF BufferTypes, callVars, queueVars, applyVars, globalVars
  <1>7. BuffersRight'
    BY <1>1, <1>2, BuffersKept DEF callVars, applyVars, globalVars
  <1>8. LimitsBelow'
    BY <1>1, <1>2 DEF LimitsBelow, applyVars, BufferTypes
  <1>9. CallsDocument(g)'
    BY <1>1, <1>2, <1>5 DEF CallsDocument, callVars, applyVars
  <1>10. CallsSlices(g)'
    BY <1>1, <1>2, <1>3, <1>4, <1>5 DEF CallsSlices, callVars, queueVars, applyVars, globalVars, At, NodeOf
  <1> QED BY <1>1, <1>3, <1>6, <1>7, <1>8, <1>9, <1>10, TurnKept DEF Label

LEMMA LinkTurn ==
    ASSUME TurnInv, NEW g \in Goroutines, Link(g)
    PROVE  TurnInv'
  <1>1. /\ pc[g] = "link" /\ Goto(g, "tail")
        /\ next' = [next EXCEPT ![tail] = NodeOf(call[g].doc)]
        /\ UNCHANGED <<call, callVars, docVars, tail, nextSeqNo, applyVars, globalVars, accepted>>
    BY DEF Link
  <1>2. /\ BufferTypes /\ BuffersRight /\ LimitsBelow /\ CallsDocument(g) /\ CallsSlices(g)
        /\ calls \in Nat
    BY <1>1, CallUnderWay
  <1>3. next' \in [Node -> Nat] /\ next'[tail] = NodeOf(calls)
    BY <1>1, <1>2 DEF BufferTypes, CallsDocument, NodeOf
  <1>4. pc' = [pc EXCEPT ![g] = "tail"] /\ pc' \in [Goroutines -> Label] /\ pc'[g] = "tail"
    BY <1>1, <1>2 DEF Goto, BufferTypes, Label
  <1>5. BufferTypes' /\ LimitsBelow'
    BY <1>1, <1>2, <1>3, <1>4 DEF BufferTypes, LimitsBelow, callVars, docVars, applyVars, globalVars
  <1>6. BuffersRight'
    BY <1>1, <1>2, BuffersKept DEF callVars, docVars, applyVars, globalVars
  <1>7. CallsDocument(g)'
    BY <1>1, <1>2, <1>4 DEF CallsDocument, callVars, docVars, applyVars
  <1>8. CallsSlices(g)'
    BY <1>1, <1>2, <1>3, <1>4 DEF CallsSlices, callVars, applyVars, globalVars, At, NodeOf
  <1> QED BY <1>1, <1>5, <1>6, <1>7, <1>8, TurnKept DEF Label

LEMMA SetTailTurn ==
    ASSUME TurnInv, NEW g \in Goroutines, SetTail(g)
    PROVE  TurnInv'
  <1>1. /\ pc[g] = "tail" /\ Goto(g, "addSeqNo") /\ tail' = NodeOf(call[g].doc)
        /\ UNCHANGED <<call, callVars, docVars, next, nextSeqNo, applyVars, globalVars, accepted>>
    BY DEF SetTail
  <1>2. /\ BufferTypes /\ BuffersRight /\ LimitsBelow /\ CallsDocument(g) /\ CallsSlices(g)
        /\ calls \in Nat /\ calls \in Doc
    BY <1>1, CallUnderWay
  <1>3. tail' = NodeOf(calls) /\ tail' \in Node
    BY <1>1, <1>2, CallsAssumption DEF CallsDocument, NodeOf, Node, Doc
  <1>4. pc' = [pc EXCEPT ![g] = "addSeqNo"] /\ pc' \in [Goroutines -> Label] /\ pc'[g] = "addSeqNo"
    BY <1>1, <1>2 DEF Goto, BufferTypes, Label
  <1>5. BufferTypes' /\ LimitsBelow'
    BY <1>1, <1>2, <1>3, <1>4 DEF BufferTypes, LimitsBelow, callVars, docVars, applyVars, globalVars
  <1>6. BuffersRight'
    BY <1>1, <1>2, BuffersKept DEF callVars, docVars, applyVars, globalVars
  <1>7. CallsDocument(g)'
    BY <1>1, <1>2, <1>4 DEF CallsDocument, callVars, docVars, applyVars
  <1>8. slice = At(tail) /\ globalSlice = At(tail) /\ tail <= calls /\ next[tail] = NodeOf(calls)
        /\ term[calls] \in Terms
    BY <1>1, <1>2 DEF CallsSlices
  <1>9. slice.head = tail
    BY <1>8 DEF At
  <1>10. CallsSlices(g)'
    BY <1>1, <1>3, <1>4, <1>8, <1>9 DEF CallsSlices, callVars, applyVars, globalVars
  <1> QED BY <1>1, <1>5, <1>6, <1>7, <1>10, TurnKept DEF Label

LEMMA AddSeqNoTurn ==
    ASSUME TurnInv, NEW g \in Goroutines, AddSeqNo(g)
    PROVE  TurnInv'
  <1>1. /\ pc[g] = "addSeqNo" /\ Goto(g, "applyGlobal") /\ nextSeqNo' = nextSeqNo + 1
        /\ call' = [call EXCEPT ![g].seqNo = nextSeqNo + 1]
        /\ slice' = [slice EXCEPT !.tail = NodeOf(call[g].doc)]
        /\ UNCHANGED <<callVars, docVars, queueVars, pendingUpdates, globalVars, accepted>>
    BY DEF AddSeqNo
  <1>2. /\ BufferTypes /\ BuffersRight /\ LimitsBelow /\ CallsDocument(g) /\ CallsSlices(g)
        /\ calls \in Nat /\ call[g] \in Records
    BY <1>1, CallUnderWay
  <1>3. call' \in [Goroutines -> Records] /\ call'[g].doc = call[g].doc
        /\ call'[g].docIdUpTo = call[g].docIdUpTo
    BY <1>1, <1>2 DEF BufferTypes, Records
  <1>4. pc' = [pc EXCEPT ![g] = "applyGlobal"] /\ pc' \in [Goroutines -> Label] /\ pc'[g] = "applyGlobal"
    BY <1>1, <1>2 DEF Goto, BufferTypes, Label
  <1>5. /\ tail = NodeOf(calls) /\ slice.head <= calls /\ next[slice.head] = tail
        /\ slice = At(slice.head) /\ globalSlice = slice /\ term[calls] \in Terms
    BY <1>1, <1>2 DEF CallsSlices
  <1>6. slice' \in [head : Node, tail : Node] /\ slice'.tail = tail /\ slice'.head = slice.head
    BY <1>1, <1>2, <1>5 DEF BufferTypes, CallsDocument
  <1>7. BufferTypes' /\ LimitsBelow'
    BY <1>1, <1>2, <1>3, <1>4, <1>6 DEF BufferTypes, LimitsBelow, callVars, docVars, queueVars, globalVars
  <1>8. BuffersRight'
    BY <1>1, <1>2, BuffersKept DEF callVars, docVars, globalVars
  <1>9. CallsDocument(g)'
    BY <1>1, <1>2, <1>3, <1>4 DEF CallsDocument, callVars, docVars
  <1>10. CallsSlices(g)'
    BY <1>1, <1>4, <1>5, <1>6 DEF CallsSlices, callVars, queueVars, globalVars
  <1> QED BY <1>1, <1>7, <1>8, <1>9, <1>10, TurnKept DEF Label

LEMMA TryApplyGlobalSliceTurn ==
    ASSUME TurnInv, NEW g \in Goroutines, TryApplyGlobalSlice(g)
    PROVE  TurnInv'
  <1>1. /\ pc[g] = "applyGlobal"
        /\ UNCHANGED <<call, callVars, docVars, queueVars, nextSeqNo, applyVars, accepted>>
    BY DEF TryApplyGlobalSlice
  <1>2. /\ BufferTypes /\ BuffersRight /\ LimitsBelow /\ CallsDocument(g) /\ CallsSlices(g)
        /\ calls \in Nat
    BY <1>1, CallUnderWay
  <1>3. /\ tail = NodeOf(calls) /\ slice.head <= calls /\ next[slice.head] = tail
        /\ slice.tail = tail /\ globalSlice = At(slice.head) /\ term[calls] \in Terms
    BY <1>1, <1>2 DEF CallsSlices
  <1>4. slice.head \in Node /\ tail \in Node /\ slice.head \in Nat
    BY <1>2 DEF BufferTypes, Node
  <1>5. GlobalSlice = [head |-> slice.head, tail |-> tail]
    BY <1>3 DEF GlobalSlice, At
  <1>6. GlobalSlice.head = slice.head /\ GlobalSlice.tail = tail /\ slice.head # tail
    BY <1>2, <1>3, <1>4, <1>5 DEF NodeOf
  <1>7. Reaches(GlobalSlice) /\ TermsOf(GlobalSlice) = {term[tail - 1]}
    BY <1>3, <1>4, <1>6, OneNodeSlice
  <1>8. tail - 1 = calls
    BY <1>2, <1>3 DEF NodeOf
  <1>9. /\ globalUpdates' = globalUpdates \cup {term[calls]}
        /\ globalSlice' = At(tail) /\ Goto(g, "apply")
    BY <1>6, <1>7, <1>8 DEF TryApplyGlobalSlice, AppliedSlice, At
  <1>10. pc' = [pc EXCEPT ![g] = "apply"] /\ pc' \in [Goroutines -> Label] /\ pc'[g] = "apply"
    BY <1>2, <1>9 DEF Goto, BufferTypes, Label
  <1>11. globalSlice' \in [head : Node, tail : Node]
    BY <1>4, <1>9 DEF At
  <1>12. BufferTypes' /\ LimitsBelow'
    BY <1>1, <1>2, <1>10, <1>11 DEF BufferTypes, LimitsBelow, callVars, docVars, queueVars, applyVars
  <1>13. BuffersRight'
    BY <1>1, <1>2, <1>9, BuffersKept DEF callVars, docVars, applyVars
  <1>14. CallsDocument(g)'
    BY <1>1, <1>2, <1>10 DEF CallsDocument, callVars, docVars, applyVars
  <1>15. CallsSlices(g)'
    BY <1>1, <1>3, <1>9, <1>10 DEF CallsSlices, callVars, queueVars, applyVars, At
  <1> QED BY <1>1, <1>9, <1>12, <1>13, <1>14, <1>15, TurnKept DEF Label

LEMMA UpdateSliceTurn ==
    ASSUME TurnInv, NEW g \in Goroutines, UpdateSlice(g)
    PROVE  TurnInv'
  <1>1. /\ pc[g] = "updateSlice" /\ nextSeqNo' = nextSeqNo + 1
        /\ call' = [call EXCEPT ![g].seqNo = nextSeqNo + 1]
        /\ slice' = [slice EXCEPT !.tail = tail]
        /\ UNCHANGED <<callVars, docVars, queueVars, pendingUpdates, globalVars, accepted>>
    BY DEF UpdateSlice
  <1>2. /\ BufferTypes /\ BuffersRight /\ LimitsBelow /\ CallsDocument(g) /\ CallsSlices(g)
        /\ calls \in Nat /\ call[g] \in Records
    BY <1>1, CallUnderWay
  <1>3. call' \in [Goroutines -> Records] /\ call'[g].doc = call[g].doc
        /\ call'[g].docIdUpTo = call[g].docIdUpTo
    BY <1>1, <1>2 DEF BufferTypes, Records
  <1>4. slice = At(tail) /\ globalSlice = At(tail) /\ tail <= calls /\ term[calls] = NoTerm
    BY <1>1, <1>2 DEF CallsSlices
  <1>5. slice.tail = tail /\ slice' = At(tail)
    BY <1>1, <1>4 DEF At
  <1>6. Goto(g, "reset")
    BY <1>5 DEF UpdateSlice
  <1>7. pc' = [pc EXCEPT ![g] = "reset"] /\ pc' \in [Goroutines -> Label] /\ pc'[g] = "reset"
    BY <1>2, <1>6 DEF Goto, BufferTypes, Label
  <1>8. BufferTypes' /\ LimitsBelow'
    <2>1. slice' = slice
      BY <1>4, <1>5
    <2> QED BY <1>1, <1>2, <1>3, <1>7, <2>1
          DEF BufferTypes, LimitsBelow, callVars, docVars, queueVars, globalVars
  <1>9. BuffersRight'
    BY <1>1, <1>2, BuffersKept DEF callVars, docVars, globalVars
  <1>10. CallsDocument(g)'
    BY <1>1, <1>2, <1>3, <1>7 DEF CallsDocument, callVars, docVars
  <1>11. CallsSlices(g)'
    BY <1>1, <1>4, <1>5, <1>7 DEF CallsSlices, callVars, queueVars, globalVars, At
  <1> QED BY <1>1, <1>6, <1>8, <1>9, <1>10, <1>11, TurnKept DEF Label

(* The limit an update buffers is its own doc id, larger than those before,   *)
(* and the update is the newest one.                                          *)
LEMMA AppliedBuffersRight ==
    ASSUME BufferTypes, BuffersRight, NEW u \in Int,
           calls \in Doc, calls \notin accepted, term[calls] \in Terms, term[calls] \in globalUpdates,
           \A t \in Terms : pendingUpdates[t] <= u, <<u, calls>> \in points,
           pendingUpdates' = AddTerms(pendingUpdates, {term[calls]}, u),
           accepted' = accepted \cup {calls}, UNCHANGED <<term, points, globalUpdates>>
    PROVE  BuffersRight'
  <1>. SUFFICES ASSUME NEW t \in Terms
                PROVE  LimitRight(t)' /\ (UpdatedBy(t)' # {} => t \in globalUpdates')
    BY DEF BuffersRight
  <1>1. LimitRight(t) /\ (UpdatedBy(t) # {} => t \in globalUpdates)
    BY DEF BuffersRight
  <1>2. pendingUpdates[t] \in Int /\ pendingUpdates[t] <= u
    BY DEF BufferTypes
  <1>3. CASE t = term[calls]
    <2>1. UpdatedBy(t)' = UpdatedBy(t) \cup {calls}
      BY <1>3 DEF UpdatedBy
    <2>2. pendingUpdates'[t] = u
      BY <1>2, <1>3 DEF AddTerms
    <2>3. \A e \in UpdatedBy(t)' : e <= calls
      BY <2>1 DEF UpdatedBy, BufferTypes, Doc
    <2>4. <<pendingUpdates'[t], calls>> \in points'
      BY <2>2
    <2>5. UpdatedBy(t)' # {} /\ calls \in UpdatedBy(t)'
      BY <2>1
    <2>6. LimitRight(t)'
      BY <2>3, <2>4, <2>5 DEF LimitRight
    <2> QED BY <1>3, <2>6
  <1>4. CASE t # term[calls]
    <2>1. UpdatedBy(t)' = UpdatedBy(t)
      BY <1>4 DEF UpdatedBy
    <2>2. pendingUpdates'[t] = pendingUpdates[t]
      BY <1>4 DEF AddTerms
    <2>3. LimitRight(t)'
      BY <1>1, <2>1, <2>2 DEF LimitRight
    <2> QED BY <1>1, <2>1, <2>3
  <1> QED BY <1>3, <1>4

LEMMA ApplySliceTurn ==
    ASSUME TurnInv, NEW g \in Goroutines, ApplySlice(g)
    PROVE  TurnInv'
  <1>. DEFINE u == call[g].docIdUpTo
  <1>1. /\ pc[g] = "apply"
        /\ UNCHANGED <<call, callVars, docVars, queueVars, nextSeqNo, globalVars>>
    BY DEF ApplySlice
  <1>2. /\ BufferTypes /\ BuffersRight /\ LimitsBelow /\ CallsDocument(g) /\ CallsSlices(g)
        /\ calls \in Nat /\ calls \in Doc /\ u \in Nat /\ numDocsInRAM \in Nat
    BY <1>1, CallUnderWay
  <1>3. /\ tail = NodeOf(calls) /\ slice.head <= calls /\ next[slice.head] = tail
        /\ slice.tail = tail /\ globalSlice = At(tail)
        /\ term[calls] \in Terms /\ term[calls] \in globalUpdates
    BY <1>1, <1>2 DEF CallsSlices
  <1>4. slice.head \in Nat /\ tail \in Node
    BY <1>2 DEF BufferTypes, Node
  <1>5. slice.head # slice.tail /\ tail - 1 = calls
    BY <1>2, <1>3, <1>4 DEF NodeOf
  <1>6. Reaches(slice) /\ TermsOf(slice) = {term[calls]}
    BY <1>3, <1>4, <1>5, OneNodeSlice
  <1>7. call[g].doc = calls /\ calls \notin accepted /\ u <= numDocsInRAM
        /\ (\A t \in Terms : pendingUpdates[t] <= u) /\ <<u, calls>> \in points
    BY <1>1, <1>2 DEF CallsDocument
  <1>8. /\ pendingUpdates' = AddTerms(pendingUpdates, {term[calls]}, u)
        /\ slice' = At(tail) /\ accepted' = accepted \cup {calls} /\ Goto(g, "idle")
    BY <1>3, <1>6, <1>7 DEF ApplySlice, AppliedSlice, Accept, At
  <1>. HIDE DEF u
  <1>9. BuffersRight'
    BY <1>1, <1>2, <1>3, <1>7, <1>8, AppliedBuffersRight DEF callVars, docVars, globalVars
  <1>10. pendingUpdates' \in [Terms -> Int] /\ \A t \in Terms : pendingUpdates'[t] <= u
    BY <1>2, <1>7, <1>8 DEF AddTerms, BufferTypes
  <1>11. LimitsBelow'
    BY <1>1, <1>2, <1>7, <1>10 DEF LimitsBelow, docVars
  <1>12. accepted' \subseteq 1..calls
    BY <1>2, <1>8 DEF BufferTypes, Doc
  <1>13. slice' \in [head : Node, tail : Node]
    BY <1>4, <1>8 DEF At
  <1>14. pc' \in [Goroutines -> Label]
    BY <1>2, <1>8 DEF Goto, BufferTypes, Label
  <1>15. BufferTypes'
    BY <1>1, <1>2, <1>10, <1>12, <1>13, <1>14 DEF BufferTypes, callVars, docVars, queueVars, globalVars
  <1>16. Settled'
    BY <1>1, <1>2, <1>3, <1>8 DEF Settled, callVars, queueVars, globalVars, At, NodeOf
  <1> QED BY <1>1, <1>8, <1>9, <1>11, <1>15, <1>16, TurnKept DEF Label

LEMMA ResetSliceTurn ==
    ASSUME TurnInv, NEW g \in Goroutines, ResetSlice(g)
    PROVE  TurnInv'
  <1>1. /\ pc[g] = "reset" /\ Goto(g, "idle") /\ slice' = AppliedSlice(slice)
        /\ accepted' = accepted \cup {call[g].doc}
        /\ UNCHANGED <<call, callVars, docVars, queueVars, nextSeqNo, pendingUpdates, globalVars>>
    BY DEF ResetSlice, Accept
  <1>2. /\ BufferTypes /\ BuffersRight /\ LimitsBelow /\ CallsDocument(g) /\ CallsSlices(g)
        /\ calls \in Nat /\ calls \in Doc /\ tail \in Nat
    BY <1>1, CallUnderWay
  <1>3. /\ slice = At(tail) /\ globalSlice = At(tail) /\ tail <= calls
        /\ term[calls] = NoTerm /\ call[g].doc = calls
    BY <1>1, <1>2 DEF CallsSlices, CallsDocument
  <1>4. slice' = slice
    BY <1>1, <1>3 DEF AppliedSlice, At
  <1>5. \A t \in Terms : UpdatedBy(t)' = UpdatedBy(t)
    BY <1>1, <1>3, TermsAssumption DEF UpdatedBy, callVars
  <1>6. BuffersRight'
    BY <1>1, <1>2, <1>5 DEF BuffersRight, LimitRight, docVars, globalVars
  <1>7. accepted' \subseteq 1..calls
    BY <1>1, <1>2, <1>3 DEF BufferTypes, Doc
  <1>8. pc' \in [Goroutines -> Label]
    BY <1>1, <1>2 DEF Goto, BufferTypes, Label
  <1>9. BufferTypes' /\ LimitsBelow'
    BY <1>1, <1>2, <1>4, <1>7, <1>8
    DEF BufferTypes, LimitsBelow, callVars, docVars, queueVars, globalVars
  <1>10. Settled'
    BY <1>1, <1>2, <1>3, <1>4 DEF Settled, callVars, queueVars, globalVars, At, NodeOf
  <1> QED BY <1>1, <1>6, <1>9, <1>10, TurnKept DEF Label

LEMMA BufferInvInitially == Init => BufferInv
  <1>. SUFFICES ASSUME Init PROVE TurnInv
    BY DEF BufferInv
  <1>1. \A g \in Goroutines : pc[g] = "idle"
    BY DEF Init
  <1>2. NoCall \in Records /\ 1 \in Node
    BY CallsAssumption DEF NoCall, Records, Node
  <1>3. pc \in [Goroutines -> Label] /\ call \in [Goroutines -> Records]
    BY <1>2 DEF Init, Label
  <1>4. BufferTypes
    BY <1>2, <1>3, CallsAssumption DEF Init, BufferTypes, Sentinel, Nil, NoDocId, Doc
  <1>5. BuffersRight
    BY DEF Init, BuffersRight, LimitRight, UpdatedBy
  <1>6. LimitsBelow /\ Settled
    BY DEF Init, LimitsBelow, Settled, At, NodeOf, Sentinel, NoDocId
  <1> QED BY <1>1, <1>4, <1>5, <1>6 DEF TurnInv, Alone

LEMMA BufferInvInductive == BufferInv /\ [Next]_vars => BufferInv'
  <1>. SUFFICES ASSUME BufferInv, [Next]_vars, serial', (segment = NotFlushed)' PROVE TurnInv'
    BY DEF BufferInv
  <1>1. ASSUME NEW g \in Goroutines, NEW t \in Terms \cup {NoTerm}, NEW fails \in Failing,
               UpdateDocument(g, t, fails)
        PROVE  TurnInv'
    <2>1. serial /\ TurnInv
      BY <1>1 DEF UpdateDocument, BufferInv
    <2> QED BY <1>1, <2>1, UpdateDocumentTurn
  <1>2. ASSUME NEW g \in Goroutines, Step(g)
        PROVE  TurnInv'
    <2>1. UNCHANGED <<serial, segment>>
      BY <1>2 DEF Step, Reserve, PutBack, ProcessDocument, Increment, Link, SetTail, AddSeqNo,
                  TryApplyGlobalSlice, UpdateSlice, ApplySlice, ResetSlice, callVars
    <2>2. TurnInv
      BY <2>1 DEF BufferInv
    <2> QED
      BY <1>2, <2>2, ReserveTurn, PutBackTurn, ProcessTurn, IncrementTurn, LinkTurn, SetTailTurn,
         AddSeqNoTurn, TryApplyGlobalSliceTurn, UpdateSliceTurn, ApplySliceTurn, ResetSliceTurn
      DEF Step
  <1>3. CASE Flush
    <2>1. segment'.state # "none"
      BY <1>3 DEF Flush
    <2> QED BY <2>1 DEF NotFlushed
  <1>4. CASE UNCHANGED vars
    <2>1. TurnInv
      BY <1>4 DEF BufferInv, vars, callVars
    <2>2. UNCHANGED <<pc, call, calls, term, numDocsInRAM, points, nextSeqNo, tail, next, slice,
                      globalSlice, pendingUpdates, globalUpdates, accepted>>
      BY <1>4 DEF vars, callVars, docVars, queueVars, applyVars, globalVars
    <2> QED
      BY <2>1, <2>2 DEF TurnInv, BufferTypes, Alone, BuffersRight, LimitRight, UpdatedBy, LimitsBelow,
                        Settled, CallsDocument, CallsSlices, At, NodeOf
  <1> QED BY <1>1, <1>2, <1>3, <1>4 DEF Next

(* UpdatesAreBuffered: when the callers of UpdateDocument take turns, both    *)
(* buffers of deletes are right between calls, for any number of terms and    *)
(* calls and any mix of adds, updates, failures and rejections.               *)
THEOREM UpdatesBuffered == Spec => []UpdatesAreBuffered
  <1>1. BufferInv => UpdatesAreBuffered
    BY DEF BufferInv, TurnInv, BuffersRight, LimitRight, UpdatesAreBuffered,
           DeleteLimitIsNewestUpdate, GlobalHasEveryTerm, Quiet
  <1> QED BY <1>1, BufferInvInitially, BufferInvInductive, PTL DEF Spec
=============================================================================
