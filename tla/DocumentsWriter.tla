---------------------------- MODULE DocumentsWriter ----------------------------
(* UpdateDocument from several goroutines: the one DocumentsWriterPerThread   *)
(* that ObtainAndLock hands to every caller, the delete queue with its slices,*)
(* and the flush that turns the buffered documents into a segment.            *)
(*                                                                            *)
(* Sources: core/index/documentswriter.go, documentswriterperthread.go,       *)
(* documentswriterdeletequeue.go, node.go, storedfieldsconsumer.go,           *)
(* defaultindexingchain.go, core/interface/index/bufferedupdates.go.          *)
(*                                                                            *)
(* The n-th call indexes document n, whose key is the term it is updated by,  *)
(* and adds delete node n + 1; node 1 is the queue's sentinel and 0 is nil.   *)
EXTENDS Integers, Sequences, FiniteSets

CONSTANTS
    Goroutines,      \* callers of IndexWriter.UpdateDocument
    Terms,           \* delete terms; a document holds the term it is updated by
    NoTerm,          \* AddDocument: UpdateDocument without a term
    Failing,         \* BOOLEAN set: whether ProcessDocument reports an error
    ActualMaxDocs,   \* GetActualMaxDocs
    ExistingDocs,    \* documents of the segments already in the index
    Serial,          \* BOOLEAN set: whether the callers take turns
    MaxCalls,        \* bound on the calls of UpdateDocument
    MaxConcurrent    \* the same when the callers do not take turns

ASSUME CallsAssumption == MaxCalls \in Nat /\ ActualMaxDocs \in Nat /\ ExistingDocs \in Nat
ASSUME TermsAssumption == NoTerm \notin Terms /\ Failing \subseteq BOOLEAN
ASSUME SerialAssumption == Serial \subseteq BOOLEAN /\ MaxConcurrent \in 0..MaxCalls

VARIABLES
    serial,                             \* this behaviour's callers take turns
    pc, call,                           \* per goroutine: where it is, its call
    calls, term,                        \* calls made; document -> its term
    numDocsInRAM, pendingNumDocs,       \* DWPT counters
    storedFields, points,               \* what the indexing chain has buffered
    tail, next, nextSeqNo,              \* DocumentsWriterDeleteQueue
    slice, pendingUpdates,              \* the DWPT's DeleteSlice and BufferedUpdates
    globalSlice, globalUpdates,         \* globalSlice and globalBufferedUpdates
    accepted,                           \* documents whose UpdateDocument succeeded
    segment                             \* outcome of Flush

docVars == <<numDocsInRAM, storedFields, points>>
queueVars == <<tail, next>>
applyVars == <<slice, pendingUpdates>>
globalVars == <<globalSlice, globalUpdates>>
callVars == <<calls, term, serial>>
vars == <<pc, call, callVars, docVars, pendingNumDocs, queueVars, nextSeqNo, applyVars,
          globalVars, accepted, segment>>

Doc == 1..MaxCalls
Node == 1..(MaxCalls + 1)
Nil == 0
Sentinel == 1
NodeOf(d) == d + 1
NoDocId == -1
NoCall == [doc |-> 0, fails |-> FALSE, docIdUpTo |-> 0, seqNo |-> 0]
NotFlushed == [state |-> "none", docs |-> {}]

Init ==
    /\ serial \in Serial
    /\ pc = [g \in Goroutines |-> "idle"]
    /\ call = [g \in Goroutines |-> NoCall]
    /\ calls = 0 /\ term = [d \in Doc |-> NoTerm]
    /\ numDocsInRAM = 0 /\ pendingNumDocs = 0
    /\ storedFields = <<>> /\ points = {}
    /\ tail = Sentinel /\ next = [n \in Node |-> Nil] /\ nextSeqNo = -1
    /\ slice = [head |-> Sentinel, tail |-> Sentinel]
    /\ pendingUpdates = [t \in Terms |-> NoDocId]
    /\ globalSlice = [head |-> Sentinel, tail |-> Sentinel]
    /\ globalUpdates = {}
    /\ accepted = {}
    /\ segment = NotFlushed

Goto(g, label) == pc' = [pc EXCEPT ![g] = label]

-----------------------------------------------------------------------------
(* IndexWriter.UpdateDocument up to DWPT.updateDocuments's docsInRamBefore.   *)
UpdateDocument(g, t, fails) ==
    /\ pc[g] = "idle" /\ segment = NotFlushed
    /\ calls < IF serial THEN MaxCalls ELSE MaxConcurrent
    /\ serial => \A h \in Goroutines : pc[h] = "idle"
    /\ calls' = calls + 1
    /\ term' = [term EXCEPT ![calls + 1] = t]
    /\ call' = [call EXCEPT ![g] = [NoCall EXCEPT !.doc = calls + 1, !.fails = fails,
                                                  !.docIdUpTo = numDocsInRAM]]
    /\ Goto(g, "reserve")
    /\ UNCHANGED <<serial, docVars, pendingNumDocs, queueVars, nextSeqNo, applyVars, globalVars,
                   accepted, segment>>

(* reserveOneDoc: two atomic additions, so a concurrent caller sees the       *)
(* document that is about to be put back.                                     *)
WithinLimitOffByOne(n) == n <= ActualMaxDocs + 1
WithinLimit(n) == n <= ActualMaxDocs
Reserve(g) ==
    /\ pc[g] = "reserve"
    /\ pendingNumDocs' = pendingNumDocs + 1
    /\ Goto(g, IF WithinLimit(pendingNumDocs + 1) THEN "process" ELSE "putback")
    /\ UNCHANGED <<call, callVars, docVars, queueVars, nextSeqNo, applyVars, globalVars,
                   accepted, segment>>
PutBack(g) ==
    /\ pc[g] = "putback"
    /\ pendingNumDocs' = pendingNumDocs - 1
    /\ Goto(g, "idle")
    /\ UNCHANGED <<call, callVars, docVars, queueVars, nextSeqNo, applyVars, globalVars,
                   accepted, segment>>

(* ProcessDocument at docId: startStoredFields pads up to docId and opens the *)
(* document, then the fields are consumed.  A failing document (a field with  *)
(* doc values, whose indexDocValue always reports an error) leaves its stored *)
(* document and the points of its earlier fields behind, and does not consume *)
(* the doc id.                                                                *)
Padding(docId) == [i \in 1..(docId - Len(storedFields)) |-> 0]
WithPoint(g) == points \cup {<<numDocsInRAM, call[g].doc>>}
ProcessDocument(g) ==
    /\ pc[g] = "process"
    /\ storedFields' = storedFields \o Padding(numDocsInRAM) \o <<call[g].doc>>
    /\ IF call[g].fails
       THEN points' \in {points, WithPoint(g)} /\ Goto(g, "idle")
       ELSE points' = WithPoint(g) /\ Goto(g, "increment")
    /\ UNCHANGED <<call, callVars, numDocsInRAM, pendingNumDocs, queueVars, nextSeqNo, applyVars,
                   globalVars, accepted, segment>>

Increment(g) ==
    /\ pc[g] = "increment"
    /\ numDocsInRAM' = numDocsInRAM + 1
    /\ Goto(g, IF term[call[g].doc] = NoTerm THEN "updateSlice" ELSE "link")
    /\ UNCHANGED <<call, callVars, storedFields, points, pendingNumDocs, queueVars, nextSeqNo,
                   applyVars, globalVars, accepted, segment>>

-----------------------------------------------------------------------------
(* DocumentsWriterDeleteQueue.add: two assignments and the sequence number.   *)
Link(g) ==
    /\ pc[g] = "link"
    /\ next' = [next EXCEPT ![tail] = NodeOf(call[g].doc)]
    /\ Goto(g, "tail")
    /\ UNCHANGED <<call, callVars, docVars, pendingNumDocs, tail, nextSeqNo, applyVars,
                   globalVars, accepted, segment>>
SetTail(g) ==
    /\ pc[g] = "tail"
    /\ tail' = NodeOf(call[g].doc)
    /\ Goto(g, "addSeqNo")
    /\ UNCHANGED <<call, callVars, docVars, pendingNumDocs, next, nextSeqNo, applyVars,
                   globalVars, accepted, segment>>
AddSeqNo(g) ==
    /\ pc[g] = "addSeqNo"
    /\ nextSeqNo' = nextSeqNo + 1
    /\ call' = [call EXCEPT ![g].seqNo = nextSeqNo + 1]
    /\ slice' = [slice EXCEPT !.tail = NodeOf(call[g].doc)]
    /\ Goto(g, "applyGlobal")
    /\ UNCHANGED <<callVars, docVars, pendingNumDocs, queueVars, pendingUpdates, globalVars,
                   accepted, segment>>

(* DeleteSlice.Apply follows next from the head until it meets the tail; it   *)
(* dereferences nil when the chain ends first.                                *)
Follow(head) ==
    LET f[k \in Node] == IF k = 1 THEN next[head]
                         ELSE IF f[k - 1] = Nil THEN Nil ELSE next[f[k - 1]]
    IN f
Reaches(s) == s.head # s.tail => \E k \in Node : Follow(s.head)[k] = s.tail
NodesOf(s) ==
    IF s.head = s.tail THEN {}
    ELSE {Follow(s.head)[k] : k \in {i \in Node : \A j \in 1..(i - 1) : Follow(s.head)[j] # s.tail}}
TermsOf(s) == {term[n - 1] : n \in NodesOf(s) \ {Nil}}
AppliedSlice(s) == [head |-> s.tail, tail |-> s.tail]

(* BufferedUpdates.AddTerm keeps the larger limit. *)
AddTermsOnce(updates, terms, docIdUpTo) ==
    [t \in Terms |-> IF t \in terms /\ updates[t] = NoDocId THEN docIdUpTo ELSE updates[t]]
AddTerms(updates, terms, docIdUpTo) ==
    [t \in Terms |-> IF t \in terms /\ updates[t] <= docIdUpTo THEN docIdUpTo ELSE updates[t]]

(* tryApplyGlobalSlice, under globalBufferLock. *)
GlobalSliceNotMoved == globalSlice
GlobalSlice == [globalSlice EXCEPT !.tail = tail]
TryApplyGlobalSlice(g) ==
    /\ pc[g] = "applyGlobal"
    /\ IF Reaches(GlobalSlice)
       THEN /\ globalUpdates' = globalUpdates \cup TermsOf(GlobalSlice)
            /\ globalSlice' = AppliedSlice(GlobalSlice)
            /\ Goto(g, "apply")
       ELSE Goto(g, "panic") /\ UNCHANGED globalVars
    /\ UNCHANGED <<call, callVars, docVars, pendingNumDocs, queueVars, nextSeqNo, applyVars,
                   accepted, segment>>

(* UpdateSlice.  The first number handed out is 0, whose negation is not      *)
(* negative, so a change seen together with it is not reported.               *)
UpdateSlice(g) ==
    /\ pc[g] = "updateSlice"
    /\ nextSeqNo' = nextSeqNo + 1
    /\ slice' = [slice EXCEPT !.tail = tail]
    /\ call' = [call EXCEPT ![g].seqNo = nextSeqNo + 1]
    /\ Goto(g, IF slice.tail # tail /\ nextSeqNo + 1 # 0 THEN "apply" ELSE "reset")
    /\ UNCHANGED <<callVars, docVars, pendingNumDocs, queueVars, pendingUpdates, globalVars,
                   accepted, segment>>

Accept(g) == accepted' = accepted \cup {call[g].doc}

(* finishDocuments: deleteSlice.Apply(pendingUpdates, docIdUpTo). *)
ApplySlice(g) ==
    /\ pc[g] = "apply"
    /\ IF Reaches(slice)
       THEN /\ pendingUpdates' = AddTerms(pendingUpdates, TermsOf(slice), call[g].docIdUpTo)
            /\ slice' = AppliedSlice(slice)
            /\ Accept(g)
            /\ Goto(g, "idle")
       ELSE Goto(g, "panic") /\ UNCHANGED <<applyVars, accepted>>
    /\ UNCHANGED <<call, callVars, docVars, pendingNumDocs, queueVars, nextSeqNo, globalVars,
                   segment>>

ResetSlice(g) ==
    /\ pc[g] = "reset"
    /\ slice' = AppliedSlice(slice)
    /\ Accept(g)
    /\ Goto(g, "idle")
    /\ UNCHANGED <<call, callVars, docVars, pendingNumDocs, queueVars, nextSeqNo,
                   pendingUpdates, globalVars, segment>>

-----------------------------------------------------------------------------
(* DocumentsWriter.Flush with no caller inside: maxDoc is numDocsInRAM and the*)
(* stored fields writer refuses another number of documents.  No doc id is    *)
(* ever put into deleteDocIDs, and ClearDeleteTerms drops the buffered terms. *)
Live == {p[2] : p \in points}
Flush ==
    /\ segment = NotFlushed /\ calls > 0
    /\ \A g \in Goroutines : pc[g] = "idle"
    /\ segment' = IF Len(storedFields) = numDocsInRAM
                  THEN [state |-> "flushed", docs |-> Live]
                  ELSE [state |-> "failed", docs |-> {}]
    /\ pendingUpdates' = [t \in Terms |-> NoDocId]
    /\ UNCHANGED <<pc, call, callVars, docVars, pendingNumDocs, queueVars, nextSeqNo, slice,
                   globalVars, accepted>>

(* One step of a call that is under way. *)
Step(g) ==
    \/ Reserve(g)
    \/ PutBack(g)
    \/ ProcessDocument(g)
    \/ Increment(g)
    \/ Link(g)
    \/ SetTail(g)
    \/ AddSeqNo(g)
    \/ TryApplyGlobalSlice(g)
    \/ UpdateSlice(g)
    \/ ApplySlice(g)
    \/ ResetSlice(g)

Next ==
    \/ \E g \in Goroutines, t \in Terms \cup {NoTerm}, fails \in Failing : UpdateDocument(g, t, fails)
    \/ \E g \in Goroutines : Step(g)
    \/ Flush

Spec == Init /\ [][Next]_vars

-----------------------------------------------------------------------------
DeleteSlice == [head : Node, tail : Node]

(* Counters stay within the calls made, and both slices always point at nodes *)
(* of the delete queue.                                                       *)
DTypeOK ==
    /\ serial \in BOOLEAN
    /\ pc \in [Goroutines -> {"idle", "reserve", "putback", "process", "increment", "link", "tail",
                              "addSeqNo", "applyGlobal", "updateSlice", "apply", "reset", "panic"}]
    /\ call \in [Goroutines -> [doc : 0..MaxCalls, fails : BOOLEAN, docIdUpTo : 0..MaxCalls,
                                seqNo : 0..MaxCalls]]
    /\ calls \in 0..MaxCalls /\ term \in [Doc -> Terms \cup {NoTerm}]
    /\ numDocsInRAM \in 0..MaxCalls /\ pendingNumDocs \in 0..MaxCalls
    /\ storedFields \in Seq(0..MaxCalls) /\ points \subseteq (0..MaxCalls) \X Doc
    /\ tail \in Node /\ next \in [Node -> Node \cup {Nil}] /\ nextSeqNo \in -1..MaxCalls
    /\ slice \in DeleteSlice /\ globalSlice \in DeleteSlice
    /\ pendingUpdates \in [Terms -> -1..MaxCalls] /\ globalUpdates \subseteq Terms
    /\ accepted \subseteq Doc
    /\ segment \in [state : {"none", "flushed", "failed"}, docs : SUBSET Doc]

Quiet == serial /\ segment = NotFlushed /\ \A g \in Goroutines : pc[g] = "idle"
UpdatedBy(t) == {d \in accepted : term[d] = t}

(* reserveOneDoc: however callers interleave its two additions, the segment   *)
(* never buffers more documents than GetActualMaxDocs.                        *)
DocLimitKept == numDocsInRAM <= ActualMaxDocs

(* An update deletes every earlier document with its term and never itself:   *)
(* between calls of callers that take turns, the limit buffered for a term is *)
(* the doc id of the newest document updated by it, whatever adds, updates,   *)
(* failures and rejections came between.                                      *)
DeleteLimitIsNewestUpdate ==
    Quiet => \A t \in Terms :
        IF UpdatedBy(t) = {} THEN pendingUpdates[t] = NoDocId
        ELSE \E d \in UpdatedBy(t) : /\ \A e \in UpdatedBy(t) : e <= d
                                     /\ <<pendingUpdates[t], d>> \in points

(* The global buffer, which is for the segments already written, has the      *)
(* delete term of every update that returned.                                 *)
GlobalHasEveryTerm ==
    Quiet => \A t \in Terms : UpdatedBy(t) # {} => t \in globalUpdates

(* "There is an initial synchronized call to ObtainAndLock() which allocates a*)
(* DWPT for this indexing thread": no two documents share a doc id.           *)
UniqueDocIDs == \A p, q \in points : p[1] = q[1] => p = q

(* DeleteSlice.Apply: "If the head and tail in this slice are not equal then  *)
(* there will be at least one more non-null node in the slice!"               *)
SliceReachesTail == \A g \in Goroutines : pc[g] # "panic"

(* "the document is always atomically ("all or none") added": a document that *)
(* fails leaves the documents that were accepted in the flushed segment.      *)
AcceptedDocumentsFlushed == segment # NotFlushed => accepted \subseteq segment.docs

(* "Anything that will add N docs to the index should reserve first to make   *)
(* sure it's allowed": the limit holds for the whole index.                   *)
IndexDocLimitKept == ExistingDocs + numDocsInRAM <= ActualMaxDocs

(* Both buffers of deletes are right between calls of callers that take turns: *)
(* an update deletes the earlier documents with its term, here and in the      *)
(* segments already written, and never itself (DeleteSlice.Apply,              *)
(* tryApplyGlobalSlice).                                                       *)
UpdatesAreBuffered == DeleteLimitIsNewestUpdate /\ GlobalHasEveryTerm
================================================================================
