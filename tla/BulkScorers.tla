------------------------------ MODULE BulkScorers ------------------------------
(* core/search/docidsetbuilder.go: the documents a query collects, in buffers  *)
(* while they are few and in a bit set from then on. The visitors of points    *)
(* reserve room with Grow and add through the adder it returns.                *)
(*                                                                             *)
(* `adds` is where the adder adds: the last buffer, the bit set, or a bit set  *)
(* the builder no longer has. `added` is every document that was added.        *)
EXTENDS Integers, Sequences, FiniteSets, SequencesExt, FiniteSetsExt

CONSTANTS
    BuilderMaxDoc,
    Threshold,          \* maxDoc >> 7: the documents that are kept in buffers
    ColdStart,          \* 32: the least capacity of a buffer
    MaxGrow,            \* bound: the documents that are reserved at once
    MaxCounter          \* bound: the documents that are reserved for the bit set

VARIABLE db

BuilderDocs == 0 .. BuilderMaxDoc - 1
NoBits == {-1}
Buffer(size) == [array |-> [i \in 1 .. size |-> 0], length |-> 0]

AdditionalCapacity(d, n) == Min({Threshold - d.total, Max({ColdStart, n + 1, d.total})})
AddBuffer(d, size) ==
    [d EXCEPT !.buffers = Append(@, Buffer(size)), !.total = @ + size, !.adds = "buffer"]

(* growBuffer: the new array is as long as there are buffers, and the capacity. *)
GrowBuffer(d, extra) ==
    LET last == Len(d.buffers)
        old == d.buffers[last].array
        new == [i \in 1 .. last + extra |-> IF i \in DOMAIN old THEN old[i] ELSE 0]
    IN  [d EXCEPT !.buffers[last].array = new, !.total = @ + extra]

EnsureBufferCapacity(d, n) ==
    LET current == Last(d.buffers)
        size == Len(current.array)
    IN  IF d.buffers = <<>> THEN AddBuffer(d, AdditionalCapacity(d, n))
        ELSE IF size - current.length >= n THEN d
        ELSE IF current.length < size - (size \div 8) THEN GrowBuffer(d, AdditionalCapacity(d, n))
        ELSE AddBuffer(d, AdditionalCapacity(d, n))

(* A mutant: only the last buffer is taken over. *)
UpgradeLastBuffer(d) ==
    LET last == IF d.buffers = <<>> THEN Buffer(0) ELSE Last(d.buffers)
    IN  [d EXCEPT !.bits = {last.array[i] : i \in 1 .. last.length},
                  !.counter = last.length, !.buffers = <<>>, !.adds = "bits"]

(* upgradeToBitSet *)
UpgradeToBitSet(d) ==
    IF \E k \in DOMAIN d.buffers : d.buffers[k].length > Len(d.buffers[k].array) THEN [d EXCEPT !.pc = "panic"]
    ELSE [d EXCEPT !.bits = UNION {{d.buffers[k].array[i] : i \in 1 .. d.buffers[k].length} : k \in DOMAIN d.buffers},
                   !.counter = FoldLeft(LAMBDA s, b : s + b.length, 0, d.buffers),
                   !.buffers = <<>>, !.adds = "bits"]

Grow(d, n) ==
    LET up == UpgradeToBitSet(d)
    IN  IF d.bits # NoBits THEN [d EXCEPT !.counter = @ + n]
        ELSE IF d.total + n <= Threshold THEN EnsureBufferCapacity(d, n)
        ELSE IF up.pc = "panic" THEN up ELSE [up EXCEPT !.counter = @ + n]

(* BufferAdder.Add and FixedBitSetAdder.Add *)
AddDoc(d, doc) ==
    LET last == Len(d.buffers)
    IN  CASE d.adds = "bits" -> [d EXCEPT !.bits = @ \cup {doc}]
          [] d.adds = "old bits" -> d
          [] d.adds = "buffer" ->
               IF d.buffers[last].length >= Len(d.buffers[last].array) THEN [d EXCEPT !.pc = "panic"]
               ELSE [d EXCEPT !.buffers[last].array[d.buffers[last].length + 1] = doc,
                              !.buffers[last].length = @ + 1]
RECURSIVE AddDocs(_, _)
AddDocs(d, docs) == IF docs = <<>> \/ d.pc = "panic" THEN d ELSE AddDocs(AddDoc(d, Head(docs)), Tail(docs))

(* Add of an iterator. The union with a bit set is a new one, which the adder *)
(* does not know of.                                                          *)
AddIterator(d, docs, ofBits) ==
    IF d.bits = NoBits THEN AddDocs(Grow(d, Len(docs)), docs)
    ELSE [d EXCEPT !.bits = @ \cup ToSet(docs), !.adds = IF ofBits THEN "old bits" ELSE @]

--------------------------------------------------------------------------------
BuilderInit ==
    db = [pc |-> "open", buffers |-> <<>>, total |-> 0, bits |-> NoBits, counter |-> 0, adds |-> "none",
          reserved |-> 0, added |-> {}]

(* A visitor reserves room, and adds no more than that. *)
GrowFor ==
    /\ db.pc = "open"
    /\ \E n \in 0 .. MaxGrow : db.counter + n <= MaxCounter /\ db' = [Grow(db, n) EXCEPT !.reserved = n]
VisitDoc ==
    /\ db.pc = "open" /\ db.reserved > 0
    /\ \E doc \in BuilderDocs :
           db' = [AddDoc(db, doc) EXCEPT !.reserved = @ - 1, !.added = @ \cup {doc}]

AddAllOf ==
    /\ db.pc = "open"
    /\ \E docs \in SUBSET BuilderDocs, ofBits \in BOOLEAN :
           /\ Cardinality(docs) \in 1 .. MaxGrow
           /\ db' = [AddIterator(db, SetToSortSeq(docs, LAMBDA a, b : a < b), ofBits) EXCEPT
                       !.reserved = 0, !.added = @ \cup docs]

(* Build, and the iterator of what was built; that of an int array is not written. *)
Build ==
    /\ db.pc = "open"
    /\ db' = [db EXCEPT !.pc = IF db.bits = NoBits THEN "panic" ELSE "built", !.reserved = 0]

BuilderNext == GrowFor \/ VisitDoc \/ AddAllOf \/ Build

--------------------------------------------------------------------------------
(* A set that could be built has every document that was added and no other,   *)
(* although it began in buffers; as long as no bit set was added to the        *)
(* builder before the documents.                                               *)
BuiltSetIsExact ==
    db.pc = "built" /\ db.adds = "bits" => db.bits = db.added

(* The same of every set. *)
EverySetIsExact == db.pc = "built" => db.bits = db.added

(* What is collected can be read. *)
EverySetCanBeRead == db.pc # "panic"

--------------------------------------------------------------------------------
(* core/search/weight.go, reqexclbulkscorer.go, reqexclscorer.go,               *)
(* booleanweight.go and matchalldocsquery.go: how the documents of one leaf     *)
(* reach the collector, for a query with one required clause and at most one    *)
(* prohibited one.                                                              *)
(*                                                                              *)
(* Iterators report their end as io.EOF. A clause iterates over all documents   *)
(* or over a bit set: the postings of the text codec cannot be reached (see     *)
(* PostingsText). Scores are those of TopDocsSearch.                            *)

CONSTANT LeafDocs       \* maxDoc of the leaf

VARIABLE bk

NO_MORE_DOCS == LeafDocs + 10
LeafDocIds == 0 .. LeafDocs - 1
Modes == {"exhaustive", "top"}
NoClause == [kind |-> "none", docs |-> {}, doc |-> -1]
Iterators == {[kind |-> "bits", docs |-> d, doc |-> -1] : d \in SUBSET LeafDocIds}
             \cup {[kind |-> "all", docs |-> LeafDocIds, doc |-> -1]}

Least(docs) == CHOOSE d \in docs : \A e \in docs : d <= e
Lesser(a, b) == IF a < b THEN a ELSE b
After(it, doc) == {d \in it.docs : d > doc}

--------------------------------------------------------------------------------
(* The iterators: what a call returns, the iterator after it and whether it     *)
(* ended with io.EOF.                                                           *)
Moved(it, doc) == [it |-> [it EXCEPT !.doc = doc], doc |-> doc, eof |-> FALSE]
Ended(it, doc) == [it |-> [it EXCEPT !.doc = doc], doc |-> 0, eof |-> TRUE]

NextDoc(it) ==
    LET rest == After(it, it.doc)
    IN  IF rest # {} THEN Moved(it, Least(rest))
        ELSE Ended(it, IF it.kind = "all" THEN NO_MORE_DOCS ELSE it.doc)

(* docIdSetIteratorAll and BitSetIterator. *)
Advance(it, target) ==
    LET rest == After(it, target - 1)
    IN  IF rest # {} THEN Moved(it, Least(rest))
        ELSE Ended(it, IF it.kind = "all" THEN NO_MORE_DOCS ELSE it.doc)

--------------------------------------------------------------------------------
(* ReqExclScorer: the two-phase view of clauses without one of their own.       *)
MatchesOrNull(twoPhase, doc) == twoPhase # <<>> /\ doc \in twoPhase[1]
ReqExclMatches(excl, doc) ==
    LET moved == IF excl.doc < doc THEN Advance(excl, doc) ELSE Moved(excl, excl.doc)
    IN  [it |-> moved.it,
         matches |-> /\ ~moved.eof
                     /\ MatchesOrNull(<<>>, doc)
                     /\ moved.doc < doc \/ ~MatchesOrNull(<<>>, doc)]

(* What scoring has collected: the iterator, the document it stands at, the error. *)
Scored(b, req, doc, eof) == [b |-> [b EXCEPT !.req = req], doc |-> doc, eof |-> eof]
CollectLive(b, doc) == IF doc \in b.live THEN [b EXCEPT !.got = Append(@, doc)] ELSE b

(* Whether the document is collected, with the excluding iterator moved. *)
Confirm(b, doc) ==
    LET m == ReqExclMatches(b.excl, doc)
    IN  IF b.scorer # "reqexcl" THEN CollectLive(b, doc)
        ELSE IF m.matches THEN CollectLive([b EXCEPT !.excl = m.it], doc) ELSE [b EXCEPT !.excl = m.it]

(* scoreAll: the end is no error. *)
RECURSIVE ScoreAll(_)
ScoreAll(b) ==
    LET next == NextDoc(b.req)
    IN  IF next.eof THEN Scored(b, next.it, NO_MORE_DOCS, FALSE)
        ELSE ScoreAll(Confirm([b EXCEPT !.req = next.it], next.doc))

(* A mutant: the end of the range is scored too. *)
RECURSIVE RangeToEnd(_, _, _)
RangeToEnd(b, doc, end) ==
    LET c == Confirm(b, doc)
        next == NextDoc(b.req)
    IN  IF doc > end THEN Scored(b, b.req, doc, FALSE)
        ELSE IF next.eof THEN Scored(c, next.it, 0, TRUE)
        ELSE RangeToEnd([c EXCEPT !.req = next.it], next.doc, end)

(* scoreRange: the end is. *)
RECURSIVE ScoreRange(_, _, _)
ScoreRange(b, doc, end) ==
    LET c == Confirm(b, doc)
        next == NextDoc(b.req)
    IN  IF doc >= end THEN Scored(b, b.req, doc, FALSE)
        ELSE IF next.eof THEN Scored(c, next.it, 0, TRUE)
        ELSE ScoreRange([c EXCEPT !.req = next.it], next.doc, end)

(* DefaultBulkScorer.ScoreRange, with a collector that has no iterator of its own. *)
DefaultRange(b, from, to) ==
    LET start == IF b.req.doc < from THEN Advance(b.req, from) ELSE Moved(b.req, b.req.doc)
    IN  IF b.req.doc = -1 /\ from = 0 /\ to = NO_MORE_DOCS THEN ScoreAll(b)
        ELSE IF start.eof THEN Scored(b, start.it, 0, TRUE)
        ELSE ScoreRange([b EXCEPT !.req = start.it], start.doc, to)

(* A mutant: the last document is left out. *)
MatchAllToLast(b, from, to) ==
    LET end == Lesser(LeafDocs - 1, to)
    IN  [b |-> [b EXCEPT !.got = @ \o SetToSortSeq({d \in b.live : d >= from /\ d < end}, <)],
         doc |-> end, eof |-> end = LeafDocs - 1]

(* The bulk scorer of matchAllDocsWeight. *)
MatchAllRange(b, from, to) ==
    LET end == Lesser(LeafDocs, to)
    IN  [b |-> [b EXCEPT !.got = @ \o SetToSortSeq({d \in b.live : d >= from /\ d < end}, <)],
         doc |-> end, eof |-> end = LeafDocs]

RequiredRange(b, from, to) ==
    IF b.mode = "exhaustive" /\ b.req.kind = "all" THEN MatchAllRange(b, from, to) ELSE DefaultRange(b, from, to)

--------------------------------------------------------------------------------
BulkInit ==
    \E mode \in Modes, filter \in BOOLEAN, req \in Iterators, excl \in Iterators \cup {NoClause}, live \in SUBSET LeafDocIds :
        bk = [pc |-> "leaf", scorer |-> "none", mode |-> mode, filter |-> filter, req |-> req, excl |-> excl,
              live |-> live, upTo |-> 0, exclDoc |-> -1, got |-> <<>>]

(* BooleanWeight.BulkScorer, booleanScorer and requiredBulkScorer; the collector *)
(* that disableScoring makes has no function for its competitive iterator.       *)
BulkScorer ==
    LET default == bk.mode = "top"
        excludes == bk.excl # NoClause
        asks == ~(bk.mode = "exhaustive" /\ bk.req.kind = "all")
    IN  /\ bk.pc = "leaf"
        /\ bk' = [bk EXCEPT !.pc = IF ~default /\ bk.filter /\ asks THEN "panic" ELSE "scoring",
                            !.scorer = IF ~excludes THEN "required" ELSE IF default THEN "reqexcl" ELSE "reqexclbulk"]

(* Whether Score takes io.EOF for the end: BaseBulkScorer, of all documents,   *)
(* does; the BulkScorerAnon that disableScoring wraps around it for a filter   *)
(* does not.                                                                   *)
TakesEndForNoError(b) == b.mode = "exhaustive" /\ b.req.kind = "all" /\ ~b.filter

(* Score of everything at once. *)
ScoreLeaf ==
    /\ bk.pc = "scoring" /\ bk.scorer \in {"required", "reqexcl"}
    /\ LET scored == RequiredRange(bk, 0, NO_MORE_DOCS)
       IN  bk' = [scored.b EXCEPT !.pc = IF scored.eof /\ ~TakesEndForNoError(bk) THEN "error" ELSE "done"]

(* ReqExclBulkScorer.ScoreRange, one turn of its loop. One of the iterators ends *)
(* it with io.EOF before the range is done.                                      *)
ScoreReqExcl ==
    /\ bk.pc = "scoring" /\ bk.scorer = "reqexclbulk" /\ bk.upTo < NO_MORE_DOCS
    /\ LET excl == IF bk.exclDoc < bk.upTo THEN Advance(bk.excl, bk.upTo)
                   ELSE [it |-> bk.excl, doc |-> bk.exclDoc, eof |-> FALSE]
           next == NextDoc(excl.it)
           b == [bk EXCEPT !.excl = excl.it, !.exclDoc = excl.doc]
           scored == RequiredRange(b, b.upTo, Lesser(excl.doc, NO_MORE_DOCS))
       IN  bk' = IF excl.eof THEN [b EXCEPT !.pc = "error"]
                 ELSE IF excl.doc = b.upTo
                      THEN [b EXCEPT !.upTo = @ + 1, !.excl = next.it, !.exclDoc = next.doc,
                                     !.pc = IF next.eof THEN "error" ELSE @]
                 ELSE [scored.b EXCEPT !.upTo = scored.doc, !.pc = IF scored.eof THEN "error" ELSE @]

BulkNext == BulkScorer \/ ScoreLeaf \/ ScoreReqExcl

--------------------------------------------------------------------------------
Wanted == (bk.req.docs \cap bk.live) \ bk.excl.docs

InOrder(docs) == SetToSortSeq(docs, <)

(* However the required and the excluding iterator leapfrog and whatever of     *)
(* the leaf is deleted, what reached the collector is an initial part of the    *)
(* matching live documents, in order; while ReqExclBulkScorer scores it is      *)
(* exactly those below the document it has come to. (ReqExclScorer is the       *)
(* exception: it may leave documents out, but collects none that do not match.) *)
BulkCollectsRight ==
    bk.pc # "off" =>
        /\ IF bk.scorer = "reqexcl" THEN ToSet(bk.got) \subseteq Wanted
           ELSE IsPrefix(bk.got, InOrder(Wanted))
        /\ bk.pc = "scoring" => bk.got = InOrder({d \in Wanted : d < bk.upTo})

(* A leaf that was scored without an error was scored completely, and so was    *)
(* one of a single clause whose scoring ended in an error: only an exclusion    *)
(* loses documents.                                                             *)
LossIsReported ==
    \/ bk.pc = "done" /\ bk.scorer # "reqexcl"
    \/ bk.pc = "error" /\ bk.scorer = "required"
    => bk.got = InOrder(Wanted)

(* score_interface.go, BulkScorer.Score, "Scores and collects all matching      *)
(* documents": a leaf that was scored without an error was scored completely.   *)
(* ReqExclScorer matches nothing.                                               *)
AllMatchingCollected == bk.pc = "done" => bk.got = InOrder(Wanted)

(* The end of the documents is no error of a search. ReqExclBulkScorer reports  *)
(* the end of the excluding iterator, and the scorer of a filter that of all    *)
(* documents.                                                                   *)
EndIsNoError == bk.pc # "error"

(* The documents of a leaf reach the collector, or the set that is built of   *)
(* them: only those that match, in order, and all of them unless an error     *)
(* says otherwise.                                                            *)
LeafIsCollected == BulkCollectsRight /\ LossIsReported /\ BuiltSetIsExact
================================================================================
