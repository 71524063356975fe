----------------------------- MODULE TopDocsSearch -----------------------------
(* IndexSearcher.SearchTopN of core/search: the leaves of a reader are scored *)
(* one after the other into one TopScoreDocCollector, which keeps the best    *)
(* hits in a heap filled with sentinels and, once it has counted enough hits, *)
(* tells the scorer which scores no longer matter; and MergeTopDocs, which    *)
(* merges the answers of several searchers.                                   *)
(*                                                                            *)
(* A scorer is any Scorer: its postings are given and, as the contract of     *)
(* SetMinCompetitiveScore lets it, it may leave out a document whose score is *)
(* below the minimum it was last given.  Searches run on one goroutine (the   *)
(* searcher never has leaf slices), with the local hit counter and without a  *)
(* MaxScoreAccumulator; the collector for paging cannot be constructed.       *)
(*                                                                            *)
(* Source: core/search/indexsearcher.go, topscoredoccollector.go,             *)
(* topdocscollector.go, topdocs.go, hitsthresholdchecker.go, weight.go.       *)
EXTENDS Integers, SequencesExt, FiniteSetsExt

CONSTANTS
    Readers,           \* Readers[i]: what the i-th searched reader may hold
    NumHits,           \* the numbers of hits asked for
    Pages,             \* [start, size, setShardIndex] asked of collector or merge
    TotalHitsThreshold \* TOTAL_HITS_THRESHOLD, 1000 in the code

(* A reader is a sequence of leaves, a leaf a sequence of documents, a         *)
(* document its score for the query, or NoMatch, and whether it is live.       *)
NoMatch == -1
NegInf == -1           \* math.Inf(-1), the score of a sentinel
MaxDocID == 100        \* math.MaxInt32, the document of a sentinel

Docs == [score : Nat \cup {NoMatch}, live : BOOLEAN]

ASSUME SearchAssumption ==
    /\ Readers \in Seq(SUBSET Seq(Seq(Docs)))
    /\ NumHits \subseteq Nat
    /\ Pages \subseteq [start : Nat, size : Nat, setShardIndex : BOOLEAN]
    /\ TotalHitsThreshold \in Nat

VARIABLES
    reader,       \* the reader of each searcher
    wanted,       \* numHits, the same for every search
    shards,       \* the TopDocs of the finished searches
    pc,           \* "search", "leaf", "score", "done", "merged" or "failed"
    leaf, doc,    \* the current leaf and the iterator's document, from 1
    pq,           \* the collector's heap of hits
    totalHits, totalHitsRelation, minCompetitiveScore,
    scorerMin,    \* the minimum the current scorer was given
    page, answer  \* the page asked for and what the call returned

collector == <<pq, totalHits, totalHitsRelation, minCompetitiveScore>>
searchVars == <<reader, wanted, shards, pc, leaf, doc, collector, scorerMin, page, answer>>

Current == reader[Len(shards) + 1]

(* The sums of the first i counts of a sequence of them. *)
Sums(counts) ==
    LET sum[i \in 0 .. Len(counts)] == IF i = 0 THEN 0 ELSE sum[i - 1] + counts[i]
    IN  sum

(* The leaves of a reader are numbered one after the other. *)
DocCounts(r) == [l \in DOMAIN r |-> Len(r[l])]
MaxDoc(r) == Sums(DocCounts(r))[Len(r)]
DocBase(r, l) == Sums(DocCounts(r))[l - 1]
Matching(l) == {d \in DOMAIN Current[l] : Current[l][d].score # NoMatch}

Hit(d, score) == [doc |-> d, score |-> score, shardIndex |-> -1]
Sentinel == Hit(MaxDocID, NegInf)
NoPage == [start |-> 0, size |-> 0, setShardIndex |-> FALSE]
EmptyTopDocs == [totalHits |-> 0, relation |-> "EQUAL_TO", scoreDocs |-> <<>>]

(* A mutant: ties are broken the other way. *)
HitLessLaterFirst(a, b) ==
    IF a.score = b.score THEN a.doc < b.doc ELSE a.score < b.score

(* The order of the hit queue: the worst hit is the least. *)
HitLess(a, b) == IF a.score = b.score THEN a.doc > b.doc ELSE a.score < b.score

HitQueue == INSTANCE PriorityQueue WITH LessThan <- HitLess, None <- Sentinel

-----------------------------------------------------------------------------
(* SearchAfter without an after: numHits is capped by the documents there are, *)
(* and a collector for no hits is refused.                                     *)
CappedNumHits == Min({wanted, Max({1, MaxDoc(Current)})})

SearchTopN ==
    /\ pc = "search"
    /\ Len(shards) < Len(reader)
    /\ IF CappedNumHits = 0
       THEN pc' = "failed" /\ UNCHANGED <<leaf, collector>>
       ELSE /\ pc' = "leaf"
            /\ leaf' = 1
            /\ pq' = HitQueue!SetSize(HitQueue!NewPriorityQueue(CappedNumHits, Sentinel),
                                      CappedNumHits)
            /\ totalHits' = 0
            /\ totalHitsRelation' = "EQUAL_TO"
            /\ minCompetitiveScore' = 0
    /\ UNCHANGED <<reader, wanted, shards, doc, scorerMin, page, answer>>

(* HitsThresholdChecker.IsThresholdReached: its count is that of the collector. *)
IsThresholdReached(hits) == hits > Max({TotalHitsThreshold, wanted})

(* A mutant: the count is still reported as exact. *)
UpdateMinKeepsRelation(q, hits, min, smin) ==
    /\ scorerMin' = IF IsThresholdReached(hits) /\ HitQueue!Top(q).score > min
                    THEN HitQueue!Top(q).score ELSE smin
    /\ minCompetitiveScore' = IF IsThresholdReached(hits) /\ HitQueue!Top(q).score > min
                              THEN HitQueue!Top(q).score ELSE min
    /\ UNCHANGED totalHitsRelation

(* A mutant: the minimum is the next score above the worst hit's. *)
UpdateMinNextScore(q, hits, min, smin) ==
    IF /\ IsThresholdReached(hits)
       /\ HitQueue!Top(q).score # NegInf
       /\ HitQueue!Top(q).score + 1 > min
    THEN /\ scorerMin' = HitQueue!Top(q).score + 1
         /\ minCompetitiveScore' = HitQueue!Top(q).score + 1
         /\ totalHitsRelation' = "GREATER_THAN_OR_EQUAL_TO"
    ELSE /\ scorerMin' = smin
         /\ minCompetitiveScore' = min
         /\ UNCHANGED totalHitsRelation

(* updateMinCompetitiveScore for a queue, a hit count and a current minimum. *)
UpdateMinCompetitiveScore(q, hits, min, smin) ==
    IF /\ IsThresholdReached(hits)
       /\ HitQueue!Top(q).score # NegInf
       /\ HitQueue!Top(q).score > min
    THEN /\ scorerMin' = HitQueue!Top(q).score
         /\ minCompetitiveScore' = HitQueue!Top(q).score
         /\ totalHitsRelation' = "GREATER_THAN_OR_EQUAL_TO"
    ELSE /\ scorerMin' = smin
         /\ minCompetitiveScore' = min
         /\ UNCHANGED totalHitsRelation

(* SearchLeaves: GetLeafCollector forgets the minimum; a leaf without matches *)
(* has no scorer, and the others get one, which SetScorer tells the minimum.  *)
GetLeafCollector ==
    /\ pc = "leaf"
    /\ leaf <= Len(Current)
    /\ IF Matching(leaf) = {}
       THEN /\ minCompetitiveScore' = 0
            /\ leaf' = leaf + 1
            /\ UNCHANGED <<pc, doc, scorerMin, totalHitsRelation>>
       ELSE /\ UpdateMinCompetitiveScore(pq, totalHits, 0, 0)
            /\ pc' = "score"
            /\ doc' = 0
            /\ UNCHANGED leaf
    /\ UNCHANGED <<reader, wanted, shards, pq, totalHits, page, answer>>

(* The iterator may leave out what scores below the scorer's minimum. *)
MaySkip(from, to) ==
    \A d \in Matching(leaf) : from < d /\ d < to => Current[leaf][d].score < scorerMin

(* simpleTopScoreDocCollectorLeafCollector.Collect *)
Collect(d) ==
    LET score == Current[leaf][d].score
        better == HitQueue!UpdateTop(pq, Hit(d - 1 + DocBase(Current, leaf), score))
    IN  /\ totalHits' = totalHits + 1
        /\ IF score <= HitQueue!Top(pq).score
           THEN /\ pq' = pq
                /\ IF totalHitsRelation = "EQUAL_TO"
                   THEN UpdateMinCompetitiveScore(pq, totalHits + 1,
                                                  minCompetitiveScore, scorerMin)
                   ELSE UNCHANGED <<scorerMin, minCompetitiveScore, totalHitsRelation>>
           ELSE /\ pq' = better
                /\ UpdateMinCompetitiveScore(better, totalHits + 1,
                                             minCompetitiveScore, scorerMin)

(* scoreAll: one step of its loop; a deleted document is not collected. *)
ScoreDoc ==
    /\ pc = "score"
    /\ \E d \in Matching(leaf) :
        /\ d > doc
        /\ MaySkip(doc, d)
        /\ doc' = d
        /\ IF Current[leaf][d].live
           THEN Collect(d)
           ELSE UNCHANGED <<collector, scorerMin>>
    /\ UNCHANGED <<reader, wanted, shards, pc, leaf, page, answer>>

(* The iterator is exhausted (io.EOF). *)
LeafDone ==
    /\ pc = "score"
    /\ MaySkip(doc, Len(Current[leaf]) + 1)
    /\ pc' = "leaf"
    /\ leaf' = leaf + 1
    /\ UNCHANGED <<reader, wanted, shards, doc, collector, scorerMin, page, answer>>

-----------------------------------------------------------------------------
(* TopDocsCollectorDefault: the last howMany of the hits from start on, read   *)
(* off the heap from the worst to the best after the sentinels are popped.     *)
TopDocsSize == Min({totalHits, pq.size})

Unwound(q, n) ==
    LET pops[i \in 0 .. n] == IF i = 0 THEN q ELSE HitQueue!Popped(pops[i - 1])
    IN  pops[n]

(* A mutant: the sentinels are not popped. *)
TopDocsRangeKeepsSentinels(start, howMany) ==
    IF start >= TopDocsSize \/ howMany <= 0 THEN EmptyTopDocs
    ELSE LET n == Min({TopDocsSize - start, howMany})
             first == Unwound(pq, TopDocsSize - start - n)
         IN  [totalHits |-> totalHits, relation |-> totalHitsRelation,
              scoreDocs |-> [i \in 1 .. n |-> HitQueue!Top(Unwound(first, n - i))]]

TopDocsRange(start, howMany) ==
    IF start >= TopDocsSize \/ howMany <= 0 THEN EmptyTopDocs
    ELSE LET n == Min({TopDocsSize - start, howMany})
             first == Unwound(pq, pq.size - start - n)
         IN  [totalHits |-> totalHits, relation |-> totalHitsRelation,
              scoreDocs |-> [i \in 1 .. n |-> HitQueue!Top(Unwound(first, n - i))]]

-----------------------------------------------------------------------------
(* mergeAuxTopDocs without a sort.  A ShardRef is the next hit of a shard; the *)
(* merge queue holds one for every shard with hits left, the best on top.      *)
ShardRef(shardHits, setShardIndex, shard, i) ==
    LET hit == shardHits[shard].scoreDocs[i]
    IN  [shard |-> shard, hitIndex |-> i, score |-> hit.score,
         shardIndex |-> IF setShardIndex THEN shard - 1 ELSE hit.shardIndex]

(* A mutant: hits of the same score are merged by their place in the shard. *)
RefLessByRank(a, b) ==
    a.score > b.score \/ (a.score = b.score /\ a.hitIndex < b.hitIndex)

RefLess(a, b) ==
    \/ a.score > b.score
    \/ a.score = b.score /\ a.shardIndex < b.shardIndex
    \/ a.score = b.score /\ a.shardIndex = b.shardIndex /\ a.hitIndex < b.hitIndex

MergeQueue == INSTANCE PriorityQueue WITH LessThan <- RefLess, None <- Sentinel

(* The queue and the hits after n rounds of the loop. *)
MergeRounds(shardHits, setShardIndex, n) ==
    LET Ref(s, i) == ShardRef(shardHits, setShardIndex, s, i)
        filled[s \in 0 .. Len(shardHits)] ==
            IF s = 0 THEN MergeQueue!NewPriorityQueue(Len(shardHits), Sentinel)
            ELSE IF shardHits[s].scoreDocs = <<>> THEN filled[s - 1]
            ELSE MergeQueue!Add(filled[s - 1], Ref(s, 1))
        Round(state) ==
            LET ref == MergeQueue!Top(state.queue)
                hit == shardHits[ref.shard].scoreDocs[ref.hitIndex]
            IN  [queue |-> IF ref.hitIndex < Len(shardHits[ref.shard].scoreDocs)
                           THEN MergeQueue!UpdateTop(state.queue, Ref(ref.shard, ref.hitIndex + 1))
                           ELSE MergeQueue!Popped(state.queue),
                 hits |-> Append(state.hits, [hit EXCEPT !.shardIndex = ref.shardIndex])]
        rounds[i \in 0 .. n] ==
            IF i = 0 THEN [queue |-> filled[Len(shardHits)], hits |-> <<>>] ELSE Round(rounds[i - 1])
    IN  rounds[n].hits

HitCounts(shardHits) == [s \in DOMAIN shardHits |-> Len(shardHits[s].scoreDocs)]
TotalHits(shardHits) == Sums([s \in DOMAIN shardHits |-> shardHits[s].totalHits])[Len(shardHits)]

(* An empty sequence stands for the error: setShardIndex is false and a hit   *)
(* that was reached never got a shard index.                                  *)
MergeTopDocs(start, size, shardHits, setShardIndex) ==
    LET available == Sums(HitCounts(shardHits))[Len(shardHits)]
        n == IF available <= start THEN 0 ELSE Min({available, start + size})
        hits == MergeRounds(shardHits, setShardIndex, n)
    IN  IF \E i \in 1 .. n : hits[i].shardIndex = -1 THEN <<>>
        ELSE <<[totalHits |-> TotalHits(shardHits),
                relation |-> IF \E i \in DOMAIN shardHits :
                                    shardHits[i].relation = "GREATER_THAN_OR_EQUAL_TO"
                             THEN "GREATER_THAN_OR_EQUAL_TO" ELSE "EQUAL_TO",
                scoreDocs |-> SubSeq(hits, start + 1, n)]>>

-----------------------------------------------------------------------------
(* searchAfterCollectorManager.Reduce: the only collector's answer is merged. *)
Reduce ==
    /\ pc = "leaf"
    /\ leaf > Len(Current)
    /\ shards' = shards \o MergeTopDocs(0, CappedNumHits, <<TopDocsRange(0, TopDocsSize)>>, TRUE)
    /\ pc' = "search"
    /\ UNCHANGED <<reader, wanted, leaf, doc, collector, scorerMin, page, answer>>

(* TopDocs of a caller that passed a collector of its own to Search. *)
TopDocs ==
    /\ pc = "leaf"
    /\ leaf > Len(Current)
    /\ shards' = Append(shards, TopDocsRange(0, TopDocsSize))
    /\ pc' = "search"
    /\ UNCHANGED <<reader, wanted, leaf, doc, collector, scorerMin, page, answer>>

(* The same caller asks for one page instead. *)
AskForPage ==
    /\ pc = "leaf"
    /\ leaf > Len(Current)
    /\ \E p \in Pages :
        /\ page' = p
        /\ answer' = TopDocsRange(p.start, p.size)
    /\ pc' = "done"
    /\ UNCHANGED <<reader, wanted, shards, leaf, doc, collector, scorerMin>>

(* The answers of all searchers are merged for a page. *)
Merge ==
    /\ pc = "search"
    /\ Len(shards) = Len(reader)
    /\ \E p \in Pages :
        LET merged == MergeTopDocs(p.start, p.size, shards, p.setShardIndex)
        IN  /\ page' = p
            /\ IF merged = <<>>
               THEN pc' = "failed" /\ UNCHANGED answer
               ELSE pc' = "merged" /\ answer' = merged[1]
    /\ UNCHANGED <<reader, wanted, shards, leaf, doc, collector, scorerMin>>

SearchInit ==
    /\ reader \in {r \in [DOMAIN Readers -> UNION {Readers[i] : i \in DOMAIN Readers}] :
                        \A i \in DOMAIN Readers : r[i] \in Readers[i]}
    /\ wanted \in NumHits
    /\ shards = <<>>
    /\ pc = "search"
    /\ leaf = 1
    /\ doc = 0
    /\ pq = HitQueue!NewPriorityQueue(1, Sentinel)
    /\ totalHits = 0
    /\ totalHitsRelation = "EQUAL_TO"
    /\ minCompetitiveScore = 0
    /\ scorerMin = 0
    /\ page = NoPage
    /\ answer = EmptyTopDocs

SearchNext ==
    \/ SearchTopN
    \/ GetLeafCollector
    \/ ScoreDoc
    \/ LeafDone
    \/ Reduce
    \/ TopDocs
    \/ AskForPage
    \/ Merge

SearchSpec == SearchInit /\ [][SearchNext]_searchVars

-----------------------------------------------------------------------------
(* What a search should find: the live documents that match, best first, ties *)
(* in document order.                                                         *)
Matches(r) ==
    UNION {{[doc |-> DocBase(r, l) + d - 1, score |-> r[l][d].score] :
                d \in {e \in DOMAIN r[l] : r[l][e].live /\ r[l][e].score # NoMatch}} :
            l \in DOMAIN r}

(* The elements of S by the number of those that come before them. *)
RankedBy(S, Before(_, _)) ==
    [i \in 1 .. Cardinality(S) |->
        CHOOSE x \in S : Cardinality({y \in S : Before(y, x)}) = i - 1]

Better(a, b) == HitLess(b, a)
Ranked(r) == RankedBy(Matches(r), Better)
Best(r) == SubSeq(Ranked(r), 1, Min({wanted, Len(Ranked(r))}))
Plain(hits) == [i \in DOMAIN hits |-> [doc |-> hits[i].doc, score |-> hits[i].score]]
Window(s, p) == SubSeq(s, p.start + 1, Min({p.start + p.size, Len(s)}))

(* The type of the state. *)
SearchTypeOK ==
    /\ wanted \in NumHits
    /\ pc \in {"search", "leaf", "score", "done", "merged", "failed"}
    /\ totalHits \in Nat /\ minCompetitiveScore \in Nat /\ scorerMin \in Nat
    /\ totalHitsRelation \in {"EQUAL_TO", "GREATER_THAN_OR_EQUAL_TO"}
    /\ \A i \in 1 .. pq.size :
            pq.heap[i].score \in Nat \cup {NegInf} /\ pq.heap[i].doc \in 0 .. MaxDocID
    /\ \A i \in DOMAIN shards : shards[i].totalHits \in Nat

(* "The TopDocs.scoreDocs array is always accurate" (IndexSearcher): a search  *)
(* returns exactly the best matching live documents in order, no matter which  *)
(* documents the scorer left out after it was told what is not competitive.    *)
ScoreDocsAccurate ==
    \A i \in DOMAIN shards : Plain(shards[i].scoreDocs) = Best(reader[i])

(* A page read off the heap is the same window of the same ranking: sentinels  *)
(* and the hits after the page are popped and no others.                       *)
PageAccurate ==
    pc = "done" => Plain(answer.scoreDocs) = Window(Best(Current), page)

(* TotalHits.Relation tells the truth: an EQUAL_TO count is the number of      *)
(* matches, and a lower bound is given only past the threshold.                *)
CountHonest ==
    \A i \in DOMAIN shards :
        LET n == Cardinality(Matches(reader[i]))
        IN  IF shards[i].relation = "EQUAL_TO" THEN shards[i].totalHits = n
            ELSE shards[i].totalHits <= n /\ IsThresholdReached(shards[i].totalHits)

(* No scorer is ever told that the score of a document of the final answer is *)
(* not competitive, whatever is still to come in this leaf or a later one.    *)
MinScoreSafe ==
    pc = "score" => \A i \in DOMAIN Best(Current) : Best(Current)[i].score >= scorerMin

(* Merged answers are the ranking of all of them: by score, then by shard if   *)
(* the shard index is set, else in any order of shards, and the count is a     *)
(* lower bound if one of the counts is.                                        *)
AllHits ==
    UNION {{[shard |-> i, rank |-> j, score |-> shards[i].scoreDocs[j].score,
             doc |-> shards[i].scoreDocs[j].doc] : j \in DOMAIN shards[i].scoreDocs} :
            i \in DOMAIN shards}
MergesBefore(a, b) ==
    \/ a.score > b.score
    \/ a.score = b.score /\ a.shard < b.shard
    \/ a.score = b.score /\ a.shard = b.shard /\ a.rank < b.rank
MergeAccurate ==
    pc = "merged" =>
        LET expected == Window(RankedBy(AllHits, MergesBefore), page)
        IN  /\ [i \in DOMAIN answer.scoreDocs |-> answer.scoreDocs[i].score]
                  = [i \in DOMAIN expected |-> expected[i].score]
            /\ page.setShardIndex => Plain(answer.scoreDocs) = Plain(expected)
            /\ answer.totalHits = TotalHits(shards)
            /\ answer.relation = "EQUAL_TO" <=>
                    \A i \in DOMAIN shards : shards[i].relation = "EQUAL_TO"

(* A search, a page of one and the merge of several return the right hits in  *)
(* the right order, and no scorer is told to leave one of them out.           *)
AnswersAccurate == ScoreDocsAccurate /\ PageAccurate /\ MergeAccurate /\ MinScoreSafe
================================================================================
