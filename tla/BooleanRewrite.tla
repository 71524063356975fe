---------------------------- MODULE BooleanRewrite ----------------------------
(* IndexSearcher.Rewrite: a query is rewritten until it stays the same. The     *)
(* work is BooleanQuery.Rewrite, a sequence of simplifications of which the     *)
(* first that applies ends the call, and BoostQuery.Rewrite. The queries of one *)
(* constant score and of no documents are made by rewriting and panic when they *)
(* are rewritten themselves.                                                    *)
(*                                                                              *)
(* A leaf query is one object with an identity; queries that are built of       *)
(* others are not shared between clauses. Boosts count in parts of UNIT.        *)
EXTENDS Integers, Sequences, FiniteSets, SequencesExt, FiniteSetsExt

CONSTANTS
    Queries,            \* the queries that are searched for
    Terms,              \* the terms of leaf queries
    TermScore,          \* what a term adds to the score of a document
    UNIT,               \* a boost of 1
    MaxBoost,           \* boosts that are no longer accepted (math.MaxInt32)
    MaxClauseCount

VARIABLE rw

Term(t) == [kind |-> "term", id |-> t]
MatchAll(n) == [kind |-> "all", id |-> n]
MatchNone == [kind |-> "none"]
ConstantScore(q) == [kind |-> "const", query |-> q]
Boost(q, b) == [kind |-> "boost", query |-> q, boost |-> b]
Clause(q, occur) == [query |-> q, occur |-> occur]
Bool(min, clauses) == [kind |-> "bool", min |-> min, clauses |-> clauses]

(* How a call of Rewrite ends; same: it returned the object it was called on. *)
Returns(q, same) == [end |-> "query", query |-> q, same |-> same]
Ends(how) == [end |-> how, query |-> MatchNone, same |-> FALSE]

NewBoostQuery(q, boost) ==
    IF boost >= MaxBoost THEN Ends("error") ELSE Returns(Boost(q, boost), FALSE)
Times(a, b) == (a * b) \div UNIT

(* BooleanQueryBuilder: clauses beyond the limit are an error of Build. *)
BuildQuery(min, clauses) ==
    IF Len(clauses) > MaxClauseCount THEN Ends("error") ELSE Returns(Bool(min, clauses), FALSE)

With(q, occur) == SelectSeq(q.clauses, LAMBDA c : c.occur = occur)
Without(q, occur) == SelectSeq(q.clauses, LAMBDA c : c.occur # occur)
QueriesOf(clauses) == [i \in DOMAIN clauses |-> clauses[i].query]
Occurring(q, occur) == ToSet(QueriesOf(With(q, occur)))
IsLeaf(q) == q.kind \in {"term", "all"}
Leaves(queries) == {q \in queries : IsLeaf(q)}

--------------------------------------------------------------------------------
(* The simplifications, each with the condition it applies under. *)

Single(q) ==
    /\ Len(q.clauses) = 1
    /\ \/ q.min = 1 /\ q.clauses[1].occur = "should"
       \/ q.min = 0 /\ q.clauses[1].occur \in {"filter", "not"}
RewriteSingle(q) ==
    LET c == q.clauses[1]
    IN  CASE c.occur = "should" -> Returns(c.query, FALSE)
          [] c.occur = "filter" -> NewBoostQuery(ConstantScore(c.query), 0)
          [] c.occur = "not" -> Returns(MatchNone, FALSE)

RequiredAndExcluded(q) ==
    \/ Leaves(Occurring(q, "not")) \cap Occurring(q, "filter") # {}
    \/ \E n \in Occurring(q, "not") : n.kind = "all"

(* Filters that match everything, unless there is nothing else, or are required anyway. *)
NeedlessFilters(q) ==
    LET filters == Occurring(q, "filter")
        more == Cardinality(filters) > 1 \/ Occurring(q, "must") # {}
    IN  {f \in filters : more /\ f.kind = "all"} \cup (Leaves(filters) \cap Occurring(q, "must"))
RemoveFilters(q) ==
    LET kept == Occurring(q, "filter") \ NeedlessFilters(q)
    IN  BuildQuery(q.min, Without(q, "filter") \o
            [i \in 1 .. Cardinality(kept) |-> Clause(SetToSeq(kept)[i], "filter")])

(* A mutant: the optional clause becomes the filter and the filter optional. *)
RequireShouldsSwapped(q) ==
    LET both == Leaves(Occurring(q, "should")) \cap Occurring(q, "filter")
        Other(c) == Clause(c.query, IF c.occur = "should" THEN "filter" ELSE "should")
    IN  BuildQuery(q.min, [i \in DOMAIN q.clauses |->
            IF q.clauses[i].query \in both THEN Other(q.clauses[i]) ELSE q.clauses[i]])

(* A mutant: an optional clause that became required still counts as optional. *)
RequireShouldsStillCounted(q) ==
    LET both == Leaves(Occurring(q, "should")) \cap Occurring(q, "filter")
        Kept(c) == IF c.query \notin both THEN <<c>>
                   ELSE IF c.occur = "should" THEN <<Clause(c.query, "must")>> ELSE <<>>
    IN  BuildQuery(q.min, FlattenSeq([i \in DOMAIN q.clauses |-> Kept(q.clauses[i])]))

(* A clause that is a filter and optional is required; one less has to match. *)
FilteredShoulds(q) == Leaves(Occurring(q, "should")) \cap Occurring(q, "filter")
RequireShoulds(q) ==
    LET both == FilteredShoulds(q)
        Kept(c) == IF c.query \notin both THEN <<c>>
                   ELSE IF c.occur = "should" THEN <<Clause(c.query, "must")>> ELSE <<>>
        converted == {i \in DOMAIN q.clauses : q.clauses[i].occur = "should" /\ q.clauses[i].query \in both}
    IN  BuildQuery(Max({0, q.min - Cardinality(converted)}),
                   FlattenSeq([i \in DOMAIN q.clauses |-> Kept(q.clauses[i])]))

(* A query without the boosts around it, and their product. *)
RECURSIVE Unboosted(_, _)
Unboosted(q, boost) ==
    IF q.kind = "boost" THEN Unboosted(q.query, Times(boost, q.boost)) ELSE [query |-> q, boost |-> boost]

(* The clauses of one kind, equal leaves once with the sum of their boosts. *)
Summed(clauses) ==
    LET parts == FoldLeft(LAMBDA s, c : Append(s, Unboosted(c.query, UNIT)), <<>>, clauses)
        alike(i) == {j \in DOMAIN parts : j = i \/ (IsLeaf(parts[i].query) /\ parts[j].query = parts[i].query)}
        firsts == {i \in DOMAIN parts : \A j \in alike(i) : i <= j}
        sum(i) == MapThenSumSet(LAMBDA j : parts[j].boost, alike(i))
    IN  FoldLeft(LAMBDA s, i : Append(s, [query |-> parts[i].query, boost |-> sum(i)]), <<>>,
                 SetToSortSeq(firsts, LAMBDA a, b : a < b))
Repeats(clauses) == Len(Summed(clauses)) # Len(clauses)
Deduplicate(q, occur) ==
    LET sums == Summed(With(q, occur))
        Again(s) == Clause(IF s.boost = UNIT THEN s.query ELSE Boost(s.query, s.boost), occur)
    IN  IF \E i \in DOMAIN sums : sums[i].boost # UNIT /\ sums[i].boost >= MaxBoost THEN Ends("error")
        ELSE BuildQuery(q.min, [i \in DOMAIN sums |-> Again(sums[i])] \o Without(q, occur))

(* The only scoring clause matches everything: a constant score for the filters. *)
(* The filters themselves are left out, their case of the switch is empty.       *)
ScoresAll(q) ==
    LET musts == With(q, "must")
    IN  /\ Len(musts) = 1 /\ With(q, "filter") # <<>>
        /\ \/ musts[1].query.kind = "all"
           \/ musts[1].query.kind = "boost" /\ musts[1].query.query.kind = "all"
ScoreConstant(q) ==
    LET must == With(q, "must")[1].query
        constant == ConstantScore(Bool(0, With(q, "not")))
        scored == IF must.kind = "boost" /\ must.boost # UNIT THEN Boost(constant, must.boost) ELSE constant
    IN  BuildQuery(q.min, <<Clause(scored, "must")>> \o With(q, "should"))

IsPureDisjunction(q) == q.min <= 1 /\ \A i \in DOMAIN q.clauses : q.clauses[i].occur = "should"
IsNested(c) == c.occur = "should" /\ c.query.kind = "bool" /\ IsPureDisjunction(c.query)
Flatten(q) ==
    BuildQuery(q.min, FlattenSeq([i \in DOMAIN q.clauses |->
        IF IsNested(q.clauses[i]) THEN q.clauses[i].query.clauses ELSE <<q.clauses[i]>>]))

--------------------------------------------------------------------------------
RECURSIVE RewriteQuery(_)

(* BoostQuery.Rewrite: a boost in a boost multiplies, around the query it was. *)
RewriteBoost(q) ==
    LET inner == RewriteQuery(q.query)
    IN  CASE inner.end # "query" -> inner
          [] inner.end = "query" /\ inner.query.kind = "boost" ->
               NewBoostQuery(q.query, Times(q.boost, inner.query.boost))
          [] inner.end = "query" /\ inner.query.kind # "boost" ->
               IF q.boost = 0 /\ inner.query.kind # "const" THEN NewBoostQuery(ConstantScore(inner.query), 0)
               ELSE IF ~inner.same THEN NewBoostQuery(inner.query, q.boost)
               ELSE Returns(q, TRUE)

(* BooleanQuery.Rewrite *)
RewriteBool(q) ==
    LET parts == FoldLeft(LAMBDA s, c : Append(s, RewriteQuery(c.query)), <<>>, q.clauses)
        bad == {i \in DOMAIN parts : parts[i].end # "query"}
    IN  IF q.clauses = <<>> THEN Ends("error")
        ELSE IF Single(q) THEN RewriteSingle(q)
        ELSE IF bad # {} THEN parts[Min(bad)]
        ELSE IF \E i \in DOMAIN parts : ~parts[i].same
             THEN BuildQuery(q.min, [i \in DOMAIN parts |-> Clause(parts[i].query, q.clauses[i].occur)])
        ELSE IF RequiredAndExcluded(q) THEN Returns(MatchNone, FALSE)
        ELSE IF NeedlessFilters(q) # {} THEN RemoveFilters(q)
        ELSE IF FilteredShoulds(q) # {} THEN RequireShoulds(q)
        ELSE IF q.min <= 1 /\ Repeats(With(q, "should")) THEN Deduplicate(q, "should")
        ELSE IF Repeats(With(q, "must")) THEN Deduplicate(q, "must")
        ELSE IF ScoresAll(q) THEN ScoreConstant(q)
        ELSE IF q.min <= 1 /\ \E i \in DOMAIN q.clauses : IsNested(q.clauses[i]) THEN Flatten(q)
        ELSE Returns(q, TRUE)

RewriteQuery(q) ==
    CASE q.kind \in {"term", "all"} -> Returns(q, TRUE)
      [] q.kind \in {"none", "const"} -> Ends("panic")
      [] q.kind = "boost" -> RewriteBoost(q)
      [] q.kind = "bool" -> RewriteBool(q)

(* A boost around a query that is rewritten to a boost. *)
RECURSIVE Stacks(_)
Stacks(q) ==
    CASE q.kind = "boost" -> Stacks(q.query) \/ RewriteQuery(q.query).query.kind = "boost"
      [] q.kind = "bool" -> \E i \in DOMAIN q.clauses : Stacks(q.clauses[i].query)
      [] q.kind \notin {"boost", "bool"} -> FALSE

(* A mutant: optional clauses are dropped although some of them have to match. *)
RewriteNoScoringDropped(q) ==
    IF Occurring(q, "must") \cup Occurring(q, "filter") = {} THEN q
    ELSE Bool(q.min, [i \in DOMAIN Without(q, "should") |->
                        LET c == Without(q, "should")[i]
                        IN  IF c.occur = "must" THEN Clause(c.query, "filter") ELSE c])

(* rewriteNoScoring: required clauses become filters, optional ones that need not *)
(* match are dropped.                                                             *)
RewriteNoScoring(q) ==
    LET keepShould == q.min > 0 \/ Occurring(q, "must") \cup Occurring(q, "filter") = {}
        kept == IF keepShould THEN q.clauses ELSE Without(q, "should")
    IN  IF Occurring(q, "must") = {} /\ keepShould THEN q
        ELSE Bool(q.min, [i \in DOMAIN kept |->
                IF kept[i].occur = "must" THEN Clause(kept[i].query, "filter") ELSE kept[i]])

--------------------------------------------------------------------------------
RewriteInit ==
    \E q \in Queries :
        rw = [pc |-> "rewriting", original |-> q, query |-> q, stacked |-> FALSE]

(* One turn of the loop. *)
RewriteStep ==
    /\ rw.pc = "rewriting"
    /\ \E r \in {RewriteQuery(rw.query)} :
           rw' = [rw EXCEPT !.query = IF r.end = "query" THEN r.query ELSE @,
                            !.stacked = @ \/ Stacks(rw.query),
                            !.pc = IF r.end # "query" THEN r.end
                                   ELSE IF r.query = rw.query THEN "rewritten" ELSE "rewriting"]

(* CreateWeight of a search that needs no scores. *)
CreateWeight ==
    /\ rw.pc = "rewritten" /\ rw.query.kind = "bool"
    /\ rw' = [rw EXCEPT !.pc = "weighed", !.query = RewriteNoScoring(@)]

RewriteNext == RewriteStep \/ CreateWeight
(* The searcher does not return before the loop has ended. *)
RewriteFairness == WF_rw(RewriteStep)
RewriteSpec == RewriteInit /\ [][RewriteNext]_rw /\ RewriteFairness

--------------------------------------------------------------------------------
(* What a query means for a document with the given terms: whether it matches, *)
(* and the score.                                                              *)
RECURSIVE MatchedBy(_, _)
MatchedBy(q, doc) ==
    LET hits(occur) == {i \in DOMAIN q.clauses : q.clauses[i].occur = occur /\ MatchedBy(q.clauses[i].query, doc)}
        needed == IF q.min > 0 THEN q.min
                  ELSE IF With(q, "must") \o With(q, "filter") = <<>> THEN 1 ELSE 0
    IN  CASE q.kind = "term" -> q.id \in doc
          [] q.kind = "all" -> TRUE
          [] q.kind = "none" -> FALSE
          [] q.kind \in {"const", "boost"} -> MatchedBy(q.query, doc)
          [] q.kind = "bool" ->
               /\ Cardinality(hits("must")) = Len(With(q, "must"))
               /\ Cardinality(hits("filter")) = Len(With(q, "filter"))
               /\ hits("not") = {}
               /\ Cardinality(hits("should")) >= needed

RECURSIVE ScoreOf(_, _, _)
ScoreOf(q, doc, boost) ==
    CASE q.kind = "term" -> TermScore[q.id] * boost
      [] q.kind \in {"all", "const"} -> boost
      [] q.kind = "none" -> 0
      [] q.kind = "boost" -> ScoreOf(q.query, doc, Times(boost, q.boost))
      [] q.kind = "bool" ->
           FoldLeft(LAMBDA s, c : s + (IF c.occur \in {"must", "should"} /\ MatchedBy(c.query, doc)
                                       THEN ScoreOf(c.query, doc, boost) ELSE 0), 0, q.clauses)

SameMatches(p, q) == \A doc \in SUBSET Terms : MatchedBy(p, doc) = MatchedBy(q, doc)
SameScores(p, q) ==
    \A doc \in SUBSET Terms : MatchedBy(p, doc) => ScoreOf(p, doc, UNIT) = ScoreOf(q, doc, UNIT)

(* A rewriting that comes to an end means what the query meant: whatever it      *)
(* deduplicated, moved or flattened, the same documents match with the same      *)
(* scores. Boosts that were stacked are left to the property below.              *)
RewriteKeepsMeaning ==
    rw.pc = "rewritten" /\ ~rw.stacked => SameMatches(rw.original, rw.query) /\ SameScores(rw.original, rw.query)

(* So does one with boosts in boosts. *)
StackedBoostsKeepMeaning ==
    rw.pc = "rewritten" => SameMatches(rw.original, rw.query) /\ SameScores(rw.original, rw.query)

(* A search that needs no scores matches what the query matches. *)
NoScoringKeepsMatches ==
    rw.pc = "weighed" => SameMatches(rw.original, rw.query)

(* The loop ends: with a query that no longer changes, or with an error. *)
RewriteEnds == <>(rw.pc # "rewriting")

(* Rewriting changes neither what a query matches nor, where scores are       *)
(* needed, how it scores (boosts in boosts left out).                         *)
RewritingIsFaithful == RewriteKeepsMeaning /\ NoScoringKeepsMatches
================================================================================
