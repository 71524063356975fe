------------------------------- MODULE MCSearch --------------------------------
(* What a search makes of a query: rewriting, the compiled automaton of a       *)
(* multi-term query, the set of documents a point query collects, and how the   *)
(* documents of a leaf are scored; two searchers and the merge of their         *)
(* answers, a client of the priority queue both are built on, and the composite *)
(* reader that is searched.                                                     *)
EXTENDS TopDocsSearch, QueueClient, CompositeReader, BooleanRewrite, Automata, BulkScorers, TLC

Doc(score, live) == [score |-> score, live |-> live]
Some == {Doc(NoMatch, TRUE), Doc(0, TRUE), Doc(1, TRUE), Doc(2, TRUE), Doc(2, FALSE)}
Few == {Doc(1, TRUE), Doc(2, TRUE)}
FirstReader == {<<a, b>> : a \in [1 .. 2 -> Some], b \in [1 .. 2 -> Some]}
SecondReader == {<<<<a>>, <<b>>>> : a \in Few, b \in Few \cup {Doc(NoMatch, TRUE)}}
TwoReaders == <<FirstReader, SecondReader>>
AllPages == [start : 0 .. 1, size : {1, 3}, setShardIndex : BOOLEAN]

TiedItems == [key : 1 .. 2, id : 1 .. 3]

Freqs == [live : BOOLEAN, freq : {0, 2}]
SomeSubReaders == UNION {[1 .. n -> Freqs] : n \in 0 .. 1} \cup {<<a, b>> : a \in {[live |-> FALSE, freq |-> 2]}, b \in Freqs}

Score == [a |-> 1, b |-> 3]
Occurs == {"must", "should", "filter", "not"}
Clauses(queries) == {Clause(q, o) : q \in queries, o \in Occurs}
UpTo(n, clauses) == UNION {[1 .. k -> clauses] : k \in 1 .. n}
Bools(n, queries) == {Bool(m, c) : m \in 0 .. 2, c \in UpTo(n, Clauses(queries))}
A == Term("a")
B == Term("b")
Half == UNIT \div 2
Double == 2 * UNIT
OneShould(q) == Bool(1, <<Clause(q, "should")>>)
Pairs ==
    {Bool(m, <<Clause(A, o), Clause(q, "should")>>) :
        m \in {0, 1}, o \in {"should", "must"}, q \in {B, Boost(A, Double)}}
Nested ==
    {Bool(m, <<Clause(p, o), Clause(q, r)>>) :
        m \in 0 .. 2, p \in Pairs, q \in {A, Bool(1, <<Clause(B, "should"), Clause(A, "should")>>)},
        o \in {"must", "should"}, r \in Occurs}
Boosted ==
    {Boost(q, b) : q \in Pairs \cup {Boost(A, Half), Boost(A, Double), A, OneShould(Boost(A, Double))},
                   b \in {0, Half, UNIT, Double}}
SomeQueries ==
    Bools(3, {A, MatchAll("m")}) \cup Nested \cup Boosted
      \cup Bools(2, {A, B, Boost(MatchAll("m"), Double), Boost(B, 0), Boost(A, Half)})
SomeRanges == {<<0, 0>>, <<0, 1>>, <<1, 2>>}

(* They run apart: client says which one this behaviour is about. *)
VARIABLE client

queryVars == <<rw, at, db, bk>>
Off == [pc |-> "off"]
NoQuery == rw = Off /\ at = Off /\ db = Off /\ bk = Off
NoComposite == cr = Off
NoSearch ==
    /\ SearchInit
    /\ reader = [i \in DOMAIN Readers |-> CHOOSE r \in Readers[i] : TRUE]
    /\ wanted = 1
NoQueue == queue = PQ!NewPriorityQueue(2, NoItem) /\ held = {} /\ dropped = NoItem

Init ==
    \/ client = "searcher" /\ SearchInit /\ NoQueue /\ NoComposite /\ NoQuery
    \/ client = "queue" /\ QueueInit /\ NoSearch /\ NoComposite /\ NoQuery
    \/ client = "composite" /\ CompositeInit /\ NoQueue /\ NoSearch /\ NoQuery
    \/ /\ client = "query" /\ NoQueue /\ NoSearch /\ NoComposite
       /\ \/ RewriteInit /\ at = Off /\ db = Off /\ bk = Off
          \/ rw = Off /\ AutomataInit /\ db = Off /\ bk = Off
          \/ rw = Off /\ at = Off /\ BuilderInit /\ bk = Off
          \/ rw = Off /\ at = Off /\ db = Off /\ BulkInit

Next ==
    \/ client = "searcher" /\ SearchNext /\ UNCHANGED <<client, queueVars, cr, queryVars>>
    \/ client = "queue" /\ QueueNext /\ UNCHANGED <<client, searchVars, cr, queryVars>>
    \/ client = "composite" /\ CompositeNext /\ UNCHANGED <<client, searchVars, queueVars, queryVars>>
    \/ RewriteNext /\ UNCHANGED <<client, searchVars, queueVars, cr, at, db, bk>>
    \/ AutomataNext /\ UNCHANGED <<client, searchVars, queueVars, cr, rw, db, bk>>
    \/ BuilderNext /\ UNCHANGED <<client, searchVars, queueVars, cr, rw, at, bk>>
    \/ BulkNext /\ UNCHANGED <<client, searchVars, queueVars, cr, rw, at, db>>

Spec == Init /\ [][Next]_<<client, searchVars, queueVars, cr, queryVars>> /\ RewriteFairness
================================================================================
