------------------------------- MODULE Automata -------------------------------
(* core/util/automaton: an automaton is built state by state, the transitions  *)
(* of a state are sorted and reduced when the next state begins, and           *)
(* NewCompiledAutomaton recognises the simple ones and makes a table of the    *)
(* others, which ByteRunAutomaton.Run walks.                                   *)
(*                                                                             *)
(* The transitions of all states are one array; a state has the position of    *)
(* its first one and their number. `added` remembers what the caller added.    *)
EXTENDS Integers, Sequences, FiniteSets, SequencesExt, FiniteSetsExt, TLC

CONSTANTS
    MaxStates, MaxTransitions,      \* bounds
    Ranges,                         \* the label ranges of transitions, pairs <<min, max>>
    MaxByte,                        \* 0xff
    MaxRune                         \* 0x10FFFF

VARIABLE at

None == -1
Trans(dest, range) == [dest |-> dest, min |-> range[1], max |-> range[2]]
States == 0 .. Len(at.states) - 1
Leaving(a, s) == SubSeq(a.trans, a.states[s + 1].first + 1, a.states[s + 1].first + a.states[s + 1].count)

DestMinMax(t, u) ==
    \/ t.dest < u.dest
    \/ t.dest = u.dest /\ (t.min < u.min \/ (t.min = u.min /\ t.max < u.max))
MinMaxDest(t, u) ==
    \/ t.min < u.min
    \/ t.min = u.min /\ (t.max < u.max \/ (t.max = u.max /\ t.dest < u.dest))

(* The sorters count from the beginning of the array, not from the state they *)
(* were made for.                                                             *)
SortFirst(trans, n, Less(_, _)) ==
    SortSeq(SubSeq(trans, 1, n), Less) \o SubSeq(trans, n + 1, Len(trans))

(* Ranges of one destination that touch become one. *)
ReduceTransitions(ts) ==
    FoldLeft(LAMBDA s, t :
        IF s # <<>> /\ Last(s).dest = t.dest /\ t.min <= Last(s).max + 1
        THEN ReplaceAt(s, Len(s), [Last(s) EXCEPT !.max = Max({@, t.max})])
        ELSE Append(s, t), <<>>, ts)

(* A mutant: ranges that share one label are not seen to overlap. *)
FinishCurrentStrict(a) ==
    LET n == a.states[a.cur + 1].count
        first == a.states[a.cur + 1].first
        sorted == SortFirst(a.trans, n, DestMinMax)
        reduced == ReduceTransitions(SubSeq(sorted, first + 1, first + n))
        upto == Len(reduced)
        final == SortFirst(SubSeq(sorted, 1, first) \o reduced, upto, MinMaxDest)
        overlap == \E i \in 1 .. upto - 1 : final[first + i + 1].min < final[first + i].max
    IN  [a EXCEPT !.states[a.cur + 1].count = upto, !.trans = final, !.det = @ /\ ~overlap]

(* finishCurrentState *)
FinishCurrent(a) ==
    LET n == a.states[a.cur + 1].count
        first == a.states[a.cur + 1].first
        sorted == SortFirst(a.trans, n, DestMinMax)
        reduced == ReduceTransitions(SubSeq(sorted, first + 1, first + n))
        upto == Len(reduced)
        final == SortFirst(SubSeq(sorted, 1, first) \o reduced, upto, MinMaxDest)
        overlap == \E i \in 1 .. upto - 1 : final[first + i + 1].min <= final[first + i].max
    IN  [a EXCEPT !.states[a.cur + 1].count = upto, !.trans = final, !.det = @ /\ ~overlap]

(* AddTransition; a state that was left cannot be returned to. *)
AddTransition(a, s, t) ==
    LET moved == IF a.cur \in {s, None} THEN a ELSE FinishCurrent(a)
        fresh == moved.states[s + 1].first = None
        begun == IF a.cur = s THEN moved
                 ELSE [moved EXCEPT !.cur = s, !.states[s + 1].first = Len(moved.trans)]
    IN  IF a.cur # s /\ ~fresh THEN [moved EXCEPT !.cur = s, !.pc = "error"]
        ELSE [begun EXCEPT !.trans = Append(@, t), !.states[s + 1].count = @ + 1]

FinishState(a) == IF a.cur = None THEN a ELSE [FinishCurrent(a) EXCEPT !.cur = None]

(* Builder.Finish: the recorded transitions by source, destination and range. *)
RECURSIVE AddAll(_, _)
AddAll(a, recorded) ==
    IF recorded = <<>> THEN a
    ELSE AddAll(AddTransition(a, Head(recorded).source, Head(recorded).trans), Tail(recorded))
BuilderLess(p, q) == p.source < q.source \/ (p.source = q.source /\ DestMinMax(p.trans, q.trans))
BuilderFinish(a, recorded) == FinishState(AddAll(a, SortSeq(recorded, BuilderLess)))

--------------------------------------------------------------------------------
(* What is asked of a finished automaton. *)

(* A mutant: the search never looks at the last transition of a state. *)
RECURSIVE SearchLastSkipped(_, _, _, _)
SearchLastSkipped(ts, label, low, high) ==
    LET mid == (low + high) \div 2
    IN  IF low >= high THEN None
        ELSE IF ts[mid + 1].min > label THEN SearchLastSkipped(ts, label, low, mid - 1)
        ELSE IF ts[mid + 1].max < label THEN SearchLastSkipped(ts, label, mid + 1, high)
        ELSE ts[mid + 1].dest

(* next: a binary search of the transitions of a state. *)
RECURSIVE Search(_, _, _, _)
Search(ts, label, low, high) ==
    LET mid == (low + high) \div 2
    IN  IF low > high THEN None
        ELSE IF ts[mid + 1].min > label THEN Search(ts, label, low, mid - 1)
        ELSE IF ts[mid + 1].max < label THEN Search(ts, label, mid + 1, high)
        ELSE ts[mid + 1].dest
NextState(a, s, label) ==
    LET ts == Leaving(a, s) IN Search(ts, label, 0, Len(ts) - 1)

(* The states that were seen when the work list has run empty. *)
RECURSIVE Seen(_, _, _)
Seen(a, work, seen) ==
    IF work = <<>> THEN seen
    ELSE LET new == {Leaving(a, Head(work))[i].dest : i \in DOMAIN Leaving(a, Head(work))} \ seen
         IN  Seen(a, Tail(work) \o SetToSeq(new), seen \cup new)
IsEmptyAutomaton(a) == a.states = <<>> \/ Seen(a, <<0>>, {0}) \cap a.accept = {}

IsTotalAutomaton(a, max) ==
    /\ 0 \in a.accept
    /\ Leaving(a, 0) = <<Trans(0, <<0, max>>)>>

(* isFinite: a depth-first walk that meets no state of its own path. *)
RECURSIVE IsFinite(_, _, _)
IsFinite(a, s, path) ==
    \A i \in DOMAIN Leaving(a, s) :
        LET d == Leaving(a, s)[i].dest IN d \notin path \cup {s} /\ IsFinite(a, d, path \cup {s})

(* GetSingletonAutomaton goes on only to states it has visited, so that all it *)
(* finds is the empty string.                                                  *)
IsEmptyString(a) == a.det /\ 0 \in a.accept /\ Leaving(a, 0) = <<>>

(* findSinkState *)
SinkState(a) ==
    LET sinks == {s \in a.accept : Trans(s, <<0, MaxByte>>) \in ToSet(Leaving(a, s))}
    IN  IF sinks = {} THEN None ELSE Min(sinks)

(* GetStartPoints *)
StartPoints(a) ==
    {0} \cup UNION {LET t == a.trans[i] IN {t.min} \cup (IF t.max < MaxRune THEN {t.max + 1} ELSE {})
                       : i \in DOMAIN a.trans}

(* NewRunAutomatonV1: where a label of each interval leads from each state. *)
RunTable(a) ==
    LET points == StartPoints(a)
    IN  [points |-> points,
         delta |-> [s \in 0 .. Len(a.states) - 1 |-> [p \in points |-> NextState(a, s, p)]]]
CharClass(run, label) == Max({p \in run.points : p <= label})

RECURSIVE RunFrom(_, _, _, _)
RunFrom(a, run, s, word) ==
    IF s = None THEN FALSE
    ELSE IF word = <<>> THEN s \in a.accept
    ELSE RunFrom(a, run, run.delta[s][CharClass(run, Head(word))], Tail(word))

(* NewCompiledAutomaton as NewAutomatonQuery calls it. DeterminizeAutomaton     *)
(* returns the automaton it is given. The suffix of an infinite automaton and   *)
(* the conversion of one that is not of bytes are not written.                  *)
Compile(a, binary) ==
    CASE IsEmptyAutomaton(a) -> [type |-> "none"]
      [] ~IsEmptyAutomaton(a) /\ IsTotalAutomaton(a, IF binary THEN MaxByte ELSE MaxRune) -> [type |-> "all"]
      [] ~IsEmptyAutomaton(a) /\ IsEmptyString(a) -> [type |-> "single"]
      [] OTHER -> IF ~binary \/ ~IsFinite(a, 0, {}) THEN [type |-> "panic"]
                  ELSE [type |-> "normal", run |-> RunTable(a), sink |-> SinkState(a)]

--------------------------------------------------------------------------------
Empty == [pc |-> "building", binary |-> TRUE, builder |-> FALSE, states |-> <<>>,
          trans |-> <<>>, cur |-> None, accept |-> {}, det |-> TRUE, added |-> <<>>, compiled |-> [type |-> "not"]]

AutomataInit == \E binary, builder \in BOOLEAN : at = [Empty EXCEPT !.binary = binary, !.builder = builder]

(* CreateState and SetAccept; callers create the states first. *)
CreateState ==
    /\ at.pc = "building" /\ at.added = <<>> /\ Len(at.states) < MaxStates
    /\ \E accept \in BOOLEAN :
           at' = [at EXCEPT !.states = Append(@, [first |-> None, count |-> 0]),
                            !.accept = IF accept THEN @ \cup {Len(at.states)} ELSE @]

Add ==
    /\ at.pc = "building" /\ Len(at.added) < MaxTransitions
    /\ \E s, dest \in States, range \in Ranges :
           LET t == Trans(dest, range)
               a == IF at.builder THEN at ELSE AddTransition(at, s, t)
           IN  at' = [a EXCEPT !.added = Append(@, [source |-> s, trans |-> t])]

(* AddEpsilon, to a state that is finished; errors are not looked at. *)
AddEpsilon ==
    /\ at.pc = "building" /\ ~at.builder
    /\ \E s, dest \in States :
           LET copied == Leaving(at, dest)
               new == [i \in DOMAIN copied |-> [source |-> s, trans |-> copied[i]]]
           IN  /\ s # dest /\ dest # at.cur
               /\ at.cur = s \/ at.states[s + 1].first = None
               /\ Len(at.added \o new) <= MaxTransitions
               /\ at' = [AddAll(at, new) EXCEPT !.added = @ \o new,
                                                !.accept = @ \cup (IF dest \in at.accept THEN {s} ELSE {})]

Finish ==
    /\ at.pc = "building" /\ at.states # <<>>
    /\ LET a == IF at.builder THEN BuilderFinish(at, at.added) ELSE FinishState(at)
       IN  at' = [a EXCEPT !.pc = "finished"]

CompileAutomaton ==
    /\ at.pc = "finished"
    /\ at' = [at EXCEPT !.pc = "compiled", !.compiled = Compile(at, at.binary)]

AutomataNext == CreateState \/ Add \/ AddEpsilon \/ Finish \/ CompileAutomaton

--------------------------------------------------------------------------------
Targets(from, label) ==
    {p.trans.dest : p \in {q \in ToSet(at.added) : q.source \in from /\ label \in q.trans.min .. q.trans.max}}
RECURSIVE Reached(_, _)
Reached(from, word) == IF word = <<>> THEN from ELSE Reached(Targets(from, Head(word)), Tail(word))
InLanguage(word) == Reached({0}, word) \cap at.accept # {}
Words == UNION {[1 .. n -> 0 .. MaxByte] : n \in 0 .. 3}
Ambiguous == \E s \in States, label \in 0 .. MaxRune : Cardinality(Targets({s}, label)) > 1

(* Every state but the one that was built first has one transition at most: the *)
(* sorters then only ever sort what they were made for.                         *)
IsPlain ==
    \A i, j \in DOMAIN at.added :
        at.added[i].source = at.added[j].source /\ i # j => at.states[at.added[i].source + 1].first = 0

CompiledAccepts(word) ==
    CASE at.compiled.type = "none" -> FALSE
      [] at.compiled.type = "all" -> TRUE
      [] at.compiled.type = "single" -> word = <<>>
      [] at.compiled.type = "normal" -> RunFrom(at, at.compiled.run, 0, word)

CompiledIsRight ==
    at.pc = "compiled" /\ at.compiled.type # "panic" /\ ~Ambiguous =>
        \A word \in Words : CompiledAccepts(word) <=> InLanguage(word)

(* A compiled automaton accepts the words of the transitions it was built of,  *)
(* however they were sorted, joined and cut into intervals, when no label of a *)
(* state leads to two states.                                                  *)
PlainCompiledIsRight == at.pc = "compiled" /\ IsPlain => CompiledIsRight

(* An automaton calls itself deterministic exactly when no label of a state    *)
(* leads to two states.                                                        *)
PlainDeterminism == at.pc = "finished" /\ IsPlain => (at.det <=> ~Ambiguous)

(* The same of every automaton; "that states transitions are sorted" says the  *)
(* comment of the type.                                                        *)
EveryCompiledIsRight == at.pc # "off" => CompiledIsRight

(* An automaton, finished and compiled, accepts its words and says rightly    *)
(* whether it is deterministic.                                               *)
PlainAutomataAreRight == PlainCompiledIsRight /\ PlainDeterminism
================================================================================
