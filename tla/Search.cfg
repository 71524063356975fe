CONSTANTS
    Readers <- TwoReaders
    NumHits = {0, 1, 2}
    Pages <- AllPages
    TotalHitsThreshold = 1
    Items <- TiedItems
    Capacities = {1, 5}
    NoItem = NoItem
    SubReaders <- SomeSubReaders
    MaxSubReaders = 3
    ActualMaxDocs = 5
    Queries <- SomeQueries
    Terms = {"a", "b"}
    TermScore <- Score
    UNIT = 4
    MaxBoost = 64
    MaxClauseCount = 3
    MaxStates = 2
    MaxTransitions = 3
    Ranges <- SomeRanges
    MaxByte = 2
    MaxRune = 3
    BuilderMaxDoc = 3
    Threshold = 5
    ColdStart = 2
    MaxGrow = 3
    MaxCounter = 8
    LeafDocs = 3
SPECIFICATION Spec
INVARIANTS
    AnswersAccurate
    CountHonest
    CompositeIsItsSubs
    RewritingIsFaithful
    PlainAutomataAreRight
    LeafIsCollected
PROPERTIES
    QueueKeepsOrder
    RewriteEnds
CHECK_DEADLOCK FALSE
