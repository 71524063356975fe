CONSTANTS
    Goroutines = {g1, g2}
    Terms = {k1, k2}
    NoTerm = NoTerm
    Failing = {TRUE, FALSE}
    ActualMaxDocs = 3
    ExistingDocs = 0
    Serial = {TRUE, FALSE}
    MaxCalls = 5
    MaxConcurrent = 4
SPECIFICATION Spec
INVARIANT UpdatesAreBuffered
INVARIANT DocLimitKept
CHECK_DEADLOCK FALSE
