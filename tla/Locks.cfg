CONSTANTS
    g1 = g1
    g2 = g2
    l1 = l1
    l2 = l2
    l3 = l3
    Locks = {l1, l2, l3}
    Goroutines = {g1, g2}
    NoLock = NoLock
    Closers <- OneCloser
    Processes = {p1, p2, p3}
    MaxTime = 4
SPECIFICATION LocksSpec
INVARIANT MutualExclusion
INVARIANT HeldIsValid
INVARIANT OnlyRacersShare
PROPERTY ImplementsExclusiveLock
PROPERTY LostToRacersOnly
CHECK_DEADLOCK FALSE
