SPECIFICATION RSpec
CONSTANTS
    Readers = {}
    NoInfos = NoInfos
    InitialIndexes <- MCInitialIndexes
    OpenModes <- ShippedModes
    IndexCommits <- ShippedCommits
    MaxGen = 4
    MaxSeg = 4
    MaxVersion = 9
    MaxRenameFaults = 0
INVARIANT FreshSegmentName
CHECK_DEADLOCK FALSE
