SPECIFICATION RSpec
CONSTANTS
    Readers = {}
    NoInfos = NoInfos
    InitialIndexes <- MCInitialIndexes
    OpenModes <- ShippedModes
    IndexCommits <- ShippedCommits
    MaxGen = 4
    MaxSeg = 4
    MaxVersion = 9
    MaxRenameFaults = 2
INVARIANT LatestCommitComplete
CHECK_DEADLOCK FALSE
