SPECIFICATION RSpec
CONSTANTS
    Readers = {r1}
    NoInfos = NoInfos
    InitialIndexes <- MCInitialIndexes
    OpenModes = {"CREATE", "APPEND", "CREATE_OR_APPEND"}
    IndexCommits <- MCIndexCommits
    MaxGen = 4
    MaxSeg = 4
    MaxVersion = 8
    MaxRenameFaults = 1
INVARIANTS TypeOK LatestCommitComplete RefCountsCoverHolders SegmentsFlushedOnce VersionsFollowGenerations ReaderSeesRecentCommit
PROPERTIES SegmentsWriteOnce RefinesLatestCommit CurrentWasNewest
CHECK_DEADLOCK FALSE
