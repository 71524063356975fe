CONSTANTS
    Shapes <- SomeShapes
    GrowWidths = {1, 7, 40}
    Ratios = {0, 2}
    MaxArraySteps = 2
    Width = 4
    BlockSize = 2
    LongInputs <- SomeLongs
    MaxLongs = 5
    PageSize = 4
    PagedValues = {1, 2}
    MaxPagedSize = 12
    MaxPagedSteps = 4
    LENGTH_THRESHOLD = 2
    LEVEL_THRESHOLD = 2
    PREFIX_CAP = 2
    MaxByte = 2
    SPLITS_BEFORE_EXACT_BOUNDS = 4
    INTEGER_BYTES = 2
    SHORT_DOC = 2
    GROUP = 8
    Keys <- SomeKeys
    SortKeys <- SomeSortKeys
    MaxElements = 6
    Trees <- SomeTrees
    MaxPoints = 4
    Ranges <- SomeRanges
SPECIFICATION Spec
INVARIANTS
    PackedReadsBack
    LongsReadBack
    SelectsAndSorts
    LeavesInTheirCells
    QueriesFindPoints
CHECK_DEADLOCK FALSE
