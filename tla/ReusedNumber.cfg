CONSTANTS
    StoredFields <- SomeStoredFields
    MaxStoredDocs = 2
    MaxStoredPerDoc = 2
    FieldNames = {"a", "b", "c"}
    FieldTypes <- SomeFieldTypes
    DVUpdateTypes = {"NUMERIC", "BINARY"}
    MaxFieldDocs = 3
    MaxSessions = 3
    MaxDoc = 3
    MaxDelGen = 3
    MaxRestarts = 2
    SegmentFiles <- ThreeFiles
    FileContents <- SomeContents
    SegmentInfos <- SomeSegmentInfos
    Inverted <- SomeInverted
    BlockSize = 3
    Bytes = {1, 2}
    BlockSizes = {2, 4}
    MaxContent = 5
    MaxWrite = 3
    IntSize = 2
    Texts = {1, 2, 3, 4, 5, 6}
    HashOf <- Hashes
    LengthOf <- Lengths
    Offsets = {0, 2, 4, 8}
    Capacity = 4
    InitStarts = 2
    ByteBlockSize = 6
    MaxKept = 1
    Slices = {"p", "q"}
    Values = {0, 1}
    MaxInts = 5
    MaxResets = 1
    IntBlockSize = 8
    ByteBits = 3
    Items <- SomeItems
    MaxItems = 2
    MaxBytes = 12
    MaxTorn = 1
    BuffSize = 8
    SkipSize = 3
    OutSize = 5
    MAGIC = 1234
    CODEC <- TheCodec
    MinVersion = 1
    MaxVersion = 2
    Labels = {1, 2, 3, 4}
    ArcShapes <- SomeShapes
    MaxArcs = 4
    WIDE = 2
    LAST = 3
    SHALLOW_NUM_ARCS = 3
    DEEP_NUM_ARCS = 4
    INTEGER_BYTES = 4
    OutputWords <- SomeWords
    OutputKinds <- SomeKinds
    MaxOutputWords = 3
    NumberBits = 3
    LongBits = 5
SPECIFICATION FieldsSpec
INVARIANT NumbersBijective
CHECK_DEADLOCK FALSE
