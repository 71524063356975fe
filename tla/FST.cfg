CONSTANTS
    Words <- MCWords
    Targets <- MCTargets
    Outputs = {1, 3}
    MaxLength = 3
    MaxWords = 4
    ShallowDepth = 1
    ShallowNumArcs = 2
    DeepNumArcs = 3
SPECIFICATION FSTSpec
INVARIANT FSTIsExactAndMinimal
PROPERTY NextInOrder
PROPERTY SeeksAnswerRight
CHECK_DEADLOCK FALSE
