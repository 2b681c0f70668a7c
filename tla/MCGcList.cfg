CONSTANTS
    c1 = c1
    c2 = c2
    c3 = c3
    c4 = c4
    v1 = v1
    v2 = v2
    NULL = NULL
    Chunk <- MCChunk
    Value <- MCValue
    PERIOD = 3
SPECIFICATION Spec
INVARIANTS
    GcTypeOK
    ListSurvives
    ChunkListComplete
    SweepLeavesAtMostOne
SYMMETRY MCSymmetry
CHECK_DEADLOCK FALSE
