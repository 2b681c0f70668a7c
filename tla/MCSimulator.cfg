CONSTANTS
    p1 = p1
    p2 = p2
    p3 = p3
    p4 = p4
    NoPage = NoPage
    NoRef = NoRef
    Page <- MCPage
    AccessType <- MCAccess
    DirIndex <- MCDir
    PGDIR_INDEX <- MCPGDIR_INDEX
    Alg <- MCAlg
    memsize = 3
    swapsize = 4
    MaxRefs = 7
SPECIFICATION SimSpec
INVARIANT
    SimTypeOK
PROPERTIES
    FifoEvictsOldest
    LruEvictsLeastRecent
    ClockSparesUsedPages
    SweepEnds
CHECK_DEADLOCK FALSE
