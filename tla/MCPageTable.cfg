CONSTANTS
    p1 = p1
    p2 = p2
    p3 = p3
    p4 = p4
    NoPage = NoPage
    NoRef = NoRef
    Page <- MCPage
    AccessType <- MCAccess
    DirIndex <- MCDir
    PGDIR_INDEX <- MCPGDIR_INDEX
    memsize = 2
    swapsize = 3
    MaxRefs = 6
SPECIFICATION Spec
SYMMETRY MCSymmetry
INVARIANTS
    TypeOK
    FrameTableConsistent
    SwapOwnership
    CleanPagesHaveCopies
    CountersBalance
    SwapFullOnlyWhenTooSmall
PROPERTIES
    EvictionKeepsContent
    ImplementsFlatMemory
CHECK_DEADLOCK FALSE
