CONSTANTS
    p1 = p1
    p2 = p2
    p3 = p3
    NoPage = NoPage
    NoRef = NoRef
    EqLine = EqLine
    Page <- MCPage
    AccessType <- MCAccess
    DirIndex <- MCDir
    PGDIR_INDEX <- MCPGDIR_INDEX
    memsize = 2
    swapsize = 3
    MaxRefs = 6
SPECIFICATION OptSpec
INVARIANT OptIsOptimal
CHECK_DEADLOCK FALSE
