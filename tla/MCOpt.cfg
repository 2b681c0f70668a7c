CONSTANTS
    p1 = p1
    p2 = p2
    p3 = p3
    NoPage = NoPage
    NoRef = NoRef
    EqLine = EqLine
    Page <- MCPage
    AccessType <- MCAccess
    DirIndex <- MCDir
    PGDIR_INDEX <- MCPGDIR_INDEX
    memsize = 2
    swapsize = 2
    MaxRefs = 6
SPECIFICATION OptSpec
PROPERTY OptSparesBusyPages
CHECK_DEADLOCK FALSE
