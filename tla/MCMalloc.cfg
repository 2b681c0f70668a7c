CONSTANTS
    Thread = {t1, t2}
    Words = {3, 12}
    HEAP = 30
    END = 24
    PAGE = 8
    LAST = 36
    HIGH = HIGH
    MAGIC_NUMBER = MAGIC
    JUNK = JUNK
    MaxCalls = 5
SPECIFICATION Spec
INVARIANTS
    MallocTypeOK
    

    
CHECK_DEADLOCK FALSE
