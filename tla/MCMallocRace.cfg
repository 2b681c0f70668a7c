CONSTANTS
    Thread = {t1, t2}
    Words = {3}
    HEAP = 30
    END = 24
    PAGE = 8
    LAST = 36
    HIGH = HIGH
    MAGIC_NUMBER = MAGIC
    JUNK = JUNK
    MaxCalls = 2
SPECIFICATION Spec
INVARIANTS
    NoCallCrashes
CHECK_DEADLOCK FALSE
