CONSTANTS
    BITS_PER_WORD = 3
    UINT = 16
    Sizes <- MCSizes
SPECIFICATION Spec
PROPERTY ImplementsSlotPool
CHECK_DEADLOCK FALSE
