CONSTANTS
    Client = {1, 2}
    CalName <- CalNames
    UserName = {}
    Time = {}
    CutTo <- CalCut
    Line <- ShortLine
    INPUT_BUFFER_SIZE = 6
    CLEARED = 1
    ADDED = 3
    SUBSCRIBED = 3
    MaxLines = 3
SPECIFICATION Spec
INVARIANTS
    CalTypeOK
PROPERTIES
    EveryInputRead
CHECK_DEADLOCK FALSE
