CONSTANTS
    Client = {1}
    CalName = {"work"}
    UserName = {"u", "us"}
    Time = {1, 2}
    CutTo <- UserCut
    Line <- MCLine
    INPUT_BUFFER_SIZE = 6
    CLEARED = 1
    ADDED = 3
    SUBSCRIBED = 3
    MaxLines = 3
SPECIFICATION Spec
INVARIANTS
    ListsWellFormed
    OneLineOneCommand
    
PROPERTIES
    ImplementsCalendar
CHECK_DEADLOCK FALSE
