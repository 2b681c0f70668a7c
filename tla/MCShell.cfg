CONSTANTS
    Path <- MCPath
    MaxObjects = 6
    MaxCommands = 5
SPECIFICATION Spec
INVARIANTS
    ShellTypeOK
    ListsMatchParents
    NamesUnique
PROPERTIES
    OneSubtreeLost
    MvKeepsWhatItMoves
CHECK_DEADLOCK FALSE
