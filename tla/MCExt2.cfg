CONSTANTS
    Name <- MCName
    BeginsWith <- MCBeginsWith
    NameLen <- MCNameLen
    Inode <- MCInode
    Block <- MCBlock
    INODES = 32
    BLOCKS = 128
    ROOT = 2
    ROOT_BLOCK = 9
    BLOCK_SIZE = 40
    ADDRS = 4
    NDIRECT = 2
    SB_MOD = 65536
    FileBlocks = {1, 4}
    MaxCommands = 5
SPECIFICATION Spec
INVARIANTS
    FsTypeOK
    BlocksHaveOneOwner
    DirBlocksFilled
    LinkCountsMatch
    FreeCountsNeverLow
PROPERTIES
    OneEntryChanges
    OutOfSpaceKeepsTree
CHECK_DEADLOCK FALSE
