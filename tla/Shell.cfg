SPECIFICATION Spec
CONSTANTS
    INODES_PER_SECTOR = 2
    ADDR_SMALL_LENGTH = 2
    SHELL_CMD_SIZE = 11
    BUF_SECTORS = 2
    Scripts <- MCScripts
    Values <- MCValues
    LongWords <- MCLongWords
    InitDisks <- MCInitDisks
INVARIANTS TypeOK StateIsOfTheDisk CommandIsLine
PROPERTIES EndsAtExitOrEnd MkfsMakesWhatIsTyped
\* The shell stops at exit and at the end of its input.
CHECK_DEADLOCK FALSE
