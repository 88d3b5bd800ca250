SPECIFICATION Spec
CONSTANTS
    INODES_PER_SECTOR = 2
    ADDR_SMALL_LENGTH = 2
    CHAR_RANGE = 8
    Images <- MCTrees
    Trees <- MCTrees
    Paths <- MCStale
    IoFaults <- MCNoFaults
INVARIANT LookupIsExact
