SPECIFICATION Spec
CONSTANTS
    INODES_PER_SECTOR = 2
    ADDR_SMALL_LENGTH = 2
    CHAR_RANGE = 8
    Images <- MCImages
    Trees <- MCTrees
    Paths <- MCPaths
    IoFaults <- MCFaults
INVARIANTS TypeOK ReadersAreConsistent LookupIsExact ListIsComplete TreeIsExact
PROPERTY WalksEnd
