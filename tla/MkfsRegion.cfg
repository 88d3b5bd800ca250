SPECIFICATION Spec
CONSTANTS
    INODES_PER_SECTOR = 9
    ADDR_SMALL_LENGTH = 2
    InitImages <- MCNoDisk
    MkfsArgs <- MCTwoSectors
    Modes <- MCOneMode
    DirectInodes <- MCNoDirect
    IoFaults <- MCNoFaults
INVARIANT GrantedCanBeCreated
