SPECIFICATION Spec
CONSTANTS
    INODES_PER_SECTOR = 2
    ADDR_SMALL_LENGTH = 2
    InitImages <- MCOneDisk
    MkfsArgs <- MCNoMkfs
    Modes <- MCOneMode
    DirectInodes <- MCNoDirect
    IoFaults <- MCReadFaults
PROPERTY AllocFreshOnceMounted
