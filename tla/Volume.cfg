SPECIFICATION Spec
CONSTANTS
    INODES_PER_SECTOR = 2
    ADDR_SMALL_LENGTH = 2
    InitImages <- MCImages
    MkfsArgs <- MCMkfsArgs
    Modes <- MCModes
    DirectInodes <- MCNoDirect
    IoFaults <- MCFaults
INVARIANTS TypeOK MarkedIffLiveOrGranted NoMemMeansFull ContentIsMarked
PROPERTIES AllocFresh OnlyInodesChange RefinesInodeStore
