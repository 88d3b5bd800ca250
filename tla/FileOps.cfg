SPECIFICATION Spec
CONSTANTS
    INODES_PER_SECTOR = 2
    ADDR_SMALL_LENGTH = 2
    SIZE1_RANGE = 32
    Images <- MCImages
    Inumbers <- MCInumbers
    Requests <- MCRequests
    IoFaults <- MCFaults
INVARIANTS TypeOK ReadsUntilSizeOrEnd CatShowsFile ShaOfTheContent ScanListsLive
PROPERTY OperationsEnd
