SPECIFICATION Spec
CONSTANTS
    INODES_PER_SECTOR = 2
    ADDR_SMALL_LENGTH = 2
    CHAR_RANGE = 8
    t1 = t1
    t2 = t2
    Threads <- MCThreads
    Disk <- MCDisk
    Requests <- MCRequests
INVARIANTS TypeOK RacesSpareReaders UndisturbedIsExact
PROPERTY OperationsEnd
