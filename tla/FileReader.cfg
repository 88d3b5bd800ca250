SPECIFICATION Spec
CONSTANTS
    INODES_PER_SECTOR = 2
    ADDR_SMALL_LENGTH = 2
    Images <- MCImages
    Inumbers <- MCInumbers
    Offsets <- MCAligned
    IoFaults <- MCFaults
INVARIANT TypeOK
PROPERTY RefinesFileStream
