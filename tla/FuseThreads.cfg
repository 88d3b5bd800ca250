SPECIFICATION Spec
CONSTANTS
    t1 = t1
    t2 = t2
    Threads <- MCTwo
    Writers <- MCNone
    Length = 3
    Wanted <- MCOnDisk
    Failing <- MCNone
    Contents <- MCContents
PROPERTY RefinesSectorStore
