SPECIFICATION Spec
CONSTANTS
    t1 = t1
    t2 = t2
    Threads <- MCOne
    Writers <- MCOne
    Length = 3
    Wanted <- MCAnywhere
    Failing <- MCAnyFails
    Contents <- MCContents
INVARIANT TypeOK
PROPERTY RefinesSectorStore
