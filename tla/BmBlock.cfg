SPECIFICATION BmSpec
CONSTANTS
    BITS_PER_VECTOR = 3
    Numbers <- MCNumbers
INVARIANT BmTypeOK
PROPERTY RefinesNumberPool
