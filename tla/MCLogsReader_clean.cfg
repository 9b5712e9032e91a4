SPECIFICATION FairSpec
CONSTANTS
    NumFiles = 3
    MaxLines = 2
    MaxRestarts = 0
    Capacity = 3
    PathLen = 1
    Radix = 2
    MaxFaults = 0
INVARIANTS
    TypeOK
PROPERTIES
    StreamInOrder
    EverythingSent
    CancelStops
\* A cancelled reader stops for good.
CHECK_DEADLOCK FALSE
