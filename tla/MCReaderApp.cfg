SPECIFICATION AppFairSpec
CONSTANTS
    LineLen = 2
    MaxWritten = 5
    PipeCap = 3
    BufferCap = 2
    HasChildren = TRUE
    Capacity = 1
INVARIANTS
    AppTypeOK
    NoSendOnClosed
    HandedIsRead
    NodeIsStopped
PROPERTIES
    SignalExits
    SourceEndExits
    GiveUpExits
\* The program ends.
CHECK_DEADLOCK FALSE
