SPECIFICATION FairSpec
CONSTANTS
    LineLen = 2
    MaxWritten = 8
    PipeCap = 4
    BufferCap = 3
    HasChildren = TRUE
INVARIANTS
    TypeOK
    CleanEndIsComplete
PROPERTIES
    StreamInOrder
    ReturnIsFinal
    CancelReturns
    ExitReturns
\* Start returns and the goroutines end.
CHECK_DEADLOCK FALSE
