SPECIFICATION Spec
CONSTANTS
    LineLen = 2
    MaxWritten = 6
    PipeCap = 3
    BufferCap = 2
    HasChildren = FALSE
INVARIANTS
    OutputNotLost
\* Start returns and the goroutines end.
CHECK_DEADLOCK FALSE
