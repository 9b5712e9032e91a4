SPECIFICATION BufferedFairSpec
CONSTANTS
    MaxSize = 5
    MaxWrite = 3
    BufSize = 2
INVARIANTS
    BufferedTypeOK
    ExactlyOnce
    NoMissedGrowth
    ReturnsAfterAll
    WholeLines
PROPERTIES
    Returns
    ImplementsFileReader
\* ReadFile returns and the node may stop writing: the behaviour then ends.
CHECK_DEADLOCK FALSE
