SPECIFICATION Spec
CONSTANTS
    NumFiles = 3
    MaxLines = 2
    MaxRestarts = 2
    Capacity = 3
    PathLen = 1
    Radix = 2
    MaxFaults = 0
INVARIANTS
    RemembersRecorded
\* A cancelled reader stops for good.
CHECK_DEADLOCK FALSE
