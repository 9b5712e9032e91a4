SPECIFICATION Spec
CONSTANTS
    FirstHeight = 1
    LastHeight = 3
    Txs <- MCTxs
    Vsets <- MCVsets
    Radix = 2
    Capacity = 2
    MaxFaults = 1
PROPERTIES
    NilBlockRejected
\* The node stops at LastHeight, and a failed reader stops for good.
CHECK_DEADLOCK FALSE
