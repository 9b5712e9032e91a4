SPECIFICATION FairSpec
CONSTANTS
    FirstHeight = 1
    LastHeight = 3
    Txs <- MCTxs
    Vsets <- MCVsets
    Radix = 2
    Capacity = 2
    MaxFaults = 2
INVARIANTS
    TypeOK
    BlocksAreWhole
    ChainGoesUp
PROPERTIES
    EndedIsReturned
\* The node stops at LastHeight, and a failed reader stops for good.
CHECK_DEADLOCK FALSE
