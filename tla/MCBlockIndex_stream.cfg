SPECIFICATION FairSpec
CONSTANTS
    EventTypes <- MCEventTypes
    MessageTypes <- MCMessageTypes
    Blocks <- MCBlocks
    Filters <- MCFilters
    IndexSizes = {2, 4}
    Lookups = {{4}, {2, 4}}
    StartBlocks = {1, 3}
    Stops = {0}
    MaxHeight = 4
    MaxTools = 2
INVARIANTS
    TypeOK
    IndexIsExact
    StreamIsComplete
PROPERTIES
    BundlesGetIndexed
\* The chain stops at MaxHeight.
CHECK_DEADLOCK FALSE
