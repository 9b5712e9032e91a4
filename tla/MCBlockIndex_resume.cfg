SPECIFICATION Spec
CONSTANTS
    EventTypes <- MCEventTypes
    MessageTypes <- MCMessageTypes
    Blocks <- MCBlocks
    Filters <- MCFilters
    IndexSizes = {2, 4}
    Lookups = {{4}, {2, 4}}
    StartBlocks = {1, 3}
    Stops = {0}
    MaxHeight = 4
    MaxTools = 2
PROPERTIES
    ResumesAtUnindexed
\* The chain stops at MaxHeight.
CHECK_DEADLOCK FALSE
