\* More items than slots; a flag below one is taken as one.
SPECIFICATION FairSpec
CONSTANTS
    NumItems = 3
    Flags = {0, 2}
    OutName <- ThreeNames
    MaxRetries = 3
INVARIANTS
    SlotsRespected
    LogComplete
    OkHasOutput
PROPERTIES
    BatchEnds
CHECK_DEADLOCK FALSE
