\* Three chunks through a channel of two, three results, a deadline that
\* passes and a broker that may do nothing.
SPECIFICATION FairSpec
CONSTANTS
    NumChunks = 3
    AudioCap = 2
    MaxResults = 3
INVARIANTS
    TypeOK
    OkIsWhole
    AudioCutOnlyAtEnd
PROPERTIES
    AudioReleased
    AbandonedFreed
    Answered
CHECK_DEADLOCK FALSE
