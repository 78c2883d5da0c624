SPECIFICATION Spec
CONSTANTS
    NumJobs = 2
    ResultCap = 1
    MaxResults = 2
    MaxChunks = 1
    GracefulClose = TRUE
INVARIANTS
    TypeOK
    NoSendOnClosed
    CallbackReleased
    NoCrossTalk
    ServerInStep
    CompletedHasFinal
PROPERTIES
    KeepsContract
CHECK_DEADLOCK FALSE
