SPECIFICATION FairSpec
CONSTANTS
    NumJobs = 2
    ResultCap = 1
    MaxResults = 1
    MaxChunks = 0
    GracefulClose = FALSE
PROPERTIES
    PoppedCloses
    DroppedReconnects
    
CHECK_DEADLOCK FALSE
