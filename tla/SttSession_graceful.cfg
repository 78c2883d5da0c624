SPECIFICATION FairSpec
CONSTANTS
    NumJobs = 2
    ResultCap = 1
    MaxResults = 1
    MaxChunks = 0
    GracefulClose = TRUE
PROPERTIES
    PoppedCloses
CHECK_DEADLOCK FALSE
