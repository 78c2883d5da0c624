\* No SYMMETRY: the run checks liveness properties.
SPECIFICATION LifeFairSpec
CONSTANTS
    Jobs = {j1, j2}
    PoolCfgs <- TtsPool
    Requests <- TtsRequests
INVARIANTS
    LateOnlyByStreams
PROPERTIES
    StopEnds
    AcceptedFinishes
CHECK_DEADLOCK FALSE
