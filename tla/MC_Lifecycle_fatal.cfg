SPECIFICATION LifeSpec
CONSTANTS
    Jobs = {j1}
    PoolCfgs <- TtsPool
    Requests <- TtsRequests
INVARIANTS
    InFlightComplete
CHECK_DEADLOCK FALSE
