SPECIFICATION Spec
CONSTANTS
    Jobs = {j1}
    PoolCfgs <- TtsPool
    Requests <- TtsRequests
INVARIANTS
    IdleWorkersWoken
CHECK_DEADLOCK FALSE
