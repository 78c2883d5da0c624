SPECIFICATION Spec
CONSTANTS
    Jobs = {j1, j2}
    PoolCfgs <- UnevenPools
    Requests <- TaggedRequests
SYMMETRY Symmetry
INVARIANTS
    JobInOnePlace
    
    CountedOnce
    ForeignOnlyByTag
    WarnedIffRerouted
    WakeupsSuffice
    StrandedOnlyByDrop
PROPERTIES
    KeepsContract
CHECK_DEADLOCK FALSE
