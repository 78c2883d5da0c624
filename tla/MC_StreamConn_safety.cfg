\* A client of either transport: two STT starts, in a session or not.
SPECIFICATION Spec
CONSTANTS
    Transports = {"ws", "grpc"}
    MaxStarts = 2
    MaxResults = 1
    Services = {"stt"}
    Pools = {a, b}
SYMMETRY Symmetry
INVARIANTS
    TypeOK
    OneOpenJob
    DoneIsComplete
    FramesOfOneJob
    AudioClosedOnExit
    StickyIsFirst
CHECK_DEADLOCK FALSE
