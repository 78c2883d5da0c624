\* One job and its goroutines, both services, either transport.
SPECIFICATION FairSpec
CONSTANTS
    Transports = {"ws", "grpc"}
    MaxStarts = 1
    MaxResults = 2
    Services = {"stt", "tts"}
    Pools = {a}
PROPERTIES
    
    ShortLivedEnds
    HungSessionEnds
CHECK_DEADLOCK FALSE
