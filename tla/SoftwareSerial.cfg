SPECIFICATION Spec
CONSTANTS
    Ports = {s1, s2}
    NoPort = NoPort
    Inverse = {s2}
    Speeds = {1, 2}
    Bytes = {0, 83}
    RingSize = 2
    Careful = TRUE
    MaxCalls = 3
    MaxFrames = 2
INVARIANTS
    SentAsWritten

    
    
CHECK_DEADLOCK FALSE
