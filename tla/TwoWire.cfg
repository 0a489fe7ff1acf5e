SPECIFICATION Spec
CONSTANTS
    Size = 3
    ReplyLen = 2
    RepeatedStart = FALSE
    MaxWrites = 4
    MaxRequests = 2
    MaxPings = 1
    MaxTimeouts = 1
INVARIANTS
    
    ReplyIntact

    
CHECK_DEADLOCK FALSE
