SPECIFICATION BSpec
CONSTANTS
    Tasks = {q1, q2}
    Clients = {c1, c2}
    None = None
    DefaultSessionTTL = 1
    DefaultHeartbeat = 1
    DefaultCapacity = 1
    Unset = Unset
    Garbage = Garbage
    Environments <- MCEnvironments
    MaxTime = 7
    MaxMsgs = 0
    MaxFaults = 0
    MaxDelay = 3
    Latency = 1
    MaxLosses = 1
SYMMETRY Symmetry
INVARIANTS
    BackendTypeOK
    
    
