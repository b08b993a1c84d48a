SPECIFICATION Spec
CONSTANTS
    Tasks = {q1, q2}
    Clients = {c1, c2}
    None = None
    DefaultSessionTTL = 1
    DefaultHeartbeat = 1
    DefaultCapacity = 1
    Unset = Unset
    Garbage = Garbage
    Environments <- MCEnvironments
    MaxTime = 1
    MaxMsgs = 2
    MaxFaults = 1
SYMMETRY Symmetry
INVARIANTS
    TypeOK
    StartsSafely
    PrunedStaysPruned
    FetchedOnceInOrder
    OrphanExcused
