SPECIFICATION Spec
CONSTANTS
    Sends = {s1, s2}
    Receives = {r1}
    Machines = {a, b}
    None = None
    MaxRegister = 1
    Size = 2
    Uniform = FALSE
    HighWater = 0
    LowWater = 0
    InboxCap = 1
    MaxFaults = 1
CHECK_DEADLOCK FALSE
INVARIANTS
    TypeOK
    WriterHasPermit
    StreamsWhatWasAccepted
    OkMeansAllSent
    
PROPERTIES
    TransfersEnd
