SPECIFICATION Spec
CONSTANTS
    None = None
    MaxLinks = 2
    MaxFaults = 2
CHECK_DEADLOCK FALSE
INVARIANTS
    TypeOK
    SealedForItsLink
    
PROPERTIES
    
    SessionEndsForBoth
