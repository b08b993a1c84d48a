SPECIFICATION FairSpec
CONSTANTS
    Items = {x1, x2, x3}
    None = None
    Loops = {l1, l2}
    MaxQueue = 3
INVARIANTS
    TypeOK
    OneAtATime
    NothingStranded
PROPERTY
    ImplementsTaskQueue
