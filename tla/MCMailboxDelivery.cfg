SPECIFICATION FairSpec
CONSTANTS
    Senders = {s1}
    Channels = {w1, w2}
    First = w1
    Capacity = 1
    Retries = 2
    MaxSends = 2
    MaxFailures = 2
CHECK_DEADLOCK FALSE
INVARIANTS
    TypeOK
    
    ChannelsBounded
    MissedHasExcuse
PROPERTY
    PushArrives
