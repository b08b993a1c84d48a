SPECIFICATION Spec
CONSTANTS
    Senders = {s1}
    Channels = {w1}
    First = w1
    Capacity = 1
    Retries = 1
    MaxSends = 1
    MaxFailures = 0
CHECK_DEADLOCK FALSE
INVARIANT NoMessageMissed
