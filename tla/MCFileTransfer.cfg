SPECIFICATION Spec
CONSTANTS
    Size = 2
    HighWater = 0
    LowWater = 0
    SameMillisecond = FALSE
    MaxOffers = 2
    MaxSteps = 1
    MaxClicks = 1
    MaxFaults = 1
CHECK_DEADLOCK FALSE
INVARIANTS
    TypeOK
    SavedIsWhole
    OneWay
    SessionsAgree
    WaitingIsTimed
    CollisionChoosesOne
