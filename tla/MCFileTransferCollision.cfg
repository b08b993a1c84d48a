SPECIFICATION Spec
CONSTANTS
    Size = 1
    HighWater = 0
    LowWater = 0
    SameMillisecond = TRUE
    MaxOffers = 1
    MaxSteps = 1
    MaxClicks = 0
    MaxFaults = 0
CHECK_DEADLOCK FALSE
INVARIANT CollisionChoosesOne
