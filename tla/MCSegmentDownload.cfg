SPECIFICATION FairSpec
CONSTANTS
    w1 = w1
    w2 = w2
    Workers <- MCWorkers
    Total = 2
    Encrypted = TRUE
    MaxTries = 2
    LimitedTries = 3
    MaxCrashes = 1
    MaxRefusals = 1
INVARIANTS
    ReusedAreWhole
    OutputIsWhole
    SettledBeforeAnswer
PROPERTIES
    SegmentsAreKept
    AttemptEnds
