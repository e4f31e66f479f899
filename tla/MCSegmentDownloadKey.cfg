SPECIFICATION Spec
CONSTANTS
    w1 = w1
    w2 = w2
    Workers <- MCWorkers
    Total = 2
    Encrypted = TRUE
    MaxTries = 1
    LimitedTries = 1
    MaxCrashes = 0
    MaxRefusals = 1
INVARIANTS
    OnlyDecryptedSegmentsReused
