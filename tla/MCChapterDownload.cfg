SPECIFICATION FairSpec
CONSTANTS
    c1 = c1
    c2 = c2
    s1 = s1
    NoSource = NoSource
    NoRecord = NoRecord
    Ids <- MCIds
    Sources = {s1}
    SourcesOf <- MCSourcesOf
    Limits = {2}
    Orders <- MCPlainQueue
    Kinds <- MCKinds
    MaxPending = 2
    MaxOthers = 1
    MaxRestarts = 1
INVARIANTS
    HeldByAttempts
    PoolSerialPerSource
    CancelledWaiterStops
PROPERTIES
    LateWriteRecreatesNothing
    CompleteStaysComplete
    AttemptEnds
