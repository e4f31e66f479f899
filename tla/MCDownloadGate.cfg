SPECIFICATION FairGateSpec
CONSTANTS
    c1 = c1
    c2 = c2
    c3 = c3
    c4 = c4
    s1 = s1
    s2 = s2
    NoSource = NoSource
    Ids <- MCIds4
    Sources <- MCSources
    SourcesOf <- MCSourcesOf4
    Limits = {0, 1, 2}
    Orders <- MCOrders
INVARIANTS
    WorkConserving
PROPERTIES
    GrantsInQueueOrder
    DispatchIsTheLoop
    ImplementsSlots
    EveryWaiterServed
