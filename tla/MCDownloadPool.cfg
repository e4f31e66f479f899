SPECIFICATION FairPoolSpec
CONSTANTS
    t1 = t1
    t2 = t2
    w1 = w1
    w2 = w2
    NoTask = NoTask
    Tasks <- MCTasks
    Segmented <- MCSegmented
    Workers <- MCWorkers
    MaxFaults = 2
    MaxDeaths = 1
INVARIANTS
    AnsweredOnce
    DoneMeansDone
    WorkersAccounted
PROPERTIES
    CancelSettles
    KeepsPromise
    EverySubmissionAnswered
