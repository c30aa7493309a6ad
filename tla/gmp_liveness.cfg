\* Fibers park only on other schedulers (DbExecutor); tasks are pinned to either
\* thread or to none.
SPECIFICATION FairSpec
CONSTANTS
    f1 = f1
    f2 = f2
    f3 = f3
    f4 = f4
    NWorkers = 2
    RootWorker = 2
    Fibers <- TwoFibers
    Pins <- PinsToAll
    Holds = {"ext"}
    MaxYields = 1
INVARIANTS
    NoTaskLost
PROPERTIES
    EveryTaskFinishes
    StopReturns
