\* A worker and the use_caller thread; four tasks make batches and thefts of
\* two, and some are pinned to worker 1.
SPECIFICATION Spec
CONSTANTS
    f1 = f1
    f2 = f2
    f3 = f3
    f4 = f4
    NWorkers = 2
    RootWorker = 2
    Fibers <- FourFibers
    Pins <- PinsToOne
    Holds = {"io"}
    MaxYields = 1
SYMMETRY Symmetry4
INVARIANTS
    TypeOK
    PinRespected
    NoDoubleRun
    OneResumption
    StopDrains
