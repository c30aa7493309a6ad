\* A fiber parked on epoll, woken from another worker.
SPECIFICATION Spec
CONSTANTS
    f1 = f1
    f2 = f2
    f3 = f3
    f4 = f4
    NWorkers = 2
    RootWorker <- NoRoot
    Fibers <- TwoFibers
    Pins <- NoPins
    Holds = {"io"}
    MaxYields = 1
INVARIANTS
    NoTaskLost
