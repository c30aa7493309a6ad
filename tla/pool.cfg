\* Three callers for two slots, every kind of timeout, connects that may fail.
SPECIFICATION FairSpec
CONSTANTS
    u1 = u1
    u2 = u2
    u3 = u3
    k1 = k1
    k2 = k2
    k3 = k3
    Callers <- ThreeCallers
    Conns <- ThreeConns
    NoConn = NoConn
    MaxConn = 2
    Timeouts = {"zero", "finite", "forever", "outside"}
    MayFail = TRUE
INVARIANTS
    TypeOK
    OneOwner
    SlotsExact
    WokenOnce
    OneSideCompletes
    NoIdleWhileWaiting
PROPERTIES
    LendingSpec
    BoundedWaitScheduled
