\* A one-shot and a recurring timer, two threads.  20 is out of the range of int
\* and becomes a sleep without end; setting the clock back by 5 is a rollover,
\* by 1 it is not.
SPECIFICATION Spec
CONSTANTS
    t1 = t1
    t2 = t2
    TimerIds = {1, 2}
    Recurring = {2}
    Threads = {t1, t2}
    Delays = {0, 1, 20}
    MAX_TIMEOUT = 2
    IntMax = 15
    Rollover = 4
    Start = 20
    Jumps = {1, 5}
    MaxTicks = 2
    MaxCalls = 1
    MaxJumps = 1
SYMMETRY Symmetry
INVARIANTS
    TypeOK
    ArmedExact
    CancelIsFinal
    NoOversleep
PROPERTIES
    NotEarly
