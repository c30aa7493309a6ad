SPECIFICATION Spec
CONSTANTS
  r = r
  w = w
  Fibers = {r, w}
  Waits <- ReaderWriter
  Threads = {t1, t2}
  Timed = {r}
  MaxCalls = 1
  MaxEdges = 3
  MaxCloses = 1
  NDEBUG = TRUE
  None = None
INVARIANTS TypeOK PendingExact WokenOnce NoLostWait
PROPERTY Delivery
CHECK_DEADLOCK FALSE
