SPECIFICATION Spec
CONSTANTS
  Handlers = {h1, h2}
  Coords <- OneEach
  Md5s = {m1, m2}
  Modes = {TRUE}
  MaxRequests = 3
  MaxBlobs = 2
  MaxFaults = 1
  None = None
  TotalChunks = 2
  LeadingNumber = None
  MaxExpired = 1
SYMMETRY Symmetry
INVARIANTS TypeOK SharedAlive Balanced WholeBlobs
PROPERTY CoordinateImmutable
CHECK_DEADLOCK FALSE
