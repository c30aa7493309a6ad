SPECIFICATION Spec
CONSTANTS
  Handlers = {h1}
  Coords <- TwoBuilds
  Md5s = {m1}
  Modes = {TRUE}
  MaxRequests = 3
  MaxBlobs = 2
  MaxFaults = 0
  None = None
  TotalChunks = 2
  LeadingNumber = None
  MaxExpired = 0
INVARIANT NoDangling
CHECK_DEADLOCK FALSE
