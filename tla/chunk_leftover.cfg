SPECIFICATION Spec
CONSTANTS
  Handlers = {h1}
  Coords <- OneEach
  Md5s = {m1}
  Modes = {TRUE, FALSE}
  MaxRequests = 5
  MaxBlobs = 3
  MaxFaults = 0
  None = None
  TotalChunks = 2
  LeadingNumber = 1
  MaxExpired = 1
INVARIANT WholeBlobs
CHECK_DEADLOCK FALSE
