\* The head of one request may arrive in two reads.
SPECIFICATION Spec
CONSTANTS
    MaxLen = 9
    MaxReads = 2
    MaxBody = 1
    MaxRequests = 1
    m_isKeepalive = TRUE
INVARIANTS
    InSync
CHECK_DEADLOCK FALSE
