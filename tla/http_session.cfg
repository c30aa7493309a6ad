\* The head arrives in one read; two requests on a kept connection.
SPECIFICATION Spec
CONSTANTS
    MaxLen = 9
    MaxReads = 1
    MaxBody = 2
    MaxRequests = 2
    m_isKeepalive = TRUE
INVARIANTS
    TypeOK
    SlicesWhole
    CallbackOrder
    InSync
CHECK_DEADLOCK FALSE
