SPECIFICATION Spec
CONSTANTS
    Keys = {k1, k2}
    Clients = {c1}
    m_max_wait_ms = 1
    m_ttl_ms = 2
    Delays = {0, 2}
    Handlers = {TRUE, FALSE}
    MaxLookups = 3
    MaxNow = 5
SYMMETRY Symm
INVARIANTS
    EndNotUsed
CHECK_DEADLOCK FALSE
