SPECIFICATION Spec
CONSTANTS
    Keys = {k1, k2}
    Clients = {c1}
    m_max_wait_ms = 0
    m_ttl_ms = 1
    Delays = {0, 2}
    Handlers = {TRUE, FALSE}
    MaxLookups = 3
    MaxNow = 5
PROPERTIES
    HandlersCalled
CHECK_DEADLOCK FALSE
