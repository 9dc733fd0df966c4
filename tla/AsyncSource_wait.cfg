SPECIFICATION FairSpec
CONSTANTS
    Keys = {k1, k2}
    Clients = {c1, c2}
    m_max_wait_ms = 1
    m_ttl_ms = 2
    Delays = {0}
    Handlers = {TRUE, FALSE}
    MaxLookups = 2
    MaxNow = 5
PROPERTIES
    OneAnswer
    RequestServed
    StopReturns
CHECK_DEADLOCK FALSE
