SPECIFICATION Spec
CONSTANTS
    RING_BUF_SIZE = 4
    CUSHION = 2
    HDR = 1
    EvtSizes = {1, 3}
    Overlap = TRUE
    MaxEvents = 3
    MaxOpens = 2
INVARIANTS GateExclusive
PROPERTIES NeverOverwrites
