SPECIFICATION Spec
CONSTANTS
    RING_BUF_SIZE = 4
    CUSHION = 2
    HDR = 1
    EvtSizes = {1}
    Overlap = FALSE
    MaxEvents = 2
    MaxOpens = 1
INVARIANTS OnlyFaultsBounce
