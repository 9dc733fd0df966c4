SPECIFICATION FairSpec
CONSTANTS
    RING_BUF_SIZE = 4
    CUSHION = 2
    HDR = 1
    EvtSizes = {1, 3}
    Overlap = FALSE
    MaxEvents = 2
    MaxOpens = 2
PROPERTIES EventuallyDelivered
