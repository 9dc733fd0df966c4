SPECIFICATION Spec
CONSTANTS
    RING_BUF_SIZE = 4
    CUSHION = 2
    HDR = 1
    EvtSizes = {1, 3}
    Overlap = FALSE
    MaxEvents = 3
    MaxOpens = 2
INVARIANTS TypeOK RingInv GateExclusive ReaderSound EventIntact Accounting
PROPERTIES NeverOverwrites
