SPECIFICATION Spec
CONSTANTS
    Tasks = {t1, t2}
    CPUs = {c1, c2}
    max_consumers = 2
    Hotplug = TRUE
    FailAt = {}
SYMMETRY Symm
INVARIANTS
    NoUseAfterFree
    FileHasRing
    
    OpenMeansCollecting
    StopAssert
    NothingLeftBehind
