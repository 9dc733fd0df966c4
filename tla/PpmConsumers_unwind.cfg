SPECIFICATION FairSpec
CONSTANTS
    Tasks = {t1, t2}
    CPUs = {c1, c2}
    max_consumers = 2
    Hotplug = FALSE
    FailAt = {1, 2, 3, 4, 5, 7, 8}
INVARIANTS
    NoUseAfterFree
    UnwindComplete
PROPERTIES
    MutexReleased
