SPECIFICATION FairSpec
CONSTANTS
    Callers = {c1}
    Workers = {w1, w2}
    Services = {s1, s2}
    NoThread = NoThread
    NoService = NoService
PROPERTIES
    DisabledStops
    EnabledTicks
    SyncLockFreed
