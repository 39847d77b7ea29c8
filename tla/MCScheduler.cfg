SPECIFICATION Spec
CONSTANTS
    Callers = {c1, c2}
    Workers = {w1, w2}
    Services = {s1, s2, s3}
    NoThread = NoThread
    NoService = NoService
SYMMETRY Symmetry
INVARIANTS
    TypeOK
    SyncsNeverOverlap
    OneWorkerIfSerial
    ScheduledSyncKeepsService
    PreferenceDurable
