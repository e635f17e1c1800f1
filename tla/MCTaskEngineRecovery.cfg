SPECIFICATION Spec
CONSTANTS
    t1 = t1
    t2 = t2
    r1 = r1
    r2 = r2
    Task = {t1, t2}
    Resource = {r1, r2}
    NoTask = NoTask
    Requests <- Single
    MaxInflight = 1
    NStages = 1
    Budget <- CrashFaults
SYMMETRY FullySymmetric
INVARIANTS
    CapRespected
PROPERTIES
    LeaseKeptWhileLive
    ExecutedOnce
CHECK_DEADLOCK FALSE
