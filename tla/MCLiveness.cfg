SPECIFICATION FairSpec
CONSTANTS
    t1 = t1
    t2 = t2
    r1 = r1
    r2 = r2
    Task = {t1, t2}
    Resource = {r1}
    NoTask = NoTask
    Requests <- OneFree
    MaxInflight = 1
    NStages = 1
    Budget <- LivenessFaults
PROPERTIES
    EveryTaskEnds
    LeakedLeaseReaped
CHECK_DEADLOCK FALSE
