SPECIFICATION Spec
CONSTANTS
    t1 = t1
    t2 = t2
    r1 = r1
    r2 = r2
    Task = {t1, t2}
    Resource = {r1, r2}
    NoTask = NoTask
    Requests <- Mixed
    MaxInflight = 2
    NStages = 2
    Budget <- WireFaults
SYMMETRY FullySymmetric
INVARIANTS
    TypeOK
    LeasesHeld
    OneExecutionPerResource
    IdleMatchesIntent
PROPERTIES
    TerminalIsFinal
    ImplementsLeasedTasks
CHECK_DEADLOCK FALSE
