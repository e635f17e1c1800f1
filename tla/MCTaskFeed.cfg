SPECIFICATION FairSpec
CONSTANTS
    Follower = {c1}
    NStages = 1
    MaxFaults = 2
CHECK_DEADLOCK FALSE
INVARIANT StreamComplete
PROPERTY PhaseForward
PROPERTY EndSeen
