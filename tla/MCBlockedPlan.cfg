SPECIFICATION Spec
CONSTANTS
    None = None
    Task = {"t1", "t2"}
    Iface = {1, 2}
    Addr = {1, 2, 3}
    Table = {1, 2, 3}
    Cases <- OffCases
    Edits <- Hand
    MaxFaults = 0
    MaxPolls = 0
    MaxEvents = 0
    MaxEdits = 0
CHECK_DEADLOCK FALSE
INVARIANT BlockedNeverApplied
