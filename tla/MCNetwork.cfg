SPECIFICATION Spec
CONSTANTS
    None = None
    Task = {"t1", "t2"}
    Iface = {1, 2}
    Addr = {1, 2, 3}
    Table = {1, 2, 3}
    Cases <- AllCases
    Edits <- Hand
    MaxFaults = 1
    MaxPolls = 1
    MaxEvents = 1
    MaxEdits = 1
CHECK_DEADLOCK FALSE
INVARIANT Distinct
PROPERTY FileIsIntent
PROPERTY KernelIsIntent
PROPERTY FilesRestored
PROPERTY ForeignKept
