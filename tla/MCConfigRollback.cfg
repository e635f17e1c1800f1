SPECIFICATION Spec
CONSTANTS
    s1 = s1
    p1 = p1
    i1 = i1
    Share = {s1}
    Aux = {p1}
    Iface = {i1}
    Value = {1, 2}
    t1 = t1
    t2 = t2
    Task = {t1, t2}
    None = None
    Old = Old
    Past <- MCPast
    Present <- MCPresent
    MaxRollbacks = 1
    MaxFaults = 1
SYMMETRY TaskSymmetry
CHECK_DEADLOCK FALSE
INVARIANT AdoptedIsRestored
PROPERTY OverwritesOnlyPlanned
