CONSTANTS
    Array = {"a", "b"}
    Drive = {"d1", "d2", "d3"}
    Pool = {"p", "q"}
    Path = {"m", "n"}
    ShareId = {"s1", "s2"}
    None = None
    Task = {"t1", "t2"}
    Cases <- LogCases
    MaxFaults = 2
    MaxPolls = 1
SPECIFICATION Spec
PROPERTY LogKept
CHECK_DEADLOCK FALSE
