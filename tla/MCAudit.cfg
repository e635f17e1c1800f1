SPECIFICATION FairSpec
CONSTANTS
    Request = {1, 2, 3}
    NoEntry = 0
    MaxFaults = 3
CHECK_DEADLOCK FALSE
INVARIANT DurableInFile
INVARIANT FileInOrder
INVARIANT WrittenOnce
PROPERTY ImplementsTrail
PROPERTY EveryRowDrained
