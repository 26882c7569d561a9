SPECIFICATION FairSpec
CONSTANTS
    N = 2
    MaxFaults = 2
    MaxReduces = 1
INVARIANTS
    BuiltIsComplete
    BuiltSinceLastChange
PROPERTIES
    AllReduceAnswered
CHECK_DEADLOCK FALSE
