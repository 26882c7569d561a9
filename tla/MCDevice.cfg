SPECIFICATION Spec
CONSTANTS
    MaxRequests = 3
    PendingCapacity = 2
    MaxRetries = 1
    MaxFailures = 2
    Faults = {"poison", "spawn"}
INVARIANTS
    TypeOK
    RunsInOwnContext
    ChildrenConverge
    InOrder
    NoStrandedWork
CHECK_DEADLOCK FALSE
