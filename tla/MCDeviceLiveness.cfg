SPECIFICATION FairSpec
CONSTANTS
    MaxRequests = 2
    PendingCapacity = 1
    MaxRetries = 1
    MaxFailures = 2
    Faults = {"poison", "spawn", "sticky"}
PROPERTIES
    KeepsPromise
    Answered
    Recovers
CHECK_DEADLOCK FALSE
