SPECIFICATION FairSpec
CONSTANTS
    A = A
    B = B
    Tenants <- MCTenants
    Weight <- MCWeight
    Scale = 2
    Unknown = X
    MaxRequests = 4
    MaxInFlight = 2
    MaxPanics = 1
INVARIANTS InFlightExact WorkConserving LagBounded
PROPERTIES Answered
CHECK_DEADLOCK FALSE
