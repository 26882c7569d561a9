SPECIFICATION PoolSpec
CONSTANTS
    Clients = {c1, c2, c3}
    MaxBuffers = 2
    AllowOversize = TRUE
    PoolFaults = {"alloc", "restart"}
    MaxFaults = 2
    MaxLoad = 4
INVARIANTS InUseExact
PROPERTIES RefusedOnlyWhenTaken
CHECK_DEADLOCK FALSE
