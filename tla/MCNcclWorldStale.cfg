SPECIFICATION Spec
CONSTANTS
    N = 1
    MaxFaults = 1
    MaxReduces = 0
INVARIANTS
    WorldFollowsDevices
CHECK_DEADLOCK FALSE
