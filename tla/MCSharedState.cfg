SPECIFICATION FairSpec
CONSTANTS
    Agents = {a1, a2, a3}
    MaxAsks = 5
    MaxRepeats = 2
    MaxQuits = 1
INVARIANTS OneWriter Fifo
PROPERTIES Served
CHECK_DEADLOCK FALSE
