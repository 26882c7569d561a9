SPECIFICATION FairSpec
CONSTANTS
    MaxRequests = 5
    BatchSizes = {0, 1, 2, 3}
    MaxWait = 2
    MaxFlushNow = 1
    MaxFaults = 1
INVARIANTS WakeUpDue OwnResponse
PROPERTIES Answered TimersEnd
CHECK_DEADLOCK FALSE
