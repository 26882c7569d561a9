SPECIFICATION FairSpec
CONSTANTS
    Actors = 3
    Streams = 2
    Ops = 2
    Strategies = {"hostfn", "polled", "unbounded", "sync"}
    Allocators = {"single", "pooled"}
    Faults = {"enqueue", "mark", "timeout", "poison"}
INVARIANTS OkIsExecuted HeldUntilComplete
PROPERTIES Answered
CHECK_DEADLOCK FALSE
