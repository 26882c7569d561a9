SPECIFICATION MCSpec
CONSTANTS
    Workers = {"w1", "w2"}
    Teams <- MCTeams
    Sizes = {0, 3}
    TopK = 2
    MaxCalls = 2
    NumStages = 2
    Graphs <- MCGraphs
    DraftLen = 2
    MaxTokens = 3
    HeadCap = 2
    TailCap = 0
    MaxItems = 4
    Texts = {"a", "b"}
    Docs = {"d"}
    Capacity = 1
    MaxQueries = 3
    PsWorkers = {"w1", "w2"}
    MaxStaleness = 1
    MaxApplied = 4
    PlanRequests <- MCPlanRequests
    Cap = 1
    Slots = {1, 2}
    MaxPlans = 2
    Procs = {"p1", "p2"}
    Devices = {"p1"}
    Version <- MCVersion
    Wants <- MCWants
    MaxJobs = 2
    MaxGen = 2
INVARIANTS
    OkMeansAll StagesInOrder CacheHonest StalenessBounded
    PlansAccounted LoadedIsOwn SettledHandles
PROPERTIES
    EveryRequestAnswered
CHECK_DEADLOCK FALSE
