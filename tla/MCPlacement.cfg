SPECIFICATION FairSpec
CONSTANTS
    free = free
    fixed = fixed
    Producers = {p1}
    Controller = c
    Items <- MCItems
    NumWorkers = 2
    Unpinned = unpinned
    Pin <- MCPin
    NumPriorities = 2
    Priority <- MCPriority
    RingSize = 1
    MaxPlacements = 2
    MaxPauses = 1
INVARIANTS PlacementInv
PROPERTIES AdmittedAreRun
CONSTRAINT Untainted
