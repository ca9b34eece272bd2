SPECIFICATION FairSpec
CONSTANTS
    n1 = n1
    n2 = n2
    n3 = n3
    nx = nx
    ny = ny
    r1 = r1
    r2 = r2
    Parts = {"gossip", "names", "runtime", "lease"}
    Nodes = {n1, n2, n3}
    Foundings = {{}, {n1, n2}, {n1, n2, n3}}
    SeedsOf <- Seeds
    SuspicionTimeout = 1
    DeadTimeout = 1
    MaxIncidents = 2
    MaxLate = 0
    NoPeer = NoPeer
    Hosts = {n1, n2}
    Names = {nx, ny}
    HomeOf <- Homes
    RegistersOn <- Registrars
    Resolvers = {r1, r2}
    NodeOf <- Callers
    MaxChanges = 3
    MaxCalls = 1
    Nobody = Nobody
    Members = {1, 2}
    Self = 2
    Monitors = {"m1", "m2"}
    MaxTransitions = 5
    Candidates = {n1, n2}
    MaxToken = 3
    NoOwner = NoOwner
INVARIANTS GossipInv 
PROPERTIES DeadForGood RuntimeSafety LeaseSafety
CHECK_DEADLOCK FALSE
