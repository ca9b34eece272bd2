SPECIFICATION Spec
INVARIANTS DeliveryInv RetriesNotSuppressed StreamInv StoresInv StartupInv
PROPERTIES StreamEnds
CHECK_DEADLOCK FALSE
CONSTANTS
    Parts = {"pipeline", "stream", "state", "outbox", "startup"}
    a1 = a1
    a2 = a2
    b = b
    d = d
    ka = ka
    kb = kb
    kd = kd
    Sends = {a1, a2, b, d}
    Keys = {ka, kb, kd}
    Key <- MCKey
    Tracked = {a1, a2, b}
    Missing = {d}
    FastTag = {a2}
    Perishable = {a2}
    Malformed = {b}
    MailboxCapacity = 1
    CacheMax = 1
    DlqCapacity = 2
    DlqPolicy = "DropOldestRecord"
    DeadLetterFull = TRUE
    MaxTrips = 2
    PressureAt = 1
    MaxCommands = 2
    MaxChunks = 3
    SizeOf <- MCSizeOf
    InitialWindow = 2
    SendBuffer = 2
    TargetCapacity = 2
    MaxFaults = 1
    StoreKinds = {"in_memory", "file"}
    MaxEvents = 4
    MaxSnapshots = 3
    MaxStops = 2
    Ids <- MCIds
    Width = 2
    TimeToLive = 1
    MaxOps = 4
    MaxShort = 1
    MaxTime = 2
    NumStages = 3
    Callers = {"main"}
    MaxCalls = 4
    NumActors = 3
    Unnamed = {2}
    Leaseless = {2}
    Taken = {1}
