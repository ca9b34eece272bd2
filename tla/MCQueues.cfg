SPECIFICATION MCSpec
CONSTANTS
    Queues = {"ring", "mpsc", "deque", "activation", "calendar"}
    Producers = {p1, p2}
    Capacity = 2
    MaxClaims = 5
    Enqueuers = {p1, p2, p3}
    MaxNodes = 4
    Thieves = {h1, h2}
    Items = {x1, x2, x3, x4}
    InitialCapacity = 2
    Senders = {p1, p2}
    Workers = {w1, w2}
    MaxMessages = 2
    BatchLimit = 1
    RequeueBudget = 2
    LostWakeupBudget = 1
    RateLimited = TRUE
    NoAlarm = NoAlarm
    Alarms = {a1, a2}
    Waits = {0, 5, 9}
    FineNs = 2
    Width = 2
    MaxStep = 4
    Dawn = 3
    Strides = {1, 4}
    Horizon = 15
INVARIANTS IInv MpscInv DequeInv GateInv CalendarInv
PROPERTIES ImplementsChannel ClaimedIsConsumed DeliveredUnlessOverlap ImplementsDeque ReceivedUnlessLost
CHECK_DEADLOCK FALSE
