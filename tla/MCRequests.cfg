SPECIFICATION FairSpec
CONSTANTS
    a1 = a1
    c1 = c1
    s1 = s1
    s2 = s2
    NoAnswer = NoAnswer
    Pending = Pending
    Tables = {"ask", "rpc", "out"}
    Asks = {a1}
    Calls = {c1}
    MaxRetries = 2
    Patience = 2
    Sends = {s1, s2}
    MaxAttempts = 2
    AttemptTimeout = TRUE
    Deadlined = {s1}
    OtherIds = 0
    InFlight = 1
\* Every request may be answered and every frame lost: the tables may come to rest.
INVARIANTS AskInv OutInv
PROPERTIES EveryAskAnswered EveryCallEnds ReceiptResolvedOnce
CHECK_DEADLOCK FALSE
