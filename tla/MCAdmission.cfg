SPECIFICATION Spec
SYMMETRY Symmetry
VIEW MCView
INVARIANTS AdmissionInv
CHECK_DEADLOCK FALSE
CONSTANTS
    Producers = {p1, p2}
    p1 = p1
    p2 = p2
    Consumer = c
    u1 = u1
    u2 = u2
    big = big
    sys = sys
    Messages <- MCMessages
    SystemMessages <- MCSystem
    Size <- MCSize
    Priority <- MCPriority
    NumLanes = 2
    MaxMessages = 1
    MaxBytes = 2
    Protected = 1
    MaxOverflow = 1
    Refusable <- MCSystem
    Low = 50
    High = 60
    Critical = 100
    Policies = {"reject", "spill", "drop_oldest"}
    CountWrap = 8
    Batches = TRUE
