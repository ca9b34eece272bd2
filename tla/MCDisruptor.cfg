SPECIFICATION Spec
SYMMETRY Symmetry
INVARIANTS DisruptorInv
PROPERTIES QuiescentIsFinal
CHECK_DEADLOCK FALSE
CONSTANTS
    Producers = {p1, p2}
    p1 = p1
    p2 = p2
    NumLanes = 1
    Capacity = 2
    MaxQueued = 2
    MaxOverflow = 0
    MaxControl = 1
    Policies = {"reject", "spill", "drop_oldest", "block"}
    CountWrap = 8
    MaxMessages = 3
    MaxControlSends = 1
    ControlPolicies = {"reject"}
