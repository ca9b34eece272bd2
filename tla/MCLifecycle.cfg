SPECIFICATION FairSpec
CONSTANTS
    s1 = s1
    c = c
    t1 = t1
    t2 = t2
    t3 = t3
    s2 = s2
    TimerOf <- MCTimerOf
    Messages = {m1, m2}
    Stoppers = {s1, s2}
    Worker = w
    Coordinator = c
    Passivator = p
    Supervisor = v
    Reactivators = {r1, r2}
    Policies = {"Drain", "DropUserMessages", "ImmediateStop", "SnapshotAndStop"}
    Operator = o
    Casts = {{s1, s2}, {s1, v, o}, {s1, p}, {c, v}}
    MaxRestarts = 1
    ForceAfterTimeout = TRUE
    MaxCommands = 2
INVARIANTS LifecycleInv
PROPERTIES LifecycleProgress
CHECK_DEADLOCK FALSE
