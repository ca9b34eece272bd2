CONSTANTS
    t1 = t1
    t2 = t2
    r1 = r1
    NoNode = NoNode
    OneShots = {t1, t2}
    Recurring = {r1}
    Backends = {"TimingWheel", "TimerPlane"}
    Tick = 2
    Buckets = 2
    Levels = 3
    MaxAdvance = 2
    MaxSleep = 5
    Slots = 1
    Generations = 3
    Plans <- MCPlans
    Origin = 3
    Jumps <- MCJumps
SPECIFICATION FairSpec
INVARIANTS TimersInv
PROPERTIES FiresOnTime TimersEnd
