SPECIFICATION FairSpec
CONSTANTS
  f1 = f1
  f2 = f2
  f3 = f3
  k1 = k1
  k2 = k2
  o1 = o1
  o2 = o2
  i1 = i1
  i2 = i2
  i3 = i3
  Layers = {"queue", "pool", "conn"}
  Frames = {f1, f2, f3}
  Conns = {k1, k2}
  DataLimit = 2
  FailureThreshold = 1
  Cooldown = 1
  ProbeLimit = 1
  MaxAttempts = 1
  Outgoing = {o1, o2}
  Incoming <- PeerFrames
  Oversized = {i3}
  SocketRoom = 3
  Callers = {"loop", "worker"}
INVARIANTS PoolInv ConnInv
PROPERTIES PoolSettles WritesProgress
CHECK_DEADLOCK FALSE
