SPECIFICATION FairSpec
CONSTANTS
  a = a
  b = b
  Nobody = Nobody
  Instance <- TwoProcesses
  Backend = "redis"
  Lease = 3
  Fence = 2
  HeartbeatEvery = 1
  Tick = {0, 2}
  Jitter = 2
  Skew <- NoSkew
  MaxTime = 5
  MaxDowns = 1
  MaxBeats = 1
INVARIANT TypeOK
INVARIANT TickOnce
PROPERTY RunVerdictFinal
PROPERTY RunsEventuallyClosed
PROPERTY FencedReleaseStands
PROPERTY ImplementsTickMutex
