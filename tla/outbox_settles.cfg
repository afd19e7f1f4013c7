SPECIFICATION FairSpec
CONSTANTS
  m1 = m1
  m2 = m2
  w1 = w1
  w2 = w2
  Nobody = Nobody
  Message <- OneMessage
  Worker <- TwoWorkers
  Batch = 1
  Lease = 2
  Patience = 2
  MaxAttempts = 2
  BackoffBase = 1
  BackoffMax = 2
  MaxCrashes = 1
  MaxWriteFailures = 1
  MaxRequeues = 1
INVARIANT TypeOK
INVARIANT DuplicateOnlyAcrossLostAck
INVARIANT SendBudget
PROPERTY EveryMessageSettles
