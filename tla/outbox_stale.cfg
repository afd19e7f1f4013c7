SPECIFICATION Spec
CONSTANTS
  m1 = m1
  m2 = m2
  w1 = w1
  w2 = w2
  Nobody = Nobody
  Message <- TwoMessages
  Worker <- TwoWorkers
  Batch = 2
  Lease = 2
  Patience = 2
  MaxAttempts = 2
  BackoffBase = 1
  BackoffMax = 1
  MaxCrashes = 0
  MaxWriteFailures = 1
  MaxRequeues = 0
SYMMETRY Symmetry
INVARIANT SendBudget
PROPERTY StaleOutcomeIgnored
