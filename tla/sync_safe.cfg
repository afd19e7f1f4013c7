SPECIFICATION Spec
CONSTANTS
  q1 = q1
  w1 = w1
  w2 = w2
  Nobody = Nobody
  Reaper = Reaper
  Requester <- OneRequester
  Worker <- TwoWorkers
  Attempts = 2
  MaxRecoveries = 1
  Durable = TRUE
  Faults <- AnyFault
  MaxRuns = 2
  MaxFaults = 1
CHECK_DEADLOCK FALSE
SYMMETRY Symmetry
INVARIANT TypeOK
INVARIANT OneOpenSync
PROPERTY VerdictFinal
PROPERTY SupersededIsSilent
