SPECIFICATION FairSpec
CONSTANTS
  q1 = q1
  w1 = w1
  w2 = w2
  Nobody = Nobody
  Reaper = Reaper
  Requester <- OneRequester
  Worker <- OneWorker
  Attempts = 2
  MaxRecoveries = 1
  Durable = FALSE
  Faults <- AnyFault
  MaxRuns = 2
  MaxFaults = 1
CHECK_DEADLOCK FALSE
PROPERTY SlotIsFreed
