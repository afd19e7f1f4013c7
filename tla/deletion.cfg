SPECIFICATION FairSpec
CONSTANTS
  r1 = r1
  r2 = r2
  w1 = w1
  w2 = w2
  own = own
  new = new
  None = None
  OwnRole = own
  RoleId <- TwoRoles
  Request <- TwoRequests
  Worker <- TwoWorkers
  MaxAttempts = 2
  MaxRecords = 1
  MaxFaults = 1
CHECK_DEADLOCK FALSE
INVARIANT TypeOK
INVARIANT OpenIsWhole
INVARIANT TornStaysDoomed
INVARIANT PurgedLeavesNothing
PROPERTY DeletionSettles
