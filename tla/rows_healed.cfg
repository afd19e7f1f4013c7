SPECIFICATION FairSpec
CONSTANTS
  d1 = d1
  d2 = d2
  r1 = r1
  r2 = r2
  w1 = w1
  w2 = w2
  Nobody = Nobody
  Delivery <- TwoDeliveries
  Row <- TwoRows
  Worker <- OneWorker
  RowsOf <- Overlapping
  Limit = 2
  BatchSize = 2
  Attempts = 2
  Faults <- Honest
  MaxFaults = 1
INVARIANT Conservation
PROPERTY Healed
