SPECIFICATION FairSpec
CONSTANTS
  t1 = t1
  p1 = p1
  p2 = p2
  None = None
  Txn <- OnePayment
  Event <- CaptureAndRefund
  Processor <- TwoProcessors
  MaxAttempts = 2
  Batch = 25
  Elsewhere = 24
  MaxFaults = 2
CHECK_DEADLOCK FALSE
INVARIANT TypeOK
INVARIANT SecondTermNeedsRival
INVARIANT GrantedWasPaid
PROPERTY CapturedIsApplied
