SPECIFICATION Spec
CONSTANTS
  r1 = r1
  r2 = r2
  t1 = t1
  None = None
  Asked <- Requests
  Actor <- TwoActors
  Txn <- OnePayment
  Plan <- ThreePlans
  Free = "free"
  TierOf <- Tiers
  PlanOf <- JustLow
  TermOf <- OneTick
  TrialPlan = "high"
  Trial = 1
  Grace = 1
  Window = 1
  MaxTime = 3
  MaxRequests = 2
SYMMETRY Symmetry
CHECK_DEADLOCK FALSE
INVARIANT TypeOK
INVARIANT PaidAccessBudget
PROPERTY HoldStands
PROPERTY StateGraph
INVARIANT LagIsSwept
