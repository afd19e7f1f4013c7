SPECIFICATION Spec
CONSTANTS
  r1 = r1
  r2 = r2
  MaxSessions = 3
  Request <- TwoRequests
  Ttl = 1
  AbsoluteTtl = 2
  Grace = 1
  MaxTime = 2
  MaxLogins = 2
  MaxEvents = 1
CHECK_DEADLOCK FALSE
SYMMETRY Symmetry
INVARIANT TypeOK
INVARIANT LoginNeverForks
INVARIANT EndedStaysEnded
INVARIANT LoginEndsInTime
