CONSTANTS
  s1 = s1
  s2 = s2
  s3 = s3
  Call = {s1, s2, s3}
SPECIFICATION FairSpec
INVARIANTS DrainedBeforeClose StaleDropped BlockedByOverlap NothingLost
PROPERTIES SendReturns CloseReturns
CHECK_DEADLOCK FALSE
