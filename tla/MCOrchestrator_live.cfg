CONSTANTS
  a = a
  b = b
  r1 = r1
  r2 = r2
  r3 = r3
  Key = {a, b}
  Req = {r1, r2}
  KeyOf <- KeyOfTwoKeys
  Unmapped = {}
  Unsupported = {}
  Reported = {0}
  MaxVersion = 1
  MaxEntries = 1
  HasTTL = TRUE
  MayShutdown = FALSE
  Reconnects = FALSE
  Free = Free
  Admin = Admin
  NoKey = NoKey
  NoStream = NoStream
SPECIFICATION FairSpec
INVARIANTS OwnResponsesOnly
PROPERTIES Served StreamStops
CHECK_DEADLOCK FALSE
