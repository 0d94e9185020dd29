CONSTANTS
  a = a
  b = b
  r1 = r1
  r2 = r2
  r3 = r3
  Key = {a}
  Req = {r1, r2}
  KeyOf <- KeyOfOneKey
  Unmapped = {}
  Unsupported = {r1, r2}
  Reported = {0, 3}
  MaxVersion = 2
  MaxEntries = 1
  HasTTL = FALSE
  MayShutdown = FALSE
  Reconnects = TRUE
  Free = Free
  Admin = Admin
  NoKey = NoKey
  NoStream = NoStream
SPECIFICATION Spec
INVARIANTS NoStrandedWatch
CHECK_DEADLOCK FALSE
