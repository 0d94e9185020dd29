CONSTANTS
  a = a
  b = b
  r1 = r1
  r2 = r2
  r3 = r3
  Key = {a}
  Req = {r1, r2}
  KeyOf <- KeyOfOneKey
  Unmapped = {}
  Unsupported = {}
  Reported = {0}
  MaxVersion = 1
  MaxEntries = 1
  HasTTL = TRUE
  MayShutdown = TRUE
  Reconnects = TRUE
  Free = Free
  Admin = Admin
  NoKey = NoKey
  NoStream = NoStream
SPECIFICATION Spec
INVARIANTS CloseOnce
CHECK_DEADLOCK FALSE
