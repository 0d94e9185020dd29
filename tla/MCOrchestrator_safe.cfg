CONSTANTS
  a = a
  b = b
  r1 = r1
  r2 = r2
  r3 = r3
  Key = {a}
  Req = {r1, r2}
  KeyOf <- KeyOfOneKey
  Unmapped = {}
  Unsupported = {}
  Reported = {0, 3}
  MaxVersion = 2
  MaxEntries = 1
  HasTTL = TRUE
  MayShutdown = FALSE
  Reconnects = TRUE
  Free = Free
  Admin = Admin
  NoKey = NoKey
  NoStream = NoStream
SYMMETRY SameKey
SPECIFICATION Spec
INVARIANTS TypeOK NoMissedResponse PanicNeedsFailure
CHECK_DEADLOCK FALSE
