CONSTANTS
  a = a
  b = b
  r1 = r1
  r2 = r2
  r3 = r3
  Key = {a}
  Req = {r1, r2, r3}
  KeyOf <- KeyOfOneKey
  Unmapped = {r3}
  Unsupported = {r1}
  Reported = {0}
  MaxVersion = 1
  MaxEntries = 1
  HasTTL = TRUE
  MayShutdown = TRUE
  Reconnects = FALSE
  Free = Free
  Admin = Admin
  NoKey = NoKey
  NoStream = NoStream
SPECIFICATION Spec
INVARIANTS WatchRegistered WatchFed StreamTracked
PROPERTIES ImplementsRelay
CHECK_DEADLOCK FALSE
