CONSTANTS
  a = a
  b = b
  r1 = r1
  r2 = r2
  r3 = r3
  Key = {a, b}
  Req = {r1, r2, r3}
  KeyOf <- KeyOfTwoKeys
  Pattern <- Patterns
  Payload <- Payloads
  MaxVersion = 1
  MaxEntries = 2
  HasTTL = TRUE
  Free = Free
  Admin = Admin
  NoKey = NoKey
SPECIFICATION Spec
INVARIANTS   OnlyDeadEntriesBreak
SYMMETRY SameKey
CHECK_DEADLOCK FALSE
