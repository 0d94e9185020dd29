CONSTANTS
  Key = {a, b, c}
  Req = {r1}
  MaxVersion = 1
  MaxEntries = 2
  Free = Free
  Admin = Admin
  NoKey = NoKey
  TTL = 1
  MaxTime = 3
SPECIFICATION Spec
INVARIANTS ListMatchesEntries
PROPERTIES ImplementsCache RemovesOnlyExpired LastUsedSurvives
