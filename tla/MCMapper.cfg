CONSTANTS
  c1 = c1
  c2 = c2
  NoClient = NoClient
  Client = {c1, c2}
  MatchPredicate <- MCMatchPredicate
  ResultPredicate <- MCResultPredicate
  Height <- MCHeight
  Config <- MCConfig
  Atom <- MCAtom
  Value <- MCValue
  Node <- MCNode
  Type <- MCType
  Names <- MCNames
  Prefix <- MCPrefix
SYMMETRY SameClients
SPECIFICATION Spec
INVARIANTS  AggregatesAlike SharesOnlyEqualFragments MatchesAsWritten AcceptedIsUsable
CHECK_DEADLOCK FALSE
