CONSTANTS
  c1 = c1
  c2 = c2
  p1 = p1
  p2 = p2
  p3 = p3
  Client = {c1, c2}
  Request = {p1, p2, p3}
  Boot <- Boots
  Refused = TRUE
SPECIFICATION FairSpec
INVARIANTS AcceptedStarts ReadyMatches StoppedMeansDrained NoSendOnClosed EndExplained
PROPERTIES ReadyServed SignalStops
CHECK_DEADLOCK FALSE
