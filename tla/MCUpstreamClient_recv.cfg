CONSTANTS
  MaxVersion = 2
  MaxAttempts = 1
  HasTimeout = TRUE
SPECIFICATION FairSpec
PROPERTIES RecvEnds
CHECK_DEADLOCK FALSE
