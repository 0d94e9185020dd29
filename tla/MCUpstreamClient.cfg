CONSTANTS
  MaxVersion = 2
  MaxAttempts = 2
  HasTimeout = TRUE
SPECIFICATION FairSpec
INVARIANTS NoSendOnClosed AcksDelivered
PROPERTIES  SendEnds StreamEnds
CHECK_DEADLOCK FALSE
