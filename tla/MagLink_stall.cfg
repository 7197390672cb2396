SPECIFICATION StallSpec
CONSTANTS
  RX_BEATS = 2
  CRED_BATCH = 1
  MAX_BEATS = 2
  TXN_MAX = 1
  DEPTH = 1
  MaxPkts = 3
  Lens <- OversizeForward
  Streams <- BothClasses
INVARIANTS
  DataRoom
PROPERTIES
  TerminatingDelivered
CHECK_DEADLOCK FALSE
