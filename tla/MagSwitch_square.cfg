SPECIFICATION LiveSpec
CONSTANTS
  RX_BEATS = 3
  MAX_BEATS = 2
  CRED_BATCH = 2
  Lens <- LongShort
  Flow <- Crossing
INVARIANT PacketsWhole
PROPERTIES ImplementsChannel Delivered
CHECK_DEADLOCK FALSE
