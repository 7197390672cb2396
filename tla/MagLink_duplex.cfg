SPECIFICATION LiveSpec
CONSTANTS
  RX_BEATS = 3
  CRED_BATCH = 2
  MAX_BEATS = 2
  TXN_MAX = 1
  DEPTH = 2
  MaxPkts = 2
  Lens <- OneOrTwo
  Streams <- Duplex
INVARIANTS
  CreditConserved
  NoCreditDeadlock
PROPERTIES
  ImplementsChannel
  Delivered
CHECK_DEADLOCK FALSE
