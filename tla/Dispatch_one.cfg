SPECIFICATION LiveSpec
CONSTANTS
  Unit = {1}
  STAGE_FLITS = 8
  Stage <- StageMix
  FLIT_WORDS = 2
  TX_DEPTH = 1
  RX_DEPTH = 1
  INST_DEPTH = 4
  RECV_DEPTH = 1
  SIG_DEPTH = 1
  NET = 1
  SEED = 4
  Kicks <- KicksLong
  MaxKicks = 2
  MaxRounds = 2
  MaxReads = 0
  MaxFaults = 1
INVARIANTS
  CreditCovers QueuesHold RoundOver
PROPERTY HostFinishes
CHECK_DEADLOCK FALSE
