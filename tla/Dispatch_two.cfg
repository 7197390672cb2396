SPECIFICATION Spec
CONSTANTS
  Unit = {1, 2}
  STAGE_FLITS = 8
  Stage <- StageMix
  FLIT_WORDS = 2
  TX_DEPTH = 1
  RX_DEPTH = 1
  INST_DEPTH = 3
  RECV_DEPTH = 1
  SIG_DEPTH = 1
  NET = 1
  SEED = 3
  Kicks <- KicksMix
  MaxKicks = 3
  MaxRounds = 1
  MaxReads = 1
  MaxFaults = 0
INVARIANT IdleReplyTrue
PROPERTY ImplementsJobs
CHECK_DEADLOCK FALSE
