SPECIFICATION LiveSpec
CONSTANTS
  GRID_LO = 1
  GRID_X_HI = 2
  GRID_Y_HI = 2
  FIFO_DEPTH = 1
  MaxFlits = 2
  Flow <- FlowsGateway
INVARIANTS
  TurnsLegal HomeOnly NoDeadlock FlowIntact
PROPERTIES
  Delivered
CHECK_DEADLOCK FALSE
