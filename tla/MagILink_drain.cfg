SPECIFICATION LiveSpec
CONSTANTS
  MAX_BEATS = 2
  WR_LIMIT = 8
  WR_MOD = 16
  MEM_PORTS = 2
  Sender <- Pair
  PortOf <- TwoPorts
  BurstLen <- Bursts
  Exclusive = TRUE
  CAP = 1
  MaxBursts = 1
  MaxWrites = 2
  MaxRings = 1
INVARIANT PacketsWhole
PROPERTIES DoorbellCovers ImplementsChannel Delivered
CHECK_DEADLOCK FALSE
