SPECIFICATION LiveSpec
CONSTANTS
  Proc = {1, 2}
  Count = {2, 4}
  MaxAsks <- Asks
  MaxEdits = 1
  CrashAt <- AtRest
  FailAt <- Launch
  Hangs = TRUE
INVARIANTS Exclusive AnswerOwn
PROPERTY Ends
CHECK_DEADLOCK FALSE
