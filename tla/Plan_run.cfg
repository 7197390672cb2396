SPECIFICATION Spec
CONSTANTS
  Hw <- SmallHw
  Asks <- SomeAsks
INVARIANTS ResultWhole SweepUndisturbed ReportTrue
CHECK_DEADLOCK FALSE
