SPECIFICATION Spec
CONSTANTS
  Hw <- SmallHw
  Sessions <- SomeSessions
INVARIANTS AnswerWhole ReadingsTrue ArenaWhole PlacementSound ChainTrue
