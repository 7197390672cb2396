SPECIFICATION Spec
CONSTANTS
  Roots <- FewRoots
  Shapes <- FewShapes
  Keys <- FewKeys
  Pads <- FewPads
  Fills = {0}
  MaxViews = 4
  P = 97
INVARIANT ViewsFold
CHECK_DEADLOCK FALSE
