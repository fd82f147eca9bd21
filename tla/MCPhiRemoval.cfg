SPECIFICATION Spec
CONSTANTS
  Program <- PhiRemoval
  MaxDepth = 5
INVARIANT PhisMatch
CHECK_DEADLOCK FALSE
