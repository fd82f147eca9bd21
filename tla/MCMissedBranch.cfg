SPECIFICATION Spec
CONSTANTS
  Program <- MissedBranch
  MaxDepth = 5
INVARIANT RequestsReached
CHECK_DEADLOCK FALSE
