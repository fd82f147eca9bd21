SPECIFICATION Spec
CONSTANTS
  Team <- MCTeam
  Program <- CheckedFunctions
INVARIANTS
  NothingLost
  NothingInvented
  RacesFound
  OneCallPerPointer
PROPERTIES
  ReductionShrinks
CHECK_DEADLOCK FALSE
