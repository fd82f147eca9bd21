SPECIFICATION Spec
CONSTANTS
  Team <- MCTeam
  Program <- JustRow
INVARIANT NothingLost
CHECK_DEADLOCK FALSE
