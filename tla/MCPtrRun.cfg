SPECIFICATION FairSpec
CONSTANTS
  Types <- MCTypes
  Programs <- MCPrograms
INVARIANTS
  NoWriteLost
  MembersShareInfo
PROPERTY VisitsEnd
CHECK_DEADLOCK FALSE
