SPECIFICATION FairSpec
CONSTANTS
  Types <- MCTypes
  Programs <- JustReloaded
INVARIANT NoWriteLost
CHECK_DEADLOCK FALSE
