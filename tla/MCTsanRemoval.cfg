SPECIFICATION Spec
CONSTANTS
  t0 = t0
  t1 = t1
  t2 = t2
  Thread <- MCThread
  Main = t0
  MainFunction = "main"
  Function <- MCFunction
  Programs <- CheckedPrograms
SYMMETRY Team
INVARIANTS
  NoRaceHidden
  NoneMissed
  NoneExtra
CHECK_DEADLOCK FALSE
