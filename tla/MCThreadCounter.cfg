SPECIFICATION Spec
CONSTANTS
  main = main
  t1 = t1
  t2 = t2
  t3 = t3
  Thread <- MCThread
  Main <- main
SYMMETRY Symmetry
INVARIANTS
  SkippedAlone
  CounterSettles
CHECK_DEADLOCK FALSE
