SPECIFICATION Spec
CONSTANTS
  Program <- MCProgram
  MaxDepth = 5
INVARIANTS
  ExceptTypeOK
  InProgressOnce
  CanExceptSound
  AnalysisRepeatable
  RequestsReached
  SliceEnds
  NoOriginalRuns
  NoNullCalled
  PhisMatch
PROPERTY ExceptTermination
CHECK_DEADLOCK FALSE
