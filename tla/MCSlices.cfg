SPECIFICATION Spec
CONSTANTS
  Programs <- Slices
  Function <- MCFunction
  Value <- MCValue
  Kind <- MCKind
  Pointer <- MCPointer
  ParentOf <- MCParentOf
  Operands <- MCOperands
  PtrOperand <- MCPtrOperand
  CalledFunction <- MCCalledFunction
  ArgOperand <- MCArgOperand
  ReadOnlyArg <- MCReadOnlyArg
  ControlledBy <- MCControlledBy
  EntryInst <- MCEntryInst
  ReachableFrom <- MCReachableFrom
  Requests <- MCRequests
INVARIANTS
  TypeOK
  ControlFlowClosed
  NoCallVisitedTwice
  ReferencesAreValid
  IncludedStoreMatters
  IncludedForAReason
  OperandsIncluded
  StoresComplete
  OneInfoPerAliasGroup
  ParentsIncluded
  CallersKnown
  AllCallsitesIncluded
  WritingCallsIncluded
  SliceIndependentOfOrder
CHECK_DEADLOCK FALSE
