SPECIFICATION FairSpec
CONSTANTS
  Programs <- Rounds
  Function <- MCFunction
  Value <- MCValue
  Kind <- MCKind
  Pointer <- MCPointer
  ParentOf <- MCParentOf
  Operands <- MCOperands
  PtrOperand <- MCPtrOperand
  CalledFunction <- MCCalledFunction
  ArgOperand <- MCArgOperand
  ReadOnlyArg <- MCReadOnlyArg
  ControlledBy <- MCControlledBy
  EntryInst <- MCEntryInst
  ReachableFrom <- MCReachableFrom
  Requests <- MCRequests
INVARIANTS
  CalleesIncluded
PROPERTIES
  Termination
  InfosActAsGroups
CHECK_DEADLOCK FALSE
