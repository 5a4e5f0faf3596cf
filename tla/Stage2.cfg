CONSTANTS
  PerTable = 2
  RootNum = 2
  Leftover <- MCLeftover
  PageLen = 4
  OperandLen = 32
  FirstTable = 100
  Calls <- MCCalls
  TableNum = 5
  MaxCalls = 3
SPECIFICATION Spec
CHECK_DEADLOCK FALSE
INVARIANT TypeOK CallExact TlbClean TableTree WalkAgrees
