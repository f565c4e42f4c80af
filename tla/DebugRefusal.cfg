SPECIFICATION Spec
CONSTANTS
  MaxRequests = 2
  Lines <- OneLine
  Lists <- OneList
  Commands <- ThreeCommands
INVARIANT StatusChecked
CHECK_DEADLOCK FALSE
