SPECIFICATION Spec
CONSTANTS
  MaxBlocks = 2
  MaxCalls = 1
  MaxFaults = 0
  Removable = FALSE
INVARIANTS
  DataAwaited
CHECK_DEADLOCK FALSE
