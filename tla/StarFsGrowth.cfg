SPECIFICATION Spec
CONSTANTS
  Names = {"a", "b"}
  Cells = 9
  InodeCount = 9
  Blocks = 18
  LinkWrap = 8
  Writes <- MCWrites
  MaxCalls = 4
  MaxOpen = 2
INVARIANTS
  OwnBlocks
\* A behaviour ends after MaxCalls calls, or when the disk is spoiled.
CHECK_DEADLOCK FALSE
