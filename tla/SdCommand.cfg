SPECIFICATION FairSpec
CONSTANTS
  MaxBlocks = 2
  MaxCalls = 2
  MaxFaults = 2
  Removable = TRUE
INVARIANTS
  SuccessMeansRead
  FailureExplained
PROPERTIES
  CallReturns
\* A behaviour ends after MaxCalls calls.
CHECK_DEADLOCK FALSE
