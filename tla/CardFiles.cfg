SPECIFICATION CardFilesSpec
CONSTANTS
  Kinds = {"v1", "standard", "high", "uhs"}
  MaxFaults = 2
  Removable = TRUE
  Media = {"whole", "partitioned", "blank"}
  MaxCats = 2
INVARIANTS
  ReadsAsAsked
  
PROPERTIES
  CallReturns
\* A behaviour ends when MaxCats files were read, without a file system, with a removed
\* card after the failures of the bound, or while a high-capacity card stays busy.
CHECK_DEADLOCK FALSE
