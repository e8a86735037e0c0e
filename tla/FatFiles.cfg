SPECIFICATION Spec
CONSTANTS
  Images <- MCImages
  Disks <- MCDisks
  Args <- MCArgs
  Font <- MCFont
  ClientPaths <- MCClientPaths
  Pieces <- MCPieces
  FullNames = {"e"}
  ClusterSlots = 6
  ClusterBytes = 2
  EntryValues = 16
  BufferPieces = 2
  Deltas <- MCDeltas
  MaxCalls = 3
INVARIANTS
  FilesRight
  LostOnlyIf
  PromptPathExists
PROPERTIES
  CommandReturns
\* A behaviour ends where the kernel is lost.
CHECK_DEADLOCK FALSE
