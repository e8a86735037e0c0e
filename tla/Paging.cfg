SPECIFICATION Spec
CONSTANTS
  PageSize = 4
  Slots = 3
  Root = 0
  GfpStart = 4
  EndPtr = 28
  MemTop = 64
  Wrap = 256
  Maps <- MCMaps
  Virt <- MCVirt
  Image <- MCImage
  Devices <- MCDevices
  MaxCalls = 3
INVARIANTS
  PagesRight
  StaleOnlyAfterRemap
PROPERTIES
  ImplementsAddressSpace
\* A behaviour ends after MaxCalls calls.
CHECK_DEADLOCK FALSE
