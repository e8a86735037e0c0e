SPECIFICATION Spec
CONSTANTS
  EntrySize = 32
  ReserveLength = 96
  Requests = {1}
INVARIANT NoDoubleFree
