SPECIFICATION FairSpec
CONSTANTS
  EntrySize = 16
  ReserveLength = 64
  Requests = {0, 1, 20}
INVARIANTS
  HeapSound
  IInv
PROPERTIES
  MallocReturns
  HeldBlocksStay
  ImplementsAllocator
