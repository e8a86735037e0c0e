SPECIFICATION Spec
CONSTANTS
  Media <- MCMedia
  LoaderRoom = 2
  KernelRoom = 4
  MapRoom = 3
  PageBytes = 4
  Machines <- MCMachines
  Slots = 2
  Functions = 2
  CountRange = 2
  MaxNesting = 3
  MaxKeys = 2
  MaxReads = 1
  Depth = 1
  Strays = {"none", "power", "other", "framebuffer", "property"}
  Memories = {4, 8, 10, 12, 16, 28}
  Clocks = {0, 30, 410, 1000, 1100, 1300, 2500}
  Handler <- MCHandler
  TssAt <- MCTssAt
  StackTop <- MCStackTop
  BiosMasks = {0, 184, 255}
  Lines = {0, 1, 7, 12}
INVARIANTS
  
  
  TablesRight
  BootedRight

  
\* Start-up ends, or waits for a device that does not answer; a behaviour on a PC ends
\* at its bounds.
CHECK_DEADLOCK FALSE
