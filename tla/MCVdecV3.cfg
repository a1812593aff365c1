SPECIFICATION Spec
CONSTANTS
  BufferSize = 2
  Sizes = {1, 3}
  HeaderOffsets = {0}
  Pictures = {p1}
  MaxSlow = 5
  MaxReplaced = 1
  MaxWaiting = 2
  Faults = {"alloc", "map", "refuse", "pollerr", "result"}
CONSTRAINT ErrorsBound
INVARIANTS
  V3AreasKept
  
