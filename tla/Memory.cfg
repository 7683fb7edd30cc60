SPECIFICATION Spec
CONSTANTS
  Procs = {p, q}
  FRAMES = 13
  OBJECT_SIZES = {1}
  STACK_PAGES = 1
  HEAP_PAGES = 3
  LEAF_FRAMES = 7
  KERNEL_MAPPING_BASE = 0
  MAX_OFFSET = 6
  Lengths = {1, 2, 3}
  Kernel = Kernel
  None = None
INVARIANTS
  FramesInv
  PrivateMemory
  HeapViewsAgree
  MappingInv
CHECK_DEADLOCK FALSE
SYMMETRY ProcsAlike
