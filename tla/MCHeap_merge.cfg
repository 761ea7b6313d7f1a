SPECIFICATION HeapSpec
CONSTANTS
  o1 = o1
  o2 = o2
  o3 = o3
  HEADER = 3
  ALIGN = 2
  SIZE_T = 256
  KernelEnd = 4
  MemoryEnd = 40
  StackSize = 1
  BinarySize = 1
  Regions <- SomeRegions
  MaxRegions = 1
  Object = {o1, o2, o3}
  Sizes = {1, 3, 5, 8}
  Calls = {"alloc", "free", "free_before_available", "drop"}
INVARIANT ObjectsFollowed
SYMMETRY Symmetry
CHECK_DEADLOCK FALSE
