SPECIFICATION Spec
CONSTANTS
  MaxEntries = 1
  Archives <- AllArchives
  HEADER = 2
  FD_READ_FAST_MAX_SIZE = 3
  Name <- Names
  Size = {1, 4}
  Capacity = {2, 5}
  Calls = {"refused"}
VIEW LiveState
INVARIANT NodeEmpty
