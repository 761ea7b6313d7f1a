SPECIFICATION Spec
CONSTANTS
  MaxEntries = 3
  Archives <- AllArchives
  HEADER = 2
  FD_READ_FAST_MAX_SIZE = 3
  Name <- Names
  Size = {1, 4}
  Capacity = {2, 5}
  Calls = {"unsent"}
VIEW LiveState
INVARIANT WalksExact
INVARIANT NodeEmpty
INVARIANT InodesIdentify
PROPERTY OpenExact
