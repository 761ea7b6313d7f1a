SPECIFICATION Spec
CONSTANTS
  SIZE_MAX = 99
  SIZE_BITS = 3
  MAX_NAMESPACES = 3
  MAX_MOUNT_POINTS = 3
  MAX_MOUNTED_FS = 3
  MAX_OPEN_DIRECTORIES = 3
  p2 = p2
  p3 = p3
  Pid = {1, p2, p3}
  Inode = {0, 1}
  Bucket = {0, 1}
  hash <- HashByInode
  Calls = {"as_tested", "directory_oom", "late_failure"}
CHECK_DEADLOCK FALSE
SYMMETRY Symmetry
VIEW LiveState
INVARIANT UsedCoversOccupied
INVARIANT ReferencesExact
INVARIANT MountsWellFormed
INVARIANT DescriptorsValid
INVARIANT NothingHeld
PROPERTY ReadOnlyStaysFixed
PROPERTY FailureUnmarks
