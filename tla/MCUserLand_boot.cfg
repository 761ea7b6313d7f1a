SPECIFICATION BootSpec
CONSTANTS
  SIZE_MAX = 99
  SIZE_BITS = 3
  MAX_NAMESPACES = 3
  MAX_MOUNT_POINTS = 3
  MAX_MOUNTED_FS = 3
  MAX_OPEN_DIRECTORIES = 3
  Pid = {1, 2, 3}
  Inode = {0, 1}
  Bucket = {0, 1}
  hash <- HashByInode
  Calls = {}
  HEADER_SIZE = 1
  UINT32_MAX = 9999
  PID_MAX = 5
  Initrd <- Archives
  ARCHIVE = 1000
  FILE_WORDS = 20
  HEAP = 2000
CHECK_DEADLOCK FALSE
INVARIANT ExecAllOrNothing
INVARIANT ImagesRight
INVARIANT RootShared
PROPERTY EventuallyBoots
