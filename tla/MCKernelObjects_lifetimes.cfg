SPECIFICATION ObjectsSpec
CONSTANTS
  NULL = NULL
  t1 = t1
  t2 = t2
  t3 = t3
  t4 = t4
  x = x
  y = y
  Thread = {t1, t2, t3, t4}
  Endpoint = {x, y}
  Badge = {1}
  Slot = {}
  Resource = {}
  Node = {}
  InitialSlots <- NoSlots
  SendMessages <- PlainSend
  RecvMessages <- PlainRecv
  MaxThreadId = 3
  Bucket = {0, 1}
  bucket_of <- Hash
  Calls = {"yield", "send", "receive", "resume", "suspend", "alloc_endpoint", "delete_endpoint", "alloc_thread", "set_root_node", "delete_thread", "relocate", "relocate_endpoint"}
INVARIANT ObjectsTypeOK
INVARIANT ThreadTableExact
INVARIANT NoDanglingThread
INVARIANT QueuesFollowObjects
VIEW LiveState
SYMMETRY Symmetry
CHECK_DEADLOCK FALSE
