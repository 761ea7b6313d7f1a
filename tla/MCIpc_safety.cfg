SPECIFICATION Spec
CONSTANTS
  NULL = NULL
  t1 = t1
  t2 = t2
  t3 = t3
  x = x
  y = y
  node = node
  file = file
  s1 = s1
  s2 = s2
  elsewhere = elsewhere
  Thread = {t1, t2, t3}
  Endpoint = {x, y}
  Badge = {1, 2}
  Slot = {}
  Resource = {}
  Node = {}
  InitialSlots <- NoSlots
  SendMessages <- PlainSend
  RecvMessages <- PlainRecv
  Calls = {"yield", "send", "receive", "resume", "suspend", "alloc_endpoint", "delete_endpoint"}
INVARIANT TypeOK
INVARIANT RunqueueExact
INVARIANT BlockedExact
INVARIANT ProcessorOwned
CHECK_DEADLOCK FALSE
SYMMETRY Symmetry
VIEW LiveState
PROPERTY ImplementsRendezvous
