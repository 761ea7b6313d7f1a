SPECIFICATION Spec
CONSTANTS
  NULL = NULL
  t1 = t1
  t2 = t2
  t3 = t3
  x = x
  y = y
  node = node
  file = file
  s1 = s1
  s2 = s2
  elsewhere = elsewhere
  Thread = {t1, t2}
  Endpoint = {x}
  Badge = {1}
  Slot = {s1, s2}
  Resource = {node, file}
  Node = {node}
  InitialSlots <- RootSlots
  SendMessages <- CapSend
  RecvMessages <- CapRecv
  Calls = {"yield", "send", "receive", "resume", "alloc_endpoint"}
CHECK_DEADLOCK FALSE
VIEW LiveState
INVARIANT OriginalsConserved
INVARIANT FlagsNameQueue
PROPERTY TransferReported
