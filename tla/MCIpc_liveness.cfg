SPECIFICATION FairSpec
CONSTANTS
  NULL = NULL
  t1 = t1
  t2 = t2
  t3 = t3
  x = x
  y = y
  node = node
  file = file
  s1 = s1
  s2 = s2
  elsewhere = elsewhere
  Thread = {t1, t2, t3}
  Endpoint = {x}
  Badge = {1}
  Slot = {}
  Resource = {}
  Node = {}
  InitialSlots <- NoSlots
  SendMessages <- PlainSend
  RecvMessages <- PlainRecv
  Calls = {"yield", "exception", "send", "receive", "resume", "suspend", "alloc_endpoint"}
CHECK_DEADLOCK FALSE
PROPERTY NoStarvation
