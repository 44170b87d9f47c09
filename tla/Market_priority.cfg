CONSTANTS
  o1 = o1
  o2 = o2
  o3 = o3
  o4 = o4
  o5 = o5
  u1 = u1
  u2 = u2
  OrderIds = {o1, o2, o3}
  Users = {u1, u2}
  Commands <- PriorityCommands
  NodeCap = 3
  StopCap = 2
  MaxCascadeDepth = 1
  AuctionsEnabled = TRUE
  ReferencePrice = 0
  BreakerEnabled = FALSE
  MaxTime = 0
  MaxRestarts = 0
  MaxSeq = 3
SPECIFICATION Spec
PROPERTIES
  OlderTradesFirst
CHECK_DEADLOCK FALSE
