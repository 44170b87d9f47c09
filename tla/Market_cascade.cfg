CONSTANTS
  o1 = o1
  o2 = o2
  o3 = o3
  o4 = o4
  o5 = o5
  u1 = u1
  u2 = u2
  OrderIds = {o1, o2, o3, o4, o5}
  Users = {u1, u2}
  Commands <- CascadeCommands
  NodeCap = 3
  StopCap = 2
  MaxCascadeDepth = 2
  AuctionsEnabled = FALSE
  ReferencePrice = 0
  BreakerEnabled = TRUE
  MaxTime = 0
  MaxRestarts = 1
  MaxSeq = 6
SPECIFICATION Spec
INVARIANTS
  TypeOK
  LiveOnce
  
PROPERTIES
  CascadeEnds
  ReduceOnlyReduces
  HaltHolds
CHECK_DEADLOCK FALSE
