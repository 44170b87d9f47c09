CONSTANTS
  o1 = o1
  o2 = o2
  o3 = o3
  o4 = o4
  o5 = o5
  u1 = u1
  u2 = u2
  OrderIds = {o1, o2, o3, o4}
  Users = {u1, u2}
  Commands <- AuctionCommands
  NodeCap = 2
  StopCap = 2
  MaxCascadeDepth = 2
  AuctionsEnabled = TRUE
  ReferencePrice = 0
  BreakerEnabled = FALSE
  MaxTime = 1
  MaxRestarts = 1
  MaxSeq = 3
SPECIFICATION Spec
INVARIANTS
  LiveOnce
  
PROPERTIES
  
  
  AuctionClears
CHECK_DEADLOCK FALSE
