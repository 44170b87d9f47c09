CONSTANTS
  o1 = o1
  o2 = o2
  o3 = o3
  u1 = u1
  u2 = u2
  Nil = Nil
  OrderIds = {o1, o2, o3}
  Users = {u1}
  Commands <- IcebergCommands
  MaxPrice = 2
  NodeCap = 3
  LevelCap = 2
  MarketSTP = "Disabled"
  MaxSeq = 4
SPECIFICATION Spec
INVARIANTS
  FullyFilledMeansAll
CHECK_DEADLOCK FALSE
