CONSTANTS
  o1 = o1
  o2 = o2
  o3 = o3
  o4 = o4
  u1 = u1
  u2 = u2
  Nil = Nil
  OrderIds = {o1, o2, o3, o4}
  Users = {u1, u2}
  Stops <- MCStops
  Prices = {1, 2}
  NodeCap = 4
  LevelCap = 2
  MaxSeq = 5
SYMMETRY Renamings
SPECIFICATION Spec
INVARIANTS
  TypeOK
  ListsAgree
  SlotsPartition
PROPERTIES
  ImplementsPendingStops
CHECK_DEADLOCK FALSE
