CONSTANTS
  o1 = o1
  o2 = o2
  o3 = o3
  u1 = u1
  u2 = u2
  Nil = Nil
  OrderIds = {o1, o2, o3}
  Users = {u1, u2}
  Commands <- BookCommands
  MaxPrice = 2
  NodeCap = 3
  LevelCap = 2
  MarketSTP = "CancelMaker"
  MaxSeq = 4
SPECIFICATION Spec
INVARIANTS
  TypeOK
  QueuesMatchIndex
  NoEmptyLevel
  PoolAccounting
  LevelTotals
  TimeOrdered
  NotCrossed
  QuantityConserved
PROPERTIES
  
  FillsInPriorityOrder
  CommandsFinish
  ImplementsPriority
CHECK_DEADLOCK FALSE
