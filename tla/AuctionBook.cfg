CONSTANTS
  MaxOrders = 4
  Prices = {1, 2, 3}
  Quantities = {1, 2, 3}
  TIFs = {"GTC"}
  ReferencePrice = 3
SPECIFICATION Spec
INVARIANTS
  ClearingIsBest
  SweepIsFair
  NothingLeftCrosses
CHECK_DEADLOCK FALSE
