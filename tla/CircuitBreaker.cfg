CONSTANTS
  Prices = {7, 8, 10}
  MaxSamples = 3
  WindowDuration = 2
  CooldownPeriod = 2
  MaxMovePercent = 3
  Scale = 10
  MaxChecks = 3
  MaxTime = 6
  MaxInt = 31
SPECIFICATION Spec
INVARIANTS
  TypeOK
PROPERTIES
  ImplementsPriceBand
CHECK_DEADLOCK FALSE
