CONSTANTS
  m1 = m1
  m2 = m2
  k1 = k1
  k2 = k2
  Nil = Nil
  Markets = {m1, m2}
  Closers = {k1, k2}
  MaxEngines = 2
  MaxEvents = 2
  MaxEmits = 2
  CmdBuffer = 1
  EventBuffer = 1
  OutBuffer = 1
SPECIFICATION Spec
INVARIANTS
  TypeOK
  NoPanic
  NoOrphan
  EventsInOrder
  MergedComplete
CHECK_DEADLOCK FALSE
