SPECIFICATION Spec
CONSTANTS
  c1 = c1
  c2 = c2
  f1 = f1
  f2 = f2
  k1 = k1
  k2 = k2
  Absent = Absent
  NoChange = NoChange
  Conn <- OneConn
  Conf <- TwoConfs
  Caller <- OneCaller
  QueueCapacity = 1
  MaxStarts = 2
SYMMETRY ConfSymmetry
INVARIANTS
  ConnectionsCurrent
  ToolsCurrent
  ClosedInTime
  StoreAgrees
PROPERTIES
  InnocentRunOn
CHECK_DEADLOCK FALSE
