SPECIFICATION FairSpec
CONSTANTS
  c1 = c1
  c2 = c2
  f1 = f1
  f2 = f2
  k1 = k1
  k2 = k2
  Absent = Absent
  NoChange = NoChange
  Conn <- OneConn
  Conf <- OneConf
  Caller <- OneCaller
  QueueCapacity = 1
  MaxStarts = 2
PROPERTIES
  FailedConnectionsRestart
CHECK_DEADLOCK FALSE
