SPECIFICATION FairSpec
CONSTANTS
  c1 = c1
  c2 = c2
  f1 = f1
  f2 = f2
  Absent = Absent
  Client <- TwoClients
  Conf <- TwoConfs
  MaxId = 1
INVARIANTS
  StoredNodeletsAreProbed
  StopIsExact
PROPERTIES
  ProbesSettle
CHECK_DEADLOCK FALSE
