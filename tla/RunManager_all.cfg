SPECIFICATION PromptSpec
CONSTANTS
  r1 = r1
  r2 = r2
  e1 = e1
  s1 = s1
  Nobody = Nobody
  Request <- TwoRequests
  Editor <- OneEditor
  Session <- OneSession
  MaxActiveRuns = 1
INVARIANT Accounting
INVARIANT LiveRunReachable
INVARIANT NoOrphanSession
INVARIANT SessionsGuarded
PROPERTY CloseIsFinal
PROPERTY GateSpec
PROPERTY EverythingEnds
CHECK_DEADLOCK FALSE
