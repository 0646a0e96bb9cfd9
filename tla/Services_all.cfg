SPECIFICATION Spec
CONSTANTS
  Subjects = {"hub", "skills", "context", "fleet", "accounts", "limits", "server", "names", "page"}
  Reader = {a, b}
  MaxContent = 1
  HistorySize = 2
  MaxReaders = 1
  ReaderQueue = 1
  MaxOutput = 5
  SkillName = {"n", "m"}
  DefaultSkill = "n"
  SkillClient = {c1}
  MaxEdits = 3
  Model = {"m1", "m2"}
  Reporting = {"m1"}
  ToolCall = {1, 2}
  ContextWindow = 6
  MaxTokens = 2
  SafetyTokens = 1
  MaxPath = 5
  MaxReplies = 2
  MaxCompactions = 2
  Requester = {q1, q2}
  Project = {p, q}
  ProjectName = {"x", "y"}
  Ref = {"r"}
  MaxNodeletId = 1
  NodeletLists <- SomeLists
  NoName = NoName
  Keep = Keep
  Visitor = {v1, v2}
  UserName = {"u1", "u2"}
  Nobody = Nobody
  Request = {r1, r2}
  Closer = {m, c}
  Main = m
  Ids <- SomeIds
  Host = {"h1", "h2"}
  HostId <- SomeHostId
  HostName <- SomeHostName
  Config <- SomeConfig
  NativeNames <- SomeNativeNames
  WorkspaceNames <- SomeWorkspaceNames
  MaxConnections = 3
  MaxDisabled = 1
  Login = {l1, l2}
  Peer = {peer}
  Rate = 1
  Burst = 2
  EntryTTL = 3
  FailureLimit = 2
  FailWindow = 1
  BlockTime = 2
  MaxTime = 5
  MaxRegress = 1
  NoEntry = NoEntry
  Session = {sa, sb}
  Run = {ra, rb}
  NoId = NoId
  MaxClicks = 3
  MaxMessages = 3
INVARIANTS
  LinesExact
  HotReload
  ContextSound
  
  AccountLasts
  LimitsHold
  NoUseAfterClose
  ToolsReached
  PageSound
PROPERTIES
  TailSpec
CHECK_DEADLOCK FALSE
