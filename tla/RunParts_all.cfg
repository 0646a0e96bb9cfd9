SPECIFICATION FairSpec
CONSTANTS
  Subjects = {"stream", "server", "tools", "output", "files", "page"}
  Id = {"a", "b"}
  MaxCalls = 2
  Chunks <- SomeChunks
  MaxChunks = 2
  Buffer = 1
  Request = {r1}
  Closer = {m, c}
  Main = m
  Calls = 2
  CallId = {"i", "j"}
  MaxUpdates = 1
  MaxRefusals = 1
  Editor = {e1, e2}
  Snippet = {"s", "t"}
  NoEditor = NoEditor
  MaxText = 2
  MaxChanges = 2
  MaxLines = 2
  MaxBytes = 4
  MaxRaw = 5
  MaxFileLines = 4
  MaxLineLength = 4
  Project = {p, q}
  Session = {sa, sb}
  Run = {ra, rb}
  NoId = NoId
  MaxClicks = 3
  MaxMessages = 3
INVARIANTS
  StreamWhole
  CallsAccounted
  TextsKept
  FilesKept
PROPERTIES
  WaitsEnd
CHECK_DEADLOCK FALSE
