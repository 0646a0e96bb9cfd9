SPECIFICATION FairSpec
CONSTANTS
  Calls <- MCCalls
  MaxTurns = 2
  MaxMessages = 2
  MaxEdits = 1
  MaxTroubles = 1
  MaxEntries = 4
INVARIANTS
  MessagesKept
  MemoryMatchesSession
  EditsFit
PROPERTIES
  RunsEnd
CHECK_DEADLOCK FALSE
