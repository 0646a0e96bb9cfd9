SPECIFICATION Spec
CONSTANTS
  Calls <- OneCall
  MaxTurns = 2
  MaxMessages = 1
  MaxEdits = 0
  MaxTroubles = 0
  MaxEntries = 4
INVARIANTS
  InterruptedGoesOn
CHECK_DEADLOCK FALSE
