CONSTANTS
  EntryKeys = {"k"}
  Idle = 2
  LocalIdle = 2
  MaxQueue = 2
  MaxBreaks = 1
SPECIFICATION ExpireSpec
INVARIANT ReadKeepsAlive
