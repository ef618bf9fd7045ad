CONSTANTS
  Half = 128
  Longest = 20
  MaxAttempts = 12
SPECIFICATION BackoffSpec
INVARIANTS
  BackoffTypeOK
  InSyncUntilOverflow
CHECK_DEADLOCK FALSE
