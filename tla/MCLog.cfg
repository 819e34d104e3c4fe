SPECIFICATION Spec
CONSTANTS
  Logs <- MCLogs
  ENTRY_HEADER_SIZE = 3
  Garbage <- MCGarbage
INVARIANT EntriesWhole
PROPERTY CancelReturns
CHECK_DEADLOCK FALSE
