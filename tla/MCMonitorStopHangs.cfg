CONSTANTS
  s1 = s1
  s2 = s2
  Serials <- MCSerials
  States <- MCStates
  ONLINE = "device"
  AdbLists <- OneByOne
  PoolSize = 16
  Stops = TRUE
  Faults = {}
  MaxChanges = 1
  MaxFaults = 0
SPECIFICATION FairSpec
PROPERTY StopReturns
\* after a stop nothing is left to do
CHECK_DEADLOCK FALSE
