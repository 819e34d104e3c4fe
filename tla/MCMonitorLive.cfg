CONSTANTS
  s1 = s1
  s2 = s2
  Serials <- MCSerials
  States <- MCStates
  ONLINE = "device"
  AdbLists <- TwinLists
  PoolSize = 1
  Stops = TRUE
  Faults = {"die", "refuse", "garbage", "adb", "query"}
  MaxChanges = 2
  MaxFaults = 2
SPECIFICATION FairSpec
PROPERTIES
  Converges
  StopIsFinal
  ReaderWokenUp
\* after a stop, or when the monitor thread has ended, nothing is left to do
CHECK_DEADLOCK FALSE
