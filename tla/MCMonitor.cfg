CONSTANTS
  s1 = s1
  s2 = s2
  Serials <- MCSerials
  States <- MCStates
  ONLINE = "device"
  AdbLists <- UniqueLists
  PoolSize = 16
  Stops = FALSE
  Faults = {"die", "slow", "refuse", "garbage", "adb", "query"}
  MaxChanges = 2
  MaxFaults = 2
SYMMETRY MCSymmetry
SPECIFICATION Spec
INVARIANTS
  ListenersInSync
  MirrorsAdb
  OnlineQueried
  NoConnectionNoDevices
PROPERTY EventProtocol
