SPECIFICATION Spec
CONSTANTS
  Apps = {a1, a2}
  Reactor = reactor
  Locations = {adb}
  NoLocation = none
  ClientSupport = TRUE
  MaxBridges = 2
  MaxCalls = 2
SYMMETRY Symmetry
INVARIANTS OneMonitor LockOrder
CHECK_DEADLOCK FALSE
