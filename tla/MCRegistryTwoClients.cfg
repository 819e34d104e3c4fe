CONSTANTS
  Pids <- MCPids
  DebugPortBase = 10
  ClientPorts <- MCPorts
  StaticPort <- SecondStatic
  Faults = {"badshake"}
  MaxChanges = 2
  MaxFaults = 1
SPECIFICATION Spec
INVARIANTS
  PidsLeftAreNew
