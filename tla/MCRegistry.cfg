CONSTANTS
  Pids <- MCPids
  DebugPortBase = 10
  ClientPorts <- MCPorts
  StaticPort <- SecondStatic
  Faults = {"connect", "handshake", "bind", "read", "list", "badshake"}
  MaxChanges = 3
  MaxFaults = 1
SPECIFICATION FairSpec
INVARIANTS
  TypeOK
  PortInv
  PortsExclusive
  NoPortLeaks
  MergeOpensOnce
  ViewFresh
PROPERTIES
  ImplementsPool
  NoRequestLost
  ReopenServed
  ListsRead
