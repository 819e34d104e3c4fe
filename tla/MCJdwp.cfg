CONSTANTS
  HANDSHAKE_LEN = 2
  JDWP_HEADER_LEN = 2
  INITIAL_BUF_SIZE = 4
  MAX_BUF_SIZE = 8
  PRE_DATA_BUF_SIZE = 4
  Lengths <- MCLengths
  Requests <- MCRequests
  HELO <- MCHelo
  Faults = {"handshake", "send", "header", "handler", "debugger"}
  MaxMessages = 2
  MaxFaults = 1
SPECIFICATION FairSpec
INVARIANTS
  TypeOK
  Framing
  Dispatched
  OutstandingExact
  ForwardedWhole
PROPERTY AllTaken
\* a client that has been dropped does nothing more
CHECK_DEADLOCK FALSE
