CONSTANTS
  long = long
  short = short
  mine = mine
  dir = dir
  socket = socket
  File = {long, short, mine}
  Dir = {dir}
  Other = {socket}
  Kids <- MCKids
  OnDevice <- MCOnDevice
  OnHost <- MCOnHost
  LongPaths = {mine}
  Selections <- MCSelections
  SYNC_DATA_MAX = 4
  Faults = {"slow", "gone", "stall", "refuse", "oversize", "write"}
  MaxOps = 2
  MaxFaults = 2
  MaxContent = 5
SPECIFICATION FairSpec
INVARIANTS
  TypeOK
  TransferredWhole
  ProgressAdds
  InStep
  AnswerComes
PROPERTY TransferEnds
\* nothing happens after the last operation, or after undefined behaviour
CHECK_DEADLOCK FALSE
