SPECIFICATION Spec
CONSTANTS
  TestOutputs <- MCTestOutputs
  InstallOutputs <- MCInstallOutputs
  Limits = {0, 2}
INVARIANTS LinesWhole RunReported FailureSeen
PROPERTY CommandReturns
CHECK_DEADLOCK FALSE
