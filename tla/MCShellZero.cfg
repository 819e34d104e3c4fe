SPECIFICATION Spec
CONSTANTS
  TestOutputs <- MCTestOutputs
  InstallOutputs <- MCInstallOutputs
  Limits = {0, 2}
INVARIANTS ZeroWaitsForever
CHECK_DEADLOCK FALSE
