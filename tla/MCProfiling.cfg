SPECIFICATION Spec
CONSTANT MaxCalls = 4
INVARIANTS StatusAgrees SuccessNamesFile
CHECK_DEADLOCK FALSE
