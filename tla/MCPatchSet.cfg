SPECIFICATION Spec
CONSTANTS
  MaxDiffs = 3
  MaxLines = 4
  MaxPieces = 3
  Inputs <- MCInputs
INVARIANTS
  TypeOK
  MakesProgress
  OneItemPerDiff
  YieldsEveryFile
PROPERTIES
  Termination
CHECK_DEADLOCK FALSE
