SPECIFICATION DSSpec
CONSTANTS
  Symbol = {1, 2, 3}
  MaxOld = 4
  MaxNew = 4
  GivenSymbol = {1, 2}
  MaxGiven = 3
  MaxItems = 5
  Inputs <- MCInputs
  Solutions <- MCSolutions
INVARIANTS
  TypeOK
  VIndexInBounds
  Partition
  FurthestReaching
  CompactTypeOK
  StaysAligned
  Settled
  ReturnsDiff
PROPERTIES
  EmitsShortestScript
  KeepsCost
  Termination
CHECK_DEADLOCK FALSE
