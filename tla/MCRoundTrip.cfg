SPECIFICATION RTSpec
CONSTANTS
  Symbol = {1, 2}
  MaxOld = 4
  MaxNew = 5
  MaxItems = 5
  ContextLens = {0, 1, 2}
  Directions = {FALSE, TRUE}
  MaxBase = 3
  MaxLines = 2
  Starts = {1, 3}
  Bases <- MCBases
  Patches <- MCPatches
  Inputs <- MCInputs
  Solutions <- MCSolutions
INVARIANTS
  RTTypeOK
  NoPanic
  DescribesChange
  ContextAsAsked
  RecoversWithContext
  AppliesAll
PROPERTIES
  KeepsPatchedLines
CHECK_DEADLOCK FALSE
