SPECIFICATION RTSpec
CONSTANTS
  Symbol = {1, 2}
  MaxOld = 4
  MaxNew = 4
  MaxItems = 5
  ContextLens = {0}
  Directions = {FALSE}
  MaxBase = 0
  MaxLines = 0
  Starts = {}
  Bases = {}
  Patches = {}
  Inputs <- MCInputs
  Solutions <- MCSolutions
INVARIANTS
  Recovers
CHECK_DEADLOCK FALSE
