SPECIFICATION RTSpec
CONSTANTS
  MaxBody = 4
  MaxLines = 0
  Marked = TRUE
  Surviving = TRUE
  Texts <- MCTexts
  Options <- MCOptions
  Writings = {}
INVARIANTS
  CompleteHunkStands
CHECK_DEADLOCK FALSE
