SPECIFICATION RTSpec
CONSTANTS
  MaxBody = 3
  MaxLines = 3
  Marked = FALSE
  Surviving = TRUE
  Texts <- MCTexts
  Options <- MCOptions
  Writings <- MCWritings
INVARIANTS
  TypeOK
  AccountsForText
  NoHunkLost
  ReadsBack
PROPERTIES
  Termination
CHECK_DEADLOCK FALSE
