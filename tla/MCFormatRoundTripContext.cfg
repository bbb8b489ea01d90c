SPECIFICATION RTSpec
CONSTANTS
  MaxBody = 2
  MaxLines = 2
  Marked = FALSE
  Surviving = FALSE
  Texts = {}
  Options <- MCOptions
  Writings <- MCWritings
INVARIANTS
  ReadsBack
CHECK_DEADLOCK FALSE
