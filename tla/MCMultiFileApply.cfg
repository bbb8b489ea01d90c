SPECIFICATION Spec
CONSTANTS
  Empty = Empty
  Torn = Torn
  Other = Other
  c1 = c1
  c2 = c2
  Name = {"a", "b", "d", "f", "g", "h", "x", "y"}
  Contents = {Empty, c1, c2}
  MaxItems = 2
  Trees <- MCTrees
  ItemLists <- MCItemLists
INVARIANTS
  TypeOK
  StopsInOneFile
  AppliesPureMoves
PROPERTIES
  KeepsASource
CHECK_DEADLOCK FALSE
