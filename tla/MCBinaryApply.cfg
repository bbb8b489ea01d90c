SPECIFICATION Spec
CONSTANTS
  Radix = 41
  GroupChars = 3
  GroupBytes = 2
  SizeRadix = 4
  SizeDigits = 3
  SizeLimit = 32
  CopyRadix = 2
  MaxPrealloc = 3
  MaxLineBytes = 4
  AddLens = {1, 2}
  MaxInstructions = 2
  MaxDamaged = 1
  Damages = {"none", "marker", "longer", "shorter", "dropped", "count", "char", "overlong", "size",
             "opcode", "cut", "far", "digits", "base"}
  Inputs <- MCInputs
INVARIANTS
  TypeOK
  Recovers
  GrowsWithOutput
PROPERTIES
  Termination
CHECK_DEADLOCK FALSE
