SPECIFICATION Spec
CONSTANTS
  Radix = 41
  GroupChars = 3
  GroupBytes = 2
  SizeRadix = 4
  SizeDigits = 3
  SizeLimit = 32
  CopyRadix = 2
  MaxPrealloc = 3
  MaxLineBytes = 4
  AddLens = {1, 2}
  MaxInstructions = 1
  MaxDamaged = 1
  Damages = {"none", "dropped"}
  Inputs <- MCInputs
PROPERTIES
  AlwaysAnswers
CHECK_DEADLOCK FALSE
