SPECIFICATION Spec
CONSTANTS
  Symbol = {1, 2, 3}
  MaxAncestor = 3
  MaxOurs = 3
  MaxTheirs = 2
  MaxItems = 4
  Styles = {"Diff3"}
  Inputs <- MCInputs
  Solutions <- MCSolutions
INVARIANTS
  TypeOK
  LosesNothing
  AgreesWithTextbook
PROPERTIES
  Termination
CHECK_DEADLOCK FALSE
