CONSTANTS
  MaxVars = 2
  PduSize = 13
  VarOverhead = 2
  MsgOverhead = 3
  MaxItems = 2
  Sizes = {1, 8}
  Layouts <- MCLayouts
SPECIFICATION Spec
INVARIANT
  AreaReadSucceeds
CHECK_DEADLOCK FALSE
