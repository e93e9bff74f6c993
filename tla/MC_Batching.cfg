CONSTANTS
  MaxVars = 2
  PduSize = 13
  VarOverhead = 2
  MsgOverhead = 3
  MaxItems = 4
  Sizes = {1, 3, 7, 8}
  Layouts <- MCLayouts
SPECIFICATION Spec
INVARIANTS
  TypeOK
  PduRespected
  EachItemOnce
  AreaOnlyWhenTooBig
  RequestsAreFull
  ReadsAccountedFor
CHECK_DEADLOCK FALSE
