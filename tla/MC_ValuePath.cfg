CONSTANTS
  Bits = 2
  TextSize = 3
  MemSize = 5
  Memories <- MCMemories
  Configs <- MCConfigs
  ValuesOf <- MCValuesOf
  MaxConfigs = 2
  MaxWrites = 2
SPECIFICATION Spec
INVARIANTS
  TypeOK
  PlcSeesWritten
  PointsAreServed
PROPERTIES
  PollShowsPlc
  NeighboursUntouched
CHECK_DEADLOCK FALSE
