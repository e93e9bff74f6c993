CONSTANTS
  Devices = {d1}
  WithPanel = {d1}
  Vars = {v1, v2}
  MaxAdds = 2
  MaxToggles = 1
  AddPhases = {"boot"}
  RemovePhases = {"started"}
SPECIFICATION FairSpec
PROPERTIES
  StopReturnsIfActive
  ClearedThreadsEnd
CHECK_DEADLOCK FALSE
