CONSTANTS
  Devices = {d1}
  WithPanel = {d1}
  Vars = {v1}
  MaxAdds = 1
  MaxToggles = 0
  AddPhases = {"boot"}
  RemovePhases = {}
SPECIFICATION FairSpec
PROPERTY
  StopReturns
CHECK_DEADLOCK FALSE
