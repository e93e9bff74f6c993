CONSTANTS
  Devices = {d1}
  WithPanel = {}
  Vars = {v1, v2}
  MaxAdds = 2
  MaxToggles = 0
  AddPhases = {"boot", "initialized", "started"}
  RemovePhases = {"boot", "initialized", "started"}
SPECIFICATION Spec
INVARIANTS
  RunningIsServed
  NoLostWakeup
  MapAgrees
  AskedBeforeJoin
CHECK_DEADLOCK FALSE
