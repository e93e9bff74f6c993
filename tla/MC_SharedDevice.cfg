CONSTANTS
  var = var
  Vars = {var}
  Polled = {var}
  Junk = {}
  PollTime <- MCPollTime
  Interval = 1
  MaxWrites = 2
  MaxChanges = 1
  MaxNews = 3
  MaxPass = 1
  MaxQueue = 1
SPECIFICATION Spec
INVARIANTS
  NoWriteTwice
  NewestIsUnderway
  HandoverKeepsOrder
PROPERTIES
  HandoverKeepsImage
