CONSTANTS
  fast = fast
  slow = slow
  output = output
  Vars = {slow, output}
  Polled = {fast, slow}
  Junk = {slow}
  PollTime <- MCPollTime
  Interval = 1
  MaxWrites = 2
  MaxChanges = 1
  MaxNews = 2
  MaxPass = 1
  MaxQueue = 1
SPECIFICATION FairSpec
INVARIANTS
  TypeOK
  WritesOnceInOrder
  WrittenIsPolled
PROPERTIES
  ImageSpec
  LastWriteIsSent
  PointCatchesUp
