CONSTANTS
  hash = hash
  ack = ack
  x = x
  Marker <- MCMarker
  Texts <- MCTexts
  Memory <- MCMemory
  MaxPacket = 4
  StreamBuffer = 3
  MaxFiles = 2
  MaxSessions = 2
SPECIFICATION Spec
INVARIANTS
  
  AcknowledgedIsComplete
  EndIsSeen
CHECK_DEADLOCK FALSE
