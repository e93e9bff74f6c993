CONSTANTS
  FailureLimit = 5
  MaxRequests = 2
  FlipAt = {"connect", "publishFirst", "readRole", "test", "sample", "switch", "check",
            "lost", "reconnect", "publish", "retry", "leave", "io", "sleep", "done"}
SPECIFICATION FairSpec

  
PROPERTIES
  FineOnlyAfterConnecting
  ErrorIsRaised
  ErrorIsCleared
  PollingResumes
  ThreadEnds
