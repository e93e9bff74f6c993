SPECIFICATION FairSpec
INVARIANTS
  NothingLeaks
PROPERTIES
  PanelComesBack
  AwayIsShown
  ThreadEnds
CHECK_DEADLOCK FALSE
