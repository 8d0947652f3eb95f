SPECIFICATION MCSpec
CONSTANTS
  Hours = 2
  Minutes = 3
  Days = 2
  Plans <- MCPlans
  MaxForks = 2
  MaxStarts = 2
  None = "none"
  Intervals = {0, 1}
  MaxTime = 3
  MaxAlerts = 2
  MaxSpurious = 1
  MaxFrames = 2
  Uris = {"a", "b", "x"}
  Valid = {"a", "b"}
  MaxChanges = 2
  MaxNews = 3
INVARIANTS
  MCTypeOK
  OneCommandRuns
  ChildrenEnd
  OwnPicture
PROPERTIES
  EveryAlertHeard
  TakenIsDrawn
  StopEnds
CHECK_DEADLOCK FALSE
