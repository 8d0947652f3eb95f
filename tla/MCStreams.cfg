SPECIFICATION MCSpec
CONSTANTS
  MaxSamples = 4
  MaxErrors = 1
INVARIANTS
  StreamOK
  CallbackFrameIsCurrent
  NoWaitCycle
  TakenOnce
PROPERTIES
  TakenIsFinished
  EndIsRestarted
  NewestIsShown
CHECK_DEADLOCK FALSE
