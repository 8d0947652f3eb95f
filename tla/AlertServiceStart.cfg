SPECIFICATION Spec
CONSTANTS
  None = None
  Intervals = {0, 1}
  MaxTime = 3
  MaxAlerts = 3
  MaxSpurious = 1
INVARIANT StartedWithPriv
CHECK_DEADLOCK FALSE
