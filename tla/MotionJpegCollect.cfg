SPECIFICATION Spec
CONSTANTS
  Conns = {c1, c2}
  MaxFrames = 1
  None = None
INVARIANTS
  CollectedIsClient
CHECK_DEADLOCK FALSE
