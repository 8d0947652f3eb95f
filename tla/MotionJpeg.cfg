SPECIFICATION LiveSpec
CONSTANTS
  Conns = {c1, c2}
  MaxFrames = 2
  None = None
INVARIANTS
  TypeOK
  ClientOutlivesThread
  FramesAreCounted
PROPERTIES
  
  RemovalEnds
CHECK_DEADLOCK FALSE
