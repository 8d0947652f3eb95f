SPECIFICATION Spec
CONSTANTS
  Streams = {s1}
  Main = main
  None = none
  Torn = FALSE
  MaxPosts = 3
  s1 = s1
INVARIANT DrawnResultIsLive
CHECK_DEADLOCK FALSE
