SPECIFICATION Spec
CONSTANTS
  Streams = {s1}
  Main = main
  None = none
  Torn = TRUE
  MaxPosts = 3
  s1 = s1
INVARIANT ShownFrameIsLive
CHECK_DEADLOCK FALSE
