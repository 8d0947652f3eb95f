SPECIFICATION Spec
CONSTANTS
  Streams = {s1, s2}
  Main = main
  None = none
  Torn = FALSE
  MaxPosts = 3
  s1 = s1
  s2 = s2
INVARIANTS TypeOK RefsCountOwners ShownFrameIsLive
PROPERTY NeverOlder
CHECK_DEADLOCK FALSE
