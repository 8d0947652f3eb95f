SPECIFICATION MCSpec
CONSTANTS
  Servers = {"a", "b"}
  Json = {"a"}
  Local = "local"
  MaxPictures = 2
  MaxCounted = 2
  MaxFailures = 1
  MaxRestarts = 1
  MaxUrls = 1
  Names = {"json", "old"}
  Modes = {0, 1}
  MaxFiles = 2
  MaxMoves = 3
  MaxDeletes = 1
  Cameras = 2
  Interval = 0
  MaxMemory = 5
  MaxFaults = 1
  Folder <- MCFolder
  TypeOf <- MCTypeOf
  WithInit = {"cuda", "darknet"}
  Chunk = 2
  MaxOpens = 7
  Conns = {1, 2, 3}
  MaxProducers = 2
INVARIANTS
  MCTypeOK
  ClientInStep
  WatchFollowsFolder
  CalmFileIsShown
  
  ArraysHold
PROPERTIES
  FreshIsTaken
  EveryCameraHasItsTurn
CHECK_DEADLOCK FALSE
