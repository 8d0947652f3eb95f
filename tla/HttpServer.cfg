SPECIFICATION HttpSpec
CONSTANTS
  Writers = {w1}
  Readers = {r1, r2}
  Kinds = {"coded"}
  Texts = {FALSE}
  Nums = {0}
  MaxCalls = 3
  ThreadsMayFail = TRUE
  None = None
INVARIANTS
  HttpTypeOK
  AnsweredPostIsVisible
  NumberCountsFrames
PROPERTIES
  EveryRequestAnswered
  ImplementsLatestFrame
CHECK_DEADLOCK FALSE
