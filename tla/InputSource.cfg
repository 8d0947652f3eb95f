SPECIFICATION SourceSpec
CONSTANTS
  Writers = {main, p1, p2}
  Readers = {r1}
  Kinds = {"unknown", "coded"}
  Texts = {TRUE, FALSE}
  Nums = {0}
  MaxCalls = 3
  None = None
  Main = main
  main = main
  Disciplined = TRUE
INVARIANTS SourceTypeOK NoTornFrame FlagIsOwnText SourcesTakeTurns
CHECK_DEADLOCK FALSE
