SPECIFICATION FairSpec
CONSTANTS
  r1 = r1
  r2 = r2
  a = a
  b = b
  Requests <- MCOne
  Ids <- MCIds
  Given <- MCBlank
  MaxReconnects = 2
  MaxResponses = 2
INVARIANTS PanicExplained
PROPERTIES RequestsReturn HandlersFreed
\* All requests may have returned, and a panic ends the process.
CHECK_DEADLOCK FALSE
