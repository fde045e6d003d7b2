SPECIFICATION Spec
CONSTANTS
  r1 = r1
  r2 = r2
  a = a
  b = b
  Requests <- MCRequests
  Ids <- MCIds
  Given <- MCGiven
  MaxReconnects = 1
  MaxResponses = 1
SYMMETRY MCSymmetry
INVARIANTS TypeOK SubscribedWhileWaiting RouteLeaksExplained PanicExplained
PROPERTY ImplementsReply
\* All requests may have returned, and a panic ends the process.
CHECK_DEADLOCK FALSE
