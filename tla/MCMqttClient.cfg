SPECIFICATION FairSpec
CONSTANTS
  t1 = t1
  t2 = t2
  s1 = s1
  s2 = s2
  u1 = u1
  e1 = e1
  Handler = Handler
  Topics <- MCTopics
  Calls <- MCCalls
  Errs <- MCErrs
  Kind <- MCKind
  Args <- MCArgs
  ErrsOf <- MCErrsOf
  Reacting <- MCReact
  Forbidden <- MCForbid
  Capacity = 1
  MaxConnects = 2
INVARIANTS TypeOK RecordsServed NoGhostSubscription RouteIsRecorded
PROPERTIES CallsReturn HandlerEnds
\* The application may make no further call, and the connection may stay down.
CHECK_DEADLOCK FALSE
