SPECIFICATION Spec
CONSTANTS
  t1 = t1
  t2 = t2
  s1 = s1
  s2 = s2
  u1 = u1
  u2 = u2
  Topics <- MCTopics
  Calls <- MCCalls
  Kind <- MCKind
  Args <- MCArgs
  MaxDials = 2
INVARIANTS TypeOK LiveIsReachable RecordIsLive
PROPERTY UnsubscribeHonest
\* The application may make no further call.
CHECK_DEADLOCK FALSE
