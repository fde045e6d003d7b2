SPECIFICATION FairSpec
CONSTANTS
  good = good
  bad = bad
  c1 = c1
  Messages <- MCMessages
  Correlation <- MCCorrelation
  Malformed <- MCMalformed
  Capacity = 1
  MaxPublish = 3
  MaxPush = 2
INVARIANTS TypeOK AckedWasHandedOver TwiceOnlyIfPushedAgain
PROPERTY AcceptedArrives
\* The publisher may stop.
CHECK_DEADLOCK FALSE
