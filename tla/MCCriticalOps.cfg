SPECIFICATION FairSpec
CONSTANTS
  Ops = {o1, o2}
  Signals = {s1, s2}
  Waits = {w1, w2}
  MaxSends = 1
INVARIANTS TypeOK CounterExact NoLostWakeup MapMatchesOperations PanicOnlyOnOverlap
PROPERTIES ImplementsBarrier WaitersWake
\* The application may stop registering, and a panic ends the process.
CHECK_DEADLOCK FALSE
