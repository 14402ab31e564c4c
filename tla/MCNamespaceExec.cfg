SPECIFICATION FairSpec
CONSTANTS
  Timeout = 2
  MaxTime = 6
INVARIANTS
  TypeOK
  Honest
  ReturnsInTime
  NoOrphan
PROPERTIES
  CallEnds
  HungFunctionEnds
\* The call ends, or the crawler dies.
CHECK_DEADLOCK FALSE
