SPECIFICATION FairSpec
CONSTANTS
  Timeout = 2
  MaxTime = 6
\* The call ends, or the crawler dies.
CHECK_DEADLOCK FALSE
PROPERTY DiesWithParent
