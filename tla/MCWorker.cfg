SPECIFICATION FairSpec
CONSTANTS
  None = None
  Frequencies <- MCFrequencies
  MaxClock = 9
  MaxIter = 6
INVARIANTS
  TypeOK
  NeverEarly
PROPERTIES
  KeepsSchedule
  WakesUp
\* The run ends at the bounds, after one iteration, or when a crawl raises.
CHECK_DEADLOCK FALSE
