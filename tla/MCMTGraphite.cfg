SPECIFICATION FairSpec
CONSTANTS
  None = None
  BatchSize = 2
  MaxEmitRetries = 1
  MaxMessages = 3
  MaxConns = 3
INVARIANTS
  TypeOK
  NoGaps
PROPERTIES
  NumbersInARow
  DeliversInOrder
  EventuallyArrives
\* The client may die, the crawler may end.
CHECK_DEADLOCK FALSE
