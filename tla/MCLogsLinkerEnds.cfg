SPECIFICATION FairSpec
CONSTANTS
  c1 = c1
  c2 = c2
  c3 = c3
  n1 = n1
  n2 = n2
  p1 = p1
  p2 = p2
  None = None
  Containers <- MCTwo
  Names <- MCNames
  NameOf <- MCTwoNames
  Pids <- MCPids
  NsOf <- MCTwoNs
  MaxFailures = 1
PROPERTIES
  EventuallyLinked
  EventuallyUnlinked
CHECK_DEADLOCK FALSE
