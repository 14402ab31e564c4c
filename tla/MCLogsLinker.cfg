SPECIFICATION FairSpec
CONSTANTS
  c1 = c1
  c2 = c2
  c3 = c3
  n1 = n1
  n2 = n2
  p1 = p1
  p2 = p2
  None = None
  Containers <- MCContainers
  Names <- MCNames
  NameOf <- MCNameReused
  Pids <- MCPids
  NsOf <- MCNs
  MaxFailures = 2
SYMMETRY Symmetry
INVARIANTS
  TypeOK
  LinksExact
  RunningLinked
\* The linker may die and not be restarted.
CHECK_DEADLOCK FALSE
