SPECIFICATION FairSpec
CONSTANTS
  c1 = c1
  c2 = c2
  c3 = c3
  HostNs = HostNs
  None = None
  Containers <- MCContainers
  PidOf <- MCPidOf
  HostPid <- MCHostPid
  NoEnvironment = {}
  UserList <- MCContainers
  Plugins <- MCPlugins
  Features = 1
  NEmitters = 2
  MaxIter = 1
INVARIANTS
  TypeOK
  EmittersInStep
  EveryNamespaceCrawled
PROPERTIES
  EventuallyReported
\* The run ends after MaxIter crawls or when the crawler dies.
CHECK_DEADLOCK FALSE
