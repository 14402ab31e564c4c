SPECIFICATION LogsSpec
CONSTANTS
  Parts <- MCParts
  Hosts <- MCHosts
  UserLogs <- MCUserLogs
  Defaults <- MCDefaults
  MayAppear <- MCMayAppear
  Longer <- MCLonger
  Nil = Nil
  MaxPid = 2
  MaxFaults = 3
INVARIANTS
  LogsTypeOK
  LinksComplete
