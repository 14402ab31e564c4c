SPECIFICATION MCSpec
CONSTANTS
  c1 = c1
  c2 = c2
  i1 = i1
  i2 = i2
  f1 = f1
  p1 = p1
  p2 = p2
  None = None
  Containers = {c1, c2}
  NextOf <- MCNext
  Ifaces = {i1, i2}
  OwnerOf <- MCOwner
  Files = {f1}
  Pids = {p1, p2}
  MaxFaults = 2
INVARIANTS
  TypeOK
  MonitoredConfigured
  ProbesOnce
  YieldedOnce
PROPERTIES
  DropsOnlyStale
  EventuallyWatched
  FilesGo
\* The plugin is not called any more when its import has raised.
CHECK_DEADLOCK FALSE
